------------------------------- MODULE FileReq -------------------------------
(***************************************************************************)
(* file_req (fs.h, fs.ipp): asynchronous and synchronous operations on an  *)
(* open file.  An asynchronous operation copies the descriptor into the    *)
(* uv_fs_t, runs on a thread of libuv's pool and is reported on the loop   *)
(* thread; only then do fs_open_callback and fs_close_callback update      *)
(* `file`.  Several requests share the process's descriptor table, whose   *)
(* numbers the kernel uses again as soon as they are closed.               *)
(*                                                                         *)
(* User code obeys libuv's rule that a request has one operation in flight *)
(* at a time.  It may act at any moment the loop thread is not inside      *)
(* another callback of these requests, for instance in the listener of     *)
(* some other resource.                                                    *)
(***************************************************************************)
CONSTANTS Reqs,          \* file_req objects
          Fds,           \* file descriptor numbers
          None,          \* BAD_FD, and "no request"
          KeepReference  \* user code holds a request until it is answered

ASSUME FileAssumption == /\ None \notin Fds \cup Reqs
                         /\ KeepReference \in BOOLEAN

VARIABLES
    file,     \* the member of the same name
    opener,   \* kernel: the request that opened a descriptor, None if free
    op,       \* the asynchronous operation in flight
    fd,       \* the descriptor copied into the uv_fs_t
    stage,    \* queued, running on the pool is one step, then ok or err
    got,      \* the descriptor an open returned (req->result)
    current,  \* requests whose `current` owns a buffer
    lentBuf,  \* requests whose operation in flight uses that buffer
    user,     \* requests user code holds a shared_ptr to
    frame     \* the request whose listener is on the stack, or None

vars == <<file, opener, op, fd, stage, got, current, lentBuf, user, frame>>

BAD_FD == None

\* read and write(unique_ptr) use a buffer the request owns; "other" is
\* write(char *), stat, sync, datasync, truncate, sendfile, chmod, futime and
\* chown, which all work on `file` and report through fs_request_callback.
Ops == {"open", "close", "read", "write", "other"}

\* The type invariant.
TypeOK ==
    /\ file \in [Reqs -> Fds \cup {BAD_FD}]
    /\ opener \in [Fds -> Reqs \cup {None}]
    /\ op \in [Reqs -> Ops \cup {"none"}]
    /\ fd \in [Reqs -> Fds \cup {BAD_FD}]
    /\ stage \in [Reqs -> {"none", "queued", "ok", "err"}]
    /\ got \in [Reqs -> Fds \cup {BAD_FD}]
    /\ current \in SUBSET Reqs
    /\ lentBuf \in SUBSET Reqs
    /\ user \in SUBSET Reqs
    /\ frame \in Reqs \cup {None}

\* No operation of file_req ever sets self_ptr: a request lives by the user's
\* references and by the shared_ptr its callback takes.
Live == user \cup {r \in Reqs : r = frame}

\* The request exists and has no operation in flight.
Idle(r) == r \in Live /\ op[r] = "none"

-----------------------------------------------------------------------------
Init ==
    /\ file = [r \in Reqs |-> BAD_FD]
    /\ opener = [f \in Fds |-> None]
    /\ op = [r \in Reqs |-> "none"]
    /\ fd = [r \in Reqs |-> BAD_FD]
    /\ stage = [r \in Reqs |-> "none"]
    /\ got = [r \in Reqs |-> BAD_FD]
    /\ current = {} /\ lentBuf = {}
    /\ user = Reqs
    /\ frame = None

\* Hands operation o on `file` to libuv; the value libuv returns is ignored.
Enqueue(r, o) ==
    /\ KeepReference => r \in user
    /\ op' = [op EXCEPT ![r] = o]
    /\ fd' = [fd EXCEPT ![r] = file[r]]
    /\ stage' = [stage EXCEPT ![r] = "queued"]

\* open(), close() and the operations without a buffer of the request's own.
Async(r, o) ==
    /\ Idle(r)
    /\ Enqueue(r, o)
    /\ UNCHANGED <<file, opener, got, current, lentBuf, user, frame>>

\* (Faulty variant: the buffer is not moved into the request.)
AsyncBufferForgets(r, o) ==
    /\ Idle(r)
    /\ Enqueue(r, o)
    /\ lentBuf' = lentBuf \cup {r}
    /\ UNCHANGED <<file, opener, got, current, user, frame>>

\* read() allocates a new `current`, write(unique_ptr) moves the data into it;
\* libuv gets its address.
AsyncBuffer(r, o) ==
    /\ Idle(r)
    /\ Enqueue(r, o)
    /\ current' = current \cup {r}
    /\ lentBuf' = lentBuf \cup {r}
    /\ UNCHANGED <<file, opener, got, user, frame>>

-----------------------------------------------------------------------------
(* The kernel, on a pool thread or in a synchronous call (external).       *)

OpenFds == {f \in Fds : opener[f] # None}

\* An open picks any free descriptor.
KernelOpen(r, f) == opener[f] = None /\ opener' = [opener EXCEPT ![f] = r]

\* A close frees the descriptor number, whoever opened it.
KernelClose(f) == f \in OpenFds /\ opener' = [opener EXCEPT ![f] = None]

\* The pool thread runs the operation.
RunOpen(r, f) ==
    /\ op[r] = "open" /\ stage[r] = "queued"
    /\ KernelOpen(r, f)
    /\ got' = [got EXCEPT ![r] = f]
    /\ stage' = [stage EXCEPT ![r] = "ok"]
    /\ UNCHANGED <<file, op, fd, current, lentBuf, user, frame>>

RunClose(r) ==
    /\ op[r] = "close" /\ stage[r] = "queued"
    /\ KernelClose(fd[r])
    /\ stage' = [stage EXCEPT ![r] = "ok"]
    /\ UNCHANGED <<file, op, fd, got, current, lentBuf, user, frame>>

RunOther(r) ==
    /\ op[r] \in {"read", "write", "other"} /\ stage[r] = "queued"
    /\ fd[r] \in OpenFds
    /\ stage' = [stage EXCEPT ![r] = "ok"]
    /\ UNCHANGED <<file, opener, op, fd, got, current, lentBuf, user, frame>>

\* The operation fails (a bad descriptor, a missing file) and changes nothing
\* in the kernel.  A close fails on a bad descriptor only: that it may report
\* an I/O error and free the descriptor all the same is left out.
Fail(r) ==
    /\ stage[r] = "queued"
    /\ op[r] = "close" => fd[r] \notin OpenFds
    /\ stage' = [stage EXCEPT ![r] = "err"]
    /\ UNCHANGED <<file, opener, op, fd, got, current, lentBuf, user, frame>>

\* request::cancel() before a pool thread takes the operation.
Cancel(r) ==
    /\ r \in user
    /\ stage[r] = "queued"
    /\ stage' = [stage EXCEPT ![r] = "err"]
    /\ UNCHANGED <<file, opener, op, fd, got, current, lentBuf, user, frame>>

-----------------------------------------------------------------------------
(* The callbacks, on the loop thread.                                      *)

\* (Faulty variant: fs_close_callback without file = BAD_FD.)
FileAfterKeepsFd(r) ==
    CASE op[r] = "open" /\ stage[r] = "ok" -> got[r]
      [] OTHER -> file[r]

\* What fs_open_callback and fs_close_callback assign to `file`.
FileAfter(r) ==
    CASE op[r] = "open" /\ stage[r] = "ok" -> got[r]
      [] op[r] = "close" /\ stage[r] = "ok" -> BAD_FD
      [] OTHER -> file[r]

\* (Faulty variant: a failed operation is not reported.)
CallbackOnSuccess(r) ==
    /\ frame = None
    /\ r \in Live
    /\ stage[r] = "ok"
    /\ file' = [file EXCEPT ![r] = FileAfter(r)]
    /\ op' = [op EXCEPT ![r] = "none"]
    /\ stage' = [stage EXCEPT ![r] = "none"]
    /\ frame' = r
    /\ UNCHANGED <<opener, fd, got, current, lentBuf, user>>

\* fs_open_callback, fs_close_callback, fs_read_callback and
\* fs_request_callback: reserve the request, update it, publish.  A successful
\* read moves `current` into the event.
Callback(r) ==
    /\ frame = None
    /\ r \in Live
    /\ stage[r] \in {"ok", "err"}
    /\ file' = [file EXCEPT ![r] = FileAfter(r)]
    /\ current' = IF op[r] = "read" /\ stage[r] = "ok" THEN current \ {r} ELSE current
    /\ lentBuf' = lentBuf \ {r}
    /\ op' = [op EXCEPT ![r] = "none"]
    /\ stage' = [stage EXCEPT ![r] = "none"]
    /\ fd' = [fd EXCEPT ![r] = BAD_FD]
    /\ got' = [got EXCEPT ![r] = BAD_FD]
    /\ frame' = r
    /\ UNCHANGED <<opener, user>>

\* The listener has returned; the request may die with the local shared_ptr.
Return ==
    /\ frame # None
    /\ current' = IF frame \in user THEN current ELSE current \ {frame}
    /\ frame' = None
    /\ UNCHANGED <<file, opener, op, fd, stage, got, lentBuf, user>>

-----------------------------------------------------------------------------
(* Synchronous operations and references.                                  *)

\* open_sync()
OpenSync(r, f) ==
    /\ Idle(r)
    /\ KernelOpen(r, f)
    /\ file' = [file EXCEPT ![r] = f]
    /\ UNCHANGED <<op, fd, stage, got, current, lentBuf, user, frame>>

\* close_sync()
CloseSync(r) ==
    /\ Idle(r)
    /\ KernelClose(file[r])
    /\ file' = [file EXCEPT ![r] = BAD_FD]
    /\ UNCHANGED <<op, fd, stage, got, current, lentBuf, user, frame>>

\* read_sync() reads into a new `current` and hands it to the caller, also when
\* it fails; write_sync() keeps the data in `current`.
ReadSync(r) ==
    /\ Idle(r)
    /\ current' = current \ {r}
    /\ UNCHANGED <<file, opener, op, fd, stage, got, lentBuf, user, frame>>

WriteSync(r) ==
    /\ Idle(r)
    /\ current' = current \cup {r}
    /\ UNCHANGED <<file, opener, op, fd, stage, got, lentBuf, user, frame>>

\* The user lets the request go: with its last reference the object and its
\* buffer are destroyed, and a descriptor it still has is not closed.
Drop(r) ==
    /\ r \in user
    /\ KeepReference => op[r] = "none"
    /\ user' = user \ {r}
    /\ current' = IF r = frame THEN current ELSE current \ {r}
    /\ UNCHANGED <<file, opener, op, fd, stage, got, lentBuf, frame>>

-----------------------------------------------------------------------------
Next ==
    \E r \in Reqs :
        \/ \E o \in {"open", "close", "other"} : Async(r, o)
        \/ \E o \in {"read", "write"} : AsyncBuffer(r, o)
        \/ \E f \in Fds : RunOpen(r, f) \/ OpenSync(r, f)
        \/ RunClose(r) \/ RunOther(r) \/ Fail(r) \/ Cancel(r)
        \/ Callback(r) \/ CloseSync(r) \/ ReadSync(r) \/ WriteSync(r) \/ Drop(r)
        \/ (frame = r /\ Return)

Spec == Init /\ [][Next]_vars

\* The pool runs what is queued, the loop reports what has run (an operation in
\* flight keeps it alive, and each iteration of uv_run empties the queue of
\* finished work), listeners return.
Fairness ==
    /\ \A r \in Reqs : WF_vars((\E f \in Fds : RunOpen(r, f)) \/ RunClose(r)
                               \/ RunOther(r) \/ Fail(r))
    /\ \A r \in Reqs : SF_vars(Callback(r))
    /\ WF_vars(Return)

FairSpec == Spec /\ Fairness

-----------------------------------------------------------------------------
(* Properties.                                                             *)

\* A close() that has run but has not been reported yet: `file` is a number the
\* kernel may have given to someone else.
Closed(r) == op[r] = "close" /\ stage[r] = "ok"

\* Apart from that window, a descriptor held in `file` is open and was opened
\* through this very request, whatever the pool threads did in the meantime.
OwnsFile == \A r \in Reqs : file[r] # BAD_FD /\ ~Closed(r) => opener[file[r]] = r

\* An operation never runs on a descriptor another request has opened: the
\* number copied at the call is not used again before the operation has run.
NoForeignFd == \A r \in Reqs :
    stage[r] = "queued" /\ op[r] # "open" /\ fd[r] # BAD_FD => opener[fd[r]] = r

\* The request an operation in flight belongs to exists (its callback starts
\* with shared_from_this).
PendingAlive == \A r \in Reqs : op[r] # "none" => r \in Live

\* The memory libuv reads from or writes to is owned by the request until the
\* operation has been reported.
BufferAlive == lentBuf \subseteq current

\* Every asynchronous operation is answered with one event.
Answered == \A r \in Reqs : op[r] # "none" ~> frame = r

-----------------------------------------------------------------------------
(* The inductive invariant.                                                *)

\* An operation is in flight exactly while libuv has the uv_fs_t.
InFlight == \A r \in Reqs : op[r] = "none" <=> stage[r] = "none"

\* The descriptor of a finished open is open, and the request's own.
OpenedOwned == \A r \in Reqs :
    op[r] = "open" /\ stage[r] = "ok" => got[r] \in Fds /\ opener[got[r]] = r

\* Only an operation in flight uses the buffer, and with the reference kept
\* its request is held by user code.
LentPending == \A r \in Reqs : r \in lentBuf => op[r] # "none"
UserKeeps == KeepReference => \A r \in Reqs : op[r] # "none" => r \in user

\* What calls, pool threads and callbacks keep in any order: the descriptor in
\* `file`, in the uv_fs_t and in the kernel's table belong together.
IInv == /\ TypeOK /\ InFlight /\ OpenedOwned /\ OwnsFile /\ NoForeignFd
        /\ LentPending /\ UserKeeps /\ (KeepReference => BufferAlive)
==============================================================================
