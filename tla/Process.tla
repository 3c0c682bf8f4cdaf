------------------------------ MODULE Process ------------------------------
(***************************************************************************)
(* A process handle (process.h, process.ipp): the options that are         *)
(* collected first, spawn(), the exit event, close.  The initialisation is *)
(* deferred: uv_spawn registers the handle with the loop as its first      *)
(* step, and it stays registered when it fails, which it may do before or  *)
(* after the child was started.  User code calls spawn() once per handle:  *)
(* uv_spawn does not notice that the handle is registered.                 *)
(*                                                                         *)
(* The constructor leaves po_flags, po_uid and po_gid indeterminate; what  *)
(* spawn() reads then is any value the memory may hold.                    *)
(***************************************************************************)
EXTENDS Integers, Sequences

CONSTANTS
    Fds,         \* file descriptors given to the child
    Streams,     \* streams given to the child
    StdioFlags,  \* the flags they are given with
    MaxStdio     \* bound: calls of stdio()

\* What the model assumes of its constants.
ProcessAssumption ==
    /\ MaxStdio \in Nat /\ Fds \cap Streams = {}
    /\ "unset" \notin StdioFlags

VARIABLES
    uv,         \* libuv's view: none, idle (registered), active, closing, closed
    user,       \* user code holds a reference
    self,       \* the handle owns itself
    inside,     \* a callback is running
    flags,      \* po_flags: indeterminate, or set by flags()
    fdStdio,    \* po_fd_stdio
    strStdio,   \* po_stream_stdio
    calls,      \* calls of stdio() so far
    wanted,     \* the user's view: the last flags given for each descriptor
    child,      \* none, running, ended, reaped
    stdio,      \* the containers the child was started with
    mode,       \* the flags the child was started with
    exits       \* exit events published

ovars == <<flags, fdStdio, strStdio, calls, wanted>>
vars == <<uv, user, self, inside, ovars, child, stdio, mode, exits>>

Container == [what : Fds \cup Streams, flags : StdioFlags]
Unset == "unset"
Registered == uv \in {"idle", "active", "closing"}
Live == user \/ self \/ inside

\* The type invariant.
TypeOK ==
    /\ uv \in {"none", "idle", "active", "closing", "closed"}
    /\ user \in BOOLEAN /\ self \in BOOLEAN /\ inside \in BOOLEAN
    /\ flags \in {"indeterminate", "set"} /\ mode \in {"none", "asked", "garbage"}
    /\ fdStdio \in Seq([what : Fds, flags : StdioFlags])
    /\ strStdio \in Seq([what : Streams, flags : StdioFlags])
    /\ calls \in 0..MaxStdio /\ Len(fdStdio) + Len(strStdio) <= calls
    /\ wanted \in [Fds -> StdioFlags \cup {Unset}]
    /\ child \in {"none", "running", "ended", "reaped"}
    /\ stdio \in Seq(Container) /\ exits \in 0..1

Init ==
    /\ uv = "none" /\ user = TRUE /\ self = FALSE /\ inside = FALSE
    /\ flags = "indeterminate" /\ fdStdio = <<>> /\ strStdio = <<>> /\ calls = 0
    /\ wanted = [fd \in Fds |-> Unset]
    /\ child = "none" /\ stdio = <<>> /\ mode = "none" /\ exits = 0

-----------------------------------------------------------------------------
(* Options.                                                                *)

Collecting == user /\ uv = "none"

\* flags(); uid() and gid() count only with the flags that ask for them.
SetFlags ==
    /\ Collecting
    /\ flags' = "set"
    /\ UNCHANGED <<uv, user, self, inside, fdStdio, strStdio, calls, wanted, child, stdio, mode, exits>>

\* (Faulty variant: a descriptor given again keeps its flags.)
WithFdFirst(fd, f) ==
    IF \E k \in DOMAIN fdStdio : fdStdio[k].what = fd
      THEN fdStdio
      ELSE Append(fdStdio, [what |-> fd, flags |-> f])

\* The descriptors after stdio(fd, flags): one that is there is given the new
\* flags, any other is appended.
WithFd(fd, f) ==
    IF \E k \in DOMAIN fdStdio : fdStdio[k].what = fd
      THEN [k \in DOMAIN fdStdio |->
              IF fdStdio[k].what = fd THEN [what |-> fd, flags |-> f] ELSE fdStdio[k]]
      ELSE Append(fdStdio, [what |-> fd, flags |-> f])

\* stdio(file_handle, flags).
StdioFd(fd, f) ==
    /\ Collecting /\ calls < MaxStdio
    /\ calls' = calls + 1
    /\ fdStdio' = WithFd(fd, f)
    /\ wanted' = [wanted EXCEPT ![fd] = f]
    /\ UNCHANGED <<uv, user, self, inside, flags, strStdio, child, stdio, mode, exits>>

\* stdio(stream_handle, flags).
StdioStream(s, f) ==
    /\ Collecting /\ calls < MaxStdio
    /\ calls' = calls + 1
    /\ strStdio' = Append(strStdio, [what |-> s, flags |-> f])
    /\ UNCHANGED <<uv, user, self, inside, flags, fdStdio, wanted, child, stdio, mode, exits>>

-----------------------------------------------------------------------------

\* (Faulty variant: the handle owns itself only if the child was started.)
LeakIfStarted(ok) == ok

\* leak_if(0), called before uv_spawn.
LeakIf(ok) == TRUE

\* poStdio: the descriptors, then the streams.
PoStdio == fdStdio \o strStdio

\* spawn(): uv_spawn registers the handle, then starts the child or fails to; it
\* may fail later, over the streams, with the child running and the handle active.
Spawn(ok, started) ==
    /\ user /\ uv = "none"
    /\ ok => started
    /\ uv' = IF started THEN "active" ELSE "idle"
    /\ self' = LeakIf(ok)
    /\ child' = IF started THEN "running" ELSE "none"
    /\ stdio' = IF started THEN PoStdio ELSE <<>>
    /\ mode' \in IF ~started THEN {"none"}
                ELSE IF flags = "set" THEN {"asked"} ELSE {"asked", "garbage"}
    /\ UNCHANGED <<user, inside, ovars, exits>>

\* close(), guarded by closing(), on a handle that was spawned.
Close ==
    /\ user \/ inside
    /\ uv \in {"idle", "active"}
    /\ uv' = "closing"
    /\ UNCHANGED <<user, self, inside, ovars, child, stdio, mode, exits>>

\* The last reference of user code.
Drop ==
    /\ user
    /\ user' = FALSE
    /\ UNCHANGED <<uv, self, inside, ovars, child, stdio, mode, exits>>

-----------------------------------------------------------------------------
(* The child and the loop (external), and the callbacks.                   *)

ChildEnds ==
    /\ child = "running"
    /\ child' = "ended"
    /\ UNCHANGED <<uv, user, self, inside, ovars, stdio, mode, exits>>

\* (Faulty variant: the callback is also made for a handle being closed.)
ExitCallbackClosing ==
    /\ child = "ended" /\ uv \in {"active", "closing"} /\ ~inside
    /\ child' = "reaped" /\ uv' = "idle"
    /\ exits' = exits + 1 /\ inside' = TRUE
    /\ UNCHANGED <<user, self, ovars, stdio, mode>>

\* exit_callback: the loop has reaped the child, and the handle is inactive.
ExitCallback ==
    /\ child = "ended" /\ uv = "active" /\ ~inside
    /\ child' = "reaped" /\ uv' = "idle"
    /\ exits' = exits + 1 /\ inside' = TRUE
    /\ UNCHANGED <<user, self, ovars, stdio, mode>>

\* close_callback takes the handle's reference to itself.
CloseCallback ==
    /\ uv = "closing" /\ ~inside
    /\ uv' = "closed" /\ self' = FALSE /\ inside' = TRUE
    /\ UNCHANGED <<user, ovars, child, stdio, mode, exits>>

Return ==
    /\ inside
    /\ inside' = FALSE
    /\ UNCHANGED <<uv, user, self, ovars, child, stdio, mode, exits>>

-----------------------------------------------------------------------------
UserNext ==
    \/ \E fd \in Fds, f \in StdioFlags : StdioFd(fd, f)
    \/ \E s \in Streams, f \in StdioFlags : StdioStream(s, f)
    \/ \E ok, started \in BOOLEAN : Spawn(ok, started)
    \/ SetFlags \/ Close \/ Drop

Next == UserNext \/ ChildEnds \/ ExitCallback \/ CloseCallback \/ Return

Spec == Init /\ [][Next]_vars

-----------------------------------------------------------------------------
(* Properties.                                                             *)

\* While the loop has the handle in its lists the object is alive, also after a
\* spawn() that failed, when user code has forgotten it.
RegisteredAlive == Registered => Live

\* The child finds every descriptor it was to have once, with the flags given
\* last, and behind them every stream, in the order of the calls.
ChildHasStdio ==
    child # "none" =>
        /\ \A fd \in Fds : {k \in DOMAIN stdio : stdio[k].what = fd} = {} <=> wanted[fd] = Unset
        /\ \A j, k \in DOMAIN stdio : stdio[j].what \in Fds /\ stdio[j].what = stdio[k].what => j = k
        /\ \A k \in DOMAIN stdio : stdio[k].what \in Fds => stdio[k].flags = wanted[stdio[k].what]
        /\ LET n == Len(stdio) - Len(strStdio)
           IN  n >= 0 /\ \A k \in DOMAIN stdio : IF k <= n THEN stdio[k].what \in Fds
                                                 ELSE stdio[k] = strStdio[k - n]

\* No exit event is published for a handle whose close() was called, and the
\* child has ended when one is.
ExitBeforeClose ==
    [][exits' > exits => child # "running" /\ uv = "active"]_vars

\* The handle of a process outlives its use, its child is as asked, and its
\* exit event is in time.
ProcessSafe == [](RegisteredAlive /\ ChildHasStdio) /\ ExitBeforeClose

-----------------------------------------------------------------------------
(* What the documentation says and the code does not do: TLC refutes it.  *)

\* "Sets flags that control how `spawn()` behaves": a process for which nobody
\* has called flags() is started without any.
SpawnAsAsked == mode # "garbage"
-----------------------------------------------------------------------------
(* The inductive invariant.                                                *)

\* The handle owns itself exactly as long as the loop has it.
SelfIsRegistered == self <=> Registered

\* The descriptors collected are the ones asked for, each once.
FdsAsWanted ==
    /\ \A k \in DOMAIN fdStdio : wanted[fdStdio[k].what] = fdStdio[k].flags
    /\ \A fd \in Fds : wanted[fd] # Unset => \E k \in DOMAIN fdStdio : fdStdio[k].what = fd
    /\ \A j, k \in DOMAIN fdStdio : fdStdio[j].what = fdStdio[k].what => j = k

\* A child was started with what spawn() found, and its exit is told once.
ChildByState ==
    /\ uv = "none" => child = "none"
    /\ child # "none" => stdio = PoStdio
    /\ exits = IF child = "reaped" THEN 1 ELSE 0

IInv == TypeOK /\ SelfIsRegistered /\ FdsAsWanted /\ ChildByState
=============================================================================
