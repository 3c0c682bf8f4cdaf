------------------------------ MODULE FsProofs ------------------------------
(***************************************************************************)
(* Proofs about the two kinds of file system requests: FileReq, for any    *)
(* sets of requests and descriptors, and DirReq, the D of MCDirReq, for    *)
(* directories of any size.                                                *)
(***************************************************************************)
EXTENDS FileReq, MCDirReq, Integers, TLAPS

-----------------------------------------------------------------------------
(* file_req.                                                               *)

\* The actions that hand an operation to libuv preserve IInv.
LEMMA EnqueueSteps ==
    ASSUME IInv, NEW r \in Reqs, NEW o \in Ops,
           (Async(r, o) /\ o \in {"open", "close", "other"}) \/ AsyncBuffer(r, o)
    PROVE  IInv'
<1> USE FileAssumption DEF IInv, Async, AsyncBuffer, Enqueue, Idle, BAD_FD
<1>1. TypeOK'
  BY DEF TypeOK, Ops
<1>2. InFlight' /\ OpenedOwned'
  BY DEF TypeOK, Ops, InFlight, OpenedOwned
<1>3. OwnsFile' /\ NoForeignFd'
  BY DEF TypeOK, Ops, InFlight, OwnsFile, NoForeignFd, Closed
<1>4. LentPending' /\ UserKeeps'
  BY DEF TypeOK, Ops, LentPending, UserKeeps
<1>5. KeepReference => BufferAlive'
  BY DEF BufferAlive
<1> QED
  BY <1>1, <1>2, <1>3, <1>4, <1>5

\* What a pool thread does, a failure and a cancellation preserve IInv.
LEMMA PoolSteps ==
    ASSUME IInv, NEW r \in Reqs,
           \/ \E f \in Fds : RunOpen(r, f)
           \/ RunClose(r) \/ RunOther(r) \/ Fail(r) \/ Cancel(r)
    PROVE  IInv'
<1> USE FileAssumption DEF IInv, RunOpen, RunClose, RunOther, Fail, Cancel,
        KernelOpen, KernelClose, OpenFds, BAD_FD
<1>1. TypeOK'
  BY DEF TypeOK
<1>2. InFlight' /\ LentPending' /\ UserKeeps' /\ (KeepReference => BufferAlive')
  BY DEF TypeOK, InFlight, LentPending, UserKeeps, BufferAlive
<1>3. OpenedOwned'
  BY DEF TypeOK, OpenedOwned, NoForeignFd
<1>4. OwnsFile'
  BY DEF TypeOK, OwnsFile, NoForeignFd, Closed
<1>5. NoForeignFd'
  BY DEF TypeOK, NoForeignFd
<1> QED
  BY <1>1, <1>2, <1>3, <1>4, <1>5

\* The callbacks preserve IInv.
LEMMA CallbackSteps ==
    ASSUME IInv, (\E r \in Reqs : Callback(r)) \/ Return
    PROVE  IInv'
<1> USE FileAssumption DEF IInv, BAD_FD
<1>1. ASSUME NEW r \in Reqs, Callback(r) PROVE IInv'
  <2> USE <1>1 DEF Callback
  <2>1. FileAfter(r) \in Fds \cup {BAD_FD}
    BY DEF FileAfter, TypeOK
  <2>2. TypeOK'
    BY <2>1 DEF TypeOK
  <2>3. InFlight' /\ LentPending' /\ UserKeeps' /\ (KeepReference => BufferAlive')
    BY DEF TypeOK, InFlight, LentPending, UserKeeps, BufferAlive
  <2>4. OpenedOwned' /\ NoForeignFd'
    BY DEF TypeOK, OpenedOwned, NoForeignFd
  <2>5. FileAfter(r) # BAD_FD => opener[FileAfter(r)] = r
    BY DEF FileAfter, OpenedOwned, OwnsFile, Closed
  <2>6. OwnsFile'
    BY <2>5 DEF TypeOK, OwnsFile, Closed
  <2> QED
    BY <2>2, <2>3, <2>4, <2>6
<1>2. ASSUME Return PROVE IInv'
  <2> USE <1>2 DEF Return
  <2>1. TypeOK'
    BY DEF TypeOK
  <2>2. InFlight' /\ LentPending' /\ UserKeeps' /\ OpenedOwned' /\ OwnsFile' /\ NoForeignFd'
    BY DEF InFlight, LentPending, UserKeeps, OpenedOwned, OwnsFile, NoForeignFd, Closed
  <2>3. KeepReference => BufferAlive'
    BY DEF BufferAlive, LentPending, UserKeeps, TypeOK
  <2> QED
    BY <2>1, <2>2, <2>3
<1> QED
  BY <1>1, <1>2

\* The synchronous operations and the release of a reference preserve IInv.
LEMMA SyncSteps ==
    ASSUME IInv, NEW r \in Reqs,
           \/ \E f \in Fds : OpenSync(r, f)
           \/ CloseSync(r) \/ ReadSync(r) \/ WriteSync(r) \/ Drop(r)
    PROVE  IInv'
<1> USE FileAssumption DEF IInv, OpenSync, CloseSync, ReadSync, WriteSync, Drop,
        KernelOpen, KernelClose, OpenFds, Idle, BAD_FD
<1>1. TypeOK'
  BY DEF TypeOK
<1>2. InFlight' /\ LentPending' /\ UserKeeps'
  BY DEF TypeOK, InFlight, LentPending, UserKeeps
<1>3. KeepReference => BufferAlive'
  BY DEF TypeOK, BufferAlive, LentPending
<1>4. OpenedOwned'
  BY DEF TypeOK, OpenedOwned, OwnsFile, Closed
<1>5. OwnsFile'
  BY DEF TypeOK, OwnsFile, Closed
<1>6. NoForeignFd'
  BY DEF TypeOK, OwnsFile, Closed, NoForeignFd, InFlight
<1> QED
  BY <1>1, <1>2, <1>3, <1>4, <1>5, <1>6

\* IInv is an invariant of every behaviour.
THEOREM FileInvariance == Spec => []IInv
<1>1. Init => IInv
  BY FileAssumption DEF Init, IInv, TypeOK, InFlight, OpenedOwned, OwnsFile,
     NoForeignFd, LentPending, UserKeeps, BufferAlive, BAD_FD, Ops
<1>2. IInv /\ [Next]_vars => IInv'
  <2> SUFFICES ASSUME IInv, [Next]_vars PROVE IInv'
    OBVIOUS
  <2>1. CASE Next
    BY <2>1, EnqueueSteps, PoolSteps, CallbackSteps, SyncSteps DEF Next, Ops
  <2>2. CASE UNCHANGED vars
    BY <2>2 DEF vars, IInv, TypeOK, InFlight, OpenedOwned, OwnsFile, NoForeignFd,
       LentPending, UserKeeps, BufferAlive, Closed
  <2> QED
    BY <2>1, <2>2
<1> QED
  BY <1>1, <1>2, PTL DEF Spec

\* Outside the window between a close and its report, `file` is open and the
\* request's own.
THEOREM FileOwned == Spec => []OwnsFile
  BY FileInvariance, PTL DEF IInv

\* No operation runs on a descriptor that another request has opened.
THEOREM FdNeverForeign == Spec => []NoForeignFd
  BY FileInvariance, PTL DEF IInv

\* With the reference kept, libuv's buffer is owned until the report.
THEOREM BufferOwned ==
    ASSUME KeepReference
    PROVE  Spec => []BufferAlive
<1>1. IInv => BufferAlive
  BY KeepReference DEF IInv
<1> QED
  BY <1>1, FileInvariance, PTL

-----------------------------------------------------------------------------
(* fs_req.                                                                 *)

\* An operation is started with the stream of the open directory, if there is
\* one, and not after a closedir of it that was cancelled.
LEMMA StartedOnStream ==
    ASSUME D!IInv, NEW o \in D!Ops, D!MayStart(o), D!SavedDir # "freed"
    PROVE  /\ D!SavedDir = ptr /\ ~aborted
           /\ o \in {"readdir", "closedir"} => ptr = "dir"
  BY DEF D!MayStart, D!SavedDir, D!IInv, D!TypeOK, D!StreamKept, D!AbortedFreed

\* The end of an operation that may have been started keeps the stream and the
\* type of the uv_fs_t, also of one that was cancelled: readdir and closedir got
\* the stream back in ptr.
LEMMA EffectKeeps ==
    ASSUME D!IInv, NEW o \in D!Ops, NEW r \in D!Results(o) \cup {-1},
           o \in {"readdir", "closedir"} <=> left >= 0,
           o \in {"readdir", "closedir"} => ptr = "dir",
           D!Effect(o, r, ptr), flight' = "none"
    PROVE  /\ type' \in D!Ops
           /\ ptr' \in {"null", "dir", "list", "memory", "freed"}
           /\ result' \in -1 .. MaxEntries /\ left' \in -1 .. MaxEntries
           /\ dirent' \in {"unset", "valid", "freed"}
           /\ listed' \in 0 .. MaxEntries /\ aborted' \in BOOLEAN
           /\ (o = "readdir" /\ r > 0 => dirent' = "valid")
           /\ D!StreamKept' /\ D!AbortedFreed'
<1>0. aborted' \in BOOLEAN /\ (aborted' <=> o = "closedir" /\ r < 0)
  BY Zenon DEF D!Effect
<1> USE DirReqAssumption DEF D!EntriesAssumption, D!IInv, D!TypeOK, D!Ops, D!PathOps, D!Effect
<1>1. r \in -1 .. MaxEntries
  BY DEF D!Results
<1>2. CASE o = "readdir"
  <2>1. left >= 0 /\ ptr' = "dir" /\ type' = "readdir" /\ ~aborted'
    BY <1>0, <1>2
  <2>2. left' = IF r > 0 THEN left - 1 ELSE left
    BY <1>2
  <2>3. r > 0 => left > 0
    BY <1>2 DEF D!Results
  <2>4. D!StreamKept' /\ D!AbortedFreed'
    BY <2>1 DEF D!StreamKept, D!AbortedFreed
  <2> QED
    BY <1>0, <1>1, <1>2, <2>1, <2>2, <2>3, <2>4 DEF D!DirentAfterCleanup
<1>3. CASE o = "closedir"
  <2>1. r = 0 \/ r = -1
    BY <1>3 DEF D!Results
  <2>2. CASE r = 0
    <3>1. left' = -1 /\ ptr' = "null" /\ ~aborted'
      BY <1>0, <1>3, <2>2
    <3>2. D!StreamKept' /\ D!AbortedFreed'
      BY <3>1 DEF D!StreamKept, D!AbortedFreed
    <3> QED
      BY <1>0, <1>1, <1>3, <2>2, <3>1, <3>2 DEF D!DirentAfterCleanup
  <2>3. CASE r = -1
    <3>1. left' = left /\ ptr' = "dir" /\ type' = "closedir" /\ aborted'
      BY <1>0, <1>3, <2>3
    <3>2. D!StreamKept' /\ D!AbortedFreed'
      BY <1>3, <3>1 DEF D!StreamKept, D!AbortedFreed
    <3> QED
      BY <1>0, <1>1, <1>3, <2>3, <3>1, <3>2 DEF D!DirentAfterCleanup
  <2> QED
    BY <2>1, <2>2, <2>3
<1>4. CASE o \notin {"readdir", "closedir"}
  <2>1. left = -1
    BY <1>4
  <2>2. left' >= 0 => ptr' = "dir" /\ type' = "opendir"
    BY <1>4, <2>1
  <2>3. left' \in -1 .. MaxEntries
    BY <1>4, <2>1
  <2>4. listed' \in 0 .. MaxEntries
    BY <1>0, <1>1, <1>4
  <2>5. ~aborted'
    BY <1>0, <1>4
  <2>6. D!StreamKept' /\ D!AbortedFreed'
    BY <2>2, <2>5 DEF D!StreamKept, D!AbortedFreed
  <2> QED
    BY <1>0, <1>1, <1>4, <2>3, <2>4, <2>5, <2>6 DEF D!DirentAfterCleanup
<1> QED
  BY <1>2, <1>3, <1>4

\* The inductive invariant: whichever operations follow each other, in either
\* form, cancelled or not, an open directory's stream is in the uv_fs_t they
\* share, up to a closedir that was cancelled.
THEOREM DirInvariance == DirSpec => []D!IInv
<1> USE DirReqAssumption DEF D!EntriesAssumption
<1>1. D!Init => D!IInv
  <2> SUFFICES ASSUME D!Init PROVE D!IInv
    OBVIOUS
  <2>1. ~aborted /\ aborted \in BOOLEAN /\ cancelled \in BOOLEAN
    BY Zenon DEF D!Init
  <2> QED
    BY <2>1 DEF D!Init, D!IInv, D!TypeOK, D!StreamKept, D!AbortedFreed, D!FlightOnOpen,
       D!EventEntryValid, D!Nothing
<1>2. D!IInv /\ [D!Next]_(D!vars) => D!IInv'
  <2> SUFFICES ASSUME D!IInv, [D!Next]_(D!vars) PROVE D!IInv'
    OBVIOUS
  <2>1. ASSUME NEW o \in D!Ops, D!Async(o) PROVE D!IInv'
    <3>1. D!MayStart(o) /\ D!SavedDir = ptr /\ ~aborted
          /\ (o \in {"readdir", "closedir"} => ptr = "dir")
      BY <2>1, StartedOnStream DEF D!Async
    <3>2. ptr' \in {"null", "dir"} /\ D!StreamKept' /\ D!AbortedFreed' /\ D!FlightOnOpen'
      BY <2>1, <3>1 DEF D!Async, D!MayStart, D!IInv, D!TypeOK, D!StreamKept, D!AbortedFreed,
         D!FlightOnOpen, D!Ops, D!PathOps
    <3>3. cancelled' \in BOOLEAN /\ aborted' \in BOOLEAN
      BY <2>1, Zenon DEF D!Async, D!IInv, D!TypeOK
    <3> QED
      BY <2>1, <3>2, <3>3 DEF D!Async, D!DirentAfterCleanup, D!IInv, D!TypeOK, D!EventEntryValid, D!Nothing
  <2>2. ASSUME NEW r \in -1 .. MaxEntries, D!Callback(r) PROVE D!IInv'
    <3>1. flight \in D!Ops /\ r \in D!Results(flight) \cup {-1}
      BY <2>2 DEF D!Callback, D!Outcomes, D!IInv, D!TypeOK
    <3>2. /\ flight \in {"readdir", "closedir"} <=> left >= 0
          /\ flight \in {"readdir", "closedir"} => ptr = "dir"
      BY <2>2, <3>1 DEF D!Callback, D!IInv, D!TypeOK, D!StreamKept, D!AbortedFreed,
         D!FlightOnOpen, D!Ops, D!PathOps
    <3>3. D!Effect(flight, r, ptr) /\ flight' = "none" /\ cancelled' \in BOOLEAN
      BY <2>2, Zenon DEF D!Callback
    <3>4. D!FlightOnOpen' /\ D!EventEntryValid'
      BY <2>2, <3>1, <3>2, <3>3, EffectKeeps DEF D!Callback, D!FlightOnOpen, D!EventEntryValid
    <3> QED
      BY <2>2, <3>1, <3>2, <3>3, <3>4, EffectKeeps DEF D!Callback, D!IInv, D!TypeOK
  <2>3. ASSUME NEW o \in D!Ops, NEW r \in -1 .. MaxEntries,
               D!Sync(o, r) \/ (o = "readdir" /\ D!ReaddirSync(r))
        PROVE  D!IInv'
    <3>1. D!MayStart(o) /\ D!SavedDir = ptr
          /\ (o \in {"readdir", "closedir"} => ptr = "dir")
      BY <2>3, StartedOnStream DEF D!Sync, D!ReaddirSync
    <3>2. /\ r \in D!Results(o) /\ D!Effect(o, r, ptr)
          /\ o \in {"readdir", "closedir"} <=> left >= 0
          /\ flight' = "none" /\ cancelled' = cancelled
          /\ told'.call = "return"
      BY <2>3, <3>1 DEF D!Sync, D!ReaddirSync, D!MayStart
    <3>3. told' \in [call : {"none", "event", "return", "scandir_next"},
                    entry : BOOLEAN, error : BOOLEAN]
      <4>1. D!SyncFlag(o, r) \in BOOLEAN
        BY Zenon DEF D!SyncFlag
      <4>2. \E e, f \in BOOLEAN : told' = [call |-> "return", entry |-> e, error |-> f]
        BY <2>3, <4>1, Zenon DEF D!Sync, D!ReaddirSync
      <4> QED
        BY <4>2
    <3>4. D!FlightOnOpen' /\ D!EventEntryValid'
      BY <3>2 DEF D!FlightOnOpen, D!EventEntryValid
    <3> QED
      BY <3>1, <3>2, <3>3, <3>4, EffectKeeps DEF D!IInv, D!TypeOK
  <2>4. ASSUME D!ScandirNext PROVE D!IInv'
    <3>1. left = -1
      BY <2>4 DEF D!ScandirNext, D!IInv, D!TypeOK, D!StreamKept
    <3> QED
      BY <2>4, <3>1 DEF D!ScandirNext, D!IInv, D!TypeOK, D!StreamKept, D!AbortedFreed,
         D!FlightOnOpen, D!EventEntryValid
  <2>5. ASSUME D!Cancel PROVE D!IInv'
    BY <2>5 DEF D!Cancel, D!IInv, D!TypeOK, D!StreamKept, D!AbortedFreed, D!FlightOnOpen,
       D!EventEntryValid, D!Nothing
  <2>6. ASSUME NEW o \in D!Ops, D!OnFreed(o) PROVE D!IInv'
    <3>1. type = "closedir" /\ flight = "none" /\ (left >= 0 => aborted)
      BY <2>6 DEF D!OnFreed, D!MayStart, D!SavedDir, D!IInv, D!StreamKept
    <3> QED
      BY <2>6, <3>1 DEF D!OnFreed, D!MayStart, D!IInv, D!TypeOK, D!StreamKept, D!AbortedFreed,
         D!FlightOnOpen, D!EventEntryValid, D!Nothing, D!Ops, D!PathOps
  <2>7. CASE UNCHANGED D!vars
    BY <2>7 DEF D!vars, D!IInv, D!TypeOK, D!StreamKept, D!AbortedFreed, D!FlightOnOpen,
       D!EventEntryValid
  <2> QED
    BY <2>1, <2>2, <2>3, <2>4, <2>5, <2>6, <2>7 DEF D!Next, D!Ops, D!PathOps
<1> QED
  BY <1>1, <1>2, PTL DEF DirSpec, D!Spec

\* An open directory can be read again and closed, up to a closedir that was
\* cancelled.
THEOREM DirNeverLost == DirSpec => []DirReachable
<1>1. D!IInv => DirReachable
  BY DEF D!IInv, D!StreamKept, D!DirReachable, DirReachable
<1> QED
  BY <1>1, DirInvariance, PTL

\* No event announces a name that was not read or has been freed.
THEOREM EntriesValid == DirSpec => []EventEntryValid
<1>1. D!IInv => EventEntryValid
  BY DEF D!IInv, EventEntryValid
<1> QED
  BY <1>1, DirInvariance, PTL
=============================================================================
