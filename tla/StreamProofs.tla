---------------------------- MODULE StreamProofs ----------------------------
(***************************************************************************)
(* Proofs about Stream, for any number of writes of any length.            *)
(***************************************************************************)
EXTENDS Stream, TLAPS

\* write() queues its data behind everything that was written before.
LEMMA WriteKeeps ==
    ASSUME IInv, NEW i \in Ids, NEW n \in 1..Units, NEW own \in BOOLEAN, Write(i, n, own)
    PROVE  IInv'
<1> USE StreamAssumption DEF IInv, TypeOK, Ids, Queued, Finished, Answered
<1>1. /\ hs = "open" /\ conn \in {"pending", "up"}
      /\ st[i] = "new" /\ \A j \in Ids : j < i => st[j] # "new"
      /\ st' = [st EXCEPT ![i] = "queued"]
      /\ len' = [len EXCEPT ![i] = n]
      /\ data' = [data EXCEPT ![i] = IF own THEN "owned" ELSE "borrowed"]
      /\ UNCHANGED <<hs, conn, shut, taken>>
  BY DEF Write, Writable, IsNext, Keep
<1>2. taken[i] = 0 /\ \A j \in Ids : i < j => st[j] = "new" /\ taken[j] = 0
  BY <1>1 DEF CallsInOrder, NewIsEmpty
<1>3. TypeOK'
  BY <1>1, <1>2
<1>4. CallsInOrder'
  BY <1>1, <1>2 DEF CallsInOrder
<1>5. NewIsEmpty' /\ TakenWhole'
  BY <1>1, <1>2 DEF NewIsEmpty, TakenWhole
<1>6. FinishedFirst'
  BY <1>1, <1>2 DEF FinishedFirst
<1>7. ClosedIsIdle' /\ NotYetUp'
  BY <1>1, <1>2 DEF ClosedIsIdle, NotYetUp
<1>8. DataAlive' /\ DataReclaimed'
  BY <1>1, <1>2 DEF DataAlive, DataReclaimed
<1>9. WireInOrder'
  <2> SUFFICES ASSUME NEW j \in Ids, NEW k \in Ids, j < k, taken[k] > 0 PROVE st'[j] # "queued"
    BY <1>1 DEF WireInOrder
  <2>1. st[j] # "queued"
    BY DEF WireInOrder
  <2>2. j # i
    BY <1>2
  <2> QED
    BY <1>1, <2>1, <2>2
<1>10. AnswersInOrder'
  BY <1>1, <1>2 DEF AnswersInOrder
<1> QED
  BY <1>3, <1>4, <1>5, <1>6, <1>7, <1>8, <1>9, <1>10

\* try_write() passes the queue by only when it is empty.
LEMMA TryWriteKeeps ==
    ASSUME IInv, NEW i \in Ids, NEW n \in 1..Units, TryWrite(i, n)
    PROVE  IInv'
<1> USE StreamAssumption DEF IInv, TypeOK, Ids, Queued, Finished, Answered
<1>1. /\ hs = "open" /\ conn = "up"
      /\ st[i] = "new" /\ \A j \in Ids : j < i => st[j] # "new"
      /\ \A j \in Ids : st[j] # "queued"
      /\ st' = [st EXCEPT ![i] = "tried"]
      /\ len' = [len EXCEPT ![i] = n] /\ taken' = [taken EXCEPT ![i] = n]
      /\ data' = [data EXCEPT ![i] = "freed"]
      /\ UNCHANGED <<hs, conn, shut>>
  BY DEF TryWrite, Writable, IsNext
<1>2. TypeOK'
  BY <1>1
<1>3. CallsInOrder' /\ NewIsEmpty' /\ TakenWhole' /\ FinishedFirst'
  BY <1>1 DEF CallsInOrder, NewIsEmpty, TakenWhole, FinishedFirst
<1>4. ClosedIsIdle' /\ NotYetUp'
  BY <1>1 DEF ClosedIsIdle, NotYetUp
<1>5. DataAlive' /\ DataReclaimed' /\ WireInOrder' /\ AnswersInOrder'
  BY <1>1 DEF DataAlive, DataReclaimed, WireInOrder, AnswersInOrder
<1> QED
  BY <1>2, <1>3, <1>4, <1>5

\* The kernel takes from the first queued write, and nothing of a later one has
\* been taken.
LEMMA TransmitKeeps ==
    ASSUME IInv, NEW i \in Ids, Transmit(i)
    PROVE  IInv'
<1> USE StreamAssumption DEF IInv, TypeOK, Ids, Queued, Finished, Answered
<1>1. /\ hs = "open" /\ conn = "up"
      /\ st[i] = "queued" /\ \A j \in Ids : j < i => st[j] # "queued"
      /\ taken' = [taken EXCEPT ![i] = taken[i] + 1]
      /\ UNCHANGED <<hs, conn, shut, len, data>>
      /\ st' = IF taken[i] + 1 = len[i] THEN [st EXCEPT ![i] = "written"] ELSE st
  BY DEF Transmit, IsFirst
<1>2. taken[i] < len[i]
  BY <1>1 DEF TakenWhole
<1>3. TypeOK'
  BY <1>1, <1>2
<1>4. CallsInOrder' /\ NewIsEmpty' /\ FinishedFirst'
  <2>1. CallsInOrder'
    BY <1>1 DEF CallsInOrder
  <2>2. NewIsEmpty'
    BY <1>1 DEF NewIsEmpty
  <2>3. FinishedFirst'
    BY <1>1 DEF FinishedFirst
  <2> QED
    BY <2>1, <2>2, <2>3
<1>5. TakenWhole'
  BY <1>1, <1>2 DEF TakenWhole
<1>6. ClosedIsIdle' /\ NotYetUp'
  BY <1>1 DEF ClosedIsIdle, NotYetUp
<1>7. DataAlive' /\ DataReclaimed' /\ WireInOrder'
  BY <1>1 DEF DataAlive, DataReclaimed, WireInOrder
<1>8. AnswersInOrder'
  BY <1>1 DEF AnswersInOrder, FinishedFirst
<1> QED
  BY <1>3, <1>4, <1>5, <1>6, <1>7, <1>8

\* Writes fail in the order of the queue: the first one, or all of them.
LEMMA FailureKeeps ==
    ASSUME IInv, NEW S \in SUBSET Queued, \A i \in S, j \in Queued : j < i => j \in S,
           st' = [i \in Ids |-> IF i \in S THEN "failed" ELSE st[i]],
           hs' = hs, hs # "closed", conn' \in {"up", "down"},
           UNCHANGED <<shut, len, taken, data>>
    PROVE  IInv'
<1> USE StreamAssumption DEF IInv, TypeOK, Ids, Queued, Finished, Answered
<1>1. TypeOK'
  OBVIOUS
<1>2. CallsInOrder' /\ NewIsEmpty' /\ TakenWhole'
  BY DEF CallsInOrder, NewIsEmpty, TakenWhole
<1>3. FinishedFirst'
  BY DEF FinishedFirst
<1>4. ClosedIsIdle' /\ NotYetUp'
  BY DEF ClosedIsIdle, NotYetUp
<1>5. DataAlive' /\ DataReclaimed' /\ WireInOrder'
  BY DEF DataAlive, DataReclaimed, WireInOrder
<1>6. AnswersInOrder'
  BY DEF AnswersInOrder
<1> QED
  BY <1>1, <1>2, <1>3, <1>4, <1>5, <1>6

\* write_callback answers the first finished write, before which nothing is
\* queued, and frees what the request owns.
LEMMA WriteCallbackKeeps ==
    ASSUME IInv, NEW i \in Ids, WriteCallback(i)
    PROVE  IInv'
<1> USE StreamAssumption DEF IInv, TypeOK, Ids, Queued, Finished, Answered
<1>1. /\ hs # "closed" /\ st[i] \in {"written", "failed"}
      /\ \A j \in Ids : j < i => st[j] \notin {"written", "failed"}
      /\ st' = [st EXCEPT ![i] = IF st[i] = "failed" THEN "refused" ELSE "confirmed"]
      /\ data' = [data EXCEPT ![i] = IF data[i] = "owned" THEN "freed" ELSE data[i]]
      /\ UNCHANGED <<hs, conn, shut, len, taken>>
  BY DEF WriteCallback, IsFirst, Published, Reserve
<1>2. \A j \in Ids : j < i => st[j] # "queued"
  BY <1>1 DEF FinishedFirst
<1>3. TypeOK'
  BY <1>1
<1>4. CallsInOrder' /\ NewIsEmpty' /\ TakenWhole' /\ FinishedFirst'
  BY <1>1 DEF CallsInOrder, NewIsEmpty, TakenWhole, FinishedFirst
<1>5. ClosedIsIdle' /\ NotYetUp'
  BY <1>1 DEF ClosedIsIdle, NotYetUp
<1>6. DataAlive' /\ DataReclaimed' /\ WireInOrder'
  BY <1>1 DEF DataAlive, DataReclaimed, WireInOrder
<1>7. AnswersInOrder'
  BY <1>1, <1>2 DEF AnswersInOrder, TakenWhole
<1> QED
  BY <1>3, <1>4, <1>5, <1>6, <1>7

\* A step that leaves the writes alone, and neither closes the handle with
\* writes pending nor undoes a connection.
LEMMA HandleKeeps ==
    ASSUME IInv, UNCHANGED wvars,
           hs' \in {"open", "closing", "closed"},
           conn' \in {"none", "pending", "up", "down"},
           shut' \in {"no", "pending", "told"},
           hs' = "closed" => \/ hs = "closed" /\ conn' = conn
                             \/ conn' # "pending" /\ Queued \cup Finished = {},
           conn' = "none" => conn = "none",
           conn' = "pending" => conn \in {"none", "pending"}
    PROVE  IInv'
BY DEF IInv, TypeOK, wvars, Queued, Finished, Answered, CallsInOrder, NewIsEmpty,
       TakenWhole, FinishedFirst, ClosedIsIdle, NotYetUp, DataAlive, DataReclaimed,
       WireInOrder, AnswersInOrder

\* The inductive invariant, whatever is written, tried, shut down and closed
\* while the connection comes, fails and goes.
THEOREM StreamInvariance == Spec => []IInv
<1>1. Init => IInv
  BY StreamAssumption DEF Init, IInv, TypeOK, Ids, Queued, Finished, Answered,
         CallsInOrder, NewIsEmpty, TakenWhole, FinishedFirst, ClosedIsIdle, NotYetUp,
         DataAlive, DataReclaimed, WireInOrder, AnswersInOrder
<1>2. IInv /\ [Next]_vars => IInv'
  <2> SUFFICES ASSUME IInv, [Next]_vars PROVE IInv'
    OBVIOUS
  <2>1. CASE Connect
    BY <2>1, HandleKeeps DEF Connect, IInv, TypeOK
  <2>2. CASE Shutdown
    BY <2>2, HandleKeeps DEF Shutdown, IInv, TypeOK
  <2>3. ASSUME NEW i \in Ids, NEW n \in 1..Units, NEW own \in BOOLEAN, Write(i, n, own)
        PROVE  IInv'
    BY <2>3, WriteKeeps
  <2>4. ASSUME NEW i \in Ids, NEW n \in 1..Units, TryWrite(i, n) PROVE IInv'
    BY <2>4, TryWriteKeeps
  <2>5. ASSUME NEW reset \in BOOLEAN, Close(reset) PROVE IInv'
    BY <2>5, HandleKeeps DEF Close, IInv, TypeOK
  <2>6. ASSUME NEW i \in Ids, ReleaseBorrowed(i) PROVE IInv'
    BY <2>6 DEF ReleaseBorrowed, IInv, TypeOK, Queued, Finished, Answered, CallsInOrder,
                NewIsEmpty, TakenWhole, FinishedFirst, ClosedIsIdle, NotYetUp, DataAlive,
                DataReclaimed, WireInOrder, AnswersInOrder
  <2>7. ASSUME NEW i \in Ids, Transmit(i) PROVE IInv'
    BY <2>7, TransmitKeeps
  <2>8. ASSUME NEW i \in Ids, WriteFails(i) PROVE IInv'
    <3>1. /\ {i} \in SUBSET Queued /\ \A j \in Queued : i <= j
          /\ st' = [j \in Ids |-> IF j \in {i} THEN "failed" ELSE st[j]]
          /\ hs' = hs /\ hs = "open" /\ conn' \in {"up", "down"}
          /\ UNCHANGED <<shut, len, taken, data>>
      BY <2>8 DEF WriteFails, IsFirst, IInv, TypeOK
    <3>2. \A k \in {i}, j \in Queued : j < k => j \in {i}
      BY <3>1, StreamAssumption DEF Ids, Queued
    <3> QED
      BY <3>1, <3>2, FailureKeeps
  <2>9. ASSUME NEW i \in Ids, WriteCallback(i) PROVE IInv'
    BY <2>9, WriteCallbackKeeps
  <2>10. CASE ReadError
    BY <2>10, HandleKeeps DEF ReadError, IInv, TypeOK
  <2>11. CASE CancelWrites
    <3>1. conn \in {"up", "down"}
      BY <2>11 DEF CancelWrites, IInv, TypeOK, NotYetUp, Queued
    <3> QED
      BY <2>11, <3>1, FailureKeeps DEF CancelWrites, Flush, Queued
  <2>12. CASE ShutdownCallback
    BY <2>12, HandleKeeps DEF ShutdownCallback, IInv, TypeOK
  <2>13. CASE CloseCallback
    BY <2>13, HandleKeeps DEF CloseCallback, IInv, TypeOK
  <2>14. ASSUME NEW ok \in BOOLEAN, ConnectCallback(ok) PROVE IInv'
    <3>1. CASE ok
      BY <2>14, <3>1, HandleKeeps DEF ConnectCallback, wvars, IInv, TypeOK
    <3>2. CASE ~ok
      BY <2>14, <3>2, FailureKeeps DEF ConnectCallback, Flush, Queued, IInv, ClosedIsIdle
    <3> QED
      BY <3>1, <3>2
  <2>15. CASE UNCHANGED vars
    BY <2>15, HandleKeeps DEF vars, IInv, TypeOK, ClosedIsIdle
  <2> QED
    BY <2>1, <2>2, <2>3, <2>4, <2>5, <2>6, <2>7, <2>8, <2>9, <2>10, <2>11, <2>12,
       <2>13, <2>14, <2>15 DEF Next, UserNext, LoopNext
<1> QED
  BY <1>1, <1>2, PTL DEF Spec

\* Whatever form of write() was called and whatever became of it, libuv never
\* reads data that was freed, and data the request took over is freed.
THEOREM DataNeverLost == Spec => []DataOwned
<1>1. IInv => DataOwned
  BY DEF IInv, DataOwned
<1> QED
  BY <1>1, StreamInvariance, PTL

-----------------------------------------------------------------------------
(* The refinement.                                                         *)

\* What the abstract channel sees of each write.
LEMMA PhaseOf ==
    ASSUME TypeOK, NEW i \in Ids
    PROVE  /\ Phase[i] = "idle" <=> st[i] = "new"
           /\ Phase[i] = "accepted" <=> st[i] \in {"queued", "written", "failed"}
           /\ Phase[i] = "sent" <=> st[i] \in {"confirmed", "tried"}
           /\ Phase[i] = "lost" <=> st[i] = "refused"
BY DEF TypeOK, Phase

\* A step that moves one write changes the phase of that write only.
LEMMA PhaseStep ==
    ASSUME TypeOK, TypeOK', NEW i \in Ids, NEW new,
           st' = [st EXCEPT ![i] = new],
           NEW p, Phase'[i] = p
    PROVE  Phase' = [Phase EXCEPT ![i] = p]
<1>1. ASSUME NEW j \in Ids, j # i PROVE Phase'[j] = Phase[j]
  BY <1>1 DEF TypeOK, Phase
<1>2. Phase = [j \in Ids |-> Phase[j]] /\ Phase' = [j \in Ids |-> Phase'[j]]
  BY DEF Phase
<1> QED
  BY <1>1, <1>2

\* A step in which libuv finishes writes is none of the channel's.
LEMMA PhaseSame ==
    ASSUME TypeOK, TypeOK',
           \A i \in Ids : st'[i] = st[i] \/ (st[i] = "queued" /\ st'[i] \in {"written", "failed"})
    PROVE  Phase' = Phase
<1>1. ASSUME NEW j \in Ids PROVE Phase'[j] = Phase[j]
  BY <1>1 DEF TypeOK, Phase
<1>2. Phase = [j \in Ids |-> Phase[j]] /\ Phase' = [j \in Ids |-> Phase'[j]]
  BY DEF Phase
<1> QED
  BY <1>1, <1>2

\* The writes of a stream and their events are those of an ordered channel:
\* nothing overtakes, nothing is answered out of turn, and "sent" is true.
THEOREM ChannelRefinement == Spec => ImplementsChannel
<1> USE StreamAssumption
<1>1. Init => Channel!Init
  BY DEF Init, Channel!Init, Channel!Ids, Ids, Phase
<1>2. IInv /\ IInv' /\ [Next]_vars => [Channel!Next]_(Channel!vars)
  <2> SUFFICES ASSUME IInv, IInv', [Next]_vars
               PROVE  Channel!Next \/ UNCHANGED <<Phase, len, taken>>
    BY DEF Channel!vars
  <2> USE DEF IInv, Channel!Ids, Ids
  <2>1. ASSUME NEW i \in Ids, NEW n \in 1..Units, NEW own \in BOOLEAN, Write(i, n, own)
        PROVE  Channel!Accept(i, n)
    <3>1. Phase' = [Phase EXCEPT ![i] = "accepted"]
      BY <2>1, PhaseStep, PhaseOf DEF Write, TypeOK, Phase
    <3> QED
      BY <2>1, <3>1, PhaseOf DEF Write, IsNext, Channel!Accept
  <2>2. ASSUME NEW i \in Ids, NEW n \in 1..Units, TryWrite(i, n)
        PROVE  Channel!AtOnce(i, n)
    <3>1. Phase' = [Phase EXCEPT ![i] = "sent"]
      BY <2>2, PhaseStep DEF TryWrite, TypeOK, Phase
    <3> QED
      BY <2>2, <3>1, PhaseOf DEF TryWrite, IsNext, Channel!AtOnce
  <2>3. ASSUME NEW i \in Ids, Transmit(i) PROVE Channel!Go(i)
    <3>1. i \in Queued /\ taken[i] < len[i]
      BY <2>3 DEF Transmit, IsFirst, TakenWhole, Queued
    <3>2. \A j \in Ids : j > i => taken[j] = 0
      BY <3>1 DEF WireInOrder, TypeOK
    <3>3. Phase' = Phase
      BY <2>3, <3>1, PhaseSame DEF Transmit, TypeOK, Queued
    <3> QED
      BY <2>3, <3>1, <3>2, <3>3, PhaseOf DEF Transmit, Queued, Channel!Go, Channel!Ahead
  <2>4. ASSUME NEW i \in Ids, WriteCallback(i)
        PROVE  \E ok \in BOOLEAN : Channel!Answer(i, ok)
    <3> DEFINE ok == st[i] = "written"
    <3>1. st[i] \in {"written", "failed"}
      BY <2>4 DEF WriteCallback, IsFirst, Finished
    <3>2. \A j \in Ids : j < i => Phase[j] # "accepted"
      BY <2>4, <3>1, PhaseOf DEF WriteCallback, IsFirst, Finished, Queued, FinishedFirst
    <3>3. Phase' = [Phase EXCEPT ![i] = IF ok THEN "sent" ELSE "lost"]
      BY <2>4, <3>1, PhaseStep DEF WriteCallback, Published, TypeOK, Phase
    <3>4. ok => taken[i] = len[i]
      BY DEF TakenWhole
    <3>5. Channel!Answer(i, ok)
      BY <2>4, <3>1, <3>2, <3>3, <3>4, PhaseOf DEF WriteCallback, Channel!Answer
    <3> QED
      BY <3>5
  <2>5. ASSUME NEW i \in Ids, WriteFails(i) PROVE UNCHANGED <<Phase, len, taken>>
    BY <2>5, PhaseSame DEF WriteFails, IsFirst, Queued, TypeOK
  <2>6. CASE CancelWrites \/ \E ok \in BOOLEAN : ConnectCallback(ok)
    <3>1. CASE CancelWrites
      <4>1. \A i \in Ids : st'[i] = st[i] \/ (st[i] = "queued" /\ st'[i] \in {"written", "failed"})
        BY <3>1 DEF CancelWrites, Flush
      <4> QED
        BY <3>1, <4>1, PhaseSame DEF CancelWrites
    <3>2. ASSUME NEW ok \in BOOLEAN, ConnectCallback(ok) PROVE UNCHANGED <<Phase, len, taken>>
      BY <3>2, PhaseSame DEF ConnectCallback, Flush, TypeOK
    <3> QED
      BY <2>6, <3>1, <3>2
  <2>7. CASE UNCHANGED <<st, len, taken>>
    BY <2>7, PhaseSame
  <2>8. CASE Connect \/ Shutdown \/ ReadError \/ ShutdownCallback \/ CloseCallback
             \/ (\E reset \in BOOLEAN : Close(reset)) \/ \E i \in Ids : ReleaseBorrowed(i)
    BY <2>7, <2>8 DEF Connect, Shutdown, ReadError, ShutdownCallback, CloseCallback, Close,
                      ReleaseBorrowed, wvars
  <2>9. CASE UNCHANGED vars
    BY <2>7, <2>9 DEF vars, wvars
  <2> QED
    BY <2>1, <2>2, <2>3, <2>4, <2>5, <2>6, <2>8, <2>9 DEF Next, UserNext, LoopNext, Channel!Next
<1> QED
  BY <1>1, <1>2, StreamInvariance, PTL DEF Spec, ImplementsChannel, Channel!Spec
=============================================================================
