---------------------------- MODULE NetworkProofs ----------------------------
(***************************************************************************)
(* Proofs about the parts of MCNetwork: StreamIn, Udp and Address, for any *)
(* number of connections, datagrams, handles and ports.                    *)
(***************************************************************************)
EXTENDS MCNetwork, Integers, TLAPS

-----------------------------------------------------------------------------
(* StreamIn.                                                               *)

\* A step that leaves the listening side alone.
LEMMA ReadingStep ==
    ASSUME I!StreamInAssumption, I!IInv, NEW c \in I!Conns,
           \/ I!PeerSends(c) \/ I!PeerEnds(c) \/ I!Break(c) \/ I!Read(c) \/ I!Stop(c)
           \/ \E nread \in {"data", "eof", "error", "nothing"} : I!ReadCallback(c, nread)
    PROVE  I!IInv'
<1> USE DEF I!StreamInAssumption, I!IInv, I!TypeOK, I!Conns, I!Taken
<1>1. UNCHANGED <<srv, at, listens>>
  BY DEF I!PeerSends, I!PeerEnds, I!Break, I!Read, I!Stop, I!ReadCallback
<1>2. I!ServedInOrder'
  BY <1>1 DEF I!ServedInOrder
<1>3. CASE I!PeerSends(c)
  <2> USE <1>3 DEF I!PeerSends
  <2>1. /\ sent' \in [I!Conns -> 0..MaxChunks] /\ c \notin over
        /\ \A d \in I!Conns : d # c => sent'[d] = sent[d]
        /\ \A d \in I!Conns : sent'[d] >= sent[d]
    OBVIOUS
  <2>2. I!TypeOK'
    BY <1>1, <2>1
  <2>3. I!ReadEventsTrue'
    BY <2>1 DEF I!ReadEventsTrue, I!EndIsLast, I!ErrorIsReal
  <2> QED
    BY <1>2, <2>2, <2>3
<1>4. CASE I!PeerEnds(c) \/ I!Break(c) \/ I!Read(c) \/ I!Stop(c)
  BY <1>1, <1>2, <1>4 DEF I!PeerEnds, I!Break, I!Read, I!Stop, I!ReadEventsTrue, I!EndIsLast,
                          I!ErrorIsReal
<1>5. ASSUME NEW nread \in {"data", "eof", "error", "nothing"}, I!ReadCallback(c, nread)
      PROVE  I!IInv'
  <2> USE <1>5 DEF I!ReadCallback, I!Reads, I!Event
  <2>1. CASE nread = "data"
    <3>1. /\ UNCHANGED <<reading, sent, over, broken, last>> /\ got[c] < sent[c]
          /\ got' = [got EXCEPT ![c] = got[c] + 1]
      BY <2>1
    <3>2. I!ReadEventsTrue'
      BY <3>1 DEF I!ReadEventsTrue, I!EndIsLast, I!ErrorIsReal
    <3>3. got' \in [I!Conns -> Nat] /\ \A d \in I!Conns : got'[d] <= sent[d]
      <4>1. /\ got \in [I!Conns -> Nat] /\ sent \in [I!Conns -> 0..MaxChunks]
            /\ \A d \in I!Conns : got[d] <= sent[d]
        OBVIOUS
      <4> HIDE DEF I!IInv, I!TypeOK, I!Conns
      <4> QED
        BY <3>1, <4>1
    <3>4. I!TypeOK'
      BY <1>1, <3>1, <3>3
    <3> QED
      BY <1>2, <3>2, <3>4
  <2>2. CASE nread # "data"
    <3>1. /\ UNCHANGED <<sent, over, got, broken>> /\ reading' \subseteq reading
          /\ last' \in [I!Conns -> {"none", "end", "error"}]
      BY <2>2
    <3>2. \A d \in I!Conns : \/ last'[d] = last[d]
                             \/ last'[d] = "end" /\ d \in over /\ got[d] = sent[d]
                             \/ last'[d] = "error" /\ d \in broken
      BY <2>2
    <3>3. I!ReadEventsTrue'
      BY <3>1, <3>2 DEF I!ReadEventsTrue, I!EndIsLast, I!ErrorIsReal
    <3>4. I!TypeOK'
      BY <1>1, <3>1
    <3> QED
      BY <1>2, <3>3, <3>4
  <2> QED
    BY <2>1, <2>2
<1> QED
  BY <1>3, <1>4, <1>5

\* A step of the listening side, or the close of a client's handle.
LEMMA ListeningStep ==
    ASSUME I!StreamInAssumption, I!IInv,
           \/ I!Listen \/ I!CloseServer
           \/ \E c \in I!Conns : I!Arrive(c) \/ I!CloseClient(c)
           \/ \E c \in I!Conns, status \in {0, I!UV_ECONNABORTED} : I!ListenCallback(c, status)
           \/ \E c \in I!Conns, usable \in BOOLEAN : I!Accept(c, usable)
    PROVE  I!IInv'
<1> USE DEF I!StreamInAssumption, I!IInv, I!TypeOK, I!Conns, I!Taken, I!cvars
<1>1. I!ReadEventsTrue'
  BY DEF I!Listen, I!CloseServer, I!Arrive, I!CloseClient, I!ListenCallback, I!Accept,
         I!ReadEventsTrue, I!EndIsLast, I!ErrorIsReal
<1>2. CASE I!Listen
  BY <1>1, <1>2 DEF I!Listen, I!ServedInOrder
<1>3. ASSUME NEW c \in I!Conns, I!Arrive(c) PROVE I!IInv'
  <2>1. I!ServedInOrder'
    BY <1>3 DEF I!Arrive, I!ServedInOrder
  <2>2. I!TypeOK'
    BY <1>3 DEF I!Arrive
  <2> QED
    BY <1>1, <2>1, <2>2
<1>4. ASSUME NEW c \in I!Conns, I!CloseClient(c) PROVE I!IInv'
  <2>1. I!ServedInOrder'
    BY <1>4 DEF I!CloseClient, I!ServedInOrder
  <2>2. I!TypeOK'
    BY <1>4 DEF I!CloseClient
  <2> QED
    BY <1>1, <2>1, <2>2
<1>5. ASSUME NEW c \in I!Conns, NEW usable \in BOOLEAN, I!Accept(c, usable) PROVE I!IInv'
  <2>1. at[c] = "held" /\ at'[c] \in {"taken", "lost"} /\ \A d \in I!Conns : d # c => at'[d] = at[d]
    BY <1>5 DEF I!Accept, I!Held
  <2>2. I!ServedInOrder'
    <3>1. listens' = listens
      BY <1>5 DEF I!Accept
    <3>2. \A d \in I!Conns : at'[d] \in {"backlog", "none"} <=> at[d] \in {"backlog", "none"}
      BY <2>1
    <3>3. \A d \in I!Conns : at[d] \in {"backlog", "none"} => at'[d] = at[d]
      BY <2>1
    <3> HIDE DEF I!TypeOK
    <3> QED
      BY <3>1, <3>2, <3>3 DEF I!ServedInOrder
  <2>3. I!TypeOK'
    BY <1>5, <2>1 DEF I!Accept
  <2> QED
    BY <1>1, <2>2, <2>3
<1>6. ASSUME NEW c \in I!Conns, NEW status \in {0, I!UV_ECONNABORTED}, I!ListenCallback(c, status)
      PROVE  I!IInv'
  <2>1. at[c] = "backlog" /\ \A d \in I!Conns : d < c => at[d] \notin {"backlog", "none"}
    BY <1>6 DEF I!ListenCallback, I!IsFirst, I!Backlog, I!ServedInOrder
  <2>2. listens' \in {listens, listens + 1}
    BY <1>6 DEF I!ListenCallback, I!ListenEvents
  <2>3. listens < c
    BY <2>1 DEF I!ServedInOrder
  <2>4. /\ at' \in [I!Conns -> {"none", "backlog", "held", "taken", "lost"}]
        /\ at'[c] \in {"held", "lost"}
        /\ \A d \in I!Conns : d # c => at'[d] = at[d]
    BY <1>6 DEF I!ListenCallback
  <2>5. \A d \in I!Conns : at'[d] \in {"backlog", "none"} => d > c /\ at'[d] = at[d]
    <3> SUFFICES ASSUME NEW d \in I!Conns, at'[d] \in {"backlog", "none"}
                 PROVE  d > c /\ at'[d] = at[d]
      OBVIOUS
    <3>1. d # c /\ at'[d] = at[d]
      BY <2>4
    <3>2. ~(d < c)
      BY <2>1, <3>1
    <3> HIDE DEF I!IInv, I!TypeOK
    <3> QED
      BY <3>1, <3>2
  <2>6. \A d, e \in I!Conns : d < e => /\ at'[d] = "none" => at'[e] = "none"
                                       /\ at'[d] = "backlog" => at'[e] \in {"backlog", "none"}
    <3> SUFFICES ASSUME NEW d \in I!Conns, NEW e \in I!Conns, d < e, at'[d] \in {"backlog", "none"}
                 PROVE  /\ at[d] = "none" => at'[e] = "none"
                        /\ at[d] = "backlog" => at'[e] \in {"backlog", "none"}
      BY <2>5
    <3>1. d > c /\ at'[d] = at[d]
      BY <2>5
    <3>2. e # c /\ at'[e] = at[e]
      BY <2>4, <3>1
    <3> QED
      BY <3>1, <3>2 DEF I!ServedInOrder
  <2>7. \A d \in I!Conns : at'[d] \in {"backlog", "none"} => listens' < d
    BY <2>2, <2>3, <2>5
  <2>8. listens' \in Nat /\ listens' <= MaxConns
    BY <2>2, <2>3
  <2>9. I!ServedInOrder'
    BY <2>6, <2>7, <2>8 DEF I!ServedInOrder
  <2>10. UNCHANGED <<srv, reading, sent, over, got, broken, last>>
    BY <1>6 DEF I!ListenCallback
  <2>11. reading' \in SUBSET (I!Taken')
    BY <2>1, <2>4, <2>10
  <2>12. I!TypeOK'
    BY <2>4, <2>8, <2>10, <2>11
  <2> QED
    BY <1>1, <2>9, <2>12
<1>7. CASE I!CloseServer
  <2>1. /\ at' \in [I!Conns -> {"none", "backlog", "held", "taken", "lost"}]
        /\ \A c \in I!Conns : at'[c] = IF at[c] \in {"held", "backlog"} THEN "lost" ELSE at[c]
    BY <1>7 DEF I!CloseServer, I!Held, I!Backlog
  <2>2. I!ServedInOrder'
    BY <1>7, <2>1 DEF I!CloseServer, I!ServedInOrder
  <2>3. I!TypeOK'
    BY <1>7, <2>1 DEF I!CloseServer
  <2> QED
    BY <1>1, <2>2, <2>3
<1> QED
  BY <1>2, <1>3, <1>4, <1>5, <1>6, <1>7

\* The invariant of the incoming side.
LEMMA StreamInStep ==
    ASSUME I!StreamInAssumption, I!IInv, I!Next
    PROVE  I!IInv'
BY ReadingStep, ListeningStep DEF I!Next

LEMMA StreamInInit ==
    ASSUME I!StreamInAssumption, I!Init
    PROVE  I!IInv
BY DEF I!StreamInAssumption, I!Init, I!IInv, I!TypeOK, I!Conns, I!Taken, I!ServedInOrder,
       I!ReadEventsTrue, I!EndIsLast, I!ErrorIsReal

\* A listen event leaves its connection, and no other, for accept() to take.
LEMMA ListenHolds ==
    ASSUME I!IInv, I!Next, listens' > listens
    PROVE  \E c \in I!Conns : I!Held' = {c} /\ at[c] = "backlog"
<1>1. PICK c \in I!Conns, status \in {0, I!UV_ECONNABORTED} : I!ListenCallback(c, status)
  <2>1. listens \in Nat
    BY DEF I!IInv, I!TypeOK
  <2> QED
    BY <2>1 DEF I!Next, I!Listen, I!CloseServer, I!Arrive, I!PeerSends, I!PeerEnds, I!Break, I!Read,
                I!Stop, I!CloseClient, I!Accept, I!ReadCallback
<1>2. status = 0
  BY <1>1 DEF I!ListenCallback, I!ListenEvents, I!IInv, I!TypeOK
<1> QED
  BY <1>1, <1>2 DEF I!ListenCallback, I!IsFirst, I!Held, I!Backlog, I!IInv, I!TypeOK

-----------------------------------------------------------------------------
(* Udp.                                                                    *)

\* The invariant of the sends, and of the receiving.
UdpSends == U!DataByState /\ U!GoneByState /\ U!SendsInOrder
SendTypes == /\ st \in [U!Ids -> {"new", "queued", "sent", "failed", "told", "refused"}]
             /\ gone \in SUBSET U!Ids
             /\ data \in [U!Ids -> {"none", "owned", "borrowed", "freed"}]

\* Every action does to a send what the invariant allows.
LEMMA SendStep ==
    ASSUME U!UdpAssumption, SendTypes, UdpSends, U!Next
    PROVE  SendTypes' /\ UdpSends'
<1> USE DEF U!UdpAssumption, SendTypes, UdpSends, U!Ids
<1>1. ASSUME NEW i \in U!Ids, NEW own \in BOOLEAN, U!Send(i, own) PROVE SendTypes' /\ UdpSends'
  <2>1. CASE UNCHANGED U!svars
    BY <2>1 DEF U!svars, U!DataByState, U!GoneByState, U!SendsInOrder
  <2>2. CASE ~UNCHANGED U!svars
    <3>1. /\ st[i] = "new" /\ \A j \in U!Ids : j < i => st[j] # "new"
          /\ st' = [st EXCEPT ![i] = "queued"] /\ gone' = gone
          /\ data' = [data EXCEPT ![i] = IF own THEN "owned" ELSE "borrowed"]
      BY <1>1, <2>2 DEF U!Send, U!IsNext, U!Keep
    <3>2. SendTypes' /\ U!DataByState' /\ U!GoneByState'
      BY <3>1 DEF U!DataByState, U!GoneByState
    <3>3. U!SendsInOrder'
      BY <3>1 DEF U!SendsInOrder
    <3> QED
      BY <3>2, <3>3
  <2> QED
    BY <2>1, <2>2
<1>2. ASSUME NEW i \in U!Ids, U!ReleaseBorrowed(i) PROVE SendTypes' /\ UdpSends'
  BY <1>2 DEF U!ReleaseBorrowed, U!Answered, U!DataByState, U!GoneByState, U!SendsInOrder
<1>3. ASSUME NEW i \in U!Ids, NEW ok \in BOOLEAN, U!Transmit(i, ok) PROVE SendTypes' /\ UdpSends'
  <2>1. /\ st[i] = "queued" /\ \A j \in U!Ids : st[j] = "queued" => i <= j
        /\ st' = [st EXCEPT ![i] = IF ok THEN "sent" ELSE "failed"]
        /\ gone' = (IF ok THEN gone \cup {i} ELSE gone) /\ data' = data
    BY <1>3 DEF U!Transmit, U!IsFirst, U!Queued
  <2>2. SendTypes' /\ U!DataByState' /\ U!GoneByState'
    BY <2>1 DEF U!DataByState, U!GoneByState
  <2>3. U!SendsInOrder'
    BY <2>1 DEF U!SendsInOrder
  <2> QED
    BY <2>2, <2>3
<1>4. ASSUME NEW i \in U!Ids, U!SendCallback(i) PROVE SendTypes' /\ UdpSends'
  <2>1. /\ st[i] \in {"sent", "failed"}
        /\ \A j \in U!Ids : st[j] \in {"sent", "failed"} => i <= j
        /\ st' = [st EXCEPT ![i] = IF st[i] = "failed" THEN "refused" ELSE "told"]
        /\ data' = [data EXCEPT ![i] = IF data[i] = "owned" THEN "freed" ELSE data[i]]
        /\ gone' = gone
    BY <1>4 DEF U!SendCallback, U!IsFirst, U!Done, U!Published, U!Reserve
  <2>2. SendTypes' /\ U!DataByState' /\ U!GoneByState'
    BY <2>1 DEF U!DataByState, U!GoneByState
  <2>3. U!SendsInOrder'
    BY <2>1 DEF U!SendsInOrder
  <2> QED
    BY <2>2, <2>3
<1>5. CASE U!CancelSends
  <2>1. /\ \A i \in U!Ids : st'[i] = IF st[i] = "queued" THEN "failed" ELSE st[i]
        /\ st' \in [U!Ids -> {"new", "queued", "sent", "failed", "told", "refused"}]
        /\ UNCHANGED <<gone, data>>
    BY <1>5 DEF U!CancelSends, U!Queued
  <2>2. SendTypes' /\ U!DataByState' /\ U!GoneByState'
    BY <2>1 DEF U!DataByState, U!GoneByState
  <2>3. U!SendsInOrder'
    BY <2>1 DEF U!SendsInOrder
  <2> QED
    BY <2>2, <2>3
<1>6. CASE UNCHANGED U!svars
  BY <1>6 DEF U!svars, U!DataByState, U!GoneByState, U!SendsInOrder
<1>7. ASSUME \/ \E on \in BOOLEAN : U!Connect(on)
             \/ \E n \in 0..MaxGrams : U!Receive(n)
             \/ U!TrySend \/ U!Recv \/ U!Stop \/ U!Close
             \/ U!RecvCallback \/ U!EmptyCallback \/ U!CloseCallback
      PROVE  UNCHANGED U!svars
  BY <1>7 DEF U!Connect, U!Receive, U!TrySend, U!Recv, U!Stop, U!Close, U!RecvCallback,
              U!EmptyCallback, U!CloseCallback
<1> QED
  <2> HIDE DEF SendTypes, UdpSends
  <2> QED
    BY <1>1, <1>2, <1>3, <1>4, <1>5, <1>6, <1>7 DEF U!Next, U!UserNext, U!LoopNext

\* A buffer is lent, filled with one datagram or none, and given back.
RecvTypes ==
    /\ recving \in BOOLEAN /\ size \in [U!Grams -> {0, 1}]
    /\ read \in 0..MaxGrams /\ batch \in 0..read
    /\ reported \in SUBSET U!Grams /\ published \in SUBSET U!Grams

LEMMA RecvStep ==
    ASSUME U!UdpAssumption, ~RecvMmsg, RecvTypes, U!BufferState, U!PublishesAll, U!Next
    PROVE  RecvTypes' /\ U!BufferState' /\ U!PublishesAll'
<1> USE DEF U!UdpAssumption, U!Grams, U!PublishesAll
<1> DEFINE Goal == RecvTypes' /\ U!BufferState' /\ U!PublishesAll'
<1>1. CASE UNCHANGED U!rvars
  BY <1>1 DEF U!rvars, RecvTypes, U!BufferState
<1>2. CASE U!Recv \/ U!Stop \/ U!Close
  <2>1. recving' \in BOOLEAN /\ (buf = "lent" => recving')
    BY <1>2 DEF U!Recv, U!Stop, U!Close, U!BufferState
  <2>2. UNCHANGED <<size, read, batch, buf, reported, published>>
    BY <1>2 DEF U!Recv, U!Stop, U!Close
  <2> QED
    BY <2>1, <2>2 DEF RecvTypes, U!BufferState
<1>3. ASSUME NEW n \in 0..MaxGrams, U!Receive(n) PROVE Goal
  <2>1. n \in {0, 1} /\ n <= MaxGrams - read
    BY <1>3 DEF U!Receive, RecvTypes
  <2>2. /\ recving' = recving /\ recving /\ buf' = "lent" /\ read' = read + n /\ batch' = n
        /\ UNCHANGED <<size, reported, published>>
    BY <1>3 DEF U!Receive
  <2> QED
    BY <2>1, <2>2 DEF RecvTypes, U!BufferState
<1>4. CASE U!RecvCallback
  <2> DEFINE g == read - batch + 1
  <2>1. batch = 1 /\ buf = "lent" /\ g \in U!Grams
    BY <1>4 DEF U!RecvCallback, U!BufferState, RecvTypes
  <2>2. /\ buf' = "none" /\ batch' = batch - 1 /\ recving' = recving
        /\ reported' = reported \cup {g} /\ published' = published \cup {g}
        /\ UNCHANGED <<size, read>>
    BY <1>4, <2>1 DEF U!RecvCallback, U!Publishes, U!Freed, U!Forget
  <2> HIDE DEF g
  <2> QED
    BY <2>1, <2>2 DEF RecvTypes, U!BufferState
<1>5. CASE U!EmptyCallback
  <2>1. buf = "lent" /\ recving
    BY <1>5 DEF U!EmptyCallback, U!BufferState
  <2>2. /\ buf' = "none" /\ batch' = 0 /\ recving' = recving
        /\ UNCHANGED <<size, read, reported, published>>
    BY <1>5, <2>1 DEF U!EmptyCallback, U!Freed, U!Forget
  <2> QED
    BY <2>1, <2>2 DEF RecvTypes, U!BufferState
<1>6. ASSUME \/ \E on \in BOOLEAN : U!Connect(on)
             \/ \E i \in U!Ids, own \in BOOLEAN : U!Send(i, own)
             \/ \E i \in U!Ids : U!ReleaseBorrowed(i) \/ U!SendCallback(i)
             \/ \E i \in U!Ids, ok \in BOOLEAN : U!Transmit(i, ok)
             \/ U!TrySend \/ U!CancelSends \/ U!CloseCallback
      PROVE  UNCHANGED U!rvars
  BY <1>6 DEF U!Connect, U!Send, U!ReleaseBorrowed, U!SendCallback, U!Transmit, U!TrySend,
              U!CancelSends, U!CloseCallback
<1> QED
  <2> HIDE DEF Goal
  <2> QED
    BY <1>1, <1>2, <1>3, <1>4, <1>5, <1>6 DEF U!Next, U!UserNext, U!LoopNext, Goal

\* The invariant of a udp handle.
LEMMA UdpStep ==
    ASSUME U!UdpAssumption, ~RecvMmsg, U!IInv, U!Next
    PROVE  U!IInv'
<1>1. SendTypes /\ UdpSends /\ RecvTypes
  BY DEF SendTypes, UdpSends, RecvTypes, U!IInv, U!TypeOK
<1>2. /\ SendTypes' /\ UdpSends'
      /\ RecvTypes' /\ U!BufferState' /\ U!PublishesAll'
  BY <1>1, SendStep, RecvStep DEF U!IInv
<1>3. hs' \in {"open", "closing", "closed"}
  BY DEF U!IInv, U!TypeOK, U!Next, U!UserNext, U!LoopNext, U!Connect, U!Send, U!ReleaseBorrowed,
         U!TrySend, U!Recv, U!Stop, U!Close, U!Transmit, U!SendCallback, U!Receive, U!CancelSends,
         U!RecvCallback, U!EmptyCallback, U!CloseCallback
<1>4. connected' \in BOOLEAN
  BY DEF U!IInv, U!TypeOK, U!Next, U!UserNext, U!LoopNext, U!Connect, U!Send, U!ReleaseBorrowed,
         U!TrySend, U!Recv, U!Stop, U!Close, U!Transmit, U!SendCallback, U!Receive, U!CancelSends,
         U!RecvCallback, U!EmptyCallback, U!CloseCallback
<1>5. ret' \in {0, U!UV_EISCONN}
  BY DEF U!IInv, U!TypeOK, U!Next, U!UserNext, U!LoopNext, U!Connect, U!Send, U!ReleaseBorrowed,
         U!TrySend, U!Recv, U!Stop, U!Close, U!Transmit, U!SendCallback, U!Receive, U!CancelSends,
         U!RecvCallback, U!EmptyCallback, U!CloseCallback, U!SendResult
<1>6. U!TypeOK'
  BY <1>2, <1>3, <1>4, <1>5 DEF SendTypes, RecvTypes, U!BufferState, U!TypeOK
<1> QED
  BY <1>2, <1>6 DEF UdpSends, U!IInv

LEMMA UdpInit ==
    ASSUME U!UdpAssumption, U!Init
    PROVE  U!IInv
<1>1. connected \in BOOLEAN /\ recving \in BOOLEAN
  BY DEF U!Init
<1> QED
  BY <1>1 DEF U!UdpAssumption, U!Init, U!IInv, U!TypeOK, U!Ids, U!Grams, U!DataByState, U!GoneByState,
              U!SendsInOrder, U!BufferState, U!PublishesAll

\* What the invariant says of data, answers and buffers.
LEMMA UdpIsSafe ==
    ASSUME U!UdpAssumption, U!IInv
    PROVE  U!DatagramsAccounted
<1> USE DEF U!UdpAssumption, U!IInv, U!TypeOK, U!Ids, U!Queued, U!Done, U!Answered
<1>1. U!SendDataOwned
  BY DEF U!DataByState, U!SendDataOwned
<1>2. U!AnswersTrue
  <2>1. \A i \in U!Answered : st[i] = "told" <=> i \in gone
    BY DEF U!GoneByState
  <2>2. \A i, j \in U!Ids : i < j /\ j \in U!Answered => i \notin U!Queued \cup U!Done
    BY DEF U!SendsInOrder
  <2> QED
    BY <2>1, <2>2 DEF U!AnswersTrue
<1> QED
  BY <1>1, <1>2 DEF U!DatagramsAccounted, U!BufferState, U!BufferFreedOnce

-----------------------------------------------------------------------------
(* Address.                                                                *)

\* A port and its two digits.
LEMMA TwoDigits ==
    ASSUME NEW d \in Nat \ {0}, NEW a \in 0..(d - 1), NEW b \in 0..(d - 1)
    PROVE  /\ a * d + b \in 0..(d * d - 1)
           /\ (a * d + b) % d = b /\ (a * d + b) \div d = a /\ a % d = a
<1>1. a * d \in Nat /\ d * d \in Nat /\ a * d + d <= d * d
  <2>1. (d - 1 - a) * d >= 0
    OBVIOUS
  <2>2. (d - 1 - a) * d = d * d - d - a * d
    OBVIOUS
  <2> QED
    BY <2>1, <2>2
<1>2. a * d + b \in 0..(d * d - 1)
  BY <1>1
<1>3. (a * d + b) \div d = a
  OBVIOUS
<1>4. (a * d + b) % d = b
  OBVIOUS
<1>5. a % d = a
  OBVIOUS
<1> QED
  BY <1>2, <1>3, <1>4, <1>5

LEMMA DigitsOfPort ==
    ASSUME NEW d \in Nat \ {0}, NEW p \in Nat, p < d * d
    PROVE  /\ p % d \in 0..(d - 1) /\ p \div d \in 0..(d - 1)
           /\ p = (p \div d) * d + (p % d)
<1>1. d * d \in Nat
  OBVIOUS
<1>2. p % d \in 0..(d - 1)
  BY <1>1
<1>3. p \div d \in Nat
  BY <1>1
<1>4. p = (p \div d) * d + (p % d)
  <2> DEFINE x == d * (p \div d)
  <2>1. p % d = p - x /\ x \in Int
    BY <1>1
  <2>2. (p \div d) * d = x
    BY <1>1
  <2> HIDE DEF x
  <2> QED
    BY <1>1, <2>1, <2>2
<1>5. p \div d <= d - 1
  <2> SUFFICES ASSUME p \div d >= d PROVE FALSE
    BY <1>3
  <2>1. (p \div d) * d >= d * d
    BY <1>3
  <2> QED
    BY <1>1, <1>2, <1>4, <2>1
<1> QED
  BY <1>2, <1>3, <1>4, <1>5

\* ntohs undoes htons, and only port 0 is stored as 0.
LEMMA SwapSwaps ==
    ASSUME A!AddressAssumption, NEW p \in A!Ports
    PROVE  /\ A!Swap(p) \in A!Ports /\ A!Swap(A!Swap(p)) = p
           /\ A!Swap(p) = 0 <=> p = 0
<1> DEFINE a == p \div Digits
           b == p % Digits
<1>1. Digits \in Nat \ {0} /\ p \in 0..(Digits * Digits - 1)
  BY DEF A!AddressAssumption, A!Ports
<1>2. a \in 0..(Digits - 1) /\ b \in 0..(Digits - 1) /\ p = a * Digits + b
  <2>1. p \in Nat /\ p < Digits * Digits
    <3>1. Digits * Digits \in Int
      BY <1>1
    <3> QED
      BY <1>1, <3>1
  <2> QED
    BY <1>1, <2>1, DigitsOfPort
<1>3. a % Digits = a /\ b % Digits = b
  BY <1>1, <1>2, TwoDigits
<1>4. A!Swap(p) = b * Digits + a
  BY <1>3 DEF A!Swap
<1> HIDE DEF a, b
<1>5. /\ b * Digits + a \in 0..(Digits * Digits - 1)
      /\ (b * Digits + a) % Digits = a /\ (b * Digits + a) \div Digits = b
  BY <1>1, <1>2, TwoDigits
<1>6. A!Swap(A!Swap(p)) = a * Digits + b
  BY <1>3, <1>4, <1>5 DEF A!Swap
<1>7. A!Swap(0) = 0
  <2>1. 0 % Digits = 0 /\ 0 \div Digits = 0
    BY <1>1
  <2> QED
    BY <1>1, <2>1 DEF A!Swap
<1> QED
  BY <1>2, <1>4, <1>5, <1>6, <1>7 DEF A!Ports

\* A structure made of a text and a port gives them back: sock_addr() undoes ip_addr().
LEMMA ParsedBack ==
    ASSUME A!AddressAssumption, NEW a \in A!SocketAddresses
    PROVE  /\ A!Parsed(a.ip, a.port) \in A!Storage
           /\ A!Parsed(a.ip, a.port) # A!None
           /\ A!SockAddr(A!Parsed(a.ip, a.port)) = a
           /\ A!Parsed(a.ip, a.port).port = A!Swap(a.port)
           /\ a.ip.v = 4 => A!IpAddr(a.ip, a.port) = {A!Parsed(a.ip, a.port)}
<1> DEFINE s == A!Parsed(a.ip, a.port)
<1>1. a = [ip |-> a.ip, port |-> a.port] /\ a.ip \in A!Texts /\ a.port \in A!Ports
  BY DEF A!SocketAddresses
<1>2. A!Swap(A!Swap(a.port)) = a.port
  BY <1>1, SwapSwaps
<1>3. s \in A!Storage
  BY DEF A!Storage
<1>4. CASE a.ip.v = 4
  <2>1. a.ip = [v |-> 4, word |-> a.ip.word]
    BY <1>1, <1>4 DEF A!Texts
  <2>2. s = [family |-> "inet", port |-> A!Swap(a.port), word |-> a.ip.word]
    BY <1>4 DEF A!Parsed
  <2> HIDE DEF s
  <2>3. A!SockAddr(s) = [ip |-> [v |-> 4, word |-> a.ip.word], port |-> A!Swap(A!Swap(a.port))]
    BY <2>2 DEF A!SockAddr
  <2>4. A!SockAddr(s) = a
    BY <1>1, <1>2, <2>1, <2>3
  <2>5. s # A!None /\ s.port = A!Swap(a.port)
    BY <2>2 DEF A!None
  <2>6. A!IpAddr(a.ip, a.port) = {s}
    BY <2>2 DEF A!IpAddr, A!Through, s
  <2> QED
    BY <1>3, <2>4, <2>5, <2>6 DEF s
<1>5. CASE a.ip.v # 4
  <2>1. a.ip = [v |-> 6, word |-> a.ip.word, low |-> a.ip.low]
    BY <1>1, <1>5 DEF A!Texts
  <2>2. s = [family |-> "inet6", port |-> A!Swap(a.port), word |-> a.ip.word, low |-> a.ip.low]
    BY <1>5 DEF A!Parsed
  <2> HIDE DEF s
  <2>3. A!SockAddr(s) = [ip |-> [v |-> 6, word |-> a.ip.word, low |-> a.ip.low],
                         port |-> A!Swap(A!Swap(a.port))]
    BY <2>2 DEF A!SockAddr
  <2>4. A!SockAddr(s) = a
    BY <1>1, <1>2, <2>1, <2>3
  <2>5. s # A!None /\ s.port = A!Swap(a.port)
    BY <2>2 DEF A!None
  <2> QED
    BY <1>3, <1>5, <2>4, <2>5 DEF s
<1> QED
  BY <1>4, <1>5

\* Every address the kernel stores is such a structure.
LEMMA StoredBack ==
    ASSUME A!AddressAssumption, NEW s \in A!Storage
    PROVE  /\ A!SockAddr(s) \in A!SocketAddresses
           /\ s = A!Parsed(A!SockAddr(s).ip, A!SockAddr(s).port)
           /\ s # A!None
           /\ A!SockAddr(s).ip.v = 4 => A!IpAddr(A!SockAddr(s).ip, A!SockAddr(s).port) = {s}
<1>1. PICK a \in A!SocketAddresses : s = A!Parsed(a.ip, a.port)
  BY DEF A!Storage
<1>2. A!SockAddr(s) = a /\ s # A!None
  BY <1>1, ParsedBack
<1> QED
  BY <1>1, <1>2, ParsedBack

\* The address with another port.
LEMMA WithPort ==
    ASSUME A!AddressAssumption, NEW s \in A!Storage, NEW p \in A!Ports
    PROVE  /\ [s EXCEPT !.port = p] \in A!Storage
           /\ [s EXCEPT !.port = p].port = p
           /\ A!SockAddr([s EXCEPT !.port = p]).ip = A!SockAddr(s).ip
<1> DEFINE t == [s EXCEPT !.port = p]
<1>1. PICK a \in A!SocketAddresses : s = A!Parsed(a.ip, a.port)
  BY DEF A!Storage
<1> DEFINE b == [ip |-> a.ip, port |-> A!Swap(p)]
<1>2. A!Swap(p) \in A!Ports /\ A!Swap(A!Swap(p)) = p
  BY SwapSwaps
<1>3. b \in A!SocketAddresses /\ b.ip = a.ip /\ b.port = A!Swap(p)
  BY <1>2 DEF A!SocketAddresses
<1>4. t = A!Parsed(a.ip, A!Swap(p)) /\ t.port = p
  BY <1>1, <1>2 DEF A!Parsed
<1>5. t = A!Parsed(b.ip, b.port)
  BY <1>3, <1>4
<1> HIDE DEF t, b
<1>6. t \in A!Storage /\ A!SockAddr(t) = b
  BY <1>3, <1>5, ParsedBack
<1>7. A!SockAddr(s) = a
  BY <1>1, ParsedBack
<1> QED
  BY <1>3, <1>4, <1>6, <1>7 DEF t

\* What the kernel gives a socket that asks for an address: that one, or the same with a
\* port for port 0.
LEMMA GrantedAsAsked ==
    ASSUME A!AddressAssumption, NEW s \in A!Storage, NEW given \in A!Granted(s)
    PROVE  /\ given \in A!Storage /\ given # A!None /\ given.port # 0
           /\ A!SockAddr(given).ip = A!SockAddr(s).ip
           /\ s.port # 0 => given = s
<1>1. CASE s.port # 0
  BY <1>1, StoredBack DEF A!Granted
<1>2. CASE s.port = 0
  <2>1. PICK p \in A!Ports \ {0} : given = [s EXCEPT !.port = p]
    BY <1>2 DEF A!Granted
  <2>2. given \in A!Storage /\ given.port = p /\ A!SockAddr(given).ip = A!SockAddr(s).ip
    BY <2>1, WithPort
  <2> QED
    BY <1>2, <2>1, <2>2, StoredBack
<1> QED
  BY <1>1, <1>2

\* Without IPv6 texts every overload hands libuv the address that was meant.
LEMMA GivenAsMeant ==
    ASSUME A!AddressAssumption, ~V6Text, NEW a \in A!SocketAddresses, NEW how \in A!Overloads(a)
    PROVE  A!Given(a, how) = {A!Parsed(a.ip, a.port)}
<1>1. how = "sockaddr" \/ a.ip.v = 4
  BY DEF A!Overloads
<1> QED
  BY <1>1, ParsedBack DEF A!Given

\* bind().
LEMMA BindStep ==
    ASSUME A!AddressAssumption, ~V6Text, A!IInv, NEW h \in Handles,
           NEW a \in A!SocketAddresses, NEW how \in A!Overloads(a), A!Bind(h, a, how)
    PROVE  A!IInv'
<1> USE DEF A!IInv, A!TypeOK
<1> DEFINE s == A!Parsed(a.ip, a.port)
<1>1. PICK given \in A!Granted(s) : sock' = [sock EXCEPT ![h] = given]
  <2>1. PICK addr \in A!Given(a, how) :
          \E given \in A!Granted(addr) : sock' = [sock EXCEPT ![h] = given]
    BY DEF A!Bind
  <2>2. addr = s
    BY <2>1, GivenAsMeant
  <2> QED
    BY <2>1, <2>2
<1>2. /\ s \in A!Storage /\ A!SockAddr(s) = a /\ s.port = A!Swap(a.port)
  BY ParsedBack
<1>3. a.port \in A!Ports
  BY DEF A!SocketAddresses
<1>4. s.port = 0 => a.port = 0
  BY <1>2, <1>3, SwapSwaps
<1> HIDE DEF s
<1>5. /\ given \in A!Storage /\ given # A!None /\ given.port # 0
      /\ A!SockAddr(given).ip = a.ip /\ (s.port # 0 => given = s)
  BY <1>1, <1>2, GrantedAsAsked
<1>6. /\ sock[h] = A!None /\ asked' = [asked EXCEPT ![h] = a] /\ answer' = A!NoAnswer
      /\ UNCHANGED <<peer, told>>
  BY DEF A!Bind
<1>7. /\ sock' \in [Handles -> A!Storage \cup {A!None}] /\ sock'[h] = given
      /\ \A k \in Handles : k # h => sock'[k] = sock[k]
  BY <1>1, <1>5
<1>8. /\ asked' \in [Handles -> A!SocketAddresses \cup {A!Empty}] /\ asked'[h] = a
      /\ \A k \in Handles : k # h => asked'[k] = asked[k]
  BY <1>6
<1>9. A!TypeOK'
  <2>1. answer'.got = A!Empty
    BY <1>6 DEF A!NoAnswer
  <2>2. \A k \in Handles : sock'[k] # A!None => sock'[k].port # 0
    BY <1>5, <1>7
  <2>3. \A k \in Handles : peer'[k] # A!None => sock'[k] # A!None
    BY <1>5, <1>6, <1>7
  <2> QED
    BY <1>6, <1>7, <1>8, <2>1, <2>2, <2>3
<1>10. \A k \in Handles : told[k] # A!None => told[k].from \in Handles /\ sock[told[k].from] # A!None
  BY DEF A!KnownBySocket, A!None
<1>11. \A k \in Handles : told[k] # A!None => sock'[told[k].from] = sock[told[k].from]
  BY <1>6, <1>7, <1>10
<1>12. A!KnownBySocket'
  BY <1>5, <1>6, <1>7, <1>8, <1>10, <1>11 DEF A!KnownBySocket
<1>13. A!BoundAsAsked'
  <2>1. A!SockAddr(given).ip = a.ip /\ a.port \in {0, A!SockAddr(given).port}
    BY <1>2, <1>4, <1>5
  <2> QED
    BY <1>7, <1>8, <2>1 DEF A!AddressesTrue, A!BoundAsAsked
<1>14. A!ReplyReaches'
  BY <1>6, <1>11 DEF A!AddressesTrue, A!ReplyReaches
<1> QED
  BY <1>9, <1>12, <1>13, <1>14 DEF A!AddressesTrue

\* connect() or send(), and the other side that learns who it was.
LEMMA ReachStep ==
    ASSUME A!AddressAssumption, A!IInv, NEW h \in Handles, NEW g \in Handles,
           NEW a \in A!SocketAddresses, NEW how \in A!Overloads(a), NEW connect \in BOOLEAN,
           A!Reach(h, g, a, how, connect)
    PROVE  A!IInv'
<1> USE DEF A!IInv, A!TypeOK
<1>1. /\ sock[g] \in A!Storage /\ sock[g] # A!None
      /\ answer' = A!NoAnswer /\ asked' = asked
      /\ peer' = IF connect THEN [peer EXCEPT ![h] = sock[g]] ELSE peer
      /\ told' = [told EXCEPT ![g] = [from |-> h, addr |-> A!SockAddr(sock'[h])]]
  BY DEF A!Reach, A!Tell
<1>2. /\ sock' \in [Handles -> A!Storage \cup {A!None}]
      /\ sock'[h] \in A!Storage /\ sock'[h] # A!None /\ sock'[h].port # 0
      /\ \A k \in Handles : k # h \/ sock[h] # A!None => sock'[k] = sock[k]
  <2>1. CASE sock[h] # A!None
    BY <2>1 DEF A!Reach
  <2>2. CASE sock[h] = A!None
    <3> DEFINE s == [sock[g] EXCEPT !.port = 0]
    <3>1. PICK given \in A!Granted(s) : sock' = [sock EXCEPT ![h] = given]
      <4> HIDE DEF A!IInv, A!TypeOK
      <4> QED
        BY <2>2 DEF A!Reach
    <3>2. 0 \in A!Ports
      <4> HIDE DEF A!IInv, A!TypeOK
      <4>1. Digits \in Nat \ {0}
        BY DEF A!AddressAssumption
      <4>2. 0 \in 0..(Digits - 1)
        BY <4>1
      <4>3. 0 * Digits + 0 \in 0..(Digits * Digits - 1) /\ 0 * Digits + 0 = 0
        BY <4>1, <4>2, TwoDigits
      <4> QED
        BY <4>3 DEF A!Ports
    <3>3. s \in A!Storage
      <4> HIDE DEF A!IInv, A!TypeOK
      <4> QED
        BY <1>1, <3>2, WithPort
    <3> HIDE DEF s
    <3>4. given \in A!Storage /\ given # A!None /\ given.port # 0
      BY <3>1, <3>3, GrantedAsAsked
    <3> QED
      BY <2>2, <3>1, <3>4
  <2> QED
    BY <2>1, <2>2
<1>3. A!SockAddr(sock'[h]) \in A!SocketAddresses
  BY <1>2, StoredBack
<1>4. \A k \in Handles : told[k] # A!None => told[k].from \in Handles /\ sock[told[k].from] # A!None
  BY DEF A!KnownBySocket, A!None
<1>5. \A k \in Handles : sock[k] # A!None => sock'[k] = sock[k]
  BY <1>2
<1>6. /\ told'[g] = [from |-> h, addr |-> A!SockAddr(sock'[h])]
      /\ \A k \in Handles : k # g => told'[k] = told[k]
  BY <1>1
<1>7. A!TypeOK'
  <2>1. answer'.got = A!Empty
    BY <1>1 DEF A!NoAnswer
  <2>2. told' \in [Handles -> [from : Handles, addr : A!SocketAddresses] \cup {A!None}]
    BY <1>1, <1>3
  <2>3. \A k \in Handles : sock'[k] # A!None => sock'[k].port # 0
    BY <1>2
  <2>4. peer' \in [Handles -> A!Storage \cup {A!None}]
    BY <1>1
  <2>5. \A k \in Handles : peer'[k] # A!None => sock'[k] # A!None
    <3> SUFFICES ASSUME NEW k \in Handles, k # h, peer'[k] # A!None PROVE sock'[k] # A!None
      BY <1>2
    <3>1. peer'[k] = peer[k]
      BY <1>1
    <3> QED
      BY <1>5, <3>1
  <2> QED
    BY <1>1, <1>2, <2>1, <2>2, <2>3, <2>4, <2>5
<1>8. A!KnownBySocket'
  <2>1. \A k \in Handles : sock'[k] = A!None => asked'[k] = A!Empty
    BY <1>1, <1>5 DEF A!KnownBySocket
  <2>2. \A k \in Handles : told'[k] # A!None => sock'[told'[k].from] # A!None
    BY <1>2, <1>4, <1>5, <1>6
  <2> QED
    BY <2>1, <2>2 DEF A!KnownBySocket
<1>9. A!BoundAsAsked'
  <2>1. \A k \in Handles : asked'[k] # A!Empty =>
            asked'[k] = asked[k] /\ sock[k] # A!None /\ sock'[k] = sock[k]
    BY <1>1, <1>5 DEF A!KnownBySocket
  <2> QED
    BY <2>1 DEF A!AddressesTrue, A!BoundAsAsked
<1>10. A!ReplyReaches'
  <2> SUFFICES ASSUME NEW k \in Handles, told'[k] # A!None
               PROVE  /\ told'[k].addr = A!SockAddr(sock'[told'[k].from])
                      /\ told'[k].addr.ip.v = 4 =>
                           A!IpAddr(told'[k].addr.ip, told'[k].addr.port) = {sock'[told'[k].from]}
    BY DEF A!ReplyReaches
  <2>1. CASE k = g
    <3>1. told'[k].from = h /\ told'[k].addr = A!SockAddr(sock'[h])
      BY <1>6, <2>1
    <3> QED
      BY <1>2, <3>1, StoredBack
  <2>2. CASE k # g
    <3>1. told'[k] = told[k] /\ sock'[told[k].from] = sock[told[k].from]
      BY <1>4, <1>5, <1>6, <2>2
    <3> QED
      BY <3>1 DEF A!AddressesTrue, A!ReplyReaches
  <2> QED
    BY <2>1, <2>2
<1> QED
  BY <1>7, <1>8, <1>9, <1>10 DEF A!AddressesTrue

\* The close of a handle takes what others were told of it along.
LEMMA AddressClose ==
    ASSUME A!IInv, NEW h \in Handles, A!Close(h)
    PROVE  A!IInv'
<1> USE DEF A!IInv, A!TypeOK
<1>1. /\ sock' = [sock EXCEPT ![h] = A!None] /\ peer' = [peer EXCEPT ![h] = A!None]
      /\ asked' = [asked EXCEPT ![h] = A!Empty] /\ answer' = A!NoAnswer
      /\ told' = [g \in Handles |->
                    IF g = h \/ (told[g] # A!None /\ told[g].from = h) THEN A!None ELSE told[g]]
  BY DEF A!Close
<1>2. \A k \in Handles : told'[k] # A!None => told'[k] = told[k] /\ told[k].from # h
  BY <1>1
<1>3. \A k \in Handles : told[k] # A!None => told[k].from \in Handles
  BY DEF A!None
<1>4. \A k \in Handles : told'[k] # A!None => sock'[told'[k].from] = sock[told[k].from]
  BY <1>1, <1>2, <1>3
<1>5. A!TypeOK'
  <2>1. answer'.got = A!Empty
    BY <1>1 DEF A!NoAnswer
  <2> QED
    BY <1>1, <2>1
<1>6. A!KnownBySocket'
  BY <1>1, <1>2, <1>4 DEF A!KnownBySocket
<1>7. A!BoundAsAsked'
  BY <1>1 DEF A!AddressesTrue, A!BoundAsAsked
<1>8. A!ReplyReaches'
  BY <1>2, <1>4 DEF A!AddressesTrue, A!ReplyReaches
<1> QED
  BY <1>5, <1>6, <1>7, <1>8 DEF A!AddressesTrue

\* The invariant of the addresses.
LEMMA AddressStep ==
    ASSUME A!AddressAssumption, ~V6Text, A!IInv, A!Next
    PROVE  A!IInv'
<1>1. ASSUME NEW s \in A!Storage \cup {A!None}, s # A!None, A!Query(s) PROVE A!IInv'
  <2>1. UNCHANGED <<sock, peer, asked, told>> /\ answer'.got = A!SockAddr(s)
    BY <1>1 DEF A!Query, A!Read
  <2>2. A!SockAddr(s) \in A!SocketAddresses
    BY <1>1, StoredBack
  <2> QED
    BY <2>1, <2>2 DEF A!IInv, A!TypeOK, A!KnownBySocket, A!AddressesTrue, A!BoundAsAsked,
                      A!ReplyReaches
<1>2. \A h \in Handles : sock[h] \in A!Storage \cup {A!None} /\ peer[h] \in A!Storage \cup {A!None}
  BY DEF A!IInv, A!TypeOK
<1> QED
  BY <1>1, <1>2, BindStep, ReachStep, AddressClose DEF A!Next, A!AddressNext

LEMMA AddressInit ==
    ASSUME A!Init
    PROVE  A!IInv
BY DEF A!Init, A!IInv, A!TypeOK, A!NoAnswer, A!KnownBySocket, A!AddressesTrue, A!BoundAsAsked,
       A!ReplyReaches

-----------------------------------------------------------------------------
(* The three parts together.                                               *)

\* A part that keeps still keeps its invariant.
LEMMA PartsKept ==
    /\ I!IInv /\ UNCHANGED inVars => I!IInv'
    /\ U!IInv /\ UNCHANGED udpVars => U!IInv'
    /\ A!IInv /\ UNCHANGED addrVars => A!IInv'
<1>1. I!IInv /\ UNCHANGED inVars => I!IInv'
  BY DEF inVars, I!IInv, I!TypeOK, I!Taken, I!ServedInOrder, I!ReadEventsTrue, I!EndIsLast,
         I!ErrorIsReal
<1>2. U!IInv /\ UNCHANGED udpVars => U!IInv'
  BY DEF udpVars, U!IInv, U!TypeOK, U!DataByState, U!GoneByState, U!SendsInOrder, U!BufferState,
         U!PublishesAll
<1>3. A!IInv /\ UNCHANGED addrVars => A!IInv'
  BY DEF addrVars, A!IInv, A!TypeOK, A!KnownBySocket, A!AddressesTrue, A!BoundAsAsked, A!ReplyReaches
<1> QED
  BY <1>1, <1>2, <1>3

\* The assumptions of the parts.
LEMMA PartAssumptions ==
    I!StreamInAssumption /\ U!UdpAssumption /\ A!AddressAssumption
BY NetworkAssumption

\* The incoming side of streams (stream.h): connections are served in the order they
\* arrive in, there are no more listen events than connections, no more data events than
\* the peer has sent chunks, and the last event tells how reading ended.
THEOREM StreamInInvariance == Spec => []I!IInv
<1>1. Init => I!IInv
  BY StreamInInit, PartAssumptions DEF Init
<1>2. I!IInv /\ [Next]_vars => I!IInv'
  BY StreamInStep, PartsKept, PartAssumptions DEF Next, vars
<1> QED
  BY <1>1, <1>2, PTL DEF Spec

\* read_callback: an end event comes after everything the peer has sent, and an error
\* event stands for an error.
THEOREM ReadsEndTruly == Spec => []ReadEventsTrue
<1>1. I!IInv => ReadEventsTrue
  BY DEF I!IInv, ReadEventsTrue
<1> QED
  BY <1>1, StreamInInvariance, PTL

\* listen_callback: when a listen event is published its connection, and no other, is
\* there for accept() to take.
THEOREM AcceptSucceeds == Spec => AcceptGuaranteed
<1>1. I!IInv /\ [Next]_vars =>
        [listens' > listens => \E c \in I!Conns : I!Held' = {c} /\ at[c] = "backlog"]_(I!vars)
  BY ListenHolds DEF Next, vars, inVars, I!vars, I!cvars
<1>2. Spec => []I!IInv
  BY StreamInInvariance
<1>3. Spec => I!AcceptGuaranteed
  BY <1>1, <1>2, PTL DEF Spec, I!AcceptGuaranteed
<1> QED
  BY <1>3 DEF AcceptGuaranteed

\* A udp handle without UDP_RECVMMSG (udp.ipp): every send has its data while libuv has
\* the request, sends are answered in order, and a buffer is lent from one callback to
\* the next alone.
THEOREM UdpInvariance == ~RecvMmsg => (Spec => []U!IInv)
<1> SUFFICES ASSUME ~RecvMmsg PROVE Spec => []U!IInv
  OBVIOUS
<1>1. Init => U!IInv
  BY UdpInit, PartAssumptions DEF Init
<1>2. U!IInv /\ [Next]_vars => U!IInv'
  BY UdpStep, PartsKept, PartAssumptions DEF Next, vars
<1> QED
  BY <1>1, <1>2, PTL DEF Spec

\* Then every datagram is accounted for: data and buffers destroyed once, every datagram
\* received published, and every send answered truly and in order.
THEOREM NoDatagramForgotten == ~RecvMmsg => (Spec => []DatagramsAccounted)
<1> SUFFICES ASSUME ~RecvMmsg PROVE Spec => []DatagramsAccounted
  OBVIOUS
<1>1. U!IInv => DatagramsAccounted
  BY UdpIsSafe, PartAssumptions DEF DatagramsAccounted
<1>2. Spec => []U!IInv
  BY UdpInvariance
<1> QED
  BY <1>1, <1>2, PTL

\* The addresses of handles (util.ipp: ip_addr, sock_addr), if IPv6 addresses are given
\* as structures: a socket has a port, and nobody is told of a handle that has none.
THEOREM AddressInvariance == ~V6Text => (Spec => []A!IInv)
<1> SUFFICES ASSUME ~V6Text PROVE Spec => []A!IInv
  OBVIOUS
<1>1. Init => A!IInv
  BY AddressInit DEF Init
<1>2. A!IInv /\ [Next]_vars => A!IInv'
  BY AddressStep, PartsKept, PartAssumptions DEF Next, vars
<1> QED
  BY <1>1, <1>2, PTL DEF Spec

\* Then a handle is where it was bound to, whichever overload was used, and the address a
\* handle is told leads back to its peer: the conversions undo each other for every
\* address and port.
THEOREM AddressesSurvive == ~V6Text => (Spec => []AddressesTrue)
<1> SUFFICES ASSUME ~V6Text PROVE Spec => []AddressesTrue
  OBVIOUS
<1>1. A!IInv => AddressesTrue
  BY DEF A!IInv, AddressesTrue
<1>2. Spec => []A!IInv
  BY AddressInvariance
<1> QED
  BY <1>1, <1>2, PTL

\* The three invariants together, which the run checks on its instance.
THEOREM NetworkInvariance == ~RecvMmsg /\ ~V6Text => (Spec => []IInv)
<1> SUFFICES ASSUME ~RecvMmsg, ~V6Text PROVE Spec => []IInv
  OBVIOUS
<1>1. Spec => []I!IInv /\ []U!IInv /\ []A!IInv
  BY StreamInInvariance, UdpInvariance, AddressInvariance
<1>2. I!IInv /\ U!IInv /\ A!IInv => IInv
  BY DEF IInv
<1> QED
  BY <1>1, <1>2, PTL
=============================================================================
