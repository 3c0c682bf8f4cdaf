------------------------- MODULE EventHandlesProofs -------------------------
(***************************************************************************)
(* Proofs about the handles that wait for events of the loop, of the clock *)
(* and of the system (EventLoop, Timer, Signal, Poll), for any sets of     *)
(* handles, delays, signals and flags, and any bounds.                     *)
(***************************************************************************)
EXTENDS MCEventHandles, Integers, Sequences, FiniteSets, FunctionTheorems,
        FiniteSetTheorems, TLAPS

-----------------------------------------------------------------------------
(* Poll handles.                                                           *)

LEMMA PollInit ==
    ASSUME P!Init
    PROVE  P!IInv
BY DEF P!Init, P!IInv, P!TypeOK, P!ReportAsked

\* User calls drop what was reported for the flags they replace.
LEMMA PollUser ==
    ASSUME P!IInv, P!UserNext
    PROVE  P!IInv'
<1> USE DEF P!IInv, P!TypeOK, P!ReportAsked, P!Watched
<1>1. CASE P!Stop
  BY <1>1 DEF P!Stop
<1>2. CASE P!Close
  BY <1>2 DEF P!Close
<1>3. ASSUME NEW f \in SUBSET Flags \ {{}}, P!Start(f) PROVE P!IInv'
  BY <1>3 DEF P!Start
<1> QED
  BY <1>1, <1>2, <1>3 DEF P!UserNext

\* The invariant of a poll handle.
LEMMA PollStep ==
    ASSUME P!IInv, P!Next
    PROVE  P!IInv'
<1> USE DEF P!IInv, P!TypeOK, P!ReportAsked, P!Watched
<1>1. ASSUME NEW c \in SUBSET Flags \cup {{P!BadDescriptor}}, P!Change(c) PROVE P!IInv'
  BY <1>1 DEF P!Change
<1>2. CASE P!Poll
  BY <1>2 DEF P!Poll
<1>3. CASE P!StartCallback
  BY <1>3 DEF P!StartCallback
<1>4. CASE P!CloseCallback
  BY <1>4 DEF P!CloseCallback
<1> QED
  BY <1>1, <1>2, <1>3, <1>4, PollUser DEF P!Next

\* Only start_callback publishes, and it publishes the report.
LEMMA PollPublishes ==
    ASSUME P!IInv, P!Next, report # {}, report' = {}, event' # event
    PROVE  event' \subseteq wanted \cup {P!BadDescriptor}
<1>1. event' = report
  BY DEF P!Next, P!UserNext, P!Start, P!Stop, P!Close, P!Change, P!Poll, P!StartCallback,
         P!CloseCallback
<1> QED
  BY <1>1 DEF P!IInv, P!ReportAsked

-----------------------------------------------------------------------------
(* Timers.                                                                 *)

LEMMA TimerInit ==
    ASSUME T!TimerAssumption, T!Init
    PROVE  T!IInv
BY DEF T!TimerAssumption, T!Init, T!IInv, T!TypeOK, T!DueAsAsked, T!SingleState

\* The times a timer is scheduled with.
LEMMA TimerValues ==
    ASSUME T!TimerAssumption, T!IInv, NEW t \in Timers
    PROVE  T!Never \in Nat /\ now \in Nat /\ rep[t] \in Nat /\ now + rep[t] \in Nat
<1>1. T!Never \in Nat /\ now \in Nat
  BY DEF T!TimerAssumption, T!Never, T!IInv, T!TypeOK
<1>2. rep[t] \in Delays \cup {0}
  BY DEF T!IInv, T!TypeOK
<1>3. rep[t] \in Nat
  <2>1. CASE rep[t] \in Delays
    BY <2>1 DEF T!TimerAssumption
  <2>2. CASE rep[t] = 0
    BY <2>2
  <2> QED
    BY <1>2, <2>1, <2>2
<1> QED
  BY <1>1, <1>3

\* A timer that is started, or started again, is due when it was asked for.
LEMMA TimerSchedules ==
    ASSUME T!TimerAssumption, T!IInv, NEW t \in Timers,
           (\E d, r \in Delays : T!Start(t, d, r)) \/ T!Again(t)
    PROVE  T!IInv'
<1> USE DEF T!TimerAssumption, T!IInv, T!Schedule
<1>1. ASSUME NEW d \in Delays, NEW r \in Delays, T!Start(t, d, r) PROVE T!IInv'
  <2>1. T!TypeOK'
    BY <1>1 DEF T!Start, T!TypeOK
  <2>2. T!DueAsAsked'
    BY <1>1 DEF T!Start, T!TypeOK, T!DueAsAsked
  <2>3. T!SingleState'
    BY <1>1 DEF T!Start, T!TypeOK, T!SingleState
  <2> QED
    BY <2>1, <2>2, <2>3
<1>2. CASE T!Again(t) /\ rep[t] # 0
  <2>0. rep[t] \in Nat /\ now + rep[t] \in Nat
    BY TimerValues
  <2>1. /\ heap' = heap \cup {t} /\ ready' = ready \ {t} /\ t \in open
        /\ due' = [due EXCEPT ![t] = now + rep[t]]
        /\ before' = [before EXCEPT ![t] = now + rep[t]]
        /\ UNCHANGED <<clock, now, turn, open, rep, started, single, shots, emitted>>
    BY <1>2 DEF T!Again, T!HeapAfterAgain
  <2>2. T!TypeOK'
    BY <2>0, <2>1 DEF T!TypeOK
  <2>3. T!DueAsAsked'
    <3>1. due'[t] = before'[t] /\ due'[t] \in Nat
      BY <2>0, <2>1 DEF T!TypeOK
    <3>2. \A u \in Timers \ {t} : due'[u] = due[u] /\ before'[u] = before[u]
      BY <2>1 DEF T!TypeOK
    <3> QED
      BY <2>1, <3>1, <3>2 DEF T!TypeOK, T!DueAsAsked
  <2>4. T!SingleState'
    BY <1>2, <2>1 DEF T!TypeOK, T!SingleState
  <2> QED
    BY <2>2, <2>3, <2>4
<1>3. CASE T!Again(t) /\ rep[t] = 0
  <2>1. UNCHANGED <<clock, now, turn, open, heap, ready, due, rep, started, before, single, shots,
                    emitted>>
    BY <1>3 DEF T!Again, T!HeapAfterAgain
  <2> QED
    BY <2>1 DEF T!TypeOK, T!DueAsAsked, T!SingleState
<1> QED
  BY <1>1, <1>2, <1>3

\* The other user calls.
LEMMA TimerUser ==
    ASSUME T!TimerAssumption, T!IInv, T!UserNext
    PROVE  T!IInv'
<1> USE DEF T!TimerAssumption, T!IInv
<1>1. ASSUME NEW t \in Timers, T!Stop(t) \/ T!Close(t) PROVE T!IInv'
  <2>1. T!Never \in Nat
    BY DEF T!Never
  <2>2. T!TypeOK'
    BY <1>1, <2>1 DEF T!Stop, T!Close, T!TypeOK
  <2>3. T!DueAsAsked'
    BY <1>1 DEF T!Stop, T!Close, T!TypeOK, T!DueAsAsked
  <2>4. T!SingleState'
    BY <1>1 DEF T!Stop, T!Close, T!TypeOK, T!SingleState
  <2> QED
    BY <2>2, <2>3, <2>4
<1>2. ASSUME NEW t \in Timers, NEW v \in Delays, T!Repeat(t, v) PROVE T!IInv'
  BY <1>2 DEF T!Repeat, T!TypeOK, T!DueAsAsked, T!SingleState
<1>3. CASE T!Update
  BY <1>3 DEF T!Update, T!TypeOK, T!DueAsAsked, T!SingleState, T!uvars
<1> QED
  BY <1>1, <1>2, <1>3, TimerSchedules DEF T!UserNext

\* start_callback keeps the invariant: it was the timer's only event, or the
\* next one is a repeat value away.
LEMMA TimerCallback ==
    ASSUME T!TimerAssumption, T!IInv, NEW t \in Timers, T!StartCallback(t)
    PROVE  T!IInv'
<1> USE DEF T!TimerAssumption, T!IInv
<1>1. T!Never \in Nat /\ now \in Nat /\ rep[t] \in Nat /\ now + rep[t] \in Nat
  BY TimerValues
<1>2. shots' \in [Timers -> 0..2] /\ (shots[t] = 0 => shots'[t] = 1)
  BY DEF T!StartCallback, T!TypeOK
<1>3. T!TypeOK'
  <2>1. due' \in [Timers -> Nat] /\ before' \in [Timers -> Nat]
    BY <1>1 DEF T!StartCallback, T!TypeOK
  <2> QED
    BY <1>2, <2>1 DEF T!StartCallback, T!TypeOK
<1>4. T!DueAsAsked'
  <2>1. t \in heap' => due'[t] = before'[t] /\ due'[t] \in Nat
    BY <1>1 DEF T!StartCallback, T!TypeOK
  <2>2. \A u \in Timers \ {t} : due'[u] = due[u] /\ before'[u] = before[u]
    BY DEF T!StartCallback, T!TypeOK
  <2>3. heap' \subseteq heap \cup {t} /\ ready' = ready \ {t} /\ emitted' = emitted \cup {t}
    BY DEF T!StartCallback
  <2> QED
    BY <2>1, <2>2, <2>3 DEF T!StartCallback, T!TypeOK, T!DueAsAsked
<1>5. T!SingleState'
  BY <1>2 DEF T!StartCallback, T!TypeOK, T!SingleState
<1> QED
  BY <1>3, <1>4, <1>5

\* The invariant of the timers.
LEMMA TimerStep ==
    ASSUME T!TimerAssumption, T!IInv, T!Next
    PROVE  T!IInv'
<1> USE DEF T!TimerAssumption, T!IInv
<1>1. CASE T!Tick
  BY <1>1 DEF T!Tick, T!TypeOK, T!DueAsAsked, T!SingleState, T!uvars
<1>2. CASE T!RunTimers
  <2>1. T!TypeOK'
    BY <1>2 DEF T!RunTimers, T!TypeOK, T!uvars
  <2>2. T!DueAsAsked'
    BY <1>2 DEF T!RunTimers, T!TypeOK, T!DueAsAsked, T!uvars
  <2>3. T!SingleState'
    BY <1>2 DEF T!RunTimers, T!TypeOK, T!SingleState, T!uvars
  <2> QED
    BY <2>1, <2>2, <2>3
<1>3. CASE T!EndTimers
  BY <1>3 DEF T!EndTimers, T!TypeOK, T!DueAsAsked, T!SingleState, T!uvars
<1> QED
  BY <1>1, <1>2, <1>3, TimerUser, TimerCallback DEF T!Next, T!LoopNext

\* Only start_callback publishes, and only for a timer of the list.
LEMMA TimerPublishes ==
    ASSUME T!TimerAssumption, T!IInv, T!Next
    PROVE  /\ \A t \in emitted' \ emitted : t \in ready
           /\ \A t \in Timers : shots'[t] > shots[t] => t \in ready
<1> DEFINE Published == /\ \A t \in emitted' \ emitted : t \in ready
                        /\ \A t \in Timers : shots'[t] > shots[t] => t \in ready
<1>1. shots \in [Timers -> 0..2]
  BY DEF T!IInv, T!TypeOK
<1>2. \A t \in Timers : ~(shots[t] > shots[t])
  BY <1>1
<1>3. ASSUME NEW t \in Timers, T!StartCallback(t) PROVE Published
  <2>1. t \in ready /\ emitted' = emitted \cup {t} /\ \A u \in Timers \ {t} : shots'[u] = shots[u]
    BY <1>1, <1>3 DEF T!StartCallback
  <2> QED
    BY <1>2, <2>1
<1>4. ASSUME NEW t \in Timers, NEW d \in Delays, NEW r \in Delays, T!Start(t, d, r)
      PROVE  Published
  <2>1. emitted' = emitted /\ shots'[t] = 0 /\ \A u \in Timers \ {t} : shots'[u] = shots[u]
    BY <1>1, <1>4 DEF T!Start
  <2> QED
    BY <1>1, <1>2, <2>1
<1>5. ASSUME T!RunTimers PROVE Published
  <2>1. emitted' = {} /\ shots' = shots
    BY <1>5 DEF T!RunTimers, T!uvars
  <2> QED
    BY <1>2, <2>1
<1>6. ASSUME \/ \E t \in Timers : T!Stop(t) \/ T!Again(t) \/ T!Close(t)
             \/ \E t \in Timers, v \in Delays : T!Repeat(t, v)
             \/ T!Update \/ T!Tick \/ T!EndTimers
      PROVE  Published
  <2>1. UNCHANGED <<emitted, shots>>
    BY <1>6 DEF T!Stop, T!Again, T!Close, T!Repeat, T!Update, T!Tick, T!EndTimers, T!uvars
  <2> QED
    BY <1>2, <2>1
<1> HIDE DEF Published
<1>7. Published
  BY <1>3, <1>4, <1>5, <1>6 DEF T!Next, T!UserNext, T!LoopNext
<1> QED
  BY <1>7 DEF Published

\* The actions of the timers' properties, from the invariant.
LEMMA TimerIsSafe ==
    ASSUME T!TimerAssumption, T!IInv
    PROVE  /\ T!SingleShot
           /\ \A t \in heap : before[t] <= now + T!DueIn(t)
           /\ \A t \in ready : t \in open /\ before[t] <= now /\ t \notin emitted
BY DEF T!IInv, T!TypeOK, T!DueAsAsked, T!SingleState, T!SingleShot, T!DueIn

-----------------------------------------------------------------------------
(* Counting in a sequence.                                                 *)

\* Where x is in the sequence q.
Places(q, x) == {k \in 1..Len(q) : q[k] = x}

\* The operator an instance brings along is that of FiniteSets.
LEMMA SameCount == \A X : S!Cardinality(X) = Cardinality(X)
BY DEF S!Cardinality, S!IsFiniteSet, Cardinality, IsFiniteSet

\* There are at most as many places as elements.
LEMMA PlacesFinite ==
    ASSUME NEW X, NEW q \in Seq(X), NEW x
    PROVE  IsFiniteSet(Places(q, x)) /\ Cardinality(Places(q, x)) \in 0..Len(q)
<1>1. Len(q) \in Nat
  OBVIOUS
<1>2. IsFiniteSet(1..Len(q)) /\ Cardinality(1..Len(q)) = Len(q)
  <2> DEFINE n == Len(q)
  <2>1. 1 \in Int /\ n \in Int
    BY <1>1
  <2> HIDE DEF n
  <2>2. IsFiniteSet(1..n) /\ Cardinality(1..n) = IF 1 > n THEN 0 ELSE n - 1 + 1
    BY <2>1, FS_Interval, Zenon
  <2>3. (IF 1 > n THEN 0 ELSE n - 1 + 1) = n
    BY <1>1 DEF n
  <2> QED
    BY <2>2, <2>3 DEF n
<1>3. Places(q, x) \in SUBSET (1..Len(q))
  BY DEF Places
<1>4. IsFiniteSet(Places(q, x)) /\ Cardinality(Places(q, x)) <= Cardinality(1..Len(q))
  BY <1>2, <1>3, FS_Subset
<1>5. Cardinality(Places(q, x)) \in Nat
  BY <1>4, FS_CardinalityType
<1> QED
  BY <1>1, <1>2, <1>4, <1>5

\* A new last element has one place more, the others keep theirs.
LEMMA PlacesAppend ==
    ASSUME NEW X, NEW q \in Seq(X), NEW y \in X
    PROVE  /\ Cardinality(Places(Append(q, y), y)) = Cardinality(Places(q, y)) + 1
           /\ \A x : x # y => Places(Append(q, y), x) = Places(q, x)
<1>1. /\ Len(q) \in Nat /\ Len(Append(q, y)) = Len(q) + 1
      /\ Append(q, y)[Len(q) + 1] = y
      /\ \A k \in 1..Len(q) : Append(q, y)[k] = q[k]
  OBVIOUS
<1>2. Places(Append(q, y), y) = Places(q, y) \cup {Len(q) + 1}
  BY <1>1 DEF Places
<1>3. Len(q) + 1 \notin Places(q, y)
  BY <1>1 DEF Places
<1>4. Cardinality(Places(q, y) \cup {Len(q) + 1}) = Cardinality(Places(q, y)) + 1
  BY <1>3, PlacesFinite, FS_AddElement
<1>5. \A x : x # y => Places(Append(q, y), x) = Places(q, x)
  BY <1>1 DEF Places
<1> QED
  BY <1>2, <1>4, <1>5

\* Without its first element a sequence has the places of the others, one lower.
LEMMA PlacesShift ==
    ASSUME NEW X, NEW q \in Seq(X), q # <<>>, NEW x
    PROVE  Cardinality(Places(Tail(q), x)) = Cardinality(Places(q, x) \ {1})
<1> DEFINE down == [k \in Places(q, x) \ {1} |-> k - 1]
<1>1. /\ Len(q) \in Nat \ {0} /\ Len(Tail(q)) = Len(q) - 1
      /\ \A k \in 1..(Len(q) - 1) : Tail(q)[k] = q[k + 1]
  OBVIOUS
<1>2. \A k \in Places(q, x) \ {1} : k \in 2..Len(q) /\ k - 1 \in Places(Tail(q), x)
  BY <1>1 DEF Places
<1>3. \A j \in Places(Tail(q), x) : j + 1 \in Places(q, x) \ {1} /\ j \in Nat
  BY <1>1 DEF Places
<1>4. \A j \in Places(Tail(q), x) : down[j + 1] = j
  BY <1>3
<1>5. down \in [Places(q, x) \ {1} -> Places(Tail(q), x)]
  BY <1>2
<1>6. \A a, b \in Places(q, x) \ {1} : down[a] = down[b] => a = b
  BY <1>2
<1>7. ExistsBijection(Places(q, x) \ {1}, Places(Tail(q), x))
  <2> HIDE DEF down
  <2>1. \A j \in Places(Tail(q), x) : \E k \in Places(q, x) \ {1} : down[k] = j
    BY <1>3, <1>4
  <2>2. down \in Bijection(Places(q, x) \ {1}, Places(Tail(q), x))
    BY <1>5, <1>6, <2>1, Fun_IsBij
  <2> QED
    BY <2>2 DEF ExistsBijection
<1>8. IsFiniteSet(Places(q, x) \ {1})
  BY PlacesFinite, FS_RemoveElement
<1> QED
  BY <1>7, <1>8, FS_Bijection

\* Taking the first element away takes one place from it and none from others.
LEMMA PlacesTail ==
    ASSUME NEW X, NEW q \in Seq(X), q # <<>>
    PROVE  /\ Cardinality(Places(Tail(q), Head(q))) = Cardinality(Places(q, Head(q))) - 1
           /\ \A x : x # Head(q) => Cardinality(Places(Tail(q), x)) = Cardinality(Places(q, x))
<1>1. 1 \in Places(q, Head(q))
  BY DEF Places
<1>2. \A x : x # Head(q) => 1 \notin Places(q, x)
  BY DEF Places
<1>3. Cardinality(Places(q, Head(q)) \ {1}) = Cardinality(Places(q, Head(q))) - 1
  BY <1>1, PlacesFinite, FS_RemoveElement
<1>4. \A x : x # Head(q) => Cardinality(Places(q, x) \ {1}) = Cardinality(Places(q, x))
  BY <1>2, PlacesFinite, FS_RemoveElement
<1> QED
  BY <1>3, <1>4, PlacesShift

-----------------------------------------------------------------------------
(* A signal handle.                                                        *)

\* c counts what is in the pipe q, after e events for r signals raised.
Counted(q, c, e, r) ==
    /\ \A s \in Signals : c[s] = Cardinality(Places(q, s))
    /\ Len(q) + e <= r

\* So the signals caught are counted.
LEMMA CaughtCounts ==
    /\ S!CaughtInPipe <=> Counted(pipe, caught, events, raised)
    /\ S!CaughtInPipe' <=> Counted(pipe', caught', events', raised')
<1>1. \A s : S!Messages(s) = Places(pipe, s) /\ S!Messages(s)' = Places(pipe', s)
  BY DEF S!Messages, Places
<1> QED
  BY <1>1, SameCount DEF S!CaughtInPipe, Counted

\* What is counted is never less than nothing, nor more than was raised.
LEMMA CountBounds ==
    ASSUME S!SignalAssumption,
           NEW q \in Seq(Signals), NEW c, DOMAIN c = Signals, NEW e \in Nat, NEW r \in 0..MaxRaised,
           Counted(q, c, e, r)
    PROVE  /\ Len(q) <= MaxRaised /\ e \in 0..MaxRaised
           /\ \A s \in Signals : c[s] \in 0..MaxRaised
<1>1. Len(q) \in Nat /\ Len(q) <= MaxRaised /\ e <= MaxRaised
  BY DEF S!SignalAssumption, Counted
<1>2. \A s \in Signals : c[s] \in 0..Len(q)
  BY PlacesFinite DEF Counted
<1> QED
  BY <1>1, <1>2 DEF S!SignalAssumption

LEMMA SignalInit ==
    ASSUME S!SignalAssumption, S!Init
    PROVE  S!IInv
<1>1. \A s : Places(<<>>, s) = {}
  BY DEF Places
<1>2. \A s \in Signals : Cardinality(Places(pipe, s)) = 0
  BY <1>1, FS_EmptySet DEF S!Init
<1>3. S!CaughtInPipe
  <2>1. Len(pipe) + events <= raised /\ \A s \in Signals : caught[s] = 0
    BY DEF S!Init
  <2> QED
    BY <1>2, <2>1, CaughtCounts DEF Counted
<1>4. S!TypeOK
  <2>1. caught \in [Signals -> -1..MaxRaised] /\ raised \in 0..MaxRaised /\ starts \in 0..MaxStarts
    BY DEF S!SignalAssumption, S!Init
  <2>2. pipe \in Seq(Signals) /\ Len(pipe) <= MaxRaised
    BY DEF S!SignalAssumption, S!Init
  <2> QED
    BY <2>1, <2>2 DEF S!SignalAssumption, S!Init, S!TypeOK, S!None
<1> QED
  BY <1>3, <1>4 DEF S!Init, S!IInv, S!ArmedOnce

\* start() and one_shot() arm the handle, or leave it as it was armed.
LEMMA SignalArm ==
    ASSUME S!SignalAssumption, S!IInv, NEW s \in Signals, S!Start(s) \/ S!OneShot(s)
    PROVE  S!IInv'
<1>1. UNCHANGED <<signal, pipe, inside, raised, caught>> /\ signal = "open"
  BY DEF S!Start, S!OneShot
<1>2. /\ signum' = s /\ events' = 0 /\ starts' \in 0..MaxStarts
      /\ oneshot' \in BOOLEAN /\ once' \in BOOLEAN /\ ignored' \in BOOLEAN
      /\ once' /\ ~ignored' => oneshot'
  <2>1. CASE signum = s
    <3>1. UNCHANGED <<signum, oneshot, starts>> /\ events' = 0
      BY <2>1 DEF S!Start, S!OneShot, S!UvStart
    <3>2. /\ once' \in BOOLEAN /\ ignored' \in BOOLEAN
          /\ once' /\ ~ignored' => once /\ ~ignored
      BY <2>1, Zenon DEF S!Start, S!OneShot
    <3>3. once /\ ~ignored => oneshot
      BY DEF S!IInv, S!ArmedOnce
    <3>4. oneshot \in BOOLEAN /\ starts \in 0..MaxStarts
      BY DEF S!IInv, S!TypeOK
    <3> QED
      BY <2>1, <3>1, <3>2, <3>3, <3>4
  <2>2. CASE signum # s
    <3>1. signum' = s /\ events' = 0 /\ starts' = starts + 1 /\ starts < MaxStarts
      BY <2>2 DEF S!Start, S!OneShot, S!UvStart
    <3>2. starts' \in 0..MaxStarts
      BY <3>1 DEF S!SignalAssumption, S!IInv, S!TypeOK
    <3>3. oneshot \in BOOLEAN
      BY DEF S!IInv, S!TypeOK
    <3>4. CASE S!Start(s)
      <4>1. oneshot' \in {FALSE, FALSE \/ oneshot} /\ once' = FALSE /\ ignored' = FALSE
        BY <2>2, <3>4, Zenon DEF S!Start, S!UvStart
      <4>2. oneshot' \in BOOLEAN /\ once' \in BOOLEAN /\ ignored' \in BOOLEAN /\ ~once'
        BY <3>3, <4>1
      <4> QED
        BY <3>1, <3>2, <4>2
    <3>5. CASE S!OneShot(s)
      <4>1. oneshot' \in {TRUE, TRUE \/ oneshot} /\ once' = TRUE
        BY <2>2, <3>5, Zenon DEF S!OneShot, S!UvStart
      <4>2. ignored' = FALSE
        BY <2>2, <3>5, Zenon DEF S!OneShot
      <4>3. oneshot' = TRUE
        BY <4>1
      <4> QED
        BY <3>1, <3>2, <4>1, <4>2, <4>3
    <3> QED
      BY <3>4, <3>5
  <2> QED
    BY <2>1, <2>2
<1>3. S!CaughtInPipe'
  <2>1. pipe \in Seq(Signals) /\ events \in Nat /\ raised \in Int
    BY DEF S!IInv, S!TypeOK
  <2>2. Len(pipe) + events' <= raised
    BY <1>2, <2>1, CaughtCounts DEF S!IInv, Counted
  <2> QED
    BY <1>1, <2>2 DEF S!IInv, S!CaughtInPipe, S!Messages
<1>4. S!TypeOK'
  BY <1>1, <1>2 DEF S!SignalAssumption, S!IInv, S!TypeOK
<1>5. S!ArmedOnce'
  BY <1>2 DEF S!ArmedOnce
<1> QED
  BY <1>3, <1>4, <1>5 DEF S!IInv

\* The steps that leave the messages alone.
LEMMA SignalQuiet ==
    ASSUME S!SignalAssumption, S!IInv,
           S!Stop \/ S!Close \/ S!StartCallbackReturns \/ S!CloseCallback
    PROVE  S!IInv'
<1>1. UNCHANGED <<pipe, raised, starts, once, ignored, caught, events, oneshot>>
  BY DEF S!Stop, S!Close, S!StartCallbackReturns, S!CloseCallback
<1>2. S!CaughtInPipe'
  BY <1>1 DEF S!IInv, S!CaughtInPipe, S!Messages
<1>3. S!TypeOK'
  BY <1>1 DEF S!Stop, S!Close, S!StartCallbackReturns, S!AfterMessage, S!CloseCallback, S!IInv,
              S!TypeOK, S!None
<1>4. S!ArmedOnce'
  BY <1>1 DEF S!Stop, S!Close, S!StartCallbackReturns, S!AfterMessage, S!CloseCallback, S!IInv,
              S!ArmedOnce
<1> QED
  BY <1>2, <1>3, <1>4 DEF S!IInv

\* A step that counts right keeps the types of what it counts.
LEMMA SignalTypes ==
    ASSUME S!SignalAssumption, raised' \in 0..MaxRaised,
           pipe' \in Seq(Signals), caught' \in [Signals -> Int], events' \in Nat, S!CaughtInPipe'
    PROVE  /\ Len(pipe') <= MaxRaised /\ events' \in 0..MaxRaised
           /\ caught' \in [Signals -> -1..MaxRaised]
<1>1. /\ Len(pipe') <= MaxRaised /\ events' \in 0..MaxRaised
      /\ \A s \in Signals : caught'[s] \in 0..MaxRaised
  BY CaughtCounts, CountBounds
<1> QED
  BY <1>1 DEF S!SignalAssumption

\* A signal that is caught adds a message.
LEMMA SignalRaise ==
    ASSUME S!SignalAssumption, S!IInv, NEW s \in Signals, S!Raise(s)
    PROVE  S!IInv'
<1>1. /\ UNCHANGED <<signal, signum, oneshot, inside, starts, once, ignored, events>>
      /\ raised' = raised + 1 /\ raised' \in 0..MaxRaised
  BY DEF S!SignalAssumption, S!Raise, S!IInv, S!TypeOK
<1>2. /\ pipe \in Seq(Signals) /\ Len(pipe) \in Nat /\ events \in Nat /\ raised \in Nat
      /\ caught \in [Signals -> Int]
  BY DEF S!SignalAssumption, S!IInv, S!TypeOK
<1>3. /\ pipe' \in Seq(Signals) /\ caught' \in [Signals -> Int]
      /\ S!CaughtInPipe'
  <2>1. CASE signum = s
    <3>1. pipe' = Append(pipe, s) /\ caught' = [caught EXCEPT ![s] = @ + 1]
      BY <2>1 DEF S!Raise
    <3>2. pipe' \in Seq(Signals) /\ caught' \in [Signals -> Int] /\ Len(pipe') = Len(pipe) + 1
      BY <1>2, <3>1
    <3>3. \A u \in Signals : caught'[u] = Cardinality(Places(pipe', u))
      <4>1. \A u \in Signals : caught[u] = Cardinality(Places(pipe, u))
        BY CaughtCounts DEF S!IInv, Counted
      <4>2. /\ Cardinality(Places(pipe', s)) = Cardinality(Places(pipe, s)) + 1
            /\ \A u \in Signals \ {s} : Cardinality(Places(pipe', u)) = Cardinality(Places(pipe, u))
        BY <1>2, <3>1, PlacesAppend
      <4> QED
        BY <1>2, <3>1, <4>1, <4>2
    <3>4. Len(pipe') + events' <= raised'
      BY <1>1, <1>2, <3>2, CaughtCounts DEF S!IInv, Counted
    <3> QED
      BY <3>2, <3>3, <3>4, CaughtCounts DEF Counted
  <2>2. CASE signum # s
    <3>1. UNCHANGED <<pipe, caught>>
      BY <2>2 DEF S!Raise
    <3>2. Len(pipe) + events <= raised'
      BY <1>1, <1>2, CaughtCounts DEF S!IInv, Counted
    <3> QED
      BY <1>1, <1>2, <3>1, <3>2 DEF S!IInv, S!CaughtInPipe, S!Messages
  <2> QED
    BY <2>1, <2>2
<1>4. S!TypeOK'
  BY <1>1, <1>2, <1>3, SignalTypes DEF S!IInv, S!TypeOK
<1>5. S!ArmedOnce'
  BY <1>1 DEF S!IInv, S!ArmedOnce
<1> QED
  BY <1>3, <1>4, <1>5 DEF S!IInv

\* The next message: its signal is the one monitored, or it is skipped.
LEMMA SignalOfMessage ==
    ASSUME S!SignalAssumption, S!IInv, pipe # <<>>
    PROVE  /\ Head(pipe) \in Signals
           /\ S!SignalOf # S!None => S!SignalOf = Head(pipe) /\ signum = Head(pipe)
BY DEF S!SignalAssumption, S!IInv, S!TypeOK, S!SignalOf

\* A message that is read is not counted any more.
LEMMA SignalRead ==
    ASSUME S!SignalAssumption, S!IInv, pipe # <<>>, pipe' = Tail(pipe),
           caught' = [caught EXCEPT ![Head(pipe)] = @ - 1],
           events' \in {events, events + 1}, raised' = raised
    PROVE  /\ pipe' \in Seq(Signals) /\ caught' \in [Signals -> Int] /\ events' \in Nat
           /\ S!CaughtInPipe'
<1>1. /\ pipe \in Seq(Signals) /\ Len(pipe) \in Nat /\ events \in Nat /\ raised \in Nat
      /\ caught \in [Signals -> Int]
  BY DEF S!SignalAssumption, S!IInv, S!TypeOK
<1>2. /\ pipe' \in Seq(Signals) /\ Len(pipe') = Len(pipe) - 1 /\ Head(pipe) \in Signals
      /\ caught' \in [Signals -> Int] /\ events' \in Nat
  BY <1>1
<1>3. \A u \in Signals : caught'[u] = Cardinality(Places(pipe', u))
  <2>1. \A u \in Signals : caught[u] = Cardinality(Places(pipe, u))
    BY CaughtCounts DEF S!IInv, Counted
  <2>2. /\ Cardinality(Places(pipe', Head(pipe))) = Cardinality(Places(pipe, Head(pipe))) - 1
        /\ \A u : u # Head(pipe) => Cardinality(Places(pipe', u)) = Cardinality(Places(pipe, u))
    BY <1>1, PlacesTail
  <2> QED
    BY <1>1, <1>2, <2>1, <2>2
<1>4. Len(pipe') + events' <= raised'
  BY <1>1, <1>2, CaughtCounts DEF S!IInv, Counted
<1> QED
  BY <1>2, <1>3, <1>4, CaughtCounts DEF Counted

\* The invariant of a signal handle.
LEMMA SignalStep ==
    ASSUME S!SignalAssumption, S!IInv, S!Next
    PROVE  S!IInv'
<1>1. CASE S!StartCallback
  <2>1. /\ UNCHANGED <<signal, signum, oneshot, raised, starts, once, ignored>>
        /\ ~inside /\ inside' = TRUE /\ events' = events + 1
        /\ pipe # <<>> /\ pipe' = Tail(pipe)
        /\ S!SignalOf # S!None /\ caught' = [caught EXCEPT ![S!SignalOf] = @ - 1]
    BY <1>1 DEF S!StartCallback
  <2>2. S!SignalOf = Head(pipe) /\ signum = Head(pipe) /\ signum # S!None
    BY <2>1, SignalOfMessage DEF S!SignalAssumption
  <2>3. pipe' \in Seq(Signals) /\ caught' \in [Signals -> Int] /\ events' \in Nat /\ S!CaughtInPipe'
    BY <2>1, <2>2, SignalRead
  <2>4. S!TypeOK'
    BY <2>1, <2>3, SignalTypes DEF S!IInv, S!TypeOK
  <2>5. S!ArmedOnce'
    BY <2>1, <2>2 DEF S!IInv, S!TypeOK, S!ArmedOnce
  <2> QED
    BY <2>3, <2>4, <2>5 DEF S!IInv
<1>2. CASE S!Skip
  <2>1. /\ UNCHANGED <<signal, oneshot, inside, raised, starts, once, ignored, events>>
        /\ pipe # <<>> /\ pipe' = Tail(pipe)
        /\ caught' = [caught EXCEPT ![Head(pipe)] = @ - 1]
        /\ signum' \in {signum, S!None}
    BY <1>2 DEF S!Skip, S!AfterMessage
  <2>2. pipe' \in Seq(Signals) /\ caught' \in [Signals -> Int] /\ events' \in Nat /\ S!CaughtInPipe'
    BY <2>1, SignalRead
  <2>3. S!TypeOK'
    BY <2>1, <2>2, SignalTypes DEF S!IInv, S!TypeOK
  <2>4. S!ArmedOnce'
    BY <2>1 DEF S!IInv, S!ArmedOnce
  <2> QED
    BY <2>2, <2>3, <2>4 DEF S!IInv
<1> QED
  BY <1>1, <1>2, SignalArm, SignalQuiet, SignalRaise DEF S!Next, S!UserNext

\* The signals' property, from the invariant.
LEMMA SignalIsSafe ==
    ASSUME S!SignalAssumption, S!IInv
    PROVE  S!SignalEventsTrue
<1>1. pipe \in Seq(Signals)
  BY DEF S!IInv, S!TypeOK
<1>2. \A s \in Signals : caught[s] \in 0..Len(pipe)
  BY <1>1, CaughtCounts, PlacesFinite DEF S!IInv, Counted
<1>3. \A s \in Signals : caught[s] >= 0
  BY <1>1, <1>2
<1> QED
  BY <1>3 DEF S!IInv, S!ArmedOnce, S!SignalEventsTrue, S!NoSpuriousSignal, S!OneShotOnce

-----------------------------------------------------------------------------
(* The loop.                                                               *)

\* Each type of handle has its queue, and its phase.
LEMMA Queues ==
    ASSUME L!EventLoopAssumption, NEW h \in L!Handles
    PROVE  /\ L!QueueOf(h) \in {"idle", "prepare", "poll", "check"}
           /\ L!QueueOf(h) = "idle" <=> h \in Idles
           /\ L!QueueOf(h) = "prepare" <=> h \in Prepares
           /\ L!QueueOf(h) = "check" <=> h \in Checks
           /\ L!QueueOf(h) = "poll" <=> h \in Asyncs
           /\ h \in L!Ticks <=> h \notin Asyncs
BY DEF L!EventLoopAssumption, L!QueueOf, L!Handles, L!Ticks

\* The order of the phases.
LEMMA Stages ==
    /\ L!Stage("out") = 0 /\ L!Stage("idle") = 1 /\ L!Stage("prepare") = 2
    /\ L!Stage("asleep") = 3 /\ L!Stage("poll") = 4 /\ L!Stage("check") = 5
    /\ L!Stage("closing") = 6
BY DEF L!Stage

LEMMA LoopInit ==
    ASSUME L!EventLoopAssumption, L!Init
    PROVE  L!IInv
<1> USE DEF L!Init
<1>1. L!TypeOK
  <2>1. hs \in [L!Handles -> {"open", "closing", "closed"}]
    OBVIOUS
  <2>2. count \in [L!Handles -> 0..2]
    OBVIOUS
  <2>3. posted \in [Asyncs -> 0..MaxPosts] /\ seen \in [Asyncs -> 0..MaxPosts]
    BY DEF L!EventLoopAssumption
  <2>4. act \in SUBSET L!Open /\ refd \in SUBSET L!Handles
    BY DEF L!Open
  <2> QED
    BY <2>1, <2>2, <2>3, <2>4 DEF L!TypeOK, L!Modes
<1>2. L!QueueOfPhase /\ L!ModeKept /\ L!BlocksOnlyIdle
  BY DEF L!QueueOfPhase, L!ModeKept, L!BlocksOnlyIdle
<1>3. L!ServedInOrder
  BY DEF L!ServedInOrder
<1>4. L!NothingMissed
  BY DEF L!NothingMissed
<1> QED
  BY <1>1, <1>2, <1>3, <1>4 DEF L!IInv

\* A handle that is started waits for its phase, or for the next iteration.
LEMMA LoopStart ==
    ASSUME L!EventLoopAssumption, L!IInv, NEW h \in L!Handles, L!Start(h)
    PROVE  L!IInv'
<1> USE DEF L!IInv, L!Start, L!avars
<1>1. L!TypeOK'
  BY DEF L!TypeOK, L!Open, L!Closing
<1>2. L!QueueOfPhase'
  BY DEF L!QueueOfPhase, L!Closing
<1>3. L!ServedInOrder'
  BY DEF L!ServedInOrder
<1>4. L!ModeKept' /\ L!BlocksOnlyIdle' /\ L!NothingMissed'
  BY DEF L!ModeKept, L!BlocksOnlyIdle, L!NothingMissed, L!Awake, L!Open
<1> QED
  BY <1>1, <1>2, <1>3, <1>4

\* A handle that is stopped or closed leaves the part of its queue being visited.
LEMMA LoopLeave ==
    ASSUME L!EventLoopAssumption, L!IInv, NEW h \in L!Handles, L!Stop(h) \/ L!Close(h)
    PROVE  L!IInv'
<1>1. /\ UNCHANGED <<phase, mode, asked, flag, refd, sent, posted, seen, between, count>>
      /\ act' = act \ {h} /\ todo' = todo \ {h} /\ steady' = steady \ {h}
      /\ phase # "asleep" /\ hs[h] = "open"
      /\ hs' \in {hs, [hs EXCEPT ![h] = "closing"]}
  BY DEF L!Stop, L!Close, L!avars, L!Awake, L!Open
<1>2. L!Open' \subseteq L!Open /\ L!Open \ {h} \subseteq L!Open' /\ L!Closing \subseteq L!Closing'
  BY <1>1 DEF L!IInv, L!TypeOK, L!Open, L!Closing
<1>3. L!TypeOK'
  BY <1>1, <1>2 DEF L!IInv, L!TypeOK
<1>4. L!QueueOfPhase'
  BY <1>1, <1>2 DEF L!IInv, L!QueueOfPhase
<1>5. L!ServedInOrder'
  BY <1>1 DEF L!IInv, L!ServedInOrder
<1>6. L!ModeKept' /\ L!BlocksOnlyIdle' /\ L!NothingMissed'
  BY <1>1, <1>2 DEF L!IInv, L!ModeKept, L!BlocksOnlyIdle, L!NothingMissed
<1> QED
  BY <1>3, <1>4, <1>5, <1>6 DEF L!IInv

\* The calls that touch no queue.
LEMMA LoopFlags ==
    ASSUME L!EventLoopAssumption, L!IInv,
           (\E h \in L!Handles, on \in BOOLEAN : L!Reference(h, on)) \/ L!LoopStop
    PROVE  L!IInv'
<1>1. /\ UNCHANGED <<phase, mode, asked, hs, act, todo, sent, posted, seen, between, steady, count>>
      /\ phase # "asleep" /\ flag' \in {flag, TRUE}
      /\ refd' \subseteq refd \cup L!Handles
  BY DEF L!Reference, L!LoopStop, L!Awake, L!hvars, L!avars
<1>2. L!Open' = L!Open /\ L!Closing' = L!Closing
  BY <1>1 DEF L!Open, L!Closing
<1>3. L!TypeOK'
  BY <1>1, <1>2 DEF L!IInv, L!TypeOK
<1>4. L!QueueOfPhase' /\ L!ServedInOrder'
  BY <1>1, <1>2 DEF L!IInv, L!QueueOfPhase, L!ServedInOrder
<1>5. L!ModeKept' /\ L!BlocksOnlyIdle' /\ L!NothingMissed'
  BY <1>1, <1>2 DEF L!IInv, L!ModeKept, L!BlocksOnlyIdle, L!NothingMissed
<1> QED
  BY <1>3, <1>4, <1>5 DEF L!IInv

\* A new iteration has served nobody.
LEMMA LoopBegin ==
    ASSUME L!EventLoopAssumption, L!IInv, L!Begin,
           UNCHANGED <<hs, act, refd, sent, posted, seen, between>>,
           flag' \in BOOLEAN, mode' \in L!Modes, asked' = mode'
    PROVE  L!IInv'
<1>1. L!Open' = L!Open /\ L!Closing' = L!Closing
  BY DEF L!Open, L!Closing
<1>2. L!TypeOK'
  BY <1>1 DEF L!Begin, L!IInv, L!TypeOK
<1>3. L!QueueOfPhase'
  BY DEF L!Begin, L!QueueOfPhase
<1>4. L!ServedInOrder'
  <2> SUFFICES ASSUME NEW h \in L!Handles
               PROVE  /\ count'[h] = 0
                      /\ h \in (steady' \cap L!Ticks) \ todo' => L!Stage("idle") < L!Stage(L!QueueOf(h))
    BY Queues, Stages DEF L!Begin, L!ServedInOrder
  <2> QED
    BY Queues, Stages DEF L!Begin
<1>5. L!ModeKept' /\ L!BlocksOnlyIdle' /\ L!NothingMissed'
  BY <1>1 DEF L!Begin, L!IInv, L!ModeKept, L!BlocksOnlyIdle, L!NothingMissed
<1> QED
  BY <1>2, <1>3, <1>4, <1>5 DEF L!IInv

\* run(): the loop begins an iteration, or returns at once.
LEMMA LoopRun ==
    ASSUME L!EventLoopAssumption, L!IInv, NEW m \in L!Modes, L!Run(m)
    PROVE  L!IInv'
<1>1. /\ UNCHANGED <<hs, act, refd, sent, posted, seen, between>>
      /\ phase = "out" /\ mode' = m /\ asked' = m
  BY DEF L!Run, L!hvars, L!avars
<1>2. CASE L!Alive /\ ~flag
  <2>1. L!Begin /\ flag' \in BOOLEAN
    BY <1>2 DEF L!Run, L!IInv, L!TypeOK
  <2> QED
    BY <1>1, <2>1, LoopBegin
<1>3. CASE ~(L!Alive /\ ~flag)
  <2>1. UNCHANGED <<phase, todo, steady, count>> /\ flag' = FALSE
    BY <1>3 DEF L!Run
  <2>2. L!Open' = L!Open /\ L!Closing' = L!Closing
    BY <1>1 DEF L!Open, L!Closing
  <2>3. L!TypeOK'
    BY <1>1, <2>1, <2>2 DEF L!IInv, L!TypeOK
  <2>4. L!QueueOfPhase' /\ L!ServedInOrder'
    BY <1>1, <2>1, <2>2 DEF L!IInv, L!QueueOfPhase, L!ServedInOrder
  <2>5. L!ModeKept' /\ L!BlocksOnlyIdle' /\ L!NothingMissed'
    BY <1>1, <2>1, <2>2 DEF L!IInv, L!ModeKept, L!BlocksOnlyIdle, L!NothingMissed
  <2> QED
    BY <2>3, <2>4, <2>5 DEF L!IInv
<1> QED
  BY <1>2, <1>3

\* What another thread posts is covered by the send() that follows.
LEMMA LoopThread ==
    ASSUME L!EventLoopAssumption, L!IInv, NEW a \in Asyncs, L!Post(a) \/ L!Send(a)
    PROVE  L!IInv'
<1>1. UNCHANGED <<phase, mode, asked, flag, hs, act, refd, todo, seen, steady, count>>
  BY DEF L!Post, L!Send, L!hvars
<1>2. L!Open' = L!Open /\ L!Closing' = L!Closing
  BY <1>1 DEF L!Open, L!Closing
<1>3. /\ posted' \in [Asyncs -> 0..MaxPosts] /\ sent' \in SUBSET Asyncs /\ between' \in SUBSET Asyncs
      /\ \A b \in Asyncs \ {a} : posted'[b] = posted[b]
      /\ posted'[a] = posted[a] \/ a \in between'
      /\ sent \cup between \subseteq sent' \cup between'
  BY DEF L!Post, L!Send, L!EventLoopAssumption, L!IInv, L!TypeOK
<1>4. L!TypeOK'
  BY <1>1, <1>2, <1>3 DEF L!IInv, L!TypeOK
<1>5. L!QueueOfPhase' /\ L!ServedInOrder' /\ L!ModeKept' /\ L!BlocksOnlyIdle'
  BY <1>1, <1>2 DEF L!IInv, L!QueueOfPhase, L!ServedInOrder, L!ModeKept, L!BlocksOnlyIdle
<1>6. L!NothingMissed'
  BY <1>1, <1>2, <1>3 DEF L!IInv, L!NothingMissed
<1> QED
  BY <1>4, <1>5, <1>6 DEF L!IInv

\* The callback of an idle, prepare or check handle is its only one.
LEMMA LoopCallback ==
    ASSUME L!EventLoopAssumption, L!IInv, NEW h \in L!Handles, L!StartCallback(h)
    PROVE  L!IInv'
<1>1. /\ UNCHANGED <<phase, mode, asked, flag, hs, act, refd, sent, posted, seen, between, steady>>
      /\ phase \in {"idle", "prepare", "check"} /\ h \in todo /\ todo' = todo \ {h}
      /\ count' = [count EXCEPT ![h] = @ + 1]
  BY DEF L!StartCallback, L!hvars, L!avars
<1>2. L!Open' = L!Open /\ L!Closing' = L!Closing
  BY <1>1 DEF L!Open, L!Closing
<1>3. count[h] = 0 /\ L!QueueOf(h) = phase
  BY <1>1 DEF L!IInv, L!QueueOfPhase, L!ServedInOrder
<1>4. /\ count' \in [L!Handles -> 0..2] /\ count'[h] = 1
      /\ \A g \in L!Handles \ {h} : count'[g] = count[g]
  BY <1>1, <1>3 DEF L!IInv, L!TypeOK
<1>5. L!TypeOK'
  BY <1>1, <1>2, <1>4 DEF L!IInv, L!TypeOK
<1>6. L!QueueOfPhase'
  BY <1>1, <1>2 DEF L!IInv, L!QueueOfPhase
<1>7. L!ServedInOrder'
  <2> SUFFICES ASSUME NEW g \in L!Handles
               PROVE  /\ count'[g] \in 0..1
                      /\ L!Stage(phase) < L!Stage(L!QueueOf(g)) => count'[g] = 0
                      /\ g \in todo' /\ phase # "closing" => count'[g] = 0
                      /\ g \in (steady \cap L!Ticks) \ todo' /\ L!Stage(phase) >= L!Stage(L!QueueOf(g))
                           => count'[g] = 1
    BY <1>1 DEF L!ServedInOrder
  <2>1. CASE g = h
    BY <1>1, <1>3, <1>4, <2>1, Stages
  <2>2. CASE g # h
    BY <1>1, <1>4, <2>2 DEF L!IInv, L!ServedInOrder
  <2> QED
    BY <2>1, <2>2
<1>8. L!ModeKept' /\ L!BlocksOnlyIdle' /\ L!NothingMissed'
  BY <1>1, <1>2 DEF L!IInv, L!ModeKept, L!BlocksOnlyIdle, L!NothingMissed
<1> QED
  BY <1>5, <1>6, <1>7, <1>8 DEF L!IInv

\* The loop leaves a phase that has served its queue, and passes no queue by.
LEMMA PhaseServed ==
    ASSUME L!EventLoopAssumption, L!IInv, todo = {}, UNCHANGED <<steady, count>>,
           L!Stage(phase) \in Int, L!Stage(phase') \in Int, L!Stage(phase) <= L!Stage(phase'),
           phase' # "closing" => \A h \in todo' : L!Stage(phase) < L!Stage(L!QueueOf(h)),
           \A h \in (steady \cap L!Ticks) \ todo' :
               L!Stage(phase) < L!Stage(L!QueueOf(h)) => L!Stage(phase') < L!Stage(L!QueueOf(h))
    PROVE  L!ServedInOrder'
<1> SUFFICES ASSUME NEW h \in L!Handles
             PROVE  /\ count[h] \in 0..1
                    /\ L!Stage(phase') < L!Stage(L!QueueOf(h)) => count[h] = 0
                    /\ h \in todo' /\ phase' # "closing" => count[h] = 0
                    /\ h \in (steady \cap L!Ticks) \ todo' /\ L!Stage(phase') >= L!Stage(L!QueueOf(h))
                         => count[h] = 1
  BY DEF L!ServedInOrder
<1>1. L!Stage(L!QueueOf(h)) \in Int
  BY Queues, Stages
<1>2. /\ count[h] \in 0..1
      /\ L!Stage(phase) < L!Stage(L!QueueOf(h)) => count[h] = 0
      /\ h \in steady \cap L!Ticks /\ L!Stage(phase) >= L!Stage(L!QueueOf(h)) => count[h] = 1
  BY DEF L!IInv, L!ServedInOrder
<1> QED
  BY <1>1, <1>2

\* What a change of phase leaves alone.
LEMMA PhaseKeeps ==
    ASSUME L!EventLoopAssumption, L!IInv,
           L!ToPrepare \/ L!Poll \/ L!Wake \/ L!ToCheck \/ L!ToClosing
    PROVE  /\ UNCHANGED <<mode, asked, flag, hs, act, refd, sent, posted, seen, between, steady, count>>
           /\ todo = {}
           /\ L!Open' = L!Open /\ L!Closing' = L!Closing
           /\ act \subseteq L!Handles /\ steady \subseteq act /\ act \cap L!Closing = {}
<1>1. /\ UNCHANGED <<mode, asked, flag, hs, act, refd, sent, posted, seen, between, steady, count>>
      /\ todo = {}
  BY DEF L!ToPrepare, L!Poll, L!Wake, L!ToCheck, L!ToClosing, L!hvars, L!avars, L!IInv, L!QueueOfPhase
<1> QED
  BY <1>1 DEF L!IInv, L!TypeOK, L!Open, L!Closing

\* The changes of phase.
LEMMA LoopPhase ==
    ASSUME L!EventLoopAssumption, L!IInv,
           L!ToPrepare \/ L!Poll \/ L!Wake \/ L!ToCheck \/ L!ToClosing
    PROVE  L!IInv'
<1> USE PhaseKeeps
<1>1. \/ phase = "idle" /\ phase' = "prepare" /\ todo' = {h \in act : L!QueueOf(h) = "prepare"}
      \/ phase = "prepare" /\ phase' = "asleep" /\ todo' = {} /\ L!MayBlock
      \/ /\ phase \in {"prepare", "asleep"} /\ phase' = "poll"
         /\ todo' = {} \/ todo' = act \cap Asyncs
      \/ phase = "poll" /\ phase' = "check" /\ todo' = {h \in act : L!QueueOf(h) = "check"}
      \/ phase = "check" /\ phase' = "closing" /\ todo' = L!Closing
  BY DEF L!ToPrepare, L!Poll, L!Wake, L!ToCheck, L!ToClosing
<1>2. \A h \in act : /\ L!QueueOf(h) \in {"idle", "prepare", "poll", "check"}
                     /\ L!QueueOf(h) = "poll" <=> h \in Asyncs
                     /\ h \in L!Ticks <=> h \notin Asyncs
  BY Queues
<1>3. L!TypeOK'
  BY <1>1 DEF L!IInv, L!TypeOK
<1>4. L!QueueOfPhase'
  BY <1>1, <1>2 DEF L!QueueOfPhase
<1>5. L!ServedInOrder'
  <2>1. /\ L!Stage(phase) \in Int /\ L!Stage(phase') \in Int /\ L!Stage(phase) <= L!Stage(phase')
    BY <1>1, Stages
  <2>2. phase' # "closing" => \A h \in todo' : L!Stage(phase) < L!Stage(L!QueueOf(h))
    BY <1>1, <1>2, Stages
  <2>3. \A h \in (steady \cap L!Ticks) \ todo' :
            L!Stage(phase) < L!Stage(L!QueueOf(h)) => L!Stage(phase') < L!Stage(L!QueueOf(h))
    BY <1>1, <1>2, Stages
  <2> QED
    BY <2>1, <2>2, <2>3, PhaseServed
<1>6. L!BlocksOnlyIdle'
  <2>1. \A h \in act : h \in Idles => L!QueueOf(h) = "idle"
    BY Queues
  <2> QED
    BY <1>1, <2>1 DEF L!BlocksOnlyIdle, L!MayBlock
<1>7. L!ModeKept' /\ L!NothingMissed'
  BY DEF L!IInv, L!ModeKept, L!NothingMissed
<1> QED
  BY <1>3, <1>4, <1>5, <1>6, <1>7 DEF L!IInv

\* An async handle is visited: its listener finds everything posted by then.
LEMMA LoopVisit ==
    ASSUME L!EventLoopAssumption, L!IInv, NEW a \in Asyncs, L!Pass(a) \/ L!SendCallback(a)
    PROVE  L!IInv'
<1>1. /\ UNCHANGED <<phase, mode, asked, flag, hs, act, refd, posted, between, steady>>
      /\ phase = "poll" /\ a \in todo /\ todo' = todo \ {a}
      /\ \/ UNCHANGED <<sent, seen, count>>
         \/ /\ sent' = sent \ {a} /\ seen' = [seen EXCEPT ![a] = posted[a]]
            /\ count' = [count EXCEPT ![a] = @ + 1]
  BY DEF L!Pass, L!SendCallback, L!hvars, L!avars
<1>2. L!Open' = L!Open /\ L!Closing' = L!Closing
  BY <1>1 DEF L!Open, L!Closing
<1>3. a \in L!Handles /\ a \notin L!Ticks /\ L!QueueOf(a) = "poll" /\ count[a] = 0
  <2>1. a \in L!Handles
    BY DEF L!Handles
  <2> QED
    BY <1>1, <2>1, Queues DEF L!IInv, L!ServedInOrder
<1>4. /\ count' \in [L!Handles -> 0..2] /\ count'[a] \in 0..1
      /\ \A g \in L!Handles \ {a} : count'[g] = count[g]
  BY <1>1, <1>3 DEF L!IInv, L!TypeOK
<1>5. /\ seen' \in [Asyncs -> 0..MaxPosts] /\ sent' \in SUBSET Asyncs
      /\ \A b \in Asyncs \ {a} : seen'[b] = seen[b] /\ (b \in sent => b \in sent')
      /\ seen'[a] = posted[a] \/ UNCHANGED <<sent, seen>>
  BY <1>1 DEF L!IInv, L!TypeOK
<1>6. L!TypeOK'
  BY <1>1, <1>2, <1>4, <1>5 DEF L!IInv, L!TypeOK
<1>7. L!QueueOfPhase'
  BY <1>1, <1>2 DEF L!IInv, L!QueueOfPhase
<1>8. L!ServedInOrder'
  <2> SUFFICES ASSUME NEW g \in L!Handles
               PROVE  /\ count'[g] \in 0..1
                      /\ L!Stage(phase) < L!Stage(L!QueueOf(g)) => count'[g] = 0
                      /\ g \in todo' /\ phase # "closing" => count'[g] = 0
                      /\ g \in (steady \cap L!Ticks) \ todo' /\ L!Stage(phase) >= L!Stage(L!QueueOf(g))
                           => count'[g] = 1
    BY <1>1 DEF L!ServedInOrder
  <2>1. CASE g = a
    BY <1>1, <1>3, <1>4, <2>1, Stages
  <2>2. CASE g # a
    BY <1>1, <1>4, <2>2 DEF L!IInv, L!ServedInOrder
  <2> QED
    BY <2>1, <2>2
<1>9. L!NothingMissed'
  <2>1. posted \in [Asyncs -> 0..MaxPosts]
    BY DEF L!IInv, L!TypeOK
  <2> QED
    BY <1>1, <1>2, <1>5, <2>1 DEF L!IInv, L!NothingMissed
<1>10. L!ModeKept' /\ L!BlocksOnlyIdle'
  BY <1>1, <1>2 DEF L!IInv, L!ModeKept, L!BlocksOnlyIdle
<1> QED
  BY <1>6, <1>7, <1>8, <1>9, <1>10 DEF L!IInv

\* close_callback.
LEMMA LoopClosed ==
    ASSUME L!EventLoopAssumption, L!IInv, NEW h \in L!Handles, L!CloseCallback(h)
    PROVE  L!IInv'
<1>1. /\ UNCHANGED <<phase, mode, asked, flag, act, refd, sent, posted, seen, between, steady, count>>
      /\ phase = "closing" /\ h \in todo /\ todo' = todo \ {h}
      /\ hs' = [hs EXCEPT ![h] = "closed"] /\ hs[h] = "closing"
  BY DEF L!CloseCallback, L!avars, L!IInv, L!QueueOfPhase, L!Closing
<1>2. L!Open' = L!Open /\ L!Closing' = L!Closing \ {h} /\ h \notin act
  BY <1>1 DEF L!IInv, L!TypeOK, L!Open, L!Closing
<1>3. L!TypeOK'
  BY <1>1, <1>2 DEF L!IInv, L!TypeOK
<1>4. L!QueueOfPhase'
  BY <1>1, <1>2 DEF L!IInv, L!QueueOfPhase
<1>5. L!ServedInOrder'
  BY <1>1, <1>2 DEF L!IInv, L!TypeOK, L!ServedInOrder
<1>6. L!ModeKept' /\ L!BlocksOnlyIdle' /\ L!NothingMissed'
  BY <1>1, <1>2 DEF L!IInv, L!ModeKept, L!BlocksOnlyIdle, L!NothingMissed
<1> QED
  BY <1>3, <1>4, <1>5, <1>6 DEF L!IInv

\* The end of an iteration.
LEMMA LoopEnd ==
    ASSUME L!EventLoopAssumption, L!IInv, L!Again \/ L!RunReturn
    PROVE  L!IInv'
<1>1. CASE L!Again
  <2>1. flag' \in BOOLEAN /\ mode' \in L!Modes /\ asked' = mode'
    BY <1>1 DEF L!Again, L!IInv, L!TypeOK, L!ModeKept
  <2> QED
    BY <1>1, <2>1, LoopBegin DEF L!Again, L!hvars, L!avars
<1>2. CASE L!RunReturn
  <2>1. /\ UNCHANGED <<mode, asked, hs, act, refd, todo, sent, posted, seen, between>>
        /\ phase' = "out" /\ flag' = FALSE /\ todo = {}
        /\ steady' = {} /\ count' = [h \in L!Handles |-> 0]
    BY <1>2 DEF L!RunReturn, L!hvars, L!avars
  <2>2. L!Open' = L!Open /\ L!Closing' = L!Closing
    BY <2>1 DEF L!Open, L!Closing
  <2>3. L!TypeOK'
    <3>1. count' \in [L!Handles -> 0..2]
      BY <2>1
    <3> QED
      BY <2>1, <2>2, <3>1 DEF L!IInv, L!TypeOK
  <2>4. L!QueueOfPhase' /\ L!ServedInOrder'
    BY <2>1, <2>2 DEF L!QueueOfPhase, L!ServedInOrder
  <2>5. L!ModeKept' /\ L!BlocksOnlyIdle' /\ L!NothingMissed'
    BY <2>1, <2>2 DEF L!IInv, L!ModeKept, L!BlocksOnlyIdle, L!NothingMissed
  <2> QED
    BY <2>3, <2>4, <2>5 DEF L!IInv
<1> QED
  BY <1>1, <1>2

\* The invariant of the loop.
LEMMA LoopStep ==
    ASSUME L!EventLoopAssumption, L!IInv, L!Next
    PROVE  L!IInv'
BY LoopStart, LoopLeave, LoopFlags, LoopRun, LoopThread, LoopCallback, LoopPhase, LoopVisit, LoopClosed,
   LoopEnd
   DEF L!Next, L!UserNext, L!ThreadNext, L!LoopNext

\* The loop's properties, from the invariant.
LEMMA LoopIsSafe ==
    ASSUME L!EventLoopAssumption, L!IInv
    PROVE  L!OncePerIteration /\ L!BlocksOnlyIdle /\ L!NothingMissed
<1>1. ASSUME NEW h \in L!Handles
      PROVE  /\ count[h] <= 1
             /\ phase \in {"asleep", "poll"} /\ h \in Checks => count[h] = 0
             /\ phase \in {"asleep", "poll"} /\ h \in steady \cap (Idles \cup Prepares) => count[h] = 1
             /\ phase = "closing" /\ h \in steady \cap L!Ticks => count[h] = 1
  <2>1. /\ count[h] \in 0..1
        /\ L!Stage(phase) < L!Stage(L!QueueOf(h)) => count[h] = 0
        /\ h \in (steady \cap L!Ticks) \ todo /\ L!Stage(phase) >= L!Stage(L!QueueOf(h)) => count[h] = 1
    BY DEF L!IInv, L!ServedInOrder
  <2>2. phase \in {"asleep", "poll", "closing"} /\ h \in steady \cap L!Ticks => h \notin todo
    BY Queues DEF L!IInv, L!TypeOK, L!QueueOfPhase, L!Open, L!Closing
  <2>3. phase \in {"asleep", "poll"} /\ h \in Idles \cup Prepares =>
            h \in L!Ticks /\ L!Stage(phase) >= L!Stage(L!QueueOf(h))
    BY Queues, Stages DEF L!Ticks
  <2>4. phase = "closing" => L!Stage(phase) >= L!Stage(L!QueueOf(h))
    BY Queues, Stages
  <2>5. phase \in {"asleep", "poll"} /\ h \in Checks => L!Stage(phase) < L!Stage(L!QueueOf(h))
    BY Queues, Stages
  <2> QED
    BY <2>1, <2>2, <2>3, <2>4, <2>5
<1>2. L!OncePerIteration
  BY <1>1 DEF L!OncePerIteration, L!IInv, L!TypeOK, L!Open, L!Handles, L!Ticks
<1> QED
  BY <1>2 DEF L!IInv

\* Only the end of an iteration ends run(), and in the default mode only with
\* nothing left to wait for.
LEMMA LoopReturns ==
    ASSUME L!EventLoopAssumption, L!IInv, L!Next,
           phase # "out", phase' = "out", asked = "DEFAULT", ~flag
    PROVE  act \cap refd = {} /\ L!Closing = {}
<1>1. L!RunReturn
  BY DEF L!Next, L!UserNext, L!ThreadNext, L!LoopNext, L!Start, L!Stop, L!Close, L!Reference,
         L!LoopStop, L!Run, L!Post, L!Send, L!StartCallback, L!CloseCallback, L!Pass,
         L!SendCallback, L!ToPrepare, L!Poll, L!Wake, L!ToCheck, L!ToClosing, L!Again, L!Begin
<1> QED
  BY <1>1 DEF L!RunReturn, L!Alive, L!IInv, L!ModeKept

-----------------------------------------------------------------------------
(* The four parts together.                                                *)

\* A part that keeps still keeps its invariant.
LEMMA PartsKept ==
    /\ L!IInv /\ UNCHANGED loopVars => L!IInv'
    /\ T!IInv /\ UNCHANGED timerVars => T!IInv'
    /\ S!IInv /\ UNCHANGED signalVars => S!IInv'
    /\ P!IInv /\ UNCHANGED pollVars => P!IInv'
<1>1. L!IInv /\ UNCHANGED loopVars => L!IInv'
  BY DEF loopVars, L!IInv, L!TypeOK, L!QueueOfPhase, L!ServedInOrder, L!ModeKept, L!BlocksOnlyIdle,
         L!NothingMissed, L!Open, L!Closing
<1>2. T!IInv /\ UNCHANGED timerVars => T!IInv'
  BY DEF timerVars, T!IInv, T!TypeOK, T!DueAsAsked, T!SingleState
<1>3. S!IInv /\ UNCHANGED signalVars => S!IInv'
  BY DEF signalVars, S!IInv, S!TypeOK, S!CaughtInPipe, S!Messages, S!ArmedOnce
<1>4. P!IInv /\ UNCHANGED pollVars => P!IInv'
  BY DEF pollVars, P!IInv, P!TypeOK, P!ReportAsked, P!Watched
<1> QED
  BY <1>1, <1>2, <1>3, <1>4

\* The assumptions of the parts.
LEMMA PartAssumptions ==
    L!EventLoopAssumption /\ T!TimerAssumption /\ S!SignalAssumption
BY EventHandlesAssumption

\* The loop (loop.ipp, idle.ipp, prepare.ipp, check.ipp, async.ipp): in whatever order
\* listeners start, stop and close handles and other threads send, each phase visits the
\* active handles of its own queue, and has served those before it.
THEOREM LoopInvariance == Spec => []L!IInv
<1>1. Init => L!IInv
  BY LoopInit, PartAssumptions DEF Init
<1>2. L!IInv /\ [Next]_vars => L!IInv'
  BY LoopStep, PartsKept, PartAssumptions DEF Next, vars
<1> QED
  BY <1>1, <1>2, PTL DEF Spec

\* run(): an active idle, prepare or check handle has its turn once in an iteration, the
\* loop blocks only with nothing to do, no send() is lost, and run() in the default mode
\* returns only when nothing is left to wait for.
THEOREM TurnsAlwaysServed == Spec => TurnsServed
<1>1. L!IInv => L!OncePerIteration /\ L!BlocksOnlyIdle /\ L!NothingMissed
  BY LoopIsSafe, PartAssumptions
<1>2. L!IInv /\ [Next]_vars =>
        [phase # "out" /\ phase' = "out" /\ asked = "DEFAULT" /\ ~flag =>
           act \cap refd = {} /\ L!Closing = {}]_(L!vars)
  BY LoopReturns, PartAssumptions DEF Next, vars, loopVars, L!vars, L!hvars, L!avars
<1>3. Spec => []L!IInv
  BY LoopInvariance
<1>4. Spec => L!TurnsServed
  BY <1>1, <1>2, <1>3, PTL DEF Spec, L!TurnsServed, L!RunsToTheEnd
<1> QED
  BY <1>4 DEF TurnsServed

\* The timers (timer.ipp): one in the heap is due when it was asked for or later, one
\* taken out of it has not been called back in this turn.
THEOREM TimerInvariance == Spec => []T!IInv
<1>1. Init => T!IInv
  BY TimerInit, PartAssumptions DEF Init
<1>2. T!IInv /\ [Next]_vars => T!IInv'
  BY TimerStep, PartsKept, PartAssumptions DEF Next, vars
<1> QED
  BY <1>1, <1>2, PTL DEF Spec

\* start_callback: no timer fires before it is due, after stop() or close(), twice in a
\* turn, or again without a repeat value, for any timeouts and repeat values.
THEOREM TimersFireOnTime == Spec => TimersOnTime
<1>1. T!IInv => T!SingleShot
  BY TimerIsSafe, PartAssumptions
<1>2. T!IInv /\ [Next]_vars =>
        [/\ \A t \in emitted' \ emitted : t \in open /\ before[t] <= now
         /\ \A t \in heap : before[t] <= now + T!DueIn(t)]_(T!vars)
  BY TimerIsSafe, TimerPublishes, PartAssumptions DEF Next, vars, timerVars, T!vars, T!uvars
<1>3. T!IInv /\ [Next]_vars => [\A t \in Timers : shots'[t] > shots[t] => t \notin emitted]_(T!vars)
  BY TimerIsSafe, TimerPublishes, PartAssumptions DEF Next, vars, timerVars, T!vars, T!uvars
<1>4. Spec => []T!IInv
  BY TimerInvariance
<1>5. Spec => T!TimersOnTime
  BY <1>1, <1>2, <1>3, <1>4, PTL DEF Spec, T!TimersOnTime, T!NeverEarly, T!OncePerTurn
<1> QED
  BY <1>5 DEF TimersOnTime

\* A signal handle (signal.ipp): every signal caught and not published has a message in
\* the pipe, and a handle armed by one_shot() is stopped after its event.
THEOREM SignalInvariance == Spec => []S!IInv
<1>1. Init => S!IInv
  BY SignalInit, PartAssumptions DEF Init
<1>2. S!IInv /\ [Next]_vars => S!IInv'
  BY SignalStep, PartsKept, PartAssumptions DEF Next, vars
<1> QED
  BY <1>1, <1>2, PTL DEF Spec

\* start_callback: every signal event stands for a signal raised while it was monitored,
\* and after a one_shot() there is one event, unless the handle was monitoring the signal
\* because of a start(), which libuv then keeps to.
THEOREM SignalsTrue == Spec => []SignalEventsTrue
<1>1. S!IInv => SignalEventsTrue
  BY SignalIsSafe, PartAssumptions DEF SignalEventsTrue
<1> QED
  BY <1>1, SignalInvariance, PTL

\* A poll handle (poll.ipp): what is reported and not delivered is what was asked for.
THEOREM PollInvariance == Spec => []P!IInv
<1>1. Init => P!IInv
  BY PollInit DEF Init
<1>2. P!IInv /\ [Next]_vars => P!IInv'
  BY PollStep, PartsKept DEF Next, vars
<1> QED
  BY <1>1, <1>2, PTL DEF Spec

\* start_callback: a poll event carries flags the last start() asked for, or the error,
\* also when the report is older than the call.
THEOREM PollsAsAsked == Spec => OnlyWhatWasAsked
<1>1. P!IInv /\ [Next]_vars =>
        [report # {} /\ report' = {} /\ event' # event =>
           event' \subseteq wanted \cup {P!BadDescriptor}]_(P!vars)
  BY PollPublishes DEF Next, vars, pollVars, P!vars
<1>2. Spec => []P!IInv
  BY PollInvariance
<1>3. Spec => P!OnlyWhatWasAsked
  BY <1>1, <1>2, PTL DEF Spec, P!OnlyWhatWasAsked
<1> QED
  BY <1>3 DEF OnlyWhatWasAsked

\* The four invariants together, which the run checks on its instance.
THEOREM EventHandlesInvariance == Spec => []IInv
<1>1. Spec => []L!IInv /\ []T!IInv /\ []S!IInv /\ []P!IInv
  BY LoopInvariance, TimerInvariance, SignalInvariance, PollInvariance
<1>2. L!IInv /\ T!IInv /\ S!IInv /\ P!IInv => IInv
  BY DEF IInv
<1> QED
  BY <1>1, <1>2, PTL
=============================================================================
