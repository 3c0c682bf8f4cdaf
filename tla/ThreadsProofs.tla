---------------------------- MODULE ThreadsProofs ----------------------------
(***************************************************************************)
(* Proofs about the parts of MCThreads: PoolReq, Thread, Locks and         *)
(* Rendezvous, for any number of requests, wrappers and threads.           *)
(***************************************************************************)
EXTENDS MCThreads, FiniteSetTheorems, TLAPS

-----------------------------------------------------------------------------
(* Thread.                                                                 *)

\* What join() and ~thread() have in common: the owner begins to wait.
LEMMA BeginWait ==
    ASSUME W!ThreadAssumption, W!IInv,
           NEW w \in Wrappers, NEW op \in {"join", "destroy"},
           call = {}, w \in joinable, tid[w] # W!None,
           joinable' = joinable \ {w}, call' = {[op |-> op, w |-> w]},
           UNCHANGED <<obj, tid, runs, os, said>>
    PROVE  W!IInv'
<1> USE DEF W!ThreadAssumption, W!IInv, W!TypeOK, W!Threads, W!None
<1>1. W!TypeOK'
  <2>1. call' \subseteq [op : {"join", "destroy"}, w : Wrappers \ joinable']
    OBVIOUS
  <2> QED
    BY <2>1
<1>2. \A v \in Wrappers : W!Waits(v)' <=> v = w
  BY DEF W!Waits
<1>3. \A v \in Wrappers : ~W!Waits(v)
  BY DEF W!Waits
<1>4. \A v \in Wrappers : W!Joined(v)' <=> W!Joined(v)
  BY DEF W!Joined
<1>5. W!ThreadOf' /\ W!JoinDefined' /\ W!EndIsJoined'
  BY <1>4 DEF W!ThreadOf, W!JoinDefined, W!EndIsJoined
<1>6. W!FlagDown' /\ W!WaitsOnce'
  BY <1>2, <1>3, <1>4 DEF W!FlagDown, W!WaitsOnce
<1> QED
  BY <1>1, <1>5, <1>6

\* What join() and ~thread() have in common: the thread was joined before.
LEMMA NoWait ==
    ASSUME W!ThreadAssumption, W!IInv,
           NEW w \in Wrappers, W!Joined(w), w \notin joinable,
           joinable' = joinable \ {w},
           \/ said' = [said EXCEPT ![w] = "true"] /\ UNCHANGED obj
           \/ obj' = [obj EXCEPT ![w] = "destroyed"] /\ UNCHANGED said,
           UNCHANGED <<tid, runs, os, call>>
    PROVE  W!IInv'
<1> USE DEF W!ThreadAssumption, W!IInv, W!TypeOK, W!Threads, W!None
<1>1. W!TypeOK' /\ joinable' = joinable
  OBVIOUS
<1>2. \A v \in Wrappers : (W!Joined(v)' <=> W!Joined(v)) /\ (W!Waits(v)' <=> W!Waits(v))
  BY DEF W!Joined, W!Waits
<1>3. W!ThreadOf' /\ W!JoinDefined' /\ W!EndIsJoined'
  BY <1>2 DEF W!ThreadOf, W!JoinDefined, W!EndIsJoined
<1>4. W!FlagDown' /\ W!WaitsOnce'
  BY <1>1, <1>2 DEF W!FlagDown, W!WaitsOnce
<1> QED
  BY <1>1, <1>3, <1>4

\* No step of user code that is careful, of a thread or of libuv breaks the
\* invariant of the wrappers.
LEMMA ThreadStep ==
    ASSUME W!ThreadAssumption, Careful, W!IInv, W!Next
    PROVE  W!IInv'
<1> USE DEF W!ThreadAssumption, W!IInv, W!TypeOK, W!Threads, W!None, W!wvars, W!Idle
<1>1. ASSUME NEW w \in Wrappers, W!Join(w) PROVE W!IInv'
  <2>1. CASE w \in joinable
    BY <1>1, <2>1, BeginWait DEF W!Join, W!JoinFlag
  <2>2. CASE w \notin joinable
    <3>1. W!Joined(w)
      BY <1>1, <2>2 DEF W!Join, W!FlagDown, W!Waits
    <3> QED
      BY <1>1, <2>2, <3>1, NoWait DEF W!Join, W!JoinFlag
  <2> QED
    BY <2>1, <2>2
<1>2. ASSUME NEW w \in Wrappers, W!Destroy(w) PROVE W!IInv'
  <2>1. CASE w \in joinable
    BY <1>2, <2>1, BeginWait DEF W!Destroy, W!JoinFlag
  <2>2. CASE w \notin joinable
    <3>1. W!Joined(w)
      BY <1>2, <2>2 DEF W!Destroy, W!FlagDown, W!Waits
    <3> QED
      BY <1>2, <2>2, <3>1, NoWait DEF W!Destroy, W!JoinFlag
  <2> QED
    BY <2>1, <2>2
<1>3. ASSUME NEW w \in Wrappers, NEW ok0 \in BOOLEAN, W!Run(w, ok0) PROVE W!IInv'
  <2> USE DEF W!Run
  <2>1. W!TypeOK'
    <3>1. runs[w] + 1 \in 1..MaxRuns
      BY <1>3
    <3>2. os' \in [Wrappers -> [W!Threads -> {"none", "running", "ended", "joined"}]]
      <4>1. [os[w] EXCEPT ![runs[w] + 1] = "running"]
              \in [W!Threads -> {"none", "running", "ended", "joined"}]
        BY <3>1
      <4> QED
        BY <1>3, <4>1
    <3>3. tid' \in [Wrappers -> W!Threads \cup {W!None}] /\ runs' \in [Wrappers -> 0..MaxRuns]
      <4>1. runs' = [runs EXCEPT ![w] = runs[w] + 1] /\ runs \in [Wrappers -> 0..MaxRuns]
        BY <1>3
      <4>2. tid \in [Wrappers -> W!Threads \cup {W!None}]
        OBVIOUS
      <4>3. tid' = tid \/ tid' = [tid EXCEPT ![w] = runs[w] + 1]
        BY <1>3
      <4>4. runs[w] + 1 \in W!Threads /\ runs[w] + 1 \in 0..MaxRuns
        BY <3>1
      <4> HIDE DEF W!IInv, W!TypeOK, W!Run, W!Threads
      <4> QED
        BY <4>1, <4>2, <4>3, <4>4
    <3> QED
      BY <1>3, <3>2, <3>3
  <2>2. \A v \in Wrappers : /\ W!Waits(v)' <=> W!Waits(v)
                            /\ W!Joined(v) => v # w
                            /\ W!Joined(v)' <=> W!Joined(v)
    BY <1>3 DEF W!Waits, W!Joined
  <2>3. W!ThreadOf'
    <3> SUFFICES ASSUME NEW v \in Wrappers, NEW t \in W!Threads
                 PROVE  (os[v][t] # "none")' <=> (t = tid[v])'
      BY DEF W!ThreadOf
    <3>1. (os[v][t] # "none" <=> t = tid[v]) /\ os[w][t] = "none"
      BY <1>3 DEF W!ThreadOf
    <3>2. runs[w] + 1 \in 1..MaxRuns
      BY <1>3
    <3>3. CASE v = w
      BY <1>3, <3>1, <3>2, <3>3
    <3>4. CASE v # w
      BY <1>3, <3>1, <3>4
    <3> QED
      BY <3>3, <3>4
  <2>4. W!FlagDown' /\ W!WaitsOnce' /\ W!EndIsJoined' /\ W!JoinDefined'
    BY <1>3, <2>2 DEF W!FlagDown, W!WaitsOnce, W!EndIsJoined, W!JoinDefined
  <2> QED
    BY <2>1, <2>3, <2>4
<1>4. ASSUME NEW w \in Wrappers, NEW t \in W!Threads, W!CreateCallback(w, t) PROVE W!IInv'
  <2> USE DEF W!CreateCallback
  <2>1. W!TypeOK' /\ W!ThreadOf'
    BY <1>4 DEF W!ThreadOf
  <2>2. \A v \in Wrappers : /\ W!Waits(v)' <=> W!Waits(v)
                            /\ W!Joined(v)' <=> W!Joined(v)
    BY <1>4 DEF W!Waits, W!Joined
  <2>3. W!FlagDown' /\ W!WaitsOnce' /\ W!EndIsJoined' /\ W!JoinDefined'
    BY <1>4, <2>2 DEF W!FlagDown, W!WaitsOnce, W!EndIsJoined, W!JoinDefined
  <2> QED
    BY <2>1, <2>3
<1>5. ASSUME NEW w \in Wrappers, NEW op \in {"join", "destroy"}, W!JoinReturns(op, w)
      PROVE  W!IInv'
  <2> USE DEF W!JoinReturns
  <2>1. W!Waits(w) /\ tid[w] # W!None /\ ~W!Joined(w) /\ W!Joins(w)
    BY <1>5 DEF W!Waits, W!Joined, W!WaitsOnce, W!Joins
  <2>2. W!TypeOK' /\ W!ThreadOf'
    <3>1. tid[w] \in W!Threads /\ os' = [os EXCEPT ![w][tid[w]] = "joined"]
      BY <1>5, <2>1
    <3>2. os' \in [Wrappers -> [W!Threads -> {"none", "running", "ended", "joined"}]]
      BY <3>1
    <3>3. W!TypeOK'
      BY <1>5, <2>1, <3>2
    <3> QED
      BY <1>5, <2>1, <3>1, <3>3 DEF W!ThreadOf
  <2>3. \A v \in Wrappers : W!Waits(v) <=> v = w
    <3>1. \A c \in call : c = [op |-> op, w |-> w]
      BY <1>5 DEF W!WaitsOnce
    <3> QED
      BY <1>5, <3>1 DEF W!Waits
  <2>4. \A v \in Wrappers : /\ ~W!Waits(v)'
                            /\ W!Joined(v)' <=> v = w \/ W!Joined(v)
    BY <1>5, <2>1 DEF W!Waits, W!Joined
  <2>5. W!FlagDown' /\ W!WaitsOnce'
    BY <1>5, <2>3, <2>4 DEF W!FlagDown, W!WaitsOnce
  <2>6. W!EndIsJoined' /\ W!JoinDefined'
    BY <1>5, <2>1, <2>4 DEF W!EndIsJoined, W!JoinDefined
  <2> QED
    BY <2>2, <2>5, <2>6
<1> QED
  BY <1>1, <1>2, <1>3, <1>4, <1>5 DEF W!Next, W!UserNext

\* The constructor establishes it.
LEMMA ThreadInit ==
    ASSUME W!ThreadAssumption, W!Init
    PROVE  W!IInv
<1> USE DEF W!Init, W!Threads, W!None, W!ThreadAssumption
<1>1. W!TypeOK
  BY DEF W!TypeOK
<1>2. \A w \in Wrappers : ~W!Waits(w) /\ ~W!Joined(w)
  BY DEF W!Waits, W!Joined
<1> QED
  BY <1>1, <1>2 DEF W!IInv, W!ThreadOf, W!FlagDown, W!WaitsOnce, W!EndIsJoined, W!JoinDefined

\* What the invariant says of the order in which things end.
LEMMA ThreadIsSafe == W!IInv => W!ThreadSafe
<1> SUFFICES ASSUME W!IInv PROVE W!ThreadSafe
  OBVIOUS
<1> USE DEF W!IInv
<1>1. ASSUME NEW w \in Wrappers, W!Joined(w) PROVE W!Ran(w) = {}
  <2>1. \A t \in W!Threads : os[w][t] # "none" => os[w][t] = "joined"
    BY <1>1 DEF W!Joined, W!ThreadOf
  <2> QED
    BY <2>1 DEF W!Ran
<1> QED
  BY <1>1 DEF W!EndIsJoined, W!ThreadSafe, W!FuncAlive, W!JoinMeansEnded
-----------------------------------------------------------------------------
(* Locks.                                                                  *)

\* Nothing a thread does with the mutex and the condition breaks the invariant
\* of the locks.
LEMMA MutexStep ==
    ASSUME L!LocksAssumption, L!IInv, NEW t \in Callers,
           L!MutexNext(t) \/ L!ConditionNext(t)
    PROVE  L!IInv'
<1> USE DEF L!LocksAssumption, L!IInv, L!TypeOK, L!MineIsHeld, L!RwlockState, L!Free, L!rvars,
            L!svars, L!Runs, L!SemaphoreCounts
<1>1. CASE L!Lock(t)
  BY <1>1 DEF L!Lock, L!Lockable
<1>2. CASE L!TryLock(t)
  BY <1>2 DEF L!TryLock, L!Lockable, L!LockSays
<1>3. CASE L!Unlock(t)
  BY <1>3 DEF L!Unlock
<1>4. ASSUME NEW timed \in BOOLEAN, L!Wait(t, timed) PROVE L!IInv'
  BY <1>4 DEF L!Wait
<1>5. CASE L!Signal(t)
  BY <1>5 DEF L!Signal
<1>6. CASE L!WaitReturns(t)
  BY <1>6 DEF L!WaitReturns
<1> QED
  BY <1>1, <1>2, <1>3, <1>4, <1>5, <1>6 DEF L!MutexNext, L!ConditionNext

\* Nor does anything else.
LEMMA LocksStep ==
    ASSUME L!LocksAssumption, L!IInv, L!Next
    PROVE  L!IInv'
<1> USE DEF L!LocksAssumption, L!IInv, L!TypeOK, L!MineIsHeld, L!RwlockState, L!Free, L!mvars,
            L!rvars, L!svars, L!Runs, L!SemaphoreCounts
<1>1. CASE L!Broadcast
  BY <1>1 DEF L!Broadcast
<1>2. ASSUME NEW t \in Callers, L!RwlockNext(t) PROVE L!IInv'
  BY <1>2 DEF L!RwlockNext, L!Rdlock, L!Rdunlock, L!Wrlock, L!TryWrlock, L!Wrunlock
<1>3. ASSUME NEW t \in Callers, L!SemaphoreNext(t) PROVE L!IInv'
  BY <1>3 DEF L!SemaphoreNext, L!Post, L!SemWait, L!SemTryWait
<1> QED
  BY <1>1, <1>2, <1>3, MutexStep DEF L!Next

\* The constructors establish it.
LEMMA LocksInit ==
    ASSUME L!LocksAssumption, L!Init
    PROVE  L!IInv
BY DEF L!LocksAssumption, L!Init, L!IInv, L!TypeOK, L!MineIsHeld, L!RwlockState, L!Free,
       L!SemaphoreCounts

\* What the invariant says of the threads that share the primitives.
LEMMA LocksAreSafe ==
    ASSUME L!LocksAssumption, L!IInv
    PROVE  L!LocksExclude
BY DEF L!LocksAssumption, L!IInv, L!TypeOK, L!MineIsHeld, L!RwlockState, L!Free,
       L!LocksExclude, L!MutexExclusive, L!WriterAlone
-----------------------------------------------------------------------------
(* Rendezvous.                                                             *)

\* Rounds of c calls each, of which k are full.
LEMMA FullRounds ==
    ASSUME NEW c \in Nat \ {0}, NEW k \in Nat, NEW w \in 0..(c - 1)
    PROVE  /\ c * k \in Nat /\ k <= c * k
           /\ c * (k + 1) = c * k + c
           /\ (c * k + w) \div c = k
<1>1. c * k \in Nat /\ k <= c * k
  OBVIOUS
<1>2. c * (k + 1) = c * k + c
  OBVIOUS
<1>3. (c * k + w) \div c = k
  OBVIOUS
<1> QED
  BY <1>1, <1>2, <1>3

\* The operators an instance brings along are those of FiniteSets.
LEMMA SameCount ==
    \A S : /\ R!Cardinality(S) = Cardinality(S) /\ (R!IsFiniteSet(S) <=> IsFiniteSet(S))
           /\ P!Cardinality(S) = Cardinality(S) /\ (P!IsFiniteSet(S) <=> IsFiniteSet(S))
BY DEF R!Cardinality, R!IsFiniteSet, P!Cardinality, P!IsFiniteSet, Cardinality, IsFiniteSet

\* What is assumed of the barrier: there are threads enough.
LEMMA EnoughThreads ==
    ASSUME R!RendezvousAssumption
    PROVE  /\ IsFiniteSet(Callers) /\ Count \in Nat \ {0}
           /\ MaxRounds \in Nat /\ "none" \notin Functions
BY SameCount, FS_CardinalityType DEF R!RendezvousAssumption

\* The sets of threads in one place are finite.
LEMMA InsideFinite ==
    ASSUME R!RendezvousAssumption, NEW place
    PROVE  IsFiniteSet(R!Inside(place)) /\ Cardinality(R!Inside(place)) \in Nat
<1>1. R!Inside(place) \in SUBSET Callers
  BY DEF R!Inside
<1> QED
  BY <1>1, EnoughThreads, FS_Subset, FS_CardinalityType

\* The state of the barrier, in terms of FiniteSets.
LEMMA BarrierCounts ==
    /\ R!BarrierState <=> /\ Cardinality(R!Inside("waits")) < Count
                          /\ \E k \in 0..MaxRounds : R!AfterRounds(k)
    /\ \A k : R!AfterRounds(k) <=> /\ rounds = Count * k + Cardinality(R!Inside("waits"))
                                   /\ returns = Count * k - Cardinality(R!Inside("released"))
BY SameCount DEF R!BarrierState, R!AfterRounds

\* A step that leaves alone who waits and who is let go leaves the barrier alone.
LEMMA BarrierKept ==
    ASSUME UNCHANGED <<rounds, returns>>,
           \A u \in Callers : /\ pc[u] = "waits" <=> pc'[u] = "waits"
                              /\ pc[u] = "released" <=> pc'[u] = "released"
    PROVE  /\ R!BarrierState => R!BarrierState'
           /\ R!Inside("released")' = R!Inside("released")
<1>1. R!Inside("waits")' = R!Inside("waits")
  BY DEF R!Inside
<1>2. R!Inside("released")' = R!Inside("released")
  BY DEF R!Inside
<1> QED
  BY <1>1, <1>2 DEF R!BarrierState, R!AfterRounds

\* No step of once disturbs the invariant.
LEMMA OnceStep ==
    ASSUME R!RendezvousAssumption, R!IInv, NEW t \in Callers, R!OnceNext(t)
    PROVE  R!IInv'
<1> USE EnoughThreads DEF R!IInv, R!TypeOK, R!None, R!bvars, R!ovars
<1>1. ASSUME NEW f \in Functions, R!RunOnce(t, f) PROVE R!IInv'
  BY <1>1, BarrierKept DEF R!RunOnce, R!OnceState
<1>2. CASE R!Begin(t)
  BY <1>2, BarrierKept DEF R!Begin, R!Guard, R!OnceState
<1>3. CASE R!End(t)
  BY <1>3, BarrierKept DEF R!End, R!OnceState
<1>4. CASE R!Skip(t)
  BY <1>4, BarrierKept DEF R!Skip, R!OnceState
<1> QED
  BY <1>1, <1>2, <1>3, <1>4 DEF R!OnceNext

\* The thread that completes a round turns those who wait into a full one.
LEMMA BarrierStep ==
    ASSUME R!RendezvousAssumption, R!IInv, NEW t \in Callers, R!BarrierNext(t)
    PROVE  R!IInv'
<1> USE EnoughThreads DEF R!IInv, R!TypeOK, R!None, R!ovars
<1> DEFINE Wt == R!Inside("waits")
           Rl == R!Inside("released")
<1>1. /\ IsFiniteSet(Wt) /\ Cardinality(Wt) \in Nat
      /\ IsFiniteSet(Rl) /\ Cardinality(Rl) \in Nat
  BY InsideFinite
<1>2. PICK k \in 0..MaxRounds : R!AfterRounds(k)
  BY DEF R!BarrierState
<1>3. Count \in Nat \ {0} /\ Count * k \in Nat /\ Count * (k + 1) = Count * k + Count
      /\ Count * (k + 1) \in Nat /\ k + 1 <= Count * (k + 1)
  BY FullRounds
<1>4. CASE R!Wait(t) /\ ~R!Last(t)
  <2>1. R!Inside("waits")' = Wt \cup {t} /\ R!Inside("released")' = Rl /\ t \notin Wt
    BY <1>4 DEF R!Wait, R!Inside
  <2>2. /\ Cardinality(R!Inside("waits")') = Cardinality(Wt) + 1
        /\ Cardinality(R!Inside("released")') = Cardinality(Rl)
    BY <1>1, <2>1, FS_AddElement
  <2>3. R!AfterRounds(k)' /\ (Cardinality(R!Inside("waits")) < Count)'
    <3>1. rounds' = rounds + 1 /\ returns' = returns /\ Cardinality(Wt) + 1 # Count
      BY <1>4, SameCount DEF R!Wait, R!Last
    <3>2. /\ rounds = Count * k + Cardinality(Wt) /\ Cardinality(Wt) < Count
          /\ returns = Count * k - Cardinality(Rl)
      BY <1>2, SameCount DEF R!AfterRounds, R!BarrierState
    <3>3. /\ rounds' = Count * k + Cardinality(R!Inside("waits")')
          /\ returns' = Count * k - Cardinality(R!Inside("released")')
          /\ Cardinality(R!Inside("waits")') < Count
      <4> DEFINE full == Count * k
      <4>1. full \in Nat /\ rounds = full + Cardinality(Wt) /\ returns = full - Cardinality(Rl)
        BY <1>3, <3>2
      <4> HIDE DEF full, Wt, Rl, R!IInv, R!TypeOK
      <4>2. /\ rounds' = full + Cardinality(R!Inside("waits")')
            /\ returns' = full - Cardinality(R!Inside("released")')
            /\ Cardinality(R!Inside("waits")') < Count
        BY <1>1, <2>2, <3>1, <3>2, <4>1
      <4> QED
        BY <4>2 DEF full
    <3> QED
      BY <3>3, SameCount DEF R!AfterRounds
  <2>4. R!BarrierState'
    BY <2>3, SameCount DEF R!BarrierState
  <2>5. R!TypeOK'
    BY <1>4, <2>1 DEF R!Wait
  <2> QED
    BY <1>4, <2>4, <2>5 DEF R!Wait, R!OnceState
<1>5. CASE R!Wait(t) /\ R!Last(t)
  <2>1. /\ R!Inside("waits")' = {} /\ R!Inside("released")' = Rl \cup (Wt \cup {t})
        /\ t \notin Wt /\ Rl \cap (Wt \cup {t}) = {}
    BY <1>5 DEF R!Wait, R!Inside
  <2>2. IsFiniteSet(Wt \cup {t}) /\ Cardinality(Wt \cup {t}) = Count
    BY <1>1, <1>5, <2>1, FS_AddElement, SameCount DEF R!Last
  <2>3. Cardinality(R!Inside("released")') = Cardinality(Rl) + Count
    <3>1. Cardinality(Rl \cup (Wt \cup {t}))
            = Cardinality(Rl) + Cardinality(Wt \cup {t}) - Cardinality(Rl \cap (Wt \cup {t}))
      BY <1>1, <2>2, FS_Union
    <3>2. Cardinality(Rl \cap (Wt \cup {t})) = 0
      BY <2>1, FS_EmptySet
    <3>3. Cardinality(R!Inside("released")') = Cardinality(Rl \cup (Wt \cup {t}))
      BY <2>1
    <3> HIDE DEF Wt, Rl
    <3> QED
      BY <1>1, <2>2, <3>1, <3>2, <3>3
  <2>4. Cardinality(R!Inside("waits")') = 0
    BY <2>1, FS_EmptySet
  <2>5. rounds' = Count * (k + 1) /\ returns' = Count * (k + 1) - Cardinality(R!Inside("released")')
    BY <1>1, <1>2, <1>3, <1>5, <2>3, SameCount DEF R!AfterRounds, R!Wait, R!Last
  <2>6. rounds' \in 0..MaxRounds
    BY <1>5 DEF R!Wait
  <2>7. k + 1 \in 0..MaxRounds
    BY <1>3, <2>5, <2>6
  <2>8. R!AfterRounds(k + 1)'
    BY <1>3, <2>4, <2>5, SameCount DEF R!AfterRounds
  <2>9. R!BarrierState'
    BY <1>3, <2>4, <2>7, <2>8, SameCount DEF R!BarrierState
  <2>10. R!TypeOK'
    <3>1. serial' \subseteq R!Inside("released")'
      BY <1>5, <2>1 DEF R!Wait
    <3> QED
      BY <1>5, <2>6, <3>1 DEF R!Wait
  <2> QED
    BY <1>5, <2>9, <2>10 DEF R!Wait, R!OnceState
<1>6. CASE R!WaitReturns(t)
  <2>1. R!Inside("waits")' = Wt /\ R!Inside("released")' = Rl \ {t} /\ t \in Rl
    BY <1>6 DEF R!WaitReturns, R!Inside
  <2>2. Cardinality(R!Inside("released")') = Cardinality(Rl) - 1 /\ Cardinality(Rl) > 0
    BY <1>1, <2>1, FS_RemoveElement, FS_EmptySet
  <2>3. R!AfterRounds(k)' /\ R!BarrierState'
    BY <1>1, <1>2, <1>3, <1>6, <2>1, <2>2, SameCount DEF R!AfterRounds, R!WaitReturns, R!BarrierState
  <2>4. R!TypeOK'
    <3>1. returns' \in 0..MaxRounds
      BY <1>1, <1>2, <1>3, <1>6, <2>2, SameCount DEF R!AfterRounds, R!WaitReturns
    <3>2. serial' \subseteq R!Inside("released")'
      BY <1>6, <2>1 DEF R!WaitReturns
    <3> QED
      BY <1>6, <3>1, <3>2 DEF R!WaitReturns, R!WaitSays
  <2> QED
    BY <1>6, <2>3, <2>4 DEF R!WaitReturns, R!OnceState
<1> QED
  BY <1>4, <1>5, <1>6 DEF R!BarrierNext

\* The constructors establish the invariant.
LEMMA RendezvousInit ==
    ASSUME R!RendezvousAssumption, R!Init
    PROVE  R!IInv
<1> USE DEF R!RendezvousAssumption, R!Init, R!None
<1>1. R!Inside("waits") = {} /\ R!Inside("released") = {}
  BY DEF R!Inside
<1>2. Count \in Nat \ {0} /\ Cardinality({}) = 0
  BY FS_CardinalityType, FS_EmptySet
<1>3. R!AfterRounds(0)
  <2>1. /\ Count * 0 = 0 /\ R!Cardinality(R!Inside("waits")) = 0
        /\ R!Cardinality(R!Inside("released")) = 0
    BY <1>1, <1>2, SameCount
  <2> QED
    BY <2>1 DEF R!AfterRounds
<1>4. R!TypeOK /\ R!OnceState
  BY <1>1 DEF R!TypeOK, R!OnceState
<1> QED
  BY <1>1, <1>2, <1>3, <1>4, SameCount DEF R!IInv, R!BarrierState

\* If only one function is ever handed to once::run(), it has run when a call
\* returns; the barrier holds whoever comes early.
LEMMA RendezvousIsSafe ==
    ASSUME R!RendezvousAssumption, R!IInv, \A f, g \in Functions : f = g
    PROVE  R!NobodyAhead
<1> USE DEF R!RendezvousAssumption, R!IInv, R!TypeOK, R!None
<1>1. R!AtMostOnce
  BY DEF R!OnceState, R!AtMostOnce
<1>2. R!RunBeforeReturn
  BY DEF R!OnceState, R!RunBeforeReturn
<1>3. R!NoneBeforeAll
  <2>1. PICK k \in 0..MaxRounds : R!AfterRounds(k)
    BY DEF R!BarrierState
  <2>2. /\ Count \in Nat \ {0} /\ Cardinality(R!Inside("waits")) \in 0..(Count - 1)
        /\ Cardinality(R!Inside("released")) \in Nat
    BY InsideFinite, FS_CardinalityType, SameCount DEF R!BarrierState
  <2>3. rounds \div Count = k /\ Count * k \in Nat
    <3> DEFINE w == Cardinality(R!Inside("waits"))
    <3>1. rounds = Count * k + w /\ w \in 0..(Count - 1)
      BY <2>1, <2>2, SameCount DEF R!AfterRounds
    <3> HIDE DEF w
    <3>2. Count * k \in Nat /\ (Count * k + w) \div Count = k
      BY <2>2, <3>1, FullRounds
    <3> QED
      BY <3>1, <3>2
  <2> QED
    BY <2>1, <2>2, <2>3, SameCount DEF R!AfterRounds, R!NoneBeforeAll
<1> QED
  BY <1>1, <1>2, <1>3 DEF R!NobodyAhead
-----------------------------------------------------------------------------
(* PoolReq.                                                                *)

\* A thread of the pool is taken only if one is free.
LEMMA BusyStep ==
    ASSUME P!PoolAssumption, IsFiniteSet(P!Busy), Cardinality(P!Busy) <= PoolSize,
           NEW r \in P!Reqs,
           \/ P!Busy' \subseteq P!Busy
           \/ P!Busy' = P!Busy \cup {r} /\ Cardinality(P!Busy) < PoolSize
    PROVE  IsFiniteSet(P!Busy)' /\ (Cardinality(P!Busy) <= PoolSize)'
<1> USE DEF P!PoolAssumption
<1>1. CASE P!Busy' \subseteq P!Busy
  <2>1. P!Busy' \in SUBSET P!Busy
    BY <1>1
  <2>2. /\ IsFiniteSet(P!Busy') /\ Cardinality(P!Busy') <= Cardinality(P!Busy)
        /\ Cardinality(P!Busy') \in Nat /\ Cardinality(P!Busy) \in Nat
    BY <2>1, FS_Subset, FS_CardinalityType
  <2> QED
    BY <2>2
<1>2. CASE P!Busy' = P!Busy \cup {r} /\ Cardinality(P!Busy) < PoolSize
  <2>1. /\ IsFiniteSet(P!Busy') /\ Cardinality(P!Busy') <= Cardinality(P!Busy) + 1
        /\ Cardinality(P!Busy) \in Nat /\ Cardinality(P!Busy') \in Nat
    BY <1>2, FS_AddElement, FS_CardinalityType
  <2> QED
    BY <1>2, <2>1
<1> QED
  BY <1>1, <1>2

\* The part of the invariant that is not about lists.
LEMMA RequestStep ==
    ASSUME P!PoolAssumption, P!IInv, P!Next
    PROVE  /\ P!IsFiniteSet(P!Busy)' /\ (P!Cardinality(P!Busy) <= PoolSize)'
           /\ P!SelfIsPending' /\ P!RunsByState'
           /\ (st \in [P!Reqs -> {"idle", "queued", "running", "done", "cancelled", "called"}])'
           /\ (user \in SUBSET P!Reqs /\ doomed \in SUBSET P!Reqs)'
           /\ (queued \in 0..MaxQueued /\ ran \in [P!Reqs -> Nat])'
           /\ (told \in [P!Reqs -> {"none", "event", "error"}] /\ ok \in [P!Reqs -> BOOLEAN])'
<1> DEFINE Goal == P!SelfIsPending' /\ P!RunsByState'
           Busy(r) == \/ P!Busy' \subseteq P!Busy
                      \/ P!Busy' = P!Busy \cup {r} /\ Cardinality(P!Busy) < PoolSize
           Types ==
             /\ (st \in [P!Reqs -> {"idle", "queued", "running", "done", "cancelled", "called"}])'
             /\ (user \in SUBSET P!Reqs /\ doomed \in SUBSET P!Reqs)'
             /\ (queued \in 0..MaxQueued /\ ran \in [P!Reqs -> Nat])'
             /\ (told \in [P!Reqs -> {"none", "event", "error"}] /\ ok \in [P!Reqs -> BOOLEAN])'
<1> USE DEF P!PoolAssumption, P!IInv, P!TypeOK, P!ListTypes, P!lvars, P!Pending, P!Busy, P!SelfIsPending,
            P!RunsByState
<1>1. ASSUME NEW r \in P!Reqs, P!Queue(r) PROVE Goal /\ Types /\ Busy(r)
  BY <1>1 DEF P!Queue, P!LeakIf
<1>2. ASSUME NEW r \in P!Reqs, P!Cancel(r) PROVE Goal /\ Types /\ Busy(r)
  BY <1>2 DEF P!Cancel
<1>3. ASSUME NEW r \in P!Reqs, P!Drop(r) PROVE Goal /\ Types /\ Busy(r)
  BY <1>3 DEF P!Drop
<1>4. ASSUME NEW r \in P!Reqs, NEW how, P!Sync(r, how) PROVE Goal /\ Types /\ Busy(r)
  BY <1>4 DEF P!Sync
<1>5. ASSUME NEW l \in P!Lists, P!Release(l) PROVE Goal /\ Types /\ P!Busy' = P!Busy
  BY <1>5 DEF P!Release
<1>6. ASSUME NEW r \in P!Reqs, P!Take(r) PROVE Goal /\ Types /\ Busy(r)
  BY <1>6, SameCount DEF P!Take
<1>7. ASSUME NEW r \in P!Reqs, P!WorkCallback(r) PROVE Goal /\ Types /\ Busy(r)
  BY <1>7 DEF P!WorkCallback
<1>8. ASSUME NEW r \in P!Reqs, NEW found \in BOOLEAN, P!Resolve(r, found)
      PROVE  Goal /\ Types /\ Busy(r)
  BY <1>8 DEF P!Resolve
<1>9. ASSUME NEW r \in P!Reqs, P!Callback(r) PROVE Goal /\ Types /\ Busy(r)
  BY <1>9 DEF P!Callback, P!Reserve, P!Published
<1>10. ASSUME NEW r \in P!Reqs, P!Return(r) PROVE Goal /\ Types /\ Busy(r)
  BY <1>10 DEF P!Return
<1>11. Goal /\ Types /\ (P!Busy' = P!Busy \/ \E r \in P!Reqs : Busy(r))
  <2> HIDE DEF Goal, Types, Busy, P!IInv
  <2> QED
    BY <1>1, <1>2, <1>3, <1>4, <1>5, <1>6, <1>7, <1>8, <1>9, <1>10
    DEF P!Next, P!UserNext, P!PoolNext, P!LoopNext
<1>12. IsFiniteSet(P!Busy) /\ Cardinality(P!Busy) <= PoolSize
  BY SameCount
<1>13. IsFiniteSet(P!Busy') /\ Cardinality(P!Busy') <= PoolSize
  <2> HIDE DEF P!Busy, P!IInv
  <2> QED
    BY <1>11, <1>12, BusyStep
<1> QED
  BY <1>11, <1>13, SameCount

\* Nobody has a list that was not made or is still with its request.
LEMMA ListUntouched ==
    ASSUME P!IInv, NEW l \in P!Lists, l > made \/ P!Awaited(l)
    PROVE  holds[l] = 0 /\ frees[l] = 0
<1>1. holds[l] \in 0..2 /\ frees[l] \in 0..2
  BY DEF P!IInv, P!TypeOK, P!ListTypes
<1>2. holds[l] + frees[l] = 0
  BY DEF P!IInv, P!ListsByState
<1> QED
  BY <1>1, <1>2

\* A step that makes no list, hands none over and frees none.
LEMMA ListsKept ==
    ASSUME P!PoolAssumption, P!IInv, UNCHANGED <<made, holds, frees>>,
           ptr' \in [P!Reqs -> P!Lists \cup {P!Null}],
           \A r \in P!Reqs :
              /\ st'[r] \in {"queued", "running", "cancelled"} => ptr'[r] = P!Null
              /\ ptr'[r] = ptr[r] \/ ptr'[r] = P!Null
              /\ r \in P!Pending /\ ptr[r] # P!Null => r \in P!Pending' /\ ptr'[r] = ptr[r]
              /\ r \in P!Pending' /\ ptr'[r] # P!Null => r \in P!Pending
    PROVE  P!ListsByState' /\ P!ListTypes'
<1> USE DEF P!PoolAssumption, P!IInv, P!TypeOK, P!ListTypes, P!Lists, P!Null
<1>1. \A l \in P!Lists : P!Awaited(l)' <=> P!Awaited(l)
  <2>1. P!Pending \subseteq P!Reqs /\ P!Pending' \subseteq P!Reqs
    BY DEF P!Pending
  <2> SUFFICES ASSUME NEW l \in P!Lists PROVE P!Awaited(l)' <=> P!Awaited(l)
    OBVIOUS
  <2>2. l # P!Null
    OBVIOUS
  <2>3. ASSUME P!Awaited(l) PROVE P!Awaited(l)'
    <3>1. PICK r \in P!Pending : ptr[r] = l
      BY <2>3 DEF P!Awaited
    <3>2. r \in P!Pending' /\ ptr'[r] = l
      BY <2>1, <2>2, <3>1
    <3> QED
      BY <3>2 DEF P!Awaited
  <2>4. ASSUME P!Awaited(l)' PROVE P!Awaited(l)
    <3>1. PICK r \in P!Pending' : ptr'[r] = l
      BY <2>4 DEF P!Awaited
    <3>2. r \in P!Pending /\ ptr[r] = l
      BY <2>1, <2>2, <3>1
    <3> QED
      BY <3>2 DEF P!Awaited
  <2> QED
    BY <2>3, <2>4
<1>2. \A r, s \in P!Pending' : r # s /\ ptr'[r] = ptr'[s] => ptr'[r] = P!Null
  <2>1. P!Pending' \subseteq P!Reqs
    BY DEF P!Pending
  <2> QED
    BY <2>1 DEF P!ListsByState
<1>3. \A r \in P!Reqs : ptr'[r] <= made'
  BY DEF P!ListsByState
<1> QED
  BY <1>1, <1>2, <1>3 DEF P!ListsByState, P!ListTypes

\* A list that is made for request r, which nobody waits for any more, has an owner
\* at once.
LEMMA ListMade ==
    ASSUME P!PoolAssumption, P!IInv, NEW r \in P!Reqs,
           made < MaxLists, made' = made + 1, ptr' = [ptr EXCEPT ![r] = made + 1],
           st[r] \in {"running", "idle"},
           UNCHANGED frees,
           IF st[r] = "running"
             THEN st' = [st EXCEPT ![r] = "done"] /\ UNCHANGED holds
             ELSE UNCHANGED st /\ holds' = [holds EXCEPT ![made + 1] = 1]
    PROVE  P!ListsByState' /\ P!ListTypes'
<1> USE DEF P!PoolAssumption, P!IInv, P!TypeOK, P!ListTypes, P!Lists, P!Null
<1>1. made + 1 \in P!Lists /\ holds[made + 1] = 0 /\ frees[made + 1] = 0
  <2>1. made + 1 \in P!Lists /\ made + 1 > made
    OBVIOUS
  <2> QED
    BY <2>1, ListUntouched
<1>2. P!ListTypes'
  BY <1>1 DEF P!ListTypes
<1>3. P!Pending' = P!Pending /\ P!Pending \subseteq P!Reqs /\ (r \in P!Pending <=> st[r] = "running")
  BY DEF P!Pending
<1>4. \A q \in P!Reqs : ptr[q] \in 0..made /\ ptr'[q] = IF q = r THEN made + 1 ELSE ptr[q]
  BY DEF P!ListsByState
<1>5. \A q \in P!Reqs : /\ st'[q] \in {"queued", "running", "cancelled"} => ptr'[q] = P!Null
                        /\ ptr'[q] <= made'
  BY <1>4 DEF P!ListsByState
<1>6. \A q, s \in P!Pending' : q # s /\ ptr'[q] = ptr'[s] => ptr'[q] = P!Null
  BY <1>3, <1>4 DEF P!ListsByState
<1>7. ASSUME NEW l \in P!Lists
      PROVE  holds'[l] + frees'[l] = IF l > made' \/ P!Awaited(l)' THEN 0 ELSE 1
  <2>0. holds[l] + frees[l] = IF l > made \/ P!Awaited(l) THEN 0 ELSE 1
    BY <1>7 DEF P!ListsByState
  <2>1. CASE l = made + 1
    <3>1. P!Awaited(l)' <=> st[r] = "running"
      BY <1>3, <1>4, <2>1 DEF P!Awaited
    <3> QED
      BY <1>1, <2>1, <3>1
  <2>2. CASE l # made + 1
    <3>1. P!Awaited(l)' <=> P!Awaited(l)
      <4>1. st[r] = "running" => ptr[r] = P!Null
        BY DEF P!ListsByState
      <4> QED
        BY <1>3, <1>4, <2>2, <4>1 DEF P!Awaited
    <3>2. holds'[l] = holds[l] /\ frees'[l] = frees[l] /\ (l > made' <=> l > made)
      BY <1>1, <2>2
    <3> QED
      BY <2>0, <3>1, <3>2
  <2> QED
    BY <2>1, <2>2
<1> QED
  BY <1>2, <1>5, <1>6, <1>7 DEF P!ListsByState

\* A callback hands the list it finds in its request to the event.
LEMMA ListHandedOver ==
    ASSUME P!PoolAssumption, P!IInv, NEW r \in P!Reqs, P!Callback(r)
    PROVE  P!ListsByState' /\ P!ListTypes'
<1> USE DEF P!PoolAssumption, P!IInv, P!TypeOK, P!ListTypes, P!Lists, P!Null, P!Callback, P!HandOver
<1>1. r \in P!Pending /\ P!Pending \subseteq P!Reqs /\ P!Pending' = P!Pending \ {r}
  BY DEF P!Pending
<1>2. ptr[r] # P!Null => ptr[r] \in P!Lists /\ ptr[r] <= made /\ P!Awaited(ptr[r])
  BY <1>1 DEF P!ListsByState, P!Awaited
<1>3. ptr[r] # P!Null => holds[ptr[r]] = 0 /\ frees[ptr[r]] = 0
  BY <1>2, ListUntouched
<1>4. P!ListTypes'
  BY <1>2, <1>3 DEF P!ListTypes
<1>5. \A q \in P!Reqs : /\ st'[q] \in {"queued", "running", "cancelled"} => ptr'[q] = P!Null
                        /\ ptr'[q] <= made'
  BY DEF P!ListsByState
<1>6. \A q, s \in P!Pending' : q # s /\ ptr'[q] = ptr'[s] => ptr'[q] = P!Null
  BY <1>1 DEF P!ListsByState
<1>7. ASSUME NEW l \in P!Lists
      PROVE  holds'[l] + frees'[l] = IF l > made' \/ P!Awaited(l)' THEN 0 ELSE 1
  <2>0. holds[l] + frees[l] = IF l > made \/ P!Awaited(l) THEN 0 ELSE 1
    BY <1>7 DEF P!ListsByState
  <2>1. CASE l = ptr[r]
    <3>1. ~P!Awaited(l)'
      BY <1>1, <2>1 DEF P!ListsByState, P!Awaited
    <3> QED
      BY <1>2, <1>3, <2>1, <3>1
  <2>2. CASE l # ptr[r]
    <3>1. P!Awaited(l)' <=> P!Awaited(l)
      BY <1>1, <2>2 DEF P!Awaited
    <3>2. holds'[l] = holds[l] /\ frees'[l] = frees[l] /\ made' = made
      BY <2>2
    <3> QED
      BY <2>0, <3>1, <3>2
  <2> QED
    BY <2>1, <2>2
<1> QED
  BY <1>4, <1>5, <1>6, <1>7 DEF P!ListsByState

\* The end of a unique_ptr.
LEMMA ListReleased ==
    ASSUME P!PoolAssumption, P!IInv, NEW l \in P!Lists, P!Release(l)
    PROVE  P!ListsByState' /\ P!ListTypes'
<1> USE DEF P!PoolAssumption, P!IInv, P!TypeOK, P!ListTypes, P!Release
<1>1. holds[l] = 1 /\ frees[l] = 0
  BY DEF P!ListsByState
<1>2. \A m \in P!Lists : holds'[m] + frees'[m] = holds[m] + frees[m]
  BY <1>1
<1>3. P!Pending' = P!Pending /\ \A m \in P!Lists : P!Awaited(m)' <=> P!Awaited(m)
  BY DEF P!Pending, P!Awaited
<1>4. P!ListTypes'
  BY <1>1 DEF P!ListTypes
<1> QED
  BY <1>2, <1>3, <1>4 DEF P!ListsByState

\* Every list has one owner, if libuv sets up every request it is given.
LEMMA ListsStep ==
    ASSUME P!PoolAssumption, ~Rejects, P!IInv, P!Next
    PROVE  P!ListsByState' /\ P!ListTypes'
<1> DEFINE Goal == P!ListsByState' /\ P!ListTypes'
<1> USE DEF P!PoolAssumption, P!lvars
<1>0. /\ st \in [P!Reqs -> {"idle", "queued", "running", "done", "cancelled", "called"}]
      /\ ptr \in [P!Reqs -> P!Lists \cup {P!Null}]
      /\ \A r \in P!Reqs : st[r] \in {"queued", "running", "cancelled"} => ptr[r] = P!Null
  BY DEF P!IInv, P!TypeOK, P!ListTypes, P!ListsByState
<1>1. ASSUME NEW r \in P!Reqs,
             P!Queue(r) \/ P!Cancel(r) \/ P!Drop(r) \/ P!Sync(r, "failed")
               \/ P!Take(r) \/ P!WorkCallback(r) \/ P!Resolve(r, FALSE) \/ P!Return(r)
      PROVE  Goal
  <2>1. /\ UNCHANGED <<made, holds, frees>>
        /\ ptr' = ptr \/ ptr' = [ptr EXCEPT ![r] = P!Null]
        /\ ptr' # ptr => r \notin P!Pending \/ st[r] = "running"
    BY <1>1, <1>0 DEF P!Queue, P!Cancel, P!Drop, P!Sync, P!Take, P!WorkCallback, P!Resolve,
                 P!Return, P!Pending
  <2>2. /\ \E s \in {"idle", "queued", "running", "done", "cancelled", "called"} :
             st' = [st EXCEPT ![r] = s]
        /\ r \in P!Pending => r \in P!Pending'
        /\ r \in P!Pending' => r \in P!Pending \/ ptr'[r] = P!Null
        /\ st'[r] \in {"queued", "running", "cancelled"} => ptr'[r] = P!Null
    BY <1>1, <1>0 DEF P!Queue, P!Cancel, P!Drop, P!Sync, P!Take, P!WorkCallback, P!Resolve,
                 P!Return, P!Pending
  <2>3. \A q \in P!Reqs : q # r => ptr'[q] = ptr[q] /\ st'[q] = st[q]
    BY <1>0, <2>1, <2>2
  <2>4. \A q \in P!Reqs : q # r => (q \in P!Pending' <=> q \in P!Pending)
    BY <2>3 DEF P!Pending
  <2>5. r \in P!Pending /\ ptr[r] # P!Null => ptr'[r] = ptr[r]
    BY <1>0, <2>1
  <2>6. /\ ptr' \in [P!Reqs -> P!Lists \cup {P!Null}]
        /\ ptr'[r] = ptr[r] \/ ptr'[r] = P!Null
    BY <1>0, <2>1
  <2>7. \A q \in P!Reqs :
          /\ st'[q] \in {"queued", "running", "cancelled"} => ptr'[q] = P!Null
          /\ ptr'[q] = ptr[q] \/ ptr'[q] = P!Null
          /\ q \in P!Pending /\ ptr[q] # P!Null => q \in P!Pending' /\ ptr'[q] = ptr[q]
          /\ q \in P!Pending' /\ ptr'[q] # P!Null => q \in P!Pending
    BY <1>0, <2>2, <2>3, <2>4, <2>5, <2>6
  <2> QED
    BY <2>1, <2>6, <2>7, ListsKept
<1>2. ASSUME NEW r \in P!Reqs, P!Sync(r, "found") PROVE Goal
  <2>1. made \in 0..MaxLists /\ holds[made + 1] = 0
    <3>1. made + 1 \in P!Lists /\ made + 1 > made /\ made \in 0..MaxLists
      BY <1>2 DEF P!Sync, P!IInv, P!TypeOK, P!ListTypes, P!Lists
    <3> QED
      BY <3>1, ListUntouched
  <2>2. /\ made < MaxLists /\ made' = made + 1 /\ ptr' = [ptr EXCEPT ![r] = made + 1]
        /\ st[r] = "idle" /\ UNCHANGED <<st, frees>>
    BY <1>2 DEF P!Sync
  <2>3. ptr'[r] = made + 1 /\ ptr'[r] # P!Null
    BY <1>0, <2>1, <2>2 DEF P!Null
  <2>4. holds' = [holds EXCEPT ![made + 1] = 1]
    <3>1. holds' = [holds EXCEPT ![ptr'[r]] = IF @ = 2 THEN 2 ELSE @ + 1]
      BY <1>2, <2>3 DEF P!Sync
    <3>2. holds' = [holds EXCEPT ![made + 1] = IF holds[made + 1] = 2 THEN 2 ELSE holds[made + 1] + 1]
      BY <2>3, <3>1
    <3> QED
      BY <2>1, <3>2
  <2> QED
    BY <2>2, <2>4, ListMade
<1>3. ASSUME NEW r \in P!Reqs, P!Resolve(r, TRUE) PROVE Goal
  BY <1>3, ListMade DEF P!Resolve
<1>4. ASSUME NEW r \in P!Reqs, P!Sync(r, "rejected") PROVE FALSE
  BY <1>4 DEF P!Sync
<1> QED
  <2> HIDE DEF Goal
  <2> QED
    BY <1>1, <1>2, <1>3, <1>4, ListHandedOver, ListReleased
    DEF P!Next, P!UserNext, P!PoolNext, P!LoopNext, Goal

\* The invariant of the requests the pool works on.
LEMMA PoolStep ==
    ASSUME P!PoolAssumption, ~Rejects, P!IInv, P!Next
    PROVE  P!IInv'
<1>1. P!SelfIsPending' => (self \in SUBSET P!Pending)'
  BY DEF P!SelfIsPending
<1> QED
  BY <1>1, RequestStep, ListsStep DEF P!IInv, P!TypeOK

\* The constructors establish it.
LEMMA PoolInit ==
    ASSUME P!PoolAssumption, P!Init
    PROVE  P!IInv
<1> USE DEF P!PoolAssumption, P!Init, P!Lists, P!Null
<1>1. P!Busy = {} /\ P!Pending = {}
  BY DEF P!Busy, P!Pending
<1>2. P!IsFiniteSet(P!Busy) /\ P!Cardinality(P!Busy) = 0
  BY <1>1, SameCount, FS_EmptySet
<1>3. P!TypeOK
  BY <1>1, <1>2 DEF P!TypeOK, P!ListTypes
<1>4. P!SelfIsPending /\ P!RunsByState /\ P!ListsByState
  BY <1>1 DEF P!SelfIsPending, P!RunsByState, P!ListsByState, P!Awaited
<1> QED
  BY <1>2, <1>3, <1>4 DEF P!IInv

\* What the invariant says of requests, their answers and their lists.
LEMMA PoolIsSafe ==
    ASSUME P!PoolAssumption, P!IInv
    PROVE  P!PoolSafe
<1> USE DEF P!PoolAssumption, P!IInv, P!TypeOK, P!ListTypes, P!Lists, P!Null
<1>1. P!PendingAlive
  BY DEF P!SelfIsPending, P!PendingAlive, P!Live
<1>2. P!AnswersTrue
  BY DEF P!RunsByState, P!AnswersTrue
<1>3. ASSUME NEW l \in 1..made
      PROVE  holds[l] + frees[l] + Cardinality({r \in P!Pending : ptr[r] = l}) = 1
  <2> DEFINE waiting == {r \in P!Pending : ptr[r] = l}
  <2>1. l \in P!Lists /\ ~(l > made) /\ holds[l] \in 0..2 /\ frees[l] \in 0..2
    BY <1>3
  <2>2. CASE P!Awaited(l)
    <3>1. PICK r \in P!Pending : ptr[r] = l
      BY <2>2 DEF P!Awaited
    <3>2. waiting = {r}
      <4>1. \A q \in P!Pending : ptr[q] = l => q = r
        BY <2>1, <3>1 DEF P!ListsByState
      <4> QED
        BY <3>1, <4>1
    <3>3. Cardinality(waiting) = 1
      BY <3>2, FS_Singleton
    <3> QED
      BY <2>1, <2>2, <3>3 DEF P!ListsByState
  <2>3. CASE ~P!Awaited(l)
    <3>1. waiting = {}
      BY <2>3 DEF P!Awaited
    <3>2. Cardinality(waiting) = 0
      BY <3>1, FS_EmptySet
    <3> QED
      BY <2>1, <2>3, <3>2 DEF P!ListsByState
  <2> QED
    BY <2>2, <2>3
<1>4. P!ListFreedOnce
  BY <1>3, SameCount DEF P!ListFreedOnce
<1> QED
  BY <1>1, <1>2, <1>4 DEF P!PoolSafe

-----------------------------------------------------------------------------
(* The four parts together.                                                *)

\* A part that keeps still keeps its invariant.
LEMMA PartsKept ==
    /\ P!IInv /\ UNCHANGED poolVars => P!IInv'
    /\ W!IInv /\ UNCHANGED threadVars => W!IInv'
    /\ L!IInv /\ UNCHANGED lockVars => L!IInv'
    /\ R!IInv /\ UNCHANGED meetVars => R!IInv'
<1>1. P!IInv /\ UNCHANGED poolVars => P!IInv'
  BY DEF poolVars, P!IInv, P!TypeOK, P!ListTypes, P!Pending, P!Busy, P!SelfIsPending,
         P!RunsByState, P!ListsByState, P!Awaited
<1>2. W!IInv /\ UNCHANGED threadVars => W!IInv'
  BY DEF threadVars, W!IInv, W!TypeOK, W!ThreadOf, W!FlagDown, W!WaitsOnce, W!EndIsJoined,
         W!JoinDefined, W!Waits, W!Joined
<1>3. L!IInv /\ UNCHANGED lockVars => L!IInv'
  BY DEF lockVars, L!IInv, L!TypeOK, L!MineIsHeld, L!RwlockState, L!SemaphoreCounts
<1>4. R!IInv /\ UNCHANGED meetVars => R!IInv'
  BY DEF meetVars, R!IInv, R!TypeOK, R!OnceState, R!BarrierState, R!AfterRounds, R!Inside
<1> QED
  BY <1>1, <1>2, <1>3, <1>4

\* The assumptions of the parts.
LEMMA PartAssumptions ==
    P!PoolAssumption /\ W!ThreadAssumption /\ L!LocksAssumption /\ R!RendezvousAssumption
BY ThreadsAssumption

\* Whatever user code, the pool and the loop do with requests in between, a request
\* owns itself while libuv has it, its counters say what ran, and every list of
\* addresses is with one owner.
THEOREM PoolInvariance == ~Rejects => (Spec => []P!IInv)
<1> SUFFICES ASSUME ~Rejects PROVE Spec => []P!IInv
  OBVIOUS
<1>1. Init => P!IInv
  BY PoolInit, PartAssumptions DEF Init
<1>2. P!IInv /\ [Next]_vars => P!IInv'
  BY PoolStep, PartsKept, PartAssumptions DEF Next, vars
<1> QED
  BY <1>1, <1>2, PTL DEF Spec

\* Requests of the pool (work.ipp, dns.ipp): alive while they are worked on, events that
\* mean what they say, lists of addresses freed once.
THEOREM PoolRequestsSafe == ~Rejects => (Spec => []PoolSafe)
<1> SUFFICES ASSUME ~Rejects PROVE Spec => []PoolSafe
  OBVIOUS
<1>1. P!IInv => PoolSafe
  BY PoolIsSafe, PartAssumptions DEF PoolSafe
<1>2. Spec => []P!IInv
  BY PoolInvariance
<1> QED
  BY <1>1, <1>2, PTL

\* If user code has one run() succeed before it joins or destroys (thread.ipp): the flag
\* is down exactly when the thread has been, or is being, joined, and the thread of a
\* wrapper is the one its id names.
THEOREM ThreadInvariance == Careful => (Spec => []W!IInv)
<1> SUFFICES ASSUME Careful PROVE Spec => []W!IInv
  OBVIOUS
<1>1. Init => W!IInv
  BY ThreadInit, PartAssumptions DEF Init
<1>2. W!IInv /\ [Next]_vars => W!IInv'
  BY ThreadStep, PartsKept, PartAssumptions DEF Next, vars
<1> QED
  BY <1>1, <1>2, PTL DEF Spec

\* Such a thread never runs the function of a wrapper that is gone, join() means that it
\* has ended, and no thread is joined twice.
THEOREM ThreadsEndInOrder == Careful => (Spec => []ThreadSafe)
<1> SUFFICES ASSUME Careful PROVE Spec => []ThreadSafe
  OBVIOUS
<1>1. W!IInv => ThreadSafe
  BY ThreadIsSafe DEF ThreadSafe
<1>2. Spec => []W!IInv
  BY ThreadInvariance
<1> QED
  BY <1>1, <1>2, PTL

\* The state of the mutex, the rwlock, the semaphore, once and the barrier agrees with
\* what the threads have been told (thread.ipp).
THEOREM PrimitivesInvariance == Spec => [](L!IInv /\ R!IInv)
<1>1. Init => L!IInv /\ R!IInv
  BY LocksInit, RendezvousInit, PartAssumptions DEF Init
<1>2. L!IInv /\ R!IInv /\ [Next]_vars => L!IInv' /\ R!IInv'
  <2>1. L!IInv /\ [Next]_vars => L!IInv'
    BY LocksStep, PartsKept, PartAssumptions DEF Next, vars
  <2>2. R!IInv /\ R!Next => R!IInv'
    BY OnceStep, BarrierStep, PartAssumptions DEF R!Next
  <2>3. R!IInv /\ [Next]_vars => R!IInv'
    BY <2>2, PartsKept DEF Next, vars
  <2> QED
    BY <2>1, <2>3
<1> QED
  BY <1>1, <1>2, PTL DEF Spec

\* For any number of threads: one holds the mutex, a writer is alone, the semaphore lets
\* through what it has, the barrier lets nobody go before all are there, and a function
\* that is the only one handed to once::run() has run, once, when a call returns.
THEOREM PrimitivesExclude ==
    (\A f, g \in Functions : f = g) => (Spec => []PrimitivesSafe)
<1> SUFFICES ASSUME \A f, g \in Functions : f = g PROVE Spec => []PrimitivesSafe
  OBVIOUS
<1>1. L!IInv /\ R!IInv => PrimitivesSafe
  BY LocksAreSafe, RendezvousIsSafe, PartAssumptions DEF PrimitivesSafe
<1>2. Spec => [](L!IInv /\ R!IInv)
  BY PrimitivesInvariance
<1> QED
  BY <1>1, <1>2, PTL

\* The four invariants together, which the run checks on its instance.
THEOREM ThreadsInvariance == Careful /\ ~Rejects => (Spec => []IInv)
<1> SUFFICES ASSUME Careful, ~Rejects PROVE Spec => []IInv
  OBVIOUS
<1>1. Spec => []P!IInv /\ []W!IInv /\ [](L!IInv /\ R!IInv)
  BY PoolInvariance, ThreadInvariance, PrimitivesInvariance
<1>2. P!IInv /\ W!IInv /\ L!IInv /\ R!IInv => IInv
  BY DEF IInv
<1> QED
  BY <1>1, <1>2, PTL
=============================================================================
