----------------------------- MODULE Rendezvous -----------------------------
(***************************************************************************)
(* once and barrier (thread.h, thread.ipp): the two primitives that make   *)
(* threads wait for each other.  once::run() hands a function to uv_once   *)
(* with the one guard of the whole program; barrier::wait() turns the      *)
(* answer of uv_barrier_wait into a bool.  Every thread asks for a         *)
(* function of its choice, goes through the barrier, and starts again.     *)
(***************************************************************************)
EXTENDS Integers, FiniteSets

CONSTANTS
    Threads,     \* the threads
    Functions,   \* the functions handed to once::run()
    Count,       \* the `count` the barrier is created with
    MaxRounds    \* bound: calls of barrier::wait()

\* What the model assumes of its constants.
RendezvousAssumption ==
    /\ Count \in 1..Cardinality(Threads) /\ MaxRounds \in Nat
    /\ IsFiniteSet(Threads) /\ "none" \notin Functions

None == "none"

VARIABLES
    guard,      \* the static uv_once_t of once::guard(): the function that runs
                \* under each guard (None: nobody was there), and whether it has ended
    ran,        \* how often each function has begun
    pc,         \* each thread: idle, in once::run() (asks, runs), returned from
                \* it, in barrier::wait() (waits), let go by it (released)
    want,       \* the function the thread's last once::run() was called with
    serial,     \* the threads uv_barrier_wait is about to answer 1
    rounds,     \* how often barrier::wait() has been called
    returns,    \* how often it has come back
    said        \* what barrier::wait() has last told each thread

bvars == <<serial, rounds, returns, said>>
ovars == <<guard, ran, want>>
vars == <<ovars, bvars, pc>>

Inside(place) == {t \in Threads : pc[t] = place}

\* The type invariant: uv_once leaves nobody behind a guard that is up.
TypeOK ==
    /\ guard \in [by : Functions \cup {None}, done : BOOLEAN]
    /\ guard.done => guard.by # None
    /\ ran \in [Functions -> Nat]
    /\ pc \in [Threads -> {"idle", "asks", "runs", "returned", "waits", "released"}]
    /\ want \in [Threads -> Functions \cup {None}]
    /\ serial \in SUBSET Inside("released")
    /\ rounds \in 0..MaxRounds /\ returns \in 0..MaxRounds
    /\ said \in [Threads -> {"none", "true", "false"}]

Init ==
    /\ guard = [by |-> None, done |-> FALSE]
    /\ ran = [f \in Functions |-> 0]
    /\ pc = [t \in Threads |-> "idle"] /\ want = [t \in Threads |-> None]
    /\ serial = {} /\ rounds = 0 /\ returns = 0 /\ said = [t \in Threads |-> "none"]

-----------------------------------------------------------------------------
(* once.                                                                   *)

\* once::run(f) is called.
RunOnce(t, f) ==
    /\ pc[t] = "idle"
    /\ pc' = [pc EXCEPT ![t] = "asks"] /\ want' = [want EXCEPT ![t] = f]
    /\ UNCHANGED <<guard, ran, bvars>>

\* (Faulty variant: guard() gives every call a guard of its own.)
GuardOfCall == [by |-> None, done |-> FALSE]

\* guard(): the static of the function, which is not a template.
Guard == guard

\* uv_once finds the guard untouched, and the thread executes its function.
Begin(t) ==
    /\ pc[t] = "asks" /\ Guard.by = None
    /\ guard' = [by |-> want[t], done |-> FALSE]
    /\ ran' = [ran EXCEPT ![want[t]] = @ + 1]
    /\ pc' = [pc EXCEPT ![t] = "runs"]
    /\ UNCHANGED <<want, bvars>>

\* (Faulty variant: the guard does not learn that the function has ended.)
EndUnmarked(t) ==
    /\ pc[t] = "runs"
    /\ pc' = [pc EXCEPT ![t] = "returned"]
    /\ UNCHANGED <<ovars, bvars>>

\* The function ends, and with it the call of uv_once.
End(t) ==
    /\ pc[t] = "runs"
    /\ guard' = [guard EXCEPT !.done = TRUE]
    /\ pc' = [pc EXCEPT ![t] = "returned"]
    /\ UNCHANGED <<ran, want, bvars>>

\* uv_once (external) blocks every other caller until that function has ended.
Skip(t) ==
    /\ pc[t] = "asks" /\ guard.done
    /\ pc' = [pc EXCEPT ![t] = "returned"]
    /\ UNCHANGED <<ovars, bvars>>

-----------------------------------------------------------------------------
(* barrier.                                                                *)

\* (Faulty variant: one thread fewer than the caller asked for.)
LastIsEarly(t) == Cardinality(Inside("waits")) + 2 >= Count

\* uv_barrier_init(raw(), count): this is the thread the others wait for.
Last(t) == Cardinality(Inside("waits")) + 1 = Count

\* barrier::wait() is called: uv_barrier_wait blocks, or, in the thread that
\* completes the number, lets everybody go.  One of them, and no matter
\* which, is answered 1, the others 0.
Wait(t) ==
    /\ pc[t] = "returned" /\ rounds < MaxRounds
    /\ rounds' = rounds + 1
    /\ IF Last(t)
         THEN /\ pc' = [u \in Threads |->
                          IF u = t \/ pc[u] = "waits" THEN "released" ELSE pc[u]]
              /\ \E u \in Inside("waits") \cup {t} : serial' = serial \cup {u}
         ELSE pc' = [pc EXCEPT ![t] = "waits"] /\ UNCHANGED serial
    /\ UNCHANGED <<ovars, returns, said>>

\* 0 == uv_barrier_wait(raw()).
WaitSays(answer) == IF answer = 0 THEN "true" ELSE "false"

\* barrier::wait() returns.
WaitReturns(t) ==
    /\ pc[t] = "released"
    /\ said' = [said EXCEPT ![t] = WaitSays(IF t \in serial THEN 1 ELSE 0)]
    /\ returns' = returns + 1
    /\ pc' = [pc EXCEPT ![t] = "idle"]
    /\ serial' = serial \ {t}
    /\ UNCHANGED <<ovars, rounds>>

-----------------------------------------------------------------------------
OnceNext(t) ==
    Begin(t) \/ End(t) \/ Skip(t) \/ \E f \in Functions : RunOnce(t, f)

BarrierNext(t) == Wait(t) \/ WaitReturns(t)

Next == \E t \in Threads : OnceNext(t) \/ BarrierNext(t)

Spec == Init /\ [][Next]_vars

\* A thread that can go on does.
Fairness == \A t \in Threads : WF_vars(Begin(t) \/ End(t) \/ Skip(t))

FairSpec == Spec /\ Fairness

-----------------------------------------------------------------------------
(* Properties.                                                             *)

\* A function handed to once::run() never begins a second time, whatever the
\* threads that ask for it at the same time.
AtMostOnce == \A f \in Functions : ran[f] <= 1

\* "Runs a function once and only once": when once::run(f) has returned, f has
\* begun, and it has ended.
RunBeforeReturn ==
    \A t \in Threads : pc[t] \in {"returned", "waits", "released"} =>
        ran[want[t]] = 1 /\ guard = [by |-> want[t], done |-> TRUE]

\* "Concurrent calls to `once` will block all callers except one", and those for
\* as long as the function takes: every call of once::run() comes to an end.
OnceReturns ==
    \A t \in Threads : pc[t] = "asks" ~> pc[t] = "returned"

\* "the number of threads that must call `wait` before any of them successfully
\* return": the calls that came back never exceed the full rounds that arrived.
NoneBeforeAll == returns <= Count * (rounds \div Count)

\* Nobody passes once or the barrier before what it waits for has happened.
NobodyAhead == AtMostOnce /\ RunBeforeReturn /\ NoneBeforeAll

-----------------------------------------------------------------------------
(* What the documentation says and the code does not do: TLC refutes it.  *)

\* "True in case of success, false otherwise": nobody's wait() fails here.
WaitSucceeds == \A t \in Threads : said[t] # "false"
-----------------------------------------------------------------------------
(* The inductive invariant.                                                *)

\* The guard knows the one function that has begun; nobody is past once::run()
\* before that function has ended.
OnceState ==
    /\ \A f \in Functions : ran[f] = IF guard.by = f THEN 1 ELSE 0
    /\ \A t \in Threads :
        /\ pc[t] # "idle" => want[t] \in Functions
        /\ pc[t] = "runs" => guard.by # None
        /\ pc[t] \in {"returned", "waits", "released"} => guard.done

\* After k full rounds: who waits is of the next round, who is let go and has
\* not come back is of a full one.
AfterRounds(k) ==
    /\ rounds = Count * k + Cardinality(Inside("waits"))
    /\ returns = Count * k - Cardinality(Inside("released"))

BarrierState == Cardinality(Inside("waits")) < Count /\ \E k \in 0..MaxRounds : AfterRounds(k)

IInv == TypeOK /\ OnceState /\ BarrierState
=============================================================================
