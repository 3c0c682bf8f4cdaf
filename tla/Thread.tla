------------------------------- MODULE Thread -------------------------------
(***************************************************************************)
(* Thread wrappers (thread.ipp): run() starts a thread that executes       *)
(* `func` of the wrapper, join() waits for it if `joinable` says so, and   *)
(* the destructor joins.  `joinable` is true from construction on and is   *)
(* never set again; the id of the thread is overwritten by every run().    *)
(* The wrappers belong to one thread, which blocks in join().              *)
(***************************************************************************)
EXTENDS Integers

CONSTANTS
    Wrappers,    \* the wrappers
    MaxRuns,     \* bound: calls of run() on one wrapper
    Careful      \* user code has one run() succeed, before it joins or destroys

\* What the model assumes of its constants.
ThreadAssumption == MaxRuns \in Nat /\ Careful \in BOOLEAN

None == 0
Threads == 1..MaxRuns

VARIABLES
    obj,        \* each wrapper: alive, destroyed
    joinable,   \* wrappers whose member is true
    tid,        \* the thread run() has created last, or None
    runs,       \* calls of run() so far
    os,         \* the threads of a wrapper: none, running, ended, joined
    call,       \* the join the owner is blocked in: [op, w], or none
    said        \* what the last join() of a wrapper has returned

wvars == <<tid, runs>>
vars == <<obj, joinable, wvars, os, call, said>>

Ran(w) == {t \in Threads : os[w][t] = "running"}
Idle == call = {}

\* The type invariant.
TypeOK ==
    /\ obj \in [Wrappers -> {"alive", "destroyed"}] /\ joinable \in SUBSET Wrappers
    /\ tid \in [Wrappers -> Threads \cup {None}] /\ runs \in [Wrappers -> 0..MaxRuns]
    /\ os \in [Wrappers -> [Threads -> {"none", "running", "ended", "joined"}]]
    /\ call \in SUBSET [op : {"join", "destroy"}, w : Wrappers \ joinable]
    /\ said \in [Wrappers -> {"none", "true", "false", "undefined"}]

\* The constructor.
Init ==
    /\ obj = [w \in Wrappers |-> "alive"] /\ joinable = Wrappers
    /\ tid = [w \in Wrappers |-> None] /\ runs = [w \in Wrappers |-> 0]
    /\ os = [w \in Wrappers |-> [t \in Threads |-> "none"]]
    /\ call = {} /\ said = [w \in Wrappers |-> "none"]

-----------------------------------------------------------------------------

\* run(), in both forms: the thread is created, or it is not.
Run(w, ok) ==
    /\ Idle /\ obj[w] = "alive" /\ runs[w] < MaxRuns
    /\ Careful => tid[w] = None
    /\ runs' = [runs EXCEPT ![w] = @ + 1]
    /\ IF ok THEN /\ tid' = [tid EXCEPT ![w] = runs[w] + 1]
                  /\ os' = [os EXCEPT ![w][runs[w] + 1] = "running"]
             ELSE UNCHANGED <<tid, os>>
    /\ UNCHANGED <<obj, joinable, call, said>>

\* create_callback returns: the thread has executed func(data).
CreateCallback(w, t) ==
    /\ os[w][t] = "running"
    /\ os' = [os EXCEPT ![w][t] = "ended"]
    /\ UNCHANGED <<obj, joinable, wvars, call, said>>

\* uv_thread_join (external) is defined for a thread that was not joined.
Joins(w) == tid[w] # None /\ os[w][tid[w]] # "joined"

\* (Faulty variant: the flag stays up, and the destructor joins again.)
JoinFlagKept(w) == joinable

\* std::exchange(joinable, false).
JoinFlag(w) == joinable \ {w}

\* (Faulty variant: join() does not wait.)
JoinNoWait(w) ==
    /\ Idle /\ obj[w] = "alive"
    /\ Careful => tid[w] # None
    /\ said' = [said EXCEPT ![w] = "true"]
    /\ UNCHANGED <<obj, joinable, wvars, os, call>>

\* join(): it blocks if the flag was up, and says true if it was not.
Join(w) ==
    /\ Idle /\ obj[w] = "alive"
    /\ Careful => tid[w] # None
    /\ joinable' = JoinFlag(w)
    /\ IF w \in joinable
         THEN call' = {[op |-> "join", w |-> w]} /\ UNCHANGED said
         ELSE said' = [said EXCEPT ![w] = "true"] /\ UNCHANGED call
    /\ UNCHANGED <<obj, wvars, os>>

\* (Faulty variant: the destructor does not join.)
DestroyAtOnce(w) ==
    /\ Idle /\ obj[w] = "alive"
    /\ Careful => tid[w] # None
    /\ obj' = [obj EXCEPT ![w] = "destroyed"]
    /\ UNCHANGED <<joinable, wvars, os, call, said>>

\* ~thread(): join().
Destroy(w) ==
    /\ Idle /\ obj[w] = "alive"
    /\ Careful => tid[w] # None
    /\ joinable' = JoinFlag(w)
    /\ IF w \in joinable
         THEN call' = {[op |-> "destroy", w |-> w]} /\ UNCHANGED obj
         ELSE obj' = [obj EXCEPT ![w] = "destroyed"] /\ UNCHANGED call
    /\ UNCHANGED <<wvars, os, said>>

\* uv_thread_join returns.
JoinReturns(op, w) ==
    /\ [op |-> op, w |-> w] \in call
    /\ IF Joins(w)
         THEN /\ os[w][tid[w]] = "ended"
              /\ os' = [os EXCEPT ![w][tid[w]] = "joined"]
              /\ said' = [said EXCEPT ![w] = "true"]
         ELSE said' = [said EXCEPT ![w] = "undefined"] /\ UNCHANGED os
    /\ obj' = IF op = "destroy" THEN [obj EXCEPT ![w] = "destroyed"] ELSE obj
    /\ call' = {}
    /\ UNCHANGED <<joinable, wvars>>

-----------------------------------------------------------------------------
UserNext(w) == Join(w) \/ Destroy(w) \/ \E ok \in BOOLEAN : Run(w, ok)

Next == \E w \in Wrappers :
    \/ UserNext(w)
    \/ \E t \in Threads : CreateCallback(w, t)
    \/ \E op \in {"join", "destroy"} : JoinReturns(op, w)

Spec == Init /\ [][Next]_vars

-----------------------------------------------------------------------------
(* Properties.                                                             *)

\* A thread executes the function and the data of a wrapper that exists.
FuncAlive == \A w \in Wrappers : obj[w] = "destroyed" => Ran(w) = {}

\* "Joins with a terminated thread": when join() has said true, no thread of
\* the wrapper is running.
JoinMeansEnded == \A w \in Wrappers : said[w] = "true" => Ran(w) = {}

\* uv_thread_join is called for a thread that exists and was not joined.
JoinDefined == \A w \in Wrappers : said[w] # "undefined"

\* A wrapper, its function and its thread end in an order that is defined.
ThreadSafe == FuncAlive /\ JoinMeansEnded /\ JoinDefined
-----------------------------------------------------------------------------
(* The inductive invariant, for user code that is Careful.                 *)

Waits(w) == \E c \in call : c.w = w
Joined(w) == tid[w] # None /\ os[w][tid[w]] = "joined"

\* A wrapper has one thread at most, and `tid` is that thread.
ThreadOf == \A w \in Wrappers, t \in Threads : os[w][t] # "none" <=> t = tid[w]

\* The flag is down from the call of join() on, and the owner is in one call.
FlagDown == \A w \in Wrappers : w \notin joinable <=> Waits(w) \/ Joined(w)
WaitsOnce == /\ \A w \in Wrappers : Waits(w) => tid[w] # None /\ ~Joined(w)
             /\ \A c, d \in call : c = d

\* What join() and the destructor have waited for.
EndIsJoined == \A w \in Wrappers : obj[w] = "destroyed" \/ said[w] = "true" => Joined(w)

IInv == TypeOK /\ ThreadOf /\ FlagDown /\ WaitsOnce /\ EndIsJoined /\ JoinDefined
=============================================================================
