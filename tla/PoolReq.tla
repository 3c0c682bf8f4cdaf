------------------------------ MODULE PoolReq ------------------------------
(***************************************************************************)
(* Requests that libuv's pool threads work on: work_req (work.ipp), and    *)
(* get_addr_info_req and get_name_info_req (dns.ipp), with request::cancel *)
(* (request.hpp).  A thread of the pool calls work_callback, or resolves a *)
(* name, while user code on the loop's thread drops references, cancels    *)
(* and queues; the loop calls back afterwards.                             *)
(*                                                                         *)
(* A resolved name is a list in memory that libuv leaves in the request:   *)
(* the callback, or the synchronous call, hands it to a unique_ptr.        *)
(***************************************************************************)
EXTENDS Integers, FiniteSets

CONSTANTS
    WorkReqs,    \* work requests
    AddrReqs,    \* address and name requests
    PoolSize,    \* threads of the pool
    MaxQueued,   \* bound: calls of queue() and its like that were accepted
    MaxLists,    \* bound: address lists made
    Rejects      \* libuv may refuse a synchronous call before it sets the request up

\* What the model assumes of its constants.
PoolAssumption ==
    /\ PoolSize \in Nat \ {0} /\ MaxQueued \in Nat /\ MaxLists \in Nat
    /\ Rejects \in BOOLEAN /\ WorkReqs \cap AddrReqs = {}

Reqs == WorkReqs \cup AddrReqs
Lists == 1..MaxLists
Null == 0

VARIABLES
    st,        \* each request: idle, queued, running, done, cancelled, called
    user,      \* requests user code holds a reference to
    self,      \* requests that own themselves
    queued,    \* calls accepted so far
    runs,      \* how often the task ran since queue()
    told,      \* the answer to the last queue(): none, event, error
    doomed,    \* requests whose cancel() returned success since queue()
    ptr,       \* uv_getaddrinfo_t::addrinfo of each request
    ok,        \* whether the name was resolved
    made,      \* lists made so far
    holds,     \* unique_ptrs that hold a list
    frees      \* how often a list was freed

lvars == <<made, holds, frees>>
vars == <<st, user, self, queued, runs, told, doomed, ptr, ok, lvars>>

Pending == {r \in Reqs : st[r] \in {"queued", "running", "done", "cancelled"}}
Busy == {r \in Reqs : st[r] = "running"}
Live(r) == r \in user \cup self \/ st[r] = "called"

ListTypes ==
    /\ ptr \in [Reqs -> Lists \cup {Null}] /\ made \in 0..MaxLists
    /\ holds \in [Lists -> 0..2] /\ frees \in [Lists -> 0..2]

\* The type invariant: the pool is not exceeded, and a request owns itself only
\* while libuv works on it.
TypeOK ==
    /\ st \in [Reqs -> {"idle", "queued", "running", "done", "cancelled", "called"}]
    /\ Cardinality(Busy) <= PoolSize
    /\ user \in SUBSET Reqs /\ self \in SUBSET Pending /\ doomed \in SUBSET Reqs
    /\ queued \in 0..MaxQueued /\ runs \in [Reqs -> Nat]
    /\ told \in [Reqs -> {"none", "event", "error"}]
    /\ ok \in [Reqs -> BOOLEAN]
    /\ ListTypes

Init ==
    /\ st = [r \in Reqs |-> "idle"] /\ user = Reqs /\ self = {}
    /\ queued = 0 /\ runs = [r \in Reqs |-> 0] /\ told = [r \in Reqs |-> "none"]
    /\ doomed = {} /\ ptr = [r \in Reqs |-> Null] /\ ok = [r \in Reqs |-> FALSE]
    /\ made = 0 /\ holds = [l \in Lists |-> 0] /\ frees = [l \in Lists |-> 0]

-----------------------------------------------------------------------------
(* User code, on the loop's thread.                                        *)

\* (Faulty variant: the request does not own itself.)
LeakIfNever(r) == self

\* leak_if(0): the request owns itself while libuv works on it.
LeakIf(r) == self \cup {r}

\* queue(), node_addr_info(), name_info() and the forms that end in them, on a
\* request that is not pending.  A call that is refused changes nothing.
Queue(r) ==
    /\ r \in user /\ r \notin Pending /\ queued < MaxQueued
    /\ st' = [st EXCEPT ![r] = "queued"]
    /\ self' = LeakIf(r)
    /\ queued' = queued + 1
    /\ runs' = [runs EXCEPT ![r] = 0] /\ told' = [told EXCEPT ![r] = "none"]
    /\ doomed' = doomed \ {r}
    /\ ptr' = [ptr EXCEPT ![r] = Null] /\ ok' = [ok EXCEPT ![r] = FALSE]
    /\ UNCHANGED <<user, lvars>>

\* cancel(): libuv refuses it once a thread has the request.
Cancel(r) ==
    /\ r \in user /\ st[r] = "queued"
    /\ st' = [st EXCEPT ![r] = "cancelled"]
    /\ doomed' = doomed \cup {r}
    /\ UNCHANGED <<user, self, queued, runs, told, ptr, ok, lvars>>

\* The last reference user code has to a request.
Drop(r) ==
    /\ r \in user
    /\ user' = user \ {r}
    /\ UNCHANGED <<st, self, queued, runs, told, doomed, ptr, ok, lvars>>

\* The synchronous forms: the calling thread resolves the name, and the list
\* the request points to then, if any, is handed to the caller.  A call that
\* is refused early leaves the pointer as it was.
Sync(r, how) ==
    /\ r \in user \cap AddrReqs /\ st[r] = "idle"
    /\ how = "rejected" => Rejects
    /\ CASE how = "found" -> /\ made < MaxLists /\ made' = made + 1
                             /\ ptr' = [ptr EXCEPT ![r] = made + 1]
         [] how = "failed" -> ptr' = [ptr EXCEPT ![r] = Null] /\ UNCHANGED made
         [] how = "rejected" -> UNCHANGED <<ptr, made>>
    /\ holds' = IF ptr'[r] = Null THEN holds
                ELSE [holds EXCEPT ![ptr'[r]] = IF @ = 2 THEN 2 ELSE @ + 1]
    /\ UNCHANGED <<st, user, self, queued, runs, told, doomed, ok, frees>>

\* A unique_ptr to a list goes out of scope.
Release(l) ==
    /\ holds[l] > 0
    /\ holds' = [holds EXCEPT ![l] = @ - 1]
    /\ frees' = [frees EXCEPT ![l] = IF @ = 2 THEN 2 ELSE @ + 1]
    /\ UNCHANGED <<st, user, self, queued, runs, told, doomed, ptr, ok, made>>

-----------------------------------------------------------------------------
(* Pool threads.                                                           *)

\* A thread takes a request (external).
Take(r) ==
    /\ st[r] = "queued" /\ Cardinality(Busy) < PoolSize
    /\ st' = [st EXCEPT ![r] = "running"]
    /\ UNCHANGED <<user, self, queued, runs, told, doomed, ptr, ok, lvars>>

\* work_callback: the task runs and ends.
WorkCallback(r) ==
    /\ r \in WorkReqs /\ st[r] = "running"
    /\ st' = [st EXCEPT ![r] = "done"]
    /\ runs' = [runs EXCEPT ![r] = @ + 1] /\ ok' = [ok EXCEPT ![r] = TRUE]
    /\ UNCHANGED <<user, self, queued, told, doomed, ptr, lvars>>

\* The name is resolved, or it is not (external).
Resolve(r, found) ==
    /\ r \in AddrReqs /\ st[r] = "running"
    /\ found => made < MaxLists
    /\ st' = [st EXCEPT ![r] = "done"]
    /\ runs' = [runs EXCEPT ![r] = @ + 1] /\ ok' = [ok EXCEPT ![r] = found]
    /\ made' = IF found THEN made + 1 ELSE made
    /\ ptr' = [ptr EXCEPT ![r] = IF found THEN made + 1 ELSE Null]
    /\ UNCHANGED <<user, self, queued, told, doomed, holds, frees>>

-----------------------------------------------------------------------------
(* The loop.                                                               *)

\* (Faulty variant: the status is not looked at.)
PublishedBlindly(r) == "event"

\* What the callback publishes: a status means an error_event.
Published(r) == IF st[r] = "done" /\ ok[r] THEN "event" ELSE "error"

\* (Faulty variant: the list stays with the request.)
HandOverNothing(r) == holds

\* addr_info_callback puts the list into the event.
HandOver(r) == IF ptr[r] = Null THEN holds ELSE [holds EXCEPT ![ptr[r]] = @ + 1]

\* (Faulty variant: the request keeps itself.)
ReserveKeeps(r) == self

\* reserve(): the callback takes the request's reference to itself.
Reserve(r) == self \ {r}

\* (Faulty variant: a cancelled request is not answered.)
CallbackIfDone(r) ==
    /\ st[r] = "done"
    /\ st' = [st EXCEPT ![r] = "called"]
    /\ self' = Reserve(r)
    /\ told' = [told EXCEPT ![r] = Published(r)]
    /\ holds' = HandOver(r)
    /\ UNCHANGED <<user, queued, runs, doomed, ptr, ok, made, frees>>

\* after_work_callback, addr_info_callback, name_info_callback: reserve() takes
\* the request's reference to itself, and the answer is published.
Callback(r) ==
    /\ st[r] \in {"done", "cancelled"}
    /\ st' = [st EXCEPT ![r] = "called"]
    /\ self' = Reserve(r)
    /\ told' = [told EXCEPT ![r] = Published(r)]
    /\ holds' = HandOver(r)
    /\ UNCHANGED <<user, queued, runs, doomed, ptr, ok, made, frees>>

\* The callback returns, unless the listener has queued the request again.
Return(r) ==
    /\ st[r] = "called"
    /\ st' = [st EXCEPT ![r] = "idle"]
    /\ UNCHANGED <<user, self, queued, runs, told, doomed, ptr, ok, lvars>>

-----------------------------------------------------------------------------
UserNext ==
    \/ \E r \in Reqs : Queue(r) \/ Cancel(r) \/ Drop(r)
    \/ \E r \in Reqs, how \in {"found", "failed", "rejected"} : Sync(r, how)
    \/ \E l \in Lists : Release(l)

PoolNext == \E r \in Reqs : Take(r) \/ WorkCallback(r) \/ \E found \in BOOLEAN : Resolve(r, found)

LoopNext == \E r \in Reqs : Callback(r) \/ Return(r)

Next == UserNext \/ PoolNext \/ LoopNext

Spec == Init /\ [][Next]_vars

\* A free thread takes what is queued, work ends, and the loop runs.
Fairness ==
    /\ WF_vars(\E r \in Reqs : Take(r))
    /\ \A r \in WorkReqs : WF_vars(WorkCallback(r))
    /\ \A r \in AddrReqs : WF_vars(\E found \in BOOLEAN : Resolve(r, found))
    /\ \A r \in Reqs : WF_vars(Callback(r))

FairSpec == Spec /\ Fairness

-----------------------------------------------------------------------------
(* Properties.                                                             *)

\* The object a pool thread or the loop works on is alive, whatever references
\* user code has dropped.
PendingAlive == \A r \in Pending : Live(r)

\* A work_event means the task has run, once; after a cancel() that succeeded
\* the answer is an error and the task never ran, nor will.
AnswersTrue ==
    \A r \in Reqs :
        /\ runs[r] <= 1
        /\ told[r] = "event" => runs[r] = 1 /\ r \notin doomed
        /\ r \in doomed => runs[r] = 0

\* A list is freed once, and only the request it was left in for a callback
\* still to come, or one unique_ptr, has it.
ListFreedOnce ==
    \A l \in 1..made :
        LET waiting == {r \in Pending : ptr[r] = l}
        IN holds[l] + frees[l] + Cardinality(waiting) = 1

\* Every accepted request is answered, also one that was cancelled.
Answered == \A r \in Reqs : r \in Pending ~> told[r] # "none"

\* A request and its list live as long as the pool, the loop or the user needs
\* them, and its event is true.
PoolSafe == PendingAlive /\ AnswersTrue /\ ListFreedOnce
-----------------------------------------------------------------------------
(* The inductive invariant, if libuv sets up every request it is given.    *)

\* A request owns itself exactly as long as libuv has it.
SelfIsPending == self = Pending

\* The task runs between running and done, and cancel() keeps it from doing so.
RunsByState ==
    \A r \in Reqs :
        /\ st[r] \in {"queued", "running", "cancelled"} => runs[r] = 0
        /\ st[r] = "done" => runs[r] = 1
        /\ st[r] \in {"queued", "running", "done"} => r \notin doomed
        /\ r \in doomed => runs[r] = 0
        /\ told[r] = "event" => runs[r] = 1
        /\ runs[r] \in 0..1

\* A list is with the one request that waits for its callback, or was handed on.
Awaited(l) == \E r \in Pending : ptr[r] = l

ListsByState ==
    /\ \A r \in Reqs :
        /\ st[r] \in {"queued", "running", "cancelled"} => ptr[r] = Null
        /\ ptr[r] <= made
    /\ \A r, s \in Pending : r # s /\ ptr[r] = ptr[s] => ptr[r] = Null
    /\ \A l \in Lists : holds[l] + frees[l] = IF l > made \/ Awaited(l) THEN 0 ELSE 1

IInv == TypeOK /\ IsFiniteSet(Busy) /\ SelfIsPending /\ RunsByState /\ ListsByState
=============================================================================
