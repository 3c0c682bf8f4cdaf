------------------------------- MODULE Locks -------------------------------
(***************************************************************************)
(* A mutex, a condition, a rwlock and a semaphore (thread.ipp) shared by a *)
(* few threads.  The primitives are libuv's; what uvw adds is which of     *)
(* them a call reaches and what the caller is told, so next to the state   *)
(* of each primitive stands what every thread takes itself to hold.        *)
(***************************************************************************)
EXTENDS Integers, FiniteSets

CONSTANTS
    Threads,     \* the threads that share the primitives
    MaxDepth,    \* bound: nested locks of a recursive mutex
    Value,       \* the value the semaphore was created with
    MaxPosts     \* bound: calls of post()

\* What the model assumes of its constants.
LocksAssumption ==
    /\ MaxDepth \in Nat \ {0}
    /\ Value \in Nat /\ MaxPosts \in Nat
    /\ "free" \notin Threads

Free == "free"

VARIABLES
    recursive, \* the mutex was created recursive
    holder,    \* the thread that has the mutex, or Free
    depth,     \* how often
    mine,      \* how often each thread takes itself to have it
    pc,        \* run, or in wait() or timed_wait(): waiting, timed, woken
    readers,   \* threads the rwlock has been given to for reading
    writer,    \* the threads (one at most) it has been given to for writing
    reads,     \* threads that take themselves to be reading
    writes,    \* threads that take themselves to be writing
    sem,       \* the semaphore's value
    posts,     \* calls of post()
    passed     \* calls of wait() and try_wait() that went through, to the caller

mvars == <<recursive, holder, depth, mine, pc>>
rvars == <<readers, writer, reads, writes>>
svars == <<sem, posts, passed>>
vars == <<mvars, rvars, svars>>

\* The type invariant: a mutex that is not recursive is held once.
TypeOK ==
    /\ recursive \in BOOLEAN /\ holder \in Threads \cup {Free} /\ depth \in 0..MaxDepth
    /\ mine \in [Threads -> 0..MaxDepth]
    /\ pc \in [Threads -> {"run", "waiting", "timed", "woken"}]
    /\ readers \in SUBSET Threads /\ reads \in SUBSET Threads
    /\ writer \in SUBSET Threads /\ writes \in SUBSET Threads
    /\ sem \in 0..(Value + MaxPosts) /\ posts \in 0..MaxPosts
    /\ passed \in 0..(Value + MaxPosts)
    /\ ~recursive => depth <= 1
    /\ depth = 0 <=> holder = Free

Init ==
    /\ recursive \in BOOLEAN
    /\ holder = Free /\ depth = 0 /\ mine = [t \in Threads |-> 0]
    /\ pc = [t \in Threads |-> "run"]
    /\ readers = {} /\ writer = {} /\ reads = {} /\ writes = {}
    /\ sem = Value /\ posts = 0 /\ passed = 0

Runs(t) == pc[t] = "run"

-----------------------------------------------------------------------------
(* mutex.                                                                  *)

\* uv_mutex_init or uv_mutex_init_recursive: the holder may lock again.
Lockable(t) == holder = Free \/ (recursive /\ holder = t /\ depth < MaxDepth)

\* lock(): it blocks until the mutex can be had.
Lock(t) ==
    /\ Runs(t) /\ Lockable(t)
    /\ holder' = t /\ depth' = depth + 1
    /\ mine' = [mine EXCEPT ![t] = @ + 1]
    /\ UNCHANGED <<recursive, pc, rvars, svars>>

\* (Faulty variant: any answer of libuv counts as success.)
LockSaysTrue(got) == TRUE

\* The answer of try_lock(): 0 == uv_mutex_trylock().
LockSays(got) == got

\* try_lock().
TryLock(t) ==
    /\ Runs(t) /\ mine[t] < MaxDepth
    /\ IF Lockable(t) THEN holder' = t /\ depth' = depth + 1 ELSE UNCHANGED <<holder, depth>>
    /\ mine' = IF LockSays(Lockable(t)) THEN [mine EXCEPT ![t] = @ + 1] ELSE mine
    /\ UNCHANGED <<recursive, pc, rvars, svars>>

\* unlock(), by a thread that has it.
Unlock(t) ==
    /\ Runs(t) /\ mine[t] > 0 /\ holder = t
    /\ depth' = depth - 1
    /\ holder' = IF depth = 1 THEN Free ELSE t
    /\ mine' = [mine EXCEPT ![t] = @ - 1]
    /\ UNCHANGED <<recursive, pc, rvars, svars>>

-----------------------------------------------------------------------------
(* condition.                                                              *)

\* wait(mtx) and timed_wait(mtx, timeout): the mutex is given up.
Wait(t, timed) ==
    /\ Runs(t) /\ holder = t /\ depth = 1
    /\ holder' = Free /\ depth' = 0
    /\ mine' = [mine EXCEPT ![t] = 0]
    /\ pc' = [pc EXCEPT ![t] = IF timed THEN "timed" ELSE "waiting"]
    /\ UNCHANGED <<recursive, rvars, svars>>

Waiters == {t \in Threads : pc[t] \in {"waiting", "timed"}}

\* signal() wakes one thread that waits, broadcast() all; a time-out and, as
\* libuv allows, nothing at all wakes one as well.
Signal(t) ==
    /\ t \in Waiters
    /\ pc' = [pc EXCEPT ![t] = "woken"]
    /\ UNCHANGED <<recursive, holder, depth, mine, rvars, svars>>

Broadcast ==
    /\ Waiters # {}
    /\ pc' = [t \in Threads |-> IF t \in Waiters THEN "woken" ELSE pc[t]]
    /\ UNCHANGED <<recursive, holder, depth, mine, rvars, svars>>

\* (Faulty variant: a wait that timed out comes back without the mutex.)
WaitReturnsAtOnce(t) ==
    /\ pc[t] = "woken"
    /\ pc' = [pc EXCEPT ![t] = "run"]
    /\ mine' = [mine EXCEPT ![t] = 1]
    /\ UNCHANGED <<recursive, holder, depth, rvars, svars>>

\* The end of wait() and timed_wait(), whatever the latter says: the mutex is
\* had again.
WaitReturns(t) ==
    /\ pc[t] = "woken" /\ holder = Free
    /\ pc' = [pc EXCEPT ![t] = "run"]
    /\ holder' = t /\ depth' = 1 /\ mine' = [mine EXCEPT ![t] = 1]
    /\ UNCHANGED <<recursive, rvars, svars>>

-----------------------------------------------------------------------------
(* rwlock.                                                                 *)

\* rdlock(), and try_rdlock() when it succeeds.
Rdlock(t) ==
    /\ Runs(t) /\ writer = {} /\ t \notin readers
    /\ readers' = readers \cup {t} /\ reads' = reads \cup {t}
    /\ UNCHANGED <<writer, writes, mvars, svars>>

\* rdunlock().
Rdunlock(t) ==
    /\ Runs(t) /\ t \in reads \cap readers
    /\ readers' = readers \ {t} /\ reads' = reads \ {t}
    /\ UNCHANGED <<writer, writes, mvars, svars>>

\* wrlock().
Wrlock(t) ==
    /\ Runs(t) /\ writer = {} /\ readers = {}
    /\ writer' = {t} /\ writes' = writes \cup {t}
    /\ UNCHANGED <<readers, reads, mvars, svars>>

\* (Faulty variant: try_wrlock() made from try_rdlock().)
TryWrlockReads(t) ==
    /\ Runs(t) /\ writer = {} /\ t \notin readers
    /\ readers' = readers \cup {t} /\ writes' = writes \cup {t}
    /\ UNCHANGED <<writer, reads, mvars, svars>>

\* try_wrlock(), when it succeeds.
TryWrlock(t) ==
    /\ Runs(t) /\ writer = {} /\ readers = {}
    /\ writer' = {t} /\ writes' = writes \cup {t}
    /\ UNCHANGED <<readers, reads, mvars, svars>>

\* wrunlock().
Wrunlock(t) ==
    /\ Runs(t) /\ t \in writes \cap writer
    /\ writer' = {} /\ writes' = writes \ {t}
    /\ UNCHANGED <<readers, reads, mvars, svars>>

-----------------------------------------------------------------------------
(* semaphore.                                                              *)

\* post().
Post(t) ==
    /\ Runs(t) /\ posts < MaxPosts
    /\ posts' = posts + 1 /\ sem' = sem + 1
    /\ UNCHANGED <<passed, mvars, rvars>>

\* wait().
SemWait(t) ==
    /\ Runs(t) /\ sem > 0
    /\ sem' = sem - 1 /\ passed' = passed + 1
    /\ UNCHANGED <<posts, mvars, rvars>>

\* (Faulty variant: try_wait() says true when the value was zero.)
SemTryWaitInverted(t) ==
    /\ Runs(t) /\ passed < Value + MaxPosts
    /\ sem' = IF sem > 0 THEN sem - 1 ELSE 0
    /\ passed' = IF sem > 0 THEN passed ELSE passed + 1
    /\ UNCHANGED <<posts, mvars, rvars>>

\* try_wait(): 0 == uv_sem_trywait().
SemTryWait(t) ==
    /\ Runs(t)
    /\ sem' = IF sem > 0 THEN sem - 1 ELSE 0
    /\ passed' = IF sem > 0 THEN passed + 1 ELSE passed
    /\ UNCHANGED <<posts, mvars, rvars>>

-----------------------------------------------------------------------------
MutexNext(t) == Lock(t) \/ TryLock(t) \/ Unlock(t)
ConditionNext(t) == Wait(t, TRUE) \/ Wait(t, FALSE) \/ Signal(t) \/ WaitReturns(t)
RwlockNext(t) == Rdlock(t) \/ Rdunlock(t) \/ Wrlock(t) \/ TryWrlock(t) \/ Wrunlock(t)
SemaphoreNext(t) == Post(t) \/ SemWait(t) \/ SemTryWait(t)

Next ==
    \/ Broadcast
    \/ \E t \in Threads :
         MutexNext(t) \/ ConditionNext(t) \/ RwlockNext(t) \/ SemaphoreNext(t)

Spec == Init /\ [][Next]_vars

-----------------------------------------------------------------------------
(* Properties.                                                             *)

\* One thread at a time takes itself to hold the mutex, by whatever call it
\* came to it: lock, try_lock, or the return of a wait that may have timed out.
MutexExclusive == \A t \in Threads : mine[t] > 0 => holder = t /\ mine[t] = depth

\* A thread that takes itself to be writing is alone.
WriterAlone ==
    \A t \in writes : writes = {t} /\ reads \subseteq {t} /\ readers \subseteq {t}

\* No more waits have gone through than the semaphore had to give, and what is
\* left is still in it.
SemaphoreCounts == passed + sem = Value + posts

\* The locks exclude what they are to exclude.
LocksExclude == MutexExclusive /\ WriterAlone /\ SemaphoreCounts
-----------------------------------------------------------------------------
(* The inductive invariant.                                                *)

\* What a thread takes itself to hold is what the mutex has on record.
MineIsHeld == \A t \in Threads : mine[t] = IF holder = t THEN depth ELSE 0

\* The same for the rwlock, which is held by readers or by one writer.
RwlockState ==
    /\ reads = readers /\ writes = writer
    /\ writer # {} => readers = {}
    /\ \A t, u \in writer : t = u

IInv == TypeOK /\ MineIsHeld /\ RwlockState /\ SemaphoreCounts
=============================================================================
