------------------------------ MODULE MCThreads ------------------------------
(***************************************************************************)
(* What threads do with uvw beside the loop's: the pool that works on      *)
(* requests, the wrapper of a thread, and the primitives threads share.    *)
(* The four parts share no state: a behaviour is one of the part `part`    *)
(* names, and the others keep still.                                       *)
(***************************************************************************)
CONSTANTS
    WorkReqs, AddrReqs, PoolSize, MaxQueued, MaxLists, Rejects,   \* PoolReq
    Wrappers, MaxRuns, Careful,                                   \* Thread
    Callers,                                                      \* the next two
    MaxDepth, Value, MaxPosts,                                    \* Locks
    Functions, Count, MaxRounds                                   \* Rendezvous

VARIABLES
    part,
    st, user, self, queued, ran, told, doomed, ptr, ok, made, holds, frees,
    obj, joinable, tid, runs, os, call, said,
    recursive, holder, depth, mine, at, readers, writer, reads, writes, sem,
    posts, passed,
    guard, begun, pc, want, serial, rounds, returns, heard

P == INSTANCE PoolReq WITH runs <- ran
W == INSTANCE Thread
L == INSTANCE Locks WITH Threads <- Callers, pc <- at
R == INSTANCE Rendezvous WITH Threads <- Callers, ran <- begun, said <- heard

ASSUME ThreadsAssumption ==
    /\ P!PoolAssumption /\ W!ThreadAssumption
    /\ L!LocksAssumption /\ R!RendezvousAssumption

poolVars == <<st, user, self, queued, ran, told, doomed, ptr, ok, made, holds, frees>>
threadVars == <<obj, joinable, tid, runs, os, call, said>>
lockVars == <<recursive, holder, depth, mine, at, readers, writer, reads, writes,
              sem, posts, passed>>
meetVars == <<guard, begun, pc, want, serial, rounds, returns, heard>>
vars == <<part, poolVars, threadVars, lockVars, meetVars>>

Init ==
    /\ part \in {"pool", "thread", "locks", "rendezvous"}
    /\ P!Init /\ W!Init /\ L!Init /\ R!Init
    /\ part # "locks" => ~recursive

Next ==
    \/ part = "pool" /\ P!Next /\ UNCHANGED <<part, threadVars, lockVars, meetVars>>
    \/ part = "thread" /\ W!Next /\ UNCHANGED <<part, poolVars, lockVars, meetVars>>
    \/ part = "locks" /\ L!Next /\ UNCHANGED <<part, poolVars, threadVars, meetVars>>
    \/ part = "rendezvous" /\ R!Next /\ UNCHANGED <<part, poolVars, threadVars, lockVars>>

Spec == Init /\ [][Next]_vars

\* The fairness of PoolReq and of Rendezvous; a part that keeps still has
\* queued nothing and called nothing.
FairSpec == Spec /\ P!Fairness /\ R!Fairness

-----------------------------------------------------------------------------
\* The invariants of the parts that their proofs are by induction on.
IInv == P!IInv /\ W!IInv /\ L!IInv /\ R!IInv

\* A request the pool or the loop still needs is alive, its event means that
\* the task ran, and every list of addresses is freed once.
PoolSafe == P!PoolSafe

\* A thread runs the function of a wrapper that exists, no thread is joined
\* twice or without having been created, and join() waits for the end.
ThreadSafe == W!ThreadSafe

\* One thread at a time takes itself to hold the mutex, a writer is alone, and
\* no more waits go through than the semaphore has to give; once::run() runs a
\* function once and before it returns, and the barrier waits for all.
PrimitivesSafe == L!LocksExclude /\ R!NobodyAhead

\* Every queued request is answered, and once::run() returns.
CallsAnswered == P!Answered /\ R!OnceReturns
=============================================================================
