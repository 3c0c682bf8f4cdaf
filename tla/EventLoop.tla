----------------------------- MODULE EventLoop -----------------------------
(***************************************************************************)
(* One loop with idle, prepare, check and async handles (idle.ipp,         *)
(* prepare.ipp, check.ipp, async.ipp), run in any mode (loop.ipp: run,     *)
(* stop, alive), while other threads post data and wake it with send().    *)
(* The iteration itself is libuv's uv_run: idle, prepare, poll, check,     *)
(* closing.  Module Timer has the timers.                                  *)
(*                                                                         *)
(* Listeners may call anything: a user call is possible between any two    *)
(* steps of the loop, except while it is blocked in the kernel.            *)
(***************************************************************************)
EXTENDS Integers

CONSTANTS
    Idles, Prepares, Checks, Asyncs,   \* the handles, by type
    Made,                              \* bound: which of them are made together
    MaxPosts                           \* bound: what a thread posts

\* What the model assumes of its constants.
EventLoopAssumption ==
    /\ MaxPosts \in Nat
    /\ Idles \cap (Prepares \cup Checks \cup Asyncs) = {}
    /\ Prepares \cap (Checks \cup Asyncs) = {} /\ Checks \cap Asyncs = {}

Ticks == Idles \cup Prepares \cup Checks
Handles == Ticks \cup Asyncs
Modes == {"DEFAULT", "ONCE", "NOWAIT"}

VARIABLES
    phase,     \* where uv_run is: out (not running), idle, prepare, poll, ...
    mode,      \* the mode libuv was given
    asked,     \* the mode run() was called with
    flag,      \* uv_loop_t's stop flag
    hs,        \* each handle: open, closing, closed
    act,       \* the active handles
    refd,      \* the referenced handles
    todo,      \* the handles this phase has still to visit
    sent,      \* async handles with a send() the loop has not seen
    posted,    \* what other threads have posted for an async handle
    seen,      \* how much of it the listener has found
    between,   \* async handles whose thread has posted and not yet called send()
    steady,    \* handles active since before this iteration began
    count      \* events of a handle in this iteration

hvars == <<hs, act, refd>>
avars == <<sent, posted, seen, between>>
vars == <<phase, mode, asked, flag, hvars, todo, avars, steady, count>>

Open == {h \in Handles : hs[h] = "open"}
Closing == {h \in Handles : hs[h] = "closing"}

\* The type invariant: only open handles are active, visited or counted on.
TypeOK ==
    /\ phase \in {"out", "idle", "prepare", "asleep", "poll", "check", "closing"}
    /\ mode \in Modes /\ asked \in Modes /\ flag \in BOOLEAN
    /\ hs \in [Handles -> {"open", "closing", "closed"}]
    /\ act \in SUBSET Open /\ refd \in SUBSET Handles
    /\ todo \in SUBSET (act \cup Closing)
    /\ sent \in SUBSET Asyncs /\ between \in SUBSET Asyncs
    /\ posted \in [Asyncs -> 0..MaxPosts] /\ seen \in [Asyncs -> 0..MaxPosts]
    /\ steady \in SUBSET act
    /\ count \in [Handles -> 0..2]

\* One set of the handles has been made and initialised; the others count as
\* closed.  init() starts an async handle at once.
Init ==
    /\ phase = "out" /\ mode = "DEFAULT" /\ asked = "DEFAULT" /\ flag = FALSE
    /\ \E M \in Made : hs = [h \in Handles |-> IF h \in M THEN "open" ELSE "closed"]
    /\ act = Asyncs \cap Open /\ refd = Open /\ todo = {}
    /\ sent = {} /\ between = {}
    /\ posted = [h \in Asyncs |-> 0] /\ seen = [h \in Asyncs |-> 0]
    /\ steady = {} /\ count = [h \in Handles |-> 0]

-----------------------------------------------------------------------------
(* User calls on the loop's thread.                                        *)

Awake == phase # "asleep"

\* (Faulty variant: check_handle::start copied from prepare.ipp.)
QueueOfCopied(h) == CASE h \in Idles -> "idle" [] OTHER -> "prepare"

\* (Faulty variant: idle_handle::start copied from prepare.ipp.)
QueueOfNoIdle(h) == CASE h \in Checks -> "check" [] OTHER -> "prepare"

\* The queue of the loop that start() puts a handle in.
QueueOf(h) == CASE h \in Idles -> "idle"
                [] h \in Prepares -> "prepare"
                [] h \in Checks -> "check"
                [] OTHER -> "poll"

\* start(): on an active handle it does nothing.  libuv visits a handle that
\* is started in its own phase from the next iteration on.
Start(h) ==
    /\ Awake /\ h \in Open \cap Ticks
    /\ act' = act \cup {h}
    /\ UNCHANGED <<phase, mode, asked, flag, hs, refd, todo, avars, steady, count>>

\* (Faulty variant: stop() leaves the handle in the queue being visited.)
StopLate(h) ==
    /\ Awake /\ h \in Open \cap Ticks
    /\ act' = act \ {h} /\ steady' = steady \ {h}
    /\ UNCHANGED <<phase, mode, asked, flag, hs, refd, todo, avars, count>>

\* stop(): the handle leaves the loop's queue, also the part being visited.
Stop(h) ==
    /\ Awake /\ h \in Open \cap Ticks
    /\ act' = act \ {h} /\ todo' = todo \ {h} /\ steady' = steady \ {h}
    /\ UNCHANGED <<phase, mode, asked, flag, hs, refd, avars, count>>

\* close(), guarded by closing(): uv_close stops the handle.
Close(h) ==
    /\ Awake /\ h \in Open
    /\ hs' = [hs EXCEPT ![h] = "closing"]
    /\ act' = act \ {h} /\ todo' = todo \ {h} /\ steady' = steady \ {h}
    /\ UNCHANGED <<phase, mode, asked, flag, refd, avars, count>>

\* reference() and unreference(), idempotent.
Reference(h, on) ==
    /\ Awake /\ h \in Open
    /\ refd' = IF on THEN refd \cup {h} ELSE refd \ {h}
    /\ UNCHANGED <<phase, mode, asked, flag, hs, act, todo, avars, steady, count>>

\* loop::stop(), from a listener or before run().
LoopStop ==
    /\ Awake
    /\ flag' = TRUE
    /\ UNCHANGED <<phase, mode, asked, hvars, todo, avars, steady, count>>

\* alive(): active and referenced handles, or handles to be closed.
Alive == act \cap refd # {} \/ Closing # {}

\* What a new iteration starts with: the phase of the idle handles.
Begin ==
    /\ phase' = "idle"
    /\ todo' = {h \in act : QueueOf(h) = "idle"}
    /\ steady' = act
    /\ count' = [h \in Handles |-> 0]

\* (Faulty variant: the mode is not passed on.)
RunIgnoresMode(m) ==
    /\ phase = "out"
    /\ mode' = "ONCE" /\ asked' = m
    /\ IF Alive /\ ~flag
         THEN Begin /\ UNCHANGED flag
         ELSE flag' = FALSE /\ UNCHANGED <<phase, todo, steady, count>>
    /\ UNCHANGED <<hvars, avars>>

\* run(mode).  With nothing alive, or after stop(), it returns at once.
Run(m) ==
    /\ phase = "out"
    /\ mode' = m /\ asked' = m
    /\ IF Alive /\ ~flag
         THEN Begin /\ UNCHANGED flag
         ELSE flag' = FALSE /\ UNCHANGED <<phase, todo, steady, count>>
    /\ UNCHANGED <<hvars, avars>>

-----------------------------------------------------------------------------
(* Another thread: it puts data where the listener will look, then wakes   *)
(* the loop.  The two are not one step.                                    *)

Post(a) ==
    /\ posted[a] < MaxPosts /\ a \notin between /\ hs[a] = "open"
    /\ posted' = [posted EXCEPT ![a] = @ + 1]
    /\ between' = between \cup {a}
    /\ UNCHANGED <<phase, mode, asked, flag, hvars, todo, sent, seen, steady, count>>

\* (Faulty variant: send() spares the system call when the loop is not blocked.)
SendIfAsleep(a) ==
    /\ a \in between
    /\ between' = between \ {a}
    /\ sent' = IF phase = "asleep" THEN sent \cup {a} ELSE sent
    /\ UNCHANGED <<phase, mode, asked, flag, hvars, todo, posted, seen, steady, count>>

\* send(): calls made before the loop has seen the first are one wake-up.
Send(a) ==
    /\ a \in between
    /\ between' = between \ {a}
    /\ sent' = sent \cup {a}
    /\ UNCHANGED <<phase, mode, asked, flag, hvars, todo, posted, seen, steady, count>>

-----------------------------------------------------------------------------
(* uv_run (external), and the callbacks it makes.                          *)

\* The listener of an idle, prepare or check handle: start_callback publishes.
StartCallback(h) ==
    /\ phase \in {"idle", "prepare", "check"} /\ h \in todo
    /\ todo' = todo \ {h}
    /\ count' = [count EXCEPT ![h] = @ + 1]
    /\ UNCHANGED <<phase, mode, asked, flag, hvars, avars, steady>>

\* idle, then prepare.
ToPrepare ==
    /\ phase = "idle" /\ todo = {}
    /\ phase' = "prepare" /\ todo' = {h \in act : QueueOf(h) = "prepare"}
    /\ UNCHANGED <<mode, asked, flag, hvars, avars, steady, count>>

\* The loop may block: it was not stopped, something is alive, nothing is idle
\* or closing, and the mode allows it.
MayBlock ==
    /\ mode # "NOWAIT" /\ ~flag
    /\ act \cap refd # {} /\ Closing = {}
    /\ {h \in act : QueueOf(h) = "idle"} = {}

\* Polling finds what has been sent by now; with nothing it blocks, if it may.
Poll ==
    /\ phase = "prepare" /\ todo = {}
    /\ phase' = IF MayBlock /\ sent \cap act = {} THEN "asleep" ELSE "poll"
    /\ todo' = IF sent \cap act = {} THEN {} ELSE act \cap Asyncs
    /\ UNCHANGED <<mode, asked, flag, hvars, avars, steady, count>>

Wake ==
    /\ phase = "asleep" /\ sent \cap act # {}
    /\ phase' = "poll" /\ todo' = act \cap Asyncs
    /\ UNCHANGED <<mode, asked, flag, hvars, avars, steady, count>>

\* The loop passes an async handle nothing was sent to.
Pass(a) ==
    /\ phase = "poll" /\ a \in todo \ sent
    /\ todo' = todo \ {a}
    /\ UNCHANGED <<phase, mode, asked, flag, hvars, avars, steady, count>>

\* send_callback: the wake-up is taken before the listener looks at the data.
SendCallback(a) ==
    /\ phase = "poll" /\ a \in todo \cap sent
    /\ todo' = todo \ {a}
    /\ sent' = sent \ {a}
    /\ seen' = [seen EXCEPT ![a] = posted[a]]
    /\ count' = [count EXCEPT ![a] = @ + 1]
    /\ UNCHANGED <<phase, mode, asked, flag, hvars, posted, between, steady>>

ToCheck ==
    /\ phase = "poll" /\ todo = {}
    /\ phase' = "check" /\ todo' = {h \in act : QueueOf(h) = "check"}
    /\ UNCHANGED <<mode, asked, flag, hvars, avars, steady, count>>

ToClosing ==
    /\ phase = "check" /\ todo = {}
    /\ phase' = "closing" /\ todo' = Closing
    /\ UNCHANGED <<mode, asked, flag, hvars, avars, steady, count>>

\* close_callback.
CloseCallback(h) ==
    /\ phase = "closing" /\ h \in todo
    /\ todo' = todo \ {h}
    /\ hs' = [hs EXCEPT ![h] = "closed"]
    /\ UNCHANGED <<phase, mode, asked, flag, act, refd, avars, steady, count>>

\* The end of an iteration: another one, or run() returns.
Again ==
    /\ phase = "closing" /\ todo = {}
    /\ mode = "DEFAULT" /\ Alive /\ ~flag
    /\ Begin
    /\ UNCHANGED <<mode, asked, flag, hvars, avars>>

RunReturn ==
    /\ phase = "closing" /\ todo = {}
    /\ mode # "DEFAULT" \/ ~Alive \/ flag
    /\ phase' = "out" /\ flag' = FALSE
    /\ steady' = {} /\ count' = [h \in Handles |-> 0]
    /\ UNCHANGED <<mode, asked, hvars, todo, avars>>

-----------------------------------------------------------------------------
UserNext ==
    \/ \E h \in Handles : Start(h) \/ Stop(h) \/ Close(h)
    \/ \E h \in Handles, on \in BOOLEAN : Reference(h, on)
    \/ LoopStop
    \/ \E m \in Modes : Run(m)

ThreadNext == \E a \in Asyncs : Post(a) \/ Send(a)

LoopNext ==
    \/ \E h \in Handles : StartCallback(h) \/ CloseCallback(h)
    \/ \E a \in Asyncs : Pass(a) \/ SendCallback(a)
    \/ ToPrepare \/ Poll \/ Wake \/ ToCheck \/ ToClosing \/ Again \/ RunReturn

Next == UserNext \/ ThreadNext \/ LoopNext

Spec == Init /\ [][Next]_vars

\* uv_run goes on whenever it can, and a thread that has posted calls send().
Fairness == WF_vars(LoopNext) /\ \A a \in Asyncs : WF_vars(Send(a))

FairSpec == Spec /\ Fairness

-----------------------------------------------------------------------------
(* Properties.                                                             *)

\* "Once per loop iteration": idle and prepare handles before the loop polls,
\* check handles after it.  A handle that was active when the iteration began
\* and has not been stopped is not skipped, whatever other listeners start,
\* stop or close meanwhile, and none is visited twice.
OncePerIteration ==
    /\ \A h \in Handles : count[h] <= 1
    /\ phase \in {"asleep", "poll"} =>
         /\ \A h \in steady \cap (Idles \cup Prepares) : count[h] = 1
         /\ \A h \in Checks : count[h] = 0
    /\ phase = "closing" => \A h \in steady \cap Ticks : count[h] = 1

\* A loop that blocks was not told to stop, and has no idle handle and nothing
\* to close; and something it waits for can still wake it or keeps it alive.
BlocksOnlyIdle ==
    phase = "asleep" => ~flag /\ act \cap Idles = {} /\ Closing = {} /\ act \cap refd # {}

\* No wake-up is lost: data posted before a send() is found by the listener of
\* an event still to come, wherever in its iteration the loop was.
NothingMissed ==
    \A a \in Asyncs \cap Open : posted[a] > seen[a] => a \in sent \cup between

\* run() in the default mode, if it was not stopped, returns only when no handle
\* is active and referenced and every close event has been published.
RunsToTheEnd ==
    [][phase # "out" /\ phase' = "out" /\ asked = "DEFAULT" /\ ~flag =>
         act \cap refd = {} /\ Closing = {}]_vars

\* While run() goes on, what is posted is found, unless the handle is closed.
SendWakes ==
    \A a \in Asyncs :
        (\E k \in 1..MaxPosts : posted[a] >= k /\ seen[a] < k)
          ~> (posted[a] = seen[a] \/ hs[a] # "open" \/ phase = "out")

\* Each iteration serves what is due in it, the loop sleeps only when nothing
\* is, and run() stays until its work is done.
TurnsServed == [](OncePerIteration /\ BlocksOnlyIdle /\ NothingMissed) /\ RunsToTheEnd

-----------------------------------------------------------------------------
(* The inductive invariant.                                                *)

\* The order of the phases in an iteration.
Stage(p) == CASE p = "out" -> 0
              [] p = "idle" -> 1
              [] p = "prepare" -> 2
              [] p = "asleep" -> 3
              [] p = "poll" -> 4
              [] p = "check" -> 5
              [] OTHER -> 6

\* What a phase has to visit: active handles of its own queue, or what is to be
\* closed.
QueueOfPhase ==
    /\ phase \in {"out", "asleep"} => todo = {}
    /\ phase = "closing" => todo \subseteq Closing
    /\ phase # "closing" => \A h \in todo : h \in act /\ QueueOf(h) = phase

\* No handle has had an event before its phase, nor one the phase has still to
\* visit; and where its phase has passed it, a steady handle has had one.
ServedInOrder ==
    \A h \in Handles :
        /\ count[h] \in 0..1
        /\ Stage(phase) < Stage(QueueOf(h)) => count[h] = 0
        /\ h \in todo /\ phase # "closing" => count[h] = 0
        /\ h \in (steady \cap Ticks) \ todo /\ Stage(phase) >= Stage(QueueOf(h)) => count[h] = 1

\* libuv was given the mode run() was called with.
ModeKept == mode = asked

\* What user calls, other threads and uv_run keep in any order.
IInv ==
    /\ TypeOK /\ QueueOfPhase /\ ServedInOrder /\ ModeKept
    /\ BlocksOnlyIdle /\ NothingMissed
=============================================================================
