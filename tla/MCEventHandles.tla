--------------------------- MODULE MCEventHandles ---------------------------
(***************************************************************************)
(* One run for the handles that wait for events of the loop, of the clock  *)
(* and of the system.  The four parts share no state: a behaviour is one   *)
(* of the part `part` names, and the others keep still.                    *)
(***************************************************************************)
CONSTANTS
    Idles, Prepares, Checks, Asyncs, Made, MaxPosts,      \* EventLoop
    Timers, Delays, MaxTime,                              \* Timer
    Signals, MaxRaised, MaxStarts,                        \* Signal
    Flags                                                 \* Poll

VARIABLES
    part,
    phase, mode, asked, flag, hs, act, refd, todo, sent, posted, seen, between,
    steady, count,
    clock, now, turn, open, heap, ready, due, rep, started, before, single,
    shots, emitted,
    signal, signum, oneshot, pipe, inside, raised, starts, once, ignored, caught,
    events,
    poll, tag, mask, wanted, cond, report, event

L == INSTANCE EventLoop
T == INSTANCE Timer WITH act <- heap
S == INSTANCE Signal WITH hs <- signal
P == INSTANCE Poll WITH hs <- poll, asked <- wanted

ASSUME EventHandlesAssumption ==
    L!EventLoopAssumption /\ T!TimerAssumption /\ S!SignalAssumption

loopVars == <<phase, mode, asked, flag, hs, act, refd, todo, sent, posted, seen,
              between, steady, count>>
timerVars == <<clock, now, turn, open, heap, ready, due, rep, started, before,
               single, shots, emitted>>
signalVars == <<signal, signum, oneshot, pipe, inside, raised, starts, once,
                ignored, caught, events>>
pollVars == <<poll, tag, mask, wanted, cond, report, event>>
vars == <<part, loopVars, timerVars, signalVars, pollVars>>

Init ==
    /\ part \in {"loop", "timer", "signal", "poll"}
    /\ L!Init /\ T!Init /\ S!Init /\ P!Init
    /\ part = "loop" <=> L!Open # {}
    /\ part # "poll" => tag = "FD"

Next ==
    \/ part = "loop" /\ L!Next /\ UNCHANGED <<part, timerVars, signalVars, pollVars>>
    \/ part = "timer" /\ T!Next /\ UNCHANGED <<part, loopVars, signalVars, pollVars>>
    \/ part = "signal" /\ S!Next /\ UNCHANGED <<part, loopVars, timerVars, pollVars>>
    \/ part = "poll" /\ P!Next /\ UNCHANGED <<part, loopVars, timerVars, signalVars>>

Spec == Init /\ [][Next]_vars

\* The fairness of EventLoop; a loop that keeps still has nothing to do.
FairSpec == Spec /\ L!Fairness

-----------------------------------------------------------------------------
\* The inductive invariants of the parts: their types; which handles a phase of
\* the loop has served; what the timers, signals and reports in flight stand for.
IInv == L!IInv /\ T!IInv /\ S!IInv /\ P!IInv

\* An active idle, prepare or check handle has its turn once in an iteration,
\* a loop that blocks has nothing to do, what was posted before a send() is not
\* forgotten, and run() in the default mode returns only when nothing is left
\* to wait for.
TurnsServed == L!TurnsServed

\* While run() goes on, the listener finds what was posted before a send().
SendWakes == L!SendWakes

\* No timer fires before it is due, twice in a turn, or again without a repeat
\* value.
TimersOnTime == T!TimersOnTime

\* Every signal event stands for a signal raised while it was monitored, and a
\* handle that one_shot() has armed publishes one.
SignalEventsTrue == S!SignalEventsTrue

\* A poll event carries flags the last start() asked for.
OnlyWhatWasAsked == P!OnlyWhatWasAsked
=============================================================================
