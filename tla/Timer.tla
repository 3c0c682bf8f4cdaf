------------------------------- MODULE Timer -------------------------------
(***************************************************************************)
(* The timers of a running loop (timer.ipp; loop.ipp: now, update).  The   *)
(* loop works with a time it has cached: start() and again() count from    *)
(* it, and it is brought up to date once in an iteration, before the       *)
(* timers are run, or by update().  libuv first takes every timer that is  *)
(* due out of its heap, then, one by one, schedules a repeating timer      *)
(* again and calls it back.                                                *)
(*                                                                         *)
(* A listener may call anything on any timer: user calls are possible      *)
(* between any two steps of the loop.                                      *)
(***************************************************************************)
EXTENDS Integers

CONSTANTS
    Timers,      \* the timer handles
    Delays,      \* the values used for timeout and repeat, in milliseconds
    MaxTime      \* bound: the clock stops here, and no timer is started then

\* What the model assumes of its constants.
TimerAssumption == MaxTime \in Nat /\ Delays \subseteq Nat

VARIABLES
    clock,     \* the time
    now,       \* the loop's idea of it
    turn,      \* timers (they are being run) or rest (of the iteration)
    open,      \* the timers that have not been closed
    act,       \* the timers in the heap
    ready,     \* the timers taken out of it, still to be called back
    due,       \* when a timer expires
    rep,       \* its repeat value
    started,   \* the timers that have a callback: start() was called once
    before,    \* the user's view: no event is asked for before this time
    single,    \* timers that were given no repeat value since they were started
    shots,     \* events since a timer was last started (2: two or more)
    emitted    \* timers called back in this turn

uvars == <<before, single, shots>>
vars == <<clock, now, turn, open, act, ready, due, rep, started, uvars, emitted>>

\* Later than any time of the model.
Never == MaxTime + 1

\* The type invariant: a timer is in the heap or in the list, and not in both.
TypeOK ==
    /\ clock \in 0..MaxTime /\ now \in 0..MaxTime /\ now <= clock
    /\ turn \in {"rest", "timers"}
    /\ open \in SUBSET Timers /\ act \in SUBSET open /\ ready \in SUBSET open
    /\ act \cap ready = {}
    /\ due \in [Timers -> Nat] /\ rep \in [Timers -> Delays \cup {0}]
    /\ before \in [Timers -> Nat] /\ single \in SUBSET Timers
    /\ started \in SUBSET Timers
    /\ shots \in [Timers -> 0..2] /\ emitted \in SUBSET Timers

Init ==
    /\ clock = 0 /\ now = 0 /\ turn = "rest"
    /\ open = Timers /\ act = {} /\ ready = {}
    /\ due = [t \in Timers |-> 0] /\ rep = [t \in Timers |-> 0]
    /\ before = [t \in Timers |-> 0] /\ single = {}
    /\ started = {}
    /\ shots = [t \in Timers |-> 0] /\ emitted = {}

-----------------------------------------------------------------------------
(* User calls.                                                             *)

\* Whatever it was doing, the timer now expires after d milliseconds.
Schedule(t, d) ==
    /\ act' = act \cup {t} /\ ready' = ready \ {t}
    /\ due' = [due EXCEPT ![t] = now + d]

\* (Faulty variant: timeout and repeat are passed in the wrong order.)
StartSwapped(t, d, r) ==
    /\ t \in open /\ now < MaxTime
    /\ Schedule(t, r)
    /\ rep' = [rep EXCEPT ![t] = d]
    /\ before' = [before EXCEPT ![t] = now + d]
    /\ single' = IF r = 0 THEN single \cup {t} ELSE single \ {t}
    /\ shots' = [shots EXCEPT ![t] = 0]
    /\ started' = started \cup {t}
    /\ UNCHANGED <<clock, now, turn, open, emitted>>

\* start(timeout, repeat).
Start(t, d, r) ==
    /\ t \in open /\ now < MaxTime
    /\ Schedule(t, d)
    /\ rep' = [rep EXCEPT ![t] = r]
    /\ before' = [before EXCEPT ![t] = now + d]
    /\ single' = IF r = 0 THEN single \cup {t} ELSE single \ {t}
    /\ shots' = [shots EXCEPT ![t] = 0]
    /\ started' = started \cup {t}
    /\ UNCHANGED <<clock, now, turn, open, emitted>>

\* stop(): no event is asked for any more.
Stop(t) ==
    /\ t \in open
    /\ act' = act \ {t} /\ ready' = ready \ {t}
    /\ before' = [before EXCEPT ![t] = Never]
    /\ UNCHANGED <<clock, now, turn, open, due, rep, started, single, shots, emitted>>

\* The heap after uv_timer_again (external), which schedules a timer that repeats
\* and leaves any other alone.
HeapAfterAgain(t) == IF rep[t] # 0 THEN act \cup {t} ELSE act

\* again(), which fails on a timer that was never started.
Again(t) ==
    /\ t \in open /\ now < MaxTime
    /\ t \in started
    /\ act' = HeapAfterAgain(t)
    /\ IF rep[t] # 0
         THEN /\ ready' = ready \ {t}
              /\ due' = [due EXCEPT ![t] = now + rep[t]]
              /\ before' = [before EXCEPT ![t] = now + rep[t]]
         ELSE UNCHANGED <<ready, due, before>>
    /\ UNCHANGED <<clock, now, turn, open, rep, started, single, shots, emitted>>

\* (Faulty variant: repeat(v) starts the new interval at once.)
RepeatAtOnce(t, v) ==
    /\ t \in open
    /\ rep' = [rep EXCEPT ![t] = v]
    /\ due' = IF t \in act THEN [due EXCEPT ![t] = now + v] ELSE due
    /\ single' = IF v = 0 THEN single ELSE single \ {t}
    /\ UNCHANGED <<clock, now, turn, open, act, ready, started, before, shots, emitted>>

\* repeat(v): what is scheduled stays scheduled.
Repeat(t, v) ==
    /\ t \in open
    /\ rep' = [rep EXCEPT ![t] = v]
    /\ single' = IF v = 0 THEN single ELSE single \ {t}
    /\ UNCHANGED <<clock, now, turn, open, act, ready, due, started, before, shots, emitted>>

\* due_in(): what is left, relative to now().
DueIn(t) == IF due[t] <= now THEN 0 ELSE due[t] - now

\* close().
Close(t) ==
    /\ t \in open
    /\ open' = open \ {t}
    /\ act' = act \ {t} /\ ready' = ready \ {t}
    /\ before' = [before EXCEPT ![t] = Never]
    /\ UNCHANGED <<clock, now, turn, due, rep, started, single, shots, emitted>>

\* loop::update().
Update ==
    /\ now' = clock
    /\ UNCHANGED <<clock, turn, open, act, ready, due, rep, started, uvars, emitted>>

-----------------------------------------------------------------------------
(* Time, and libuv (external).                                             *)

Tick ==
    /\ clock < MaxTime
    /\ clock' = clock + 1
    /\ UNCHANGED <<now, turn, open, act, ready, due, rep, started, uvars, emitted>>

\* The loop wakes up, updates its time and collects the timers that are due.
RunTimers ==
    /\ turn = "rest"
    /\ now' = clock
    /\ ready' = {t \in act : due[t] <= clock}
    /\ act' = act \ ready'
    /\ turn' = "timers" /\ emitted' = {}
    /\ UNCHANGED <<clock, open, due, rep, started, uvars>>

\* (Faulty variant: timers are taken from the heap as long as one is due.)
StartCallbackFromHeap(t) ==
    /\ turn = "timers"
    /\ t \in ready \cup act /\ due[t] <= now
    /\ ready' = ready \ {t}
    /\ act' = IF rep[t] = 0 THEN act \ {t} ELSE act \cup {t}
    /\ due' = [due EXCEPT ![t] = now + rep[t]]
    /\ before' = [before EXCEPT ![t] = IF rep[t] = 0 THEN Never ELSE now + rep[t]]
    /\ shots' = [shots EXCEPT ![t] = IF @ = 2 THEN 2 ELSE @ + 1]
    /\ emitted' = emitted \cup {t}
    /\ UNCHANGED <<clock, now, turn, open, rep, started, single>>

\* start_callback of the first timer in the list, which has been scheduled
\* again by then if it repeats: the listener finds it so.
StartCallback(t) ==
    /\ turn = "timers"
    /\ t \in ready /\ \A u \in ready : due[t] <= due[u]
    /\ ready' = ready \ {t}
    /\ IF rep[t] = 0
         THEN /\ UNCHANGED <<act, due>>
              /\ before' = [before EXCEPT ![t] = Never]
         ELSE /\ act' = act \cup {t} /\ due' = [due EXCEPT ![t] = now + rep[t]]
              /\ before' = [before EXCEPT ![t] = now + rep[t]]
    /\ shots' = [shots EXCEPT ![t] = IF @ = 2 THEN 2 ELSE @ + 1]
    /\ emitted' = emitted \cup {t}
    /\ UNCHANGED <<clock, now, turn, open, rep, started, single>>

EndTimers ==
    /\ turn = "timers" /\ ready = {}
    /\ turn' = "rest"
    /\ UNCHANGED <<clock, now, open, act, ready, due, rep, started, uvars, emitted>>

-----------------------------------------------------------------------------
UserNext ==
    \/ \E t \in Timers, d, r \in Delays : Start(t, d, r)
    \/ \E t \in Timers : Stop(t) \/ Again(t) \/ Close(t)
    \/ \E t \in Timers, v \in Delays : Repeat(t, v)
    \/ Update

LoopNext == RunTimers \/ EndTimers \/ \E t \in Timers : StartCallback(t)

Next == UserNext \/ Tick \/ LoopNext

Spec == Init /\ [][Next]_vars

-----------------------------------------------------------------------------
(* Properties.                                                             *)

\* No event comes before it was asked for: the timeout of start(), then the
\* repeat value in force when the last event was published, a value set from
\* its listener excluded; none after stop() or close(); and due_in() covers
\* what is left to wait.
NeverEarly ==
    [][/\ \A t \in emitted' \ emitted : t \in open /\ before[t] <= now
       /\ \A t \in act : before[t] <= now + DueIn(t)]_vars

\* A timer that was started without a repeat value, and not given one, fires
\* once.
SingleShot == \A t \in single : shots[t] <= 1

\* "If timeout is zero, a timer event is emitted on the next event loop
\* iteration": in one turn a timer is called back once, however often its
\* listener starts it again, so that the loop gets to the rest of its work.
OncePerTurn == [][\A t \in Timers : shots'[t] > shots[t] => t \notin emitted]_vars

\* A timer fires when it is due, neither early nor more often than asked.
TimersOnTime == []SingleShot /\ NeverEarly /\ OncePerTurn

-----------------------------------------------------------------------------
(* What the documentation says and the code does not do: TLC refutes it.  *)

\* "Stop the timer, and if it is repeating restart it" (again): whenever it is
\* called, a timer that does not repeat is not scheduled after it.
AgainStops == \A t \in open \cap started : rep[t] = 0 => t \notin HeapAfterAgain(t)

-----------------------------------------------------------------------------
(* The inductive invariant.                                                *)

\* A timer in the heap expires no earlier than asked for; one taken out of it is
\* due, and has not been called back in this turn.
DueAsAsked ==
    /\ \A t \in act : before[t] <= due[t]
    /\ \A t \in ready : before[t] <= now /\ turn = "timers" /\ t \notin emitted

\* A timer without a repeat value is scheduled only before its one event.
SingleState ==
    \A t \in single : rep[t] = 0 /\ shots[t] <= 1 /\ (t \in act \cup ready => shots[t] = 0)

\* What user calls, the clock and the loop keep in any order.
IInv == TypeOK /\ DueAsAsked /\ SingleState
=============================================================================
