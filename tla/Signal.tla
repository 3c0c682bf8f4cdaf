------------------------------- MODULE Signal -------------------------------
(***************************************************************************)
(* A signal handle (signal.ipp): start, one_shot, stop and the signals     *)
(* that arrive meanwhile.  libuv's handler runs when a signal is raised    *)
(* and writes a message for every handle that monitors it; the loop reads  *)
(* the messages later, when the handle may be monitoring something else.   *)
(* Starting a handle on the signal it already monitors replaces nothing    *)
(* but the callback, so the form it was first started in stays in force.   *)
(***************************************************************************)
EXTENDS Integers, Sequences, FiniteSets

CONSTANTS
    Signals,     \* signal numbers
    MaxRaised,   \* bound: signals raised
    MaxStarts    \* bound: calls of start and one_shot that take effect

\* No signal: uv_signal_start refuses the number 0.
None == 0

\* What the model assumes of its constants.
SignalAssumption == MaxRaised \in Nat /\ MaxStarts \in Nat /\ None \notin Signals

VARIABLES
    hs,        \* the handle: open, closing, closed
    signum,    \* the signal it monitors, or None
    oneshot,   \* libuv's flag
    pipe,      \* the messages the loop has not read
    inside,    \* the listener is running
    raised,    \* signals raised so far
    starts,    \* calls so far that armed the handle
    once,      \* the last of start() and one_shot() was one_shot()
    ignored,   \* and libuv has kept to the start() before it
    caught,    \* for each signal, raised while it was monitored and not published
    events     \* events published since that call

vars == <<hs, signum, oneshot, pipe, inside, raised, starts, once, ignored, caught, events>>

\* The type invariant.
TypeOK ==
    /\ hs \in {"open", "closing", "closed"}
    /\ signum \in Signals \cup {None} /\ (hs # "open" => signum = None)
    /\ oneshot \in BOOLEAN /\ inside \in BOOLEAN
    /\ once \in BOOLEAN /\ ignored \in BOOLEAN
    /\ pipe \in Seq(Signals) /\ Len(pipe) <= MaxRaised
    /\ raised \in 0..MaxRaised /\ starts \in 0..MaxStarts
    /\ caught \in [Signals -> -1..MaxRaised] /\ events \in 0..MaxRaised

Init ==
    /\ hs = "open" /\ signum = None /\ oneshot = FALSE
    /\ pipe = <<>> /\ inside = FALSE
    /\ raised = 0 /\ starts = 0 /\ once = FALSE /\ ignored = FALSE
    /\ caught = [s \in Signals |-> 0] /\ events = 0

-----------------------------------------------------------------------------
(* User calls.                                                             *)

\* uv_signal_start and uv_signal_start_oneshot (external): a handle that
\* monitors another signal is stopped first; whether the flag of an earlier
\* one_shot() survives that is left open.
UvStart(s, one) ==
    IF signum = s
      THEN UNCHANGED <<signum, oneshot, starts>>
      ELSE /\ starts < MaxStarts
           /\ signum' = s /\ oneshot' \in {one, one \/ oneshot}
           /\ starts' = starts + 1

\* start(signum).
Start(s) ==
    /\ hs = "open"
    /\ UvStart(s, FALSE)
    /\ once' = FALSE /\ ignored' = FALSE /\ events' = 0
    /\ UNCHANGED <<hs, pipe, inside, raised, caught>>

\* (Faulty variant: one_shot() is a start().)
OneShotPersists(s) ==
    /\ hs = "open"
    /\ UvStart(s, FALSE)
    /\ once' = TRUE /\ ignored' = (signum = s /\ (~once \/ ignored)) /\ events' = 0
    /\ UNCHANGED <<hs, pipe, inside, raised, caught>>

\* one_shot(signum).
OneShot(s) ==
    /\ hs = "open"
    /\ UvStart(s, TRUE)
    /\ once' = TRUE /\ ignored' = (signum = s /\ (~once \/ ignored)) /\ events' = 0
    /\ UNCHANGED <<hs, pipe, inside, raised, caught>>

\* stop().
Stop ==
    /\ hs = "open"
    /\ signum' = None
    /\ UNCHANGED <<hs, oneshot, pipe, inside, raised, starts, once, ignored, caught, events>>

\* close(): uv_close stops the handle.
Close ==
    /\ hs = "open"
    /\ hs' = "closing" /\ signum' = None
    /\ UNCHANGED <<oneshot, pipe, inside, raised, starts, once, ignored, caught, events>>

-----------------------------------------------------------------------------
(* The signal handler and the loop (external), and the callback.           *)

\* A signal is raised; a handle that does not monitor it is not told.
Raise(s) ==
    /\ raised < MaxRaised
    /\ raised' = raised + 1
    /\ IF signum = s
         THEN pipe' = Append(pipe, s) /\ caught' = [caught EXCEPT ![s] = @ + 1]
         ELSE UNCHANGED <<pipe, caught>>
    /\ UNCHANGED <<hs, signum, oneshot, inside, starts, once, ignored, events>>

\* (Faulty variant: every message is published, with the signal monitored now.)
SignalOfMonitored == signum

\* The signal of the event start_callback publishes for the next message, or
\* None: libuv calls back only if the handle still monitors it.
SignalOf == IF Head(pipe) = signum THEN signum ELSE None

\* start_callback.  A handle that is closing waits for its messages.
StartCallback ==
    /\ ~inside /\ pipe # <<>> /\ hs # "closed"
    /\ SignalOf # None
    /\ inside' = TRUE
    /\ pipe' = Tail(pipe)
    /\ caught' = [caught EXCEPT ![SignalOf] = @ - 1]
    /\ events' = events + 1
    /\ UNCHANGED <<hs, signum, oneshot, raised, starts, once, ignored>>

\* A one-shot handle is stopped after its message, whatever came of it.
AfterMessage == signum' = IF oneshot THEN None ELSE signum

StartCallbackReturns ==
    /\ inside
    /\ inside' = FALSE
    /\ AfterMessage
    /\ UNCHANGED <<hs, oneshot, pipe, raised, starts, once, ignored, caught, events>>

\* A message for a signal that is not monitored any more.
Skip ==
    /\ ~inside /\ pipe # <<>> /\ hs # "closed"
    /\ SignalOf = None
    /\ pipe' = Tail(pipe)
    /\ caught' = [caught EXCEPT ![Head(pipe)] = @ - 1]
    /\ AfterMessage
    /\ UNCHANGED <<hs, oneshot, inside, raised, starts, once, ignored, events>>

\* close_callback: libuv puts it off until every message has been read.
CloseCallback ==
    /\ hs = "closing" /\ pipe = <<>> /\ ~inside
    /\ hs' = "closed"
    /\ UNCHANGED <<signum, oneshot, pipe, inside, raised, starts, once, ignored, caught, events>>

-----------------------------------------------------------------------------
UserNext == Stop \/ Close \/ \E s \in Signals : Start(s) \/ OneShot(s)

Next ==
    \/ UserNext
    \/ \E s \in Signals : Raise(s)
    \/ StartCallback \/ StartCallbackReturns \/ Skip \/ CloseCallback

Spec == Init /\ [][Next]_vars

-----------------------------------------------------------------------------
(* Properties.                                                             *)

\* "The signal handler is reset the moment the signal is received": after a call
\* of one_shot() the handle publishes one event, also when the signal was raised
\* again before the loop got to the first, if it was not monitoring the signal
\* because of an earlier start().
OneShotOnce == once /\ ~ignored => events <= 1

\* Every event stands for a signal raised while the handle was monitoring it:
\* a message left over from an earlier start() never passes for another signal.
NoSpuriousSignal == \A s \in Signals : caught[s] >= 0

\* The events of a signal handle are those of its signals.
SignalEventsTrue == NoSpuriousSignal /\ OneShotOnce

-----------------------------------------------------------------------------
(* What the documentation says and the code does not do: TLC refutes it.  *)

\* "Same functionality as signal_handle::start but the signal handler is reset the
\* moment the signal is received" (one_shot), whatever the handle monitored then.
OneShotResets == once => events <= 1

-----------------------------------------------------------------------------
(* The inductive invariant.                                                *)

\* Where the messages of signal s are in the pipe.
Messages(s) == {k \in 1..Len(pipe) : pipe[k] = s}

\* What was caught and not published is in the pipe, one message each; messages
\* and the events since the last call stand for signals raised.
CaughtInPipe ==
    /\ \A s \in Signals : caught[s] = Cardinality(Messages(s))
    /\ Len(pipe) + events <= raised

\* A handle that one_shot() has armed has libuv's flag, and has been stopped after its
\* event or is about to be.
ArmedOnce ==
    once /\ ~ignored => oneshot /\ events <= 1 /\ (events = 1 => inside \/ signum = None)

\* What user calls, the signal handler and the loop keep in any order.
IInv == TypeOK /\ CaughtInPipe /\ ArmedOnce
=============================================================================
