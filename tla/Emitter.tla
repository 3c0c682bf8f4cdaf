------------------------------ MODULE Emitter ------------------------------
(***************************************************************************)
(* An emitter (emitter.h): one slot for a listener per type of event.      *)
(* publish() calls the listener in place, through the std::function of     *)
(* the slot; a listener may register, reset and, through other calls,      *)
(* cause further events to be published, so listeners nest.  Nothing holds *)
(* the listener that runs but its slot.                                    *)
(***************************************************************************)
EXTENDS Integers, Sequences

CONSTANTS
    Types,         \* the types of events, error_event among them
    MaxListeners,  \* bound: listeners registered
    MaxDepth       \* bound: listeners nested in one another

None == 0
Listeners == 1..MaxListeners

VARIABLES
    handlers,   \* for each type the listener in its slot, or None
    made,       \* listeners registered so far
    gone,       \* listeners that have been destroyed
    stack       \* the running listeners, innermost last: [type, listener]

vars == <<handlers, made, gone, stack>>

\* The type invariant: a listener is in at most one slot.
TypeOK ==
    /\ handlers \in [Types -> 0..made]
    /\ \A t, u \in Types : t # u /\ handlers[t] = handlers[u] => handlers[t] = None
    /\ made \in 0..MaxListeners /\ gone \in SUBSET (1..made)
    /\ stack \in Seq([type : Types, listener : Listeners]) /\ Len(stack) <= MaxDepth

Init ==
    /\ handlers = [t \in Types |-> None]
    /\ made = 0 /\ gone = {} /\ stack = <<>>

-----------------------------------------------------------------------------

\* What assigning to a slot destroys.
Occupants(S) == {handlers[t] : t \in S} \ {None}

\* handler<Type>() and has<Type>().
Has(t) == handlers[t] # None

\* on<Type>(f): the listener that was there is destroyed.
On(t) ==
    /\ made < MaxListeners
    /\ made' = made + 1
    /\ handlers' = [handlers EXCEPT ![t] = made + 1]
    /\ gone' = gone \cup Occupants({t})
    /\ UNCHANGED stack

\* reset<Type>().
Reset(t) ==
    /\ handlers' = [handlers EXCEPT ![t] = None]
    /\ gone' = gone \cup Occupants({t})
    /\ UNCHANGED <<made, stack>>

\* reset(): error_event, then every Event of the emitter.
ResetAll ==
    /\ handlers' = [u \in Types |-> None]
    /\ gone' = gone \cup Occupants(Types)
    /\ UNCHANGED <<made, stack>>

\* publish(event): without a listener the event is dropped.
Publish(t) ==
    /\ Has(t) /\ Len(stack) < MaxDepth
    /\ stack' = Append(stack, [type |-> t, listener |-> handlers[t]])
    /\ UNCHANGED <<handlers, made, gone>>

\* The innermost listener returns.
Return ==
    /\ stack # <<>>
    /\ stack' = SubSeq(stack, 1, Len(stack) - 1)
    /\ UNCHANGED <<handlers, made, gone>>

-----------------------------------------------------------------------------
UserNext == ResetAll \/ \E t \in Types : On(t) \/ Reset(t)

Next == UserNext \/ Return \/ \E t \in Types : Publish(t)

Spec == Init /\ [][Next]_vars

-----------------------------------------------------------------------------
(* What the documentation says and the code does not do: TLC refutes it.  *)

Running == {stack[k].listener : k \in DOMAIN stack}

\* "Registers a long-lived listener" (on) and "Disconnects the listener" (reset):
\* a listener that is disconnected or replaced while it runs, by itself or by one
\* nested in it, is not destroyed before it has returned.
RunningAlive == Running \cap gone = {}
=============================================================================
