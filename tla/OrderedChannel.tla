--------------------------- MODULE OrderedChannel ---------------------------
(***************************************************************************)
(* What the writes of a stream promise (stream.h, "Data are written in     *)
(* order"): a call is accepted, its data goes after that of every earlier  *)
(* call that has not been given up, and it is answered after every earlier *)
(* one.  An answer that says sent means that all of the data went.         *)
(***************************************************************************)
EXTENDS Integers

CONSTANTS Calls, Units

VARIABLES
    phase,    \* of each call: idle, accepted, sent, lost
    size,     \* the length of its data
    flown     \* how much of it has gone

vars == <<phase, size, flown>>

Ids == 1..Calls

Init == /\ phase = [i \in Ids |-> "idle"]
        /\ size = [i \in Ids |-> 0]
        /\ flown = [i \in Ids |-> 0]

\* Nothing of a later call has gone.
Ahead(i) == \A j \in Ids : j > i => flown[j] = 0

\* A call is accepted, after those before it.
Accept(i, n) ==
    /\ phase[i] = "idle" /\ \A j \in Ids : j < i => phase[j] # "idle"
    /\ phase' = [phase EXCEPT ![i] = "accepted"]
    /\ size' = [size EXCEPT ![i] = n]
    /\ UNCHANGED flown

\* A call is done at once: what has not gone of earlier ones will not (Ahead).
AtOnce(i, n) ==
    /\ phase[i] = "idle" /\ \A j \in Ids : j < i => phase[j] # "idle"
    /\ phase' = [phase EXCEPT ![i] = "sent"]
    /\ size' = [size EXCEPT ![i] = n]
    /\ flown' = [flown EXCEPT ![i] = n]

\* Data goes, in order.
Go(i) ==
    /\ phase[i] = "accepted" /\ flown[i] < size[i] /\ Ahead(i)
    /\ flown' = [flown EXCEPT ![i] = @ + 1]
    /\ UNCHANGED <<phase, size>>

\* A call is answered, after those before it.
Answer(i, ok) ==
    /\ phase[i] = "accepted" /\ \A j \in Ids : j < i => phase[j] # "accepted"
    /\ ok => flown[i] = size[i]
    /\ phase' = [phase EXCEPT ![i] = IF ok THEN "sent" ELSE "lost"]
    /\ UNCHANGED <<size, flown>>

Next == \E i \in Ids : \/ \E n \in 1..Units : Accept(i, n) \/ AtOnce(i, n)
                       \/ Go(i)
                       \/ \E ok \in BOOLEAN : Answer(i, ok)

Spec == Init /\ [][Next]_vars
=============================================================================
