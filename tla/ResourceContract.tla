-------------------------- MODULE ResourceContract --------------------------
(***************************************************************************)
(* What uvw promises about the lifetime of handles and requests, without   *)
(* a word about how: user code may let go of an object at any time; while  *)
(* libuv has it (lent) it exists, libuv hands it back only in the step     *)
(* that starts to publish its completion (the close event, or the outcome  *)
(* of the request), and the object whose completion is being published is  *)
(* not destroyed under the listener.                                       *)
(***************************************************************************)
CONSTANTS Objects, None

VARIABLES phase,    \* of each object: absent, held, lent or gone
          telling   \* the object whose completion is being published, or None

Phases == {"absent", "held", "lent", "gone"}

\* The phases an object may go through from one step to the next.
Allowed == {<<"absent", "held">>, <<"absent", "lent">>, <<"absent", "gone">>,
            <<"held", "lent">>, <<"held", "gone">>, <<"lent", "held">>}

Init == /\ phase = [o \in Objects |-> "absent"]
        /\ telling = None

HandBack(o) == phase[o] = "lent" /\ phase'[o] # "lent"

Next == /\ phase' \in [Objects -> Phases]
        /\ telling' \in Objects \cup {None}
        /\ \A o \in Objects : phase'[o] = phase[o] \/ <<phase[o], phase'[o]>> \in Allowed
        /\ \A o \in Objects : HandBack(o) => telling' = o
        /\ telling' # None => phase'[telling'] \in {"held", "lent"}
        /\ telling' # telling => telling = None \/ telling' = None

Spec == Init /\ [][Next]_<<phase, telling>>
=============================================================================
