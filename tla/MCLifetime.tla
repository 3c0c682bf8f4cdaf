----------------------------- MODULE MCLifetime -----------------------------
(***************************************************************************)
(* One run for ownership: the objects of a loop (Lifetime), and the loop   *)
(* wrappers themselves (LoopOwner).  The two share no state: a behaviour   *)
(* is one of the part `about` names, and the other keeps still.            *)
(***************************************************************************)
EXTENDS Lifetime

CONSTANT Wrappers

VARIABLES about, kind, holders, ptr, busy, raw, rawDef, ref, ret

O == INSTANCE LoopOwner WITH user <- holders

ASSUME OwnerAssumption == O!WrappersAssumption

ownerVars == <<kind, holders, ptr, busy, raw, rawDef, ref, ret>>

OwnershipInit == about \in {"objects", "loops"} /\ Init /\ O!Init

OwnershipNext ==
    \/ about = "objects" /\ Next /\ UNCHANGED <<about, ownerVars>>
    \/ about = "loops" /\ O!Next /\ UNCHANGED <<about, vars>>

\* The fairness is the loop's: where no object exists none of it is owed.
OwnershipSpec ==
    OwnershipInit /\ [][OwnershipNext]_<<about, vars, ownerVars>> /\ Fairness

-----------------------------------------------------------------------------
\* A wrapper never points to a loop that has been closed or freed.
NoStaleLoop == O!NoStaleLoop

\* There are never two wrappers that can use the default loop.
OneDefault == O!OneDefault

\* The uv_loop_t made by create() never outlives its wrapper.
NoLoopLeak == O!NoLoopLeak
=============================================================================
