------------------------------ MODULE MCNetwork ------------------------------
(***************************************************************************)
(* One run for the parts of the network handles that share no state: the   *)
(* incoming side of a stream, a udp handle, and the addresses handles are  *)
(* bound to and report.  A behaviour is one of the part `part` names: the  *)
(* others keep still, for their steps would neither help nor hinder it.    *)
(***************************************************************************)
CONSTANTS
    MaxConns, MaxChunks,                     \* StreamIn
    MaxSends, MaxGrams, RecvMmsg,            \* Udp
    Handles, Words, Lows, Digits, V6Text     \* Address

VARIABLES
    part,
    srv, at, listens, reading, sent, over, got, broken, last,
    hs, connected, st, gone, data, recving, size, read, batch, buf, reported,
    published, ret,
    sock, peer, asked, told, answer

I == INSTANCE StreamIn
U == INSTANCE Udp
A == INSTANCE Address

ASSUME NetworkAssumption ==
    I!StreamInAssumption /\ U!UdpAssumption /\ A!AddressAssumption

inVars == <<srv, at, listens, reading, sent, over, got, broken, last>>
udpVars == <<hs, connected, st, gone, data, recving, size, read, batch, buf,
             reported, published, ret>>
addrVars == <<sock, peer, asked, told, answer>>
vars == <<part, inVars, udpVars, addrVars>>

Init ==
    /\ part \in {"stream_in", "udp", "address"}
    /\ I!Init /\ U!Init /\ A!Init
    /\ part # "udp" => size = [g \in U!Grams |-> 0]

Next ==
    \/ part = "stream_in" /\ I!Next /\ UNCHANGED <<part, udpVars, addrVars>>
    \/ part = "udp" /\ U!Next /\ UNCHANGED <<part, inVars, addrVars>>
    \/ part = "address" /\ A!Next /\ UNCHANGED <<part, inVars, udpVars>>

Spec == Init /\ [][Next]_vars

-----------------------------------------------------------------------------
\* The invariants of the parts that their proofs are by induction on.
IInv == I!IInv /\ U!IInv /\ A!IInv

\* The connection of a listen event is there for accept() to take.
AcceptGuaranteed == I!AcceptGuaranteed

\* An end event comes after everything the peer has sent, and an error event
\* stands for an error.
ReadEventsTrue == I!ReadEventsTrue

\* Sends own their data and are answered in order by true events; every
\* datagram received is published, and its buffer destroyed once.
DatagramsAccounted == U!DatagramsAccounted

\* A bound handle is at the address it was bound to, by the account of sock(),
\* and the address a handle is told of its peer leads back to the peer.
AddressesTrue == A!AddressesTrue
=============================================================================
