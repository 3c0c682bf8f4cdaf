------------------------------ MODULE Address ------------------------------
(***************************************************************************)
(* Addresses on their way through uvw: the bind, connect and send of       *)
(* tcp_handle and udp_handle take a sockaddr, a text and a port, or a      *)
(* socket_address; sock(), peer() and the sender of a datagram give a      *)
(* socket_address back (tcp.ipp, udp.ipp; ip_addr and sock_addr, util.ipp).*)
(* An IPv4 address is one word.  An IPv6 address is two, and the second is *)
(* behind the end of a sockaddr.  A port has two digits, which are stored  *)
(* the other way round.                                                    *)
(***************************************************************************)
EXTENDS Integers

CONSTANTS
    Handles,     \* handles, each with a socket of its own
    Words,       \* what the first word of an address may be
    Lows,        \* what the second word of an IPv6 address may be
    Digits,      \* a digit of a port is in 0..Digits - 1 (256 in the code)
    V6Text       \* the program gives IPv6 addresses as texts as well

\* What the model assumes of its constants.
AddressAssumption ==
    Digits \in Nat \ {0} /\ V6Text \in BOOLEAN

None == [family |-> "none"]

Ports == 0..(Digits * Digits - 1)
Texts == [v : {4}, word : Words] \cup [v : {6}, word : Words, low : Lows]
SocketAddresses == [ip : Texts, port : Ports]
Empty == [ip |-> [v |-> 0], port |-> 0]
NoAnswer == [got |-> Empty, want |-> Empty]

VARIABLES
    sock,       \* the address of each socket in the kernel, or None
    peer,       \* the address it is connected to, or None
    asked,      \* what the last successful bind was asked for
    told,       \* per handle: who has reached it last, and the address it was told
    answer      \* what sock() or peer() has just returned, and what it should

vars == <<sock, peer, asked, told, answer>>

-----------------------------------------------------------------------------
(* util.ipp.                                                               *)

\* htons and ntohs.
Swap(port) == ((port % Digits) * Digits) + ((port \div Digits) % Digits)

\* uv_ip4_addr and uv_ip6_addr (external), into a sockaddr_in or sockaddr_in6.
Parsed(ip, port) ==
    IF ip.v = 4 THEN [family |-> "inet", port |-> Swap(port), word |-> ip.word]
                ELSE [family |-> "inet6", port |-> Swap(port), word |-> ip.word, low |-> ip.low]

\* What a callee finds behind a `const sockaddr &` that refers to an object of
\* that type: of an IPv6 address the second word is whatever follows in memory.
Through(addr) ==
    IF addr.family = "inet6" THEN {[addr EXCEPT !.low = w] : w \in Lows} ELSE {addr}

\* (Faulty variant: the port goes into the structure as it is.)
IpAddrHostOrder(ip, port) == Through([Parsed(ip, port) EXCEPT !.port = port])

\* ip_addr(): the structure is returned as a sockaddr, by value.
IpAddr(ip, port) == Through(Parsed(ip, port))

\* sock_addr(), of each of the four types: by the family, uv_ip4_name or
\* uv_ip6_name and ntohs.
SockAddr(addr) ==
    CASE addr.family = "inet" ->
           [ip |-> [v |-> 4, word |-> addr.word], port |-> Swap(addr.port)]
      [] addr.family = "inet6" ->
           [ip |-> [v |-> 6, word |-> addr.word, low |-> addr.low], port |-> Swap(addr.port)]
      [] OTHER -> Empty

-----------------------------------------------------------------------------
Storage == {Parsed(a.ip, a.port) : a \in SocketAddresses}

\* The type invariant: a socket in the kernel has a port.
TypeOK ==
    /\ sock \in [Handles -> Storage \cup {None}] /\ peer \in [Handles -> Storage \cup {None}]
    /\ \A h \in Handles : sock[h] # None => sock[h].port # 0
    /\ \A h \in Handles : peer[h] # None => sock[h] # None
    /\ asked \in [Handles -> SocketAddresses \cup {Empty}]
    /\ told \in [Handles -> [from : Handles, addr : SocketAddresses] \cup {None}]
    /\ answer.got \in SocketAddresses \cup {Empty}

Init ==
    /\ sock = [h \in Handles |-> None] /\ peer = [h \in Handles |-> None]
    /\ asked = [h \in Handles |-> Empty] /\ told = [h \in Handles |-> None]
    /\ answer = NoAnswer

\* The addresses bind, connect and send reach libuv with: the overloads with a
\* text and with a socket_address go through ip_addr(), the one with a sockaddr
\* hands on a reference to the caller's structure.
Given(a, how) ==
    IF how = "sockaddr" THEN {Parsed(a.ip, a.port)} ELSE IpAddr(a.ip, a.port)

Overloads(a) ==
    {"sockaddr"} \cup (IF a.ip.v = 4 \/ V6Text THEN {"text"} ELSE {})

\* The kernel gives one socket an address (external): the one asked for, with a
\* port of its choice for port 0, unless it is taken.
Granted(addr) ==
    LET taken == {sock[h] : h \in Handles}
    IN  IF addr.port # 0 THEN {addr} \ taken
        ELSE {[addr EXCEPT !.port = p] : p \in Ports \ {0}} \ taken

-----------------------------------------------------------------------------
(* Operations of a handle.                                                 *)

\* bind().
Bind(h, a, how) ==
    /\ sock[h] = None
    /\ \E addr \in Given(a, how) : \E got \in Granted(addr) :
          sock' = [sock EXCEPT ![h] = got]
    /\ asked' = [asked EXCEPT ![h] = a]
    /\ answer' = NoAnswer /\ UNCHANGED <<peer, told>>

\* (Faulty variant: the receiver is told its own address.)
TellSelf(h, g, addr) == [told EXCEPT ![g] = [from |-> h, addr |-> SockAddr(sock[g])]]

\* The other side learns where the connection or the datagram comes from: peer()
\* of the accepted handle, or the sender of the udp_data_event.
Tell(h, g, addr) == [told EXCEPT ![g] = [from |-> h, addr |-> SockAddr(addr)]]

\* connect() or send(), and the other side accepts or receives: the handle that
\* has the address is reached, and a socket without address gets one first.
Reach(h, g, a, how, connect) ==
    /\ h # g /\ sock[g] # None /\ sock[g].family = Parsed(a.ip, a.port).family
    /\ sock[g] \in Given(a, how)
    /\ IF sock[h] # None THEN UNCHANGED sock
       ELSE \E got \in Granted([sock[g] EXCEPT !.port = 0]) : sock' = [sock EXCEPT ![h] = got]
    /\ peer' = IF connect THEN [peer EXCEPT ![h] = sock[g]] ELSE peer
    /\ told' = Tell(h, g, sock'[h])
    /\ answer' = NoAnswer /\ UNCHANGED asked

\* sock() and peer(): libuv fills the sockaddr_storage on the stack, or fails and
\* leaves what was there.
Read(addr) == IF addr # None THEN {addr} ELSE Storage \cup {None}

\* sock() and peer().
Query(addr) ==
    /\ \E storage \in Read(addr) :
          answer' = [got |-> SockAddr(storage), want |-> SockAddr(addr)]
    /\ UNCHANGED <<sock, peer, asked, told>>

\* The handle is closed, and another one takes its place.
Close(h) ==
    /\ sock[h] # None
    /\ sock' = [sock EXCEPT ![h] = None] /\ peer' = [peer EXCEPT ![h] = None]
    /\ asked' = [asked EXCEPT ![h] = Empty]
    /\ told' = [g \in Handles |->
                  IF g = h \/ (told[g] # None /\ told[g].from = h) THEN None ELSE told[g]]
    /\ answer' = NoAnswer

-----------------------------------------------------------------------------
AddressNext(h) ==
    \E a \in SocketAddresses : \E how \in Overloads(a) :
        \/ Bind(h, a, how)
        \/ \E g \in Handles : \E connect \in BOOLEAN : Reach(h, g, a, how, connect)

Next == \E h \in Handles :
    \/ AddressNext(h)
    \/ sock[h] # None /\ Query(sock[h])
    \/ peer[h] # None /\ Query(peer[h])
    \/ Close(h)

Spec == Init /\ [][Next]_vars

\* The program also asks for an address the handle does not have.
AnySpec == Init /\ [][Next \/ \E h \in Handles : Query(sock[h]) \/ Query(peer[h])]_vars

-----------------------------------------------------------------------------
(* Properties.                                                             *)

\* A handle that was bound to an address and a port is there, by the account of
\* sock(), whichever overload was used; a port of 0 is any port.
BoundAsAsked ==
    \A h \in Handles : asked[h] # Empty /\ sock[h] # None =>
        LET here == SockAddr(sock[h])
        IN  here.ip = asked[h].ip /\ asked[h].port \in {0, here.port}

\* A handle is told the address sock() of the one that reached it gives, and an
\* IPv4 address that was told leads back there, handed to connect() or send().
ReplyReaches ==
    \A h \in Handles : told[h] # None =>
        /\ told[h].addr = SockAddr(sock[told[h].from])
        /\ told[h].addr.ip.v = 4 =>
             IpAddr(told[h].addr.ip, told[h].addr.port) = {sock[told[h].from]}

\* The addresses uvw takes and gives survive their conversions, both ways.
AddressesTrue == BoundAsAsked /\ ReplyReaches

-----------------------------------------------------------------------------
(* The inductive invariant, for a program without IPv6 texts.              *)

\* A handle without an address was not bound, and has reached nobody.
KnownBySocket ==
    \A h \in Handles :
        /\ sock[h] = None => asked[h] = Empty
        /\ told[h] # None => sock[told[h].from] # None

IInv == TypeOK /\ KnownBySocket /\ AddressesTrue

-----------------------------------------------------------------------------
(* What the documentation says and the code does not do: TLC refutes it.  *)

\* "A valid instance of socket_address, an empty one in case of errors".
EmptyOnError == answer.got = answer.want
=============================================================================
