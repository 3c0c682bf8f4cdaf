------------------------------ MODULE StreamIn ------------------------------
(***************************************************************************)
(* The incoming side of streams: a listening handle, and the handles its   *)
(* connections are accepted into and read from (stream.h: listen, accept,  *)
(* read, stop and their callbacks; util.ipp: common_alloc_callback).       *)
(*                                                                         *)
(* libuv keeps one accepted connection at a time for the listening handle  *)
(* and asks the kernel for the next only when accept() has taken it.       *)
(* Connections are numbered as they arrive.                                *)
(***************************************************************************)
EXTENDS Integers

CONSTANTS
    MaxConns,    \* bound: connections that arrive
    MaxChunks    \* bound: what a peer sends on one connection

\* What the model assumes of its constants.
StreamInAssumption == MaxConns \in Nat /\ MaxChunks \in Nat

VARIABLES
    srv,       \* the listening handle: open, listening, closed
    at,        \* each connection: none, backlog, held (by libuv), taken, lost
    listens,   \* listen events published
    reading,   \* connections whose handle is reading
    sent,      \* chunks the peer of a connection has sent
    over,      \* connections whose peer has ended the stream
    got,       \* data events published on a connection's handle
    broken,    \* connections on which read(2) fails
    last       \* the last event other than data on a connection's handle

cvars == <<reading, sent, over, got, broken, last>>
vars == <<srv, at, listens, cvars>>

Conns == 1..MaxConns

UV_ECONNABORTED == -103

Held == {c \in Conns : at[c] = "held"}
Taken == {c \in Conns : at[c] = "taken"}
Backlog == {c \in Conns : at[c] = "backlog"}

IsFirst(c, S) == c \in S /\ \A d \in S : c <= d

\* The type invariant.  No handle publishes more data than its peer has sent.
TypeOK ==
    /\ srv \in {"open", "listening", "closed"}
    /\ at \in [Conns -> {"none", "backlog", "held", "taken", "lost"}]
    /\ listens \in Nat
    /\ reading \in SUBSET Taken
    /\ sent \in [Conns -> 0..MaxChunks] /\ over \in SUBSET Conns /\ broken \in SUBSET Conns
    /\ got \in [Conns -> Nat] /\ \A c \in Conns : got[c] <= sent[c]
    /\ last \in [Conns -> {"none", "end", "error"}]

Init ==
    /\ srv = "open" /\ listens = 0
    /\ at = [c \in Conns |-> "none"]
    /\ reading = {} /\ over = {} /\ broken = {}
    /\ sent = [c \in Conns |-> 0] /\ got = [c \in Conns |-> 0]
    /\ last = [c \in Conns |-> "none"]

-----------------------------------------------------------------------------
(* The kernel and the peers (external).                                    *)

Arrive(c) ==
    /\ srv = "listening" /\ at[c] = "none"
    /\ \A d \in Conns : d < c => at[d] # "none"
    /\ at' = [at EXCEPT ![c] = "backlog"]
    /\ UNCHANGED <<srv, listens, cvars>>

PeerSends(c) ==
    /\ at[c] \notin {"none", "lost"} /\ c \notin over /\ sent[c] < MaxChunks
    /\ sent' = [sent EXCEPT ![c] = @ + 1]
    /\ UNCHANGED <<srv, at, listens, reading, over, got, broken, last>>

PeerEnds(c) ==
    /\ at[c] \notin {"none", "lost"} /\ c \notin over
    /\ over' = over \cup {c}
    /\ UNCHANGED <<srv, at, listens, reading, sent, got, broken, last>>

Break(c) ==
    /\ c \in Taken \ broken
    /\ broken' = broken \cup {c}
    /\ UNCHANGED <<srv, at, listens, reading, sent, over, got, last>>

-----------------------------------------------------------------------------
(* User calls.                                                             *)

\* listen()
Listen ==
    /\ srv = "open"
    /\ srv' = "listening"
    /\ UNCHANGED <<at, listens, cvars>>

\* accept(): UV_EAGAIN without a connection.  With one it goes to the client's
\* handle, or is dropped if that handle cannot take it (it has a socket).
Accept(c, usable) ==
    /\ srv = "listening" /\ c \in Held
    /\ at' = [at EXCEPT ![c] = IF usable THEN "taken" ELSE "lost"]
    /\ UNCHANGED <<srv, listens, cvars>>

\* close() of the listening handle: the connections nobody took go with it.
CloseServer ==
    /\ srv # "closed"
    /\ srv' = "closed"
    /\ at' = [c \in Conns |-> IF c \in Held \cup Backlog THEN "lost" ELSE at[c]]
    /\ UNCHANGED <<listens, cvars>>

\* read(), on a handle that is not reading and whose reading has not failed.
Read(c) ==
    /\ c \in Taken \ reading /\ last[c] # "error"
    /\ reading' = reading \cup {c}
    /\ UNCHANGED <<srv, at, listens, sent, over, got, broken, last>>

\* stop()
Stop(c) ==
    /\ c \in reading
    /\ reading' = reading \ {c}
    /\ UNCHANGED <<srv, at, listens, sent, over, got, broken, last>>

\* (Faulty variant: the handle goes on reading.)
CloseClientReads(c) ==
    /\ c \in Taken
    /\ at' = [at EXCEPT ![c] = "lost"]
    /\ UNCHANGED <<srv, listens, cvars>>

\* close() of a client's handle.
CloseClient(c) ==
    /\ c \in Taken
    /\ at' = [at EXCEPT ![c] = "lost"]
    /\ reading' = reading \ {c}
    /\ UNCHANGED <<srv, listens, sent, over, got, broken, last>>

-----------------------------------------------------------------------------
(* Callbacks.                                                              *)

\* (Faulty variant: the status is not looked at.)
ListenEventsBlindly(status) == 1

\* The listen events listen_callback publishes; with an error it is an error
\* event.
ListenEvents(status) == IF status = 0 THEN 1 ELSE 0

\* listen_callback: libuv has taken the next connection from the kernel, or
\* accept(2) has failed and the connection is gone.
ListenCallback(c, status) ==
    /\ srv = "listening" /\ Held = {} /\ IsFirst(c, Backlog)
    /\ at' = [at EXCEPT ![c] = IF status = 0 THEN "held" ELSE "lost"]
    /\ listens' = listens + ListenEvents(status)
    /\ UNCHANGED <<srv, cvars>>

\* What read(2) may give: a chunk, nothing yet, the end, an error.
Reads(c) == IF c \in broken THEN {"error"} ELSE {"nothing"}
              \cup (IF got[c] < sent[c] THEN {"data"} ELSE {})
              \cup (IF got[c] = sent[c] /\ c \in over THEN {"eof"} ELSE {})

\* (Faulty variants: what is neither data nor an error is the end; what is not
\* data is an error.)
EventAllEnds(nread) == IF nread \in {"eof", "nothing"} THEN "end" ELSE nread
EventAllErrors(nread) == IF nread \in {"eof", "nothing"} THEN "error" ELSE nread

\* The event read_callback publishes, if any.
Event(nread) == CASE nread = "eof" -> "end"
                  [] nread = "nothing" -> "none"
                  [] OTHER -> nread

\* common_alloc_callback and read_callback: a fresh buffer, moved into the data
\* event or destroyed.  libuv stops reading at the end and after an error.
ReadCallback(c, nread) ==
    /\ c \in reading /\ nread \in Reads(c)
    /\ got' = IF Event(nread) = "data" THEN [got EXCEPT ![c] = @ + 1] ELSE got
    /\ last' = IF Event(nread) \in {"end", "error"}
               THEN [last EXCEPT ![c] = Event(nread)] ELSE last
    /\ reading' = IF nread \in {"eof", "error"} THEN reading \ {c} ELSE reading
    /\ UNCHANGED <<srv, at, listens, sent, over, broken>>

-----------------------------------------------------------------------------
Next ==
    \/ Listen \/ CloseServer
    \/ \E c \in Conns : \/ Arrive(c) \/ PeerSends(c) \/ PeerEnds(c) \/ Break(c)
                        \/ Read(c) \/ Stop(c) \/ CloseClient(c)
    \/ \E c \in Conns, status \in {0, UV_ECONNABORTED} : ListenCallback(c, status)
    \/ \E c \in Conns, usable \in BOOLEAN : Accept(c, usable)
    \/ \E c \in Conns, nread \in {"data", "eof", "error", "nothing"} : ReadCallback(c, nread)

Spec == Init /\ [][Next]_vars

-----------------------------------------------------------------------------
(* Properties.                                                             *)

\* "When the listen event is emitted it is guaranteed that this function will
\* complete successfully the first time": the connection of a listen event is
\* held until accept() or the handle's close, and is the only one.
AcceptGuaranteed ==
    [][listens' > listens => \E c \in Conns : Held' = {c} /\ at[c] = "backlog"]_vars

\* An end event comes after everything the peer has sent and after its end,
\* however often user code has stopped and started reading.
EndIsLast == \A c \in Conns : last[c] = "end" => c \in over /\ got[c] = sent[c]

\* An error event stands for an error: nothing to read (nread = 0) is none, and
\* the handle reads on.
ErrorIsReal == \A c \in Conns : last[c] = "error" => c \in broken

\* The last event of a connection tells how reading ended.
ReadEventsTrue == EndIsLast /\ ErrorIsReal

-----------------------------------------------------------------------------
(* The inductive invariant.                                                *)

\* Connections arrive, and leave the backlog, in their order, and there are no
\* more listen events than connections that have left it.
ServedInOrder ==
    /\ \A c, d \in Conns : c < d => /\ at[c] = "none" => at[d] = "none"
                                    /\ at[c] = "backlog" => at[d] \in {"backlog", "none"}
    /\ \A c \in Conns : at[c] \in {"backlog", "none"} => listens < c
    /\ listens <= MaxConns

IInv == TypeOK /\ ServedInOrder /\ ReadEventsTrue
=============================================================================
