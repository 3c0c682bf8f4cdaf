-------------------------------- MODULE Udp --------------------------------
(***************************************************************************)
(* A udp handle (udp.h, udp.ipp): send requests that own or borrow their   *)
(* data, the buffers lent to libuv for receiving, connect and disconnect.  *)
(*                                                                         *)
(* A handle made with the flag UDP_RECVMMSG receives several datagrams     *)
(* into one buffer: libuv reports each with an address inside the buffer   *)
(* and then the whole buffer, to be freed, with UDP_MMSG_FREE.             *)
(***************************************************************************)
EXTENDS Integers

CONSTANTS
    MaxSends,     \* bound: calls of send that were accepted
    MaxGrams,     \* bound: datagrams that arrive
    RecvMmsg      \* the handle was made with UDP_RECVMMSG

\* What the model assumes of its constants.
UdpAssumption == MaxSends \in Nat /\ MaxGrams \in Nat /\ RecvMmsg \in BOOLEAN

VARIABLES
    hs,         \* the handle: open, closing, closed
    connected,  \* connect() has given the handle a destination
    st,         \* each send: new, queued, sent, failed, told (event), refused (error)
    gone,       \* sends the kernel has taken
    data,       \* its data: none, owned by send_req, borrowed, freed
    recving,    \* recv() has been called, and not stop()
    size,       \* the length of each datagram that may arrive
    read,       \* how many datagrams libuv has read
    batch,      \* how many of those it has to report still
    buf,        \* the receive buffer: none, lent, freed, freed twice, leaked
    reported,   \* datagrams recv_callback has been called for
    published,  \* datagrams published as udp_data_event
    ret         \* what the last send returned

svars == <<st, gone, data>>
rvars == <<recving, size, read, batch, buf, reported, published>>
vars == <<hs, connected, svars, rvars, ret>>

Ids == 1..MaxSends
Grams == 1..MaxGrams

UV_EISCONN == -106

Queued == {i \in Ids : st[i] = "queued"}
Done == {i \in Ids : st[i] \in {"sent", "failed"}}
Answered == {i \in Ids : st[i] \in {"told", "refused"}}

\* libuv's queue is first in, first out; sends are numbered as they are made.
IsFirst(i, S) == i \in S /\ \A j \in S : i <= j
IsNext(i) == st[i] = "new" /\ \A j \in Ids : j < i => st[j] # "new"

\* The type invariant: libuv reports what it has read, from a buffer it was
\* lent.
TypeOK ==
    /\ hs \in {"open", "closing", "closed"} /\ connected \in BOOLEAN
    /\ st \in [Ids -> {"new", "queued", "sent", "failed", "told", "refused"}]
    /\ gone \in SUBSET Ids
    /\ data \in [Ids -> {"none", "owned", "borrowed", "freed"}]
    /\ recving \in BOOLEAN
    /\ size \in [Grams -> {0, 1}] /\ read \in 0..MaxGrams /\ batch \in 0..read
    /\ buf \in {"none", "lent", "freed", "twice", "leaked"}
    /\ batch > 0 => buf # "none"
    /\ reported \in SUBSET Grams /\ published \in SUBSET Grams
    /\ ret \in {0, UV_EISCONN}

Init ==
    /\ hs = "open" /\ connected = FALSE
    /\ st = [i \in Ids |-> "new"] /\ gone = {} /\ data = [i \in Ids |-> "none"]
    /\ recving = FALSE /\ size \in [Grams -> {0, 1}] /\ read = 0 /\ batch = 0
    /\ buf = "none" /\ reported = {} /\ published = {}
    /\ ret = 0

-----------------------------------------------------------------------------
(* User calls.                                                             *)

\* connect() and disconnect(); libuv refuses either when it is done already.
Connect(on) ==
    /\ hs = "open" /\ connected # on
    /\ connected' = on
    /\ UNCHANGED <<hs, svars, rvars, ret>>

\* The destination all forms of send() and try_send() give to libuv, which
\* refuses one on a handle that is connected.
SendResult == IF connected THEN UV_EISCONN ELSE 0

\* (Faulty variant: the unique_ptr is not released into the request.)
KeepAddressOnly(i, own) == data' = [data EXCEPT ![i] = IF own THEN "freed" ELSE "borrowed"]

\* send_req owns the data, or has a deleter that does nothing.
Keep(i, own) == data' = [data EXCEPT ![i] = IF own THEN "owned" ELSE "borrowed"]

\* send(), its six forms.  A refused request dies with the data it took over.
Send(i, own) ==
    /\ hs = "open" /\ IsNext(i)
    /\ ret' = SendResult
    /\ IF SendResult = 0
       THEN st' = [st EXCEPT ![i] = "queued"] /\ Keep(i, own) /\ UNCHANGED gone
       ELSE UNCHANGED svars
    /\ UNCHANGED <<hs, connected, rvars>>

\* try_send(): UV_EAGAIN while sends are queued; nothing outlives the call.
TrySend ==
    /\ hs = "open" /\ Queued = {}
    /\ ret' = SendResult
    /\ UNCHANGED <<hs, connected, svars, rvars>>

\* The user destroys data it has lent, once the send has been answered.
ReleaseBorrowed(i) ==
    /\ data[i] = "borrowed" /\ i \in Answered
    /\ data' = [data EXCEPT ![i] = "freed"]
    /\ UNCHANGED <<hs, connected, st, gone, rvars, ret>>

\* recv() and stop().  Neither waits for a batch that is being reported; between
\* the two callbacks for a buffer, common_alloc_callback and the first
\* recv_callback, no user code runs.
Recv ==
    /\ hs = "open" /\ ~recving
    /\ recving' = TRUE
    /\ UNCHANGED <<hs, connected, svars, size, read, batch, buf, reported, published, ret>>

Stop ==
    /\ hs = "open" /\ recving /\ buf # "lent"
    /\ recving' = FALSE
    /\ UNCHANGED <<hs, connected, svars, size, read, batch, buf, reported, published, ret>>

\* close()
Close ==
    /\ hs = "open" /\ buf # "lent"
    /\ hs' = "closing" /\ recving' = FALSE
    /\ UNCHANGED <<connected, svars, size, read, batch, buf, reported, published, ret>>

-----------------------------------------------------------------------------
(* libuv (external).                                                       *)

\* The first queued datagram goes, or cannot be sent; a close cancels all.
Transmit(i, ok) ==
    /\ hs = "open" /\ IsFirst(i, Queued)
    /\ st' = [st EXCEPT ![i] = IF ok THEN "sent" ELSE "failed"]
    /\ gone' = IF ok THEN gone \cup {i} ELSE gone
    /\ UNCHANGED <<hs, connected, data, rvars, ret>>

CancelSends ==
    /\ hs = "closing" /\ Queued # {}
    /\ st' = [i \in Ids |-> IF i \in Queued THEN "failed" ELSE st[i]]
    /\ UNCHANGED <<hs, connected, gone, data, rvars, ret>>

\* libuv asks for a buffer (common_alloc_callback) and reads into it: one
\* datagram or none, or with UDP_RECVMMSG as many as there are.
Receive(n) ==
    /\ recving /\ buf = "none"
    /\ n <= MaxGrams - read /\ (n > 1 => RecvMmsg)
    /\ buf' = "lent" /\ read' = read + n /\ batch' = n
    /\ UNCHANGED <<hs, connected, svars, recving, size, reported, published, ret>>

-----------------------------------------------------------------------------
(* Callbacks.                                                              *)

\* (Faulty variant: without data there is nothing to destroy.)
FreedIfData(n) == IF n = 0 THEN buf ELSE IF buf = "lent" THEN "freed" ELSE "twice"

\* recv_callback puts the address it is given into a unique_ptr, whatever the
\* length.
Freed(n) == IF buf = "lent" THEN "freed" ELSE "twice"

\* libuv forgets the buffer after the last callback for it.
Forget(b) == CASE b = "freed" -> "none" [] b = "lent" -> "leaked" [] OTHER -> b

\* (Faulty variant: a callback without data is ignored.)
PublishesData(g) == size[g] > 0

\* recv_callback with a sender's address publishes, an empty packet included.
Publishes(g) == TRUE

\* recv_callback for a datagram.  Without UDP_RECVMMSG the buffer is done with.
RecvCallback ==
    /\ recving /\ batch > 0
    /\ LET g == read - batch + 1 IN
         /\ reported' = reported \cup {g}
         /\ published' = IF Publishes(g) THEN published \cup {g} ELSE published
         /\ buf' = IF RecvMmsg THEN Freed(size[g]) ELSE Forget(Freed(size[g]))
    /\ batch' = batch - 1
    /\ UNCHANGED <<hs, connected, svars, recving, size, read, ret>>

\* recv_callback without an address: nothing to read (or an error, published
\* as such), or the whole buffer of a batch.  If recv() was stopped in a listener
\* libuv reports no more of the batch and does not call back.
EmptyCallback ==
    /\ buf \in {"lent", "freed"} /\ (recving => batch = 0)
    /\ buf' = Forget(IF recving THEN Freed(0) ELSE buf)
    /\ batch' = 0
    /\ UNCHANGED <<hs, connected, svars, recving, size, read, reported, published, ret>>

\* (Faulty variant: the status is not looked at.)
PublishedBlindly(i) == "told"

\* The end of a send_req and of the data it owns.
Reserve(i) == data' = [data EXCEPT ![i] = IF @ = "owned" THEN "freed" ELSE @]

\* What udp_send_callback publishes.
Published(i) == IF st[i] = "failed" THEN "refused" ELSE "told"

\* udp_send_callback of the first finished send.
SendCallback(i) ==
    /\ hs # "closed" /\ IsFirst(i, Done)
    /\ st' = [st EXCEPT ![i] = Published(i)]
    /\ Reserve(i)
    /\ UNCHANGED <<hs, connected, gone, rvars, ret>>

\* close_callback, after those of the sends.
CloseCallback ==
    /\ hs = "closing" /\ Queued \cup Done = {}
    /\ hs' = "closed"
    /\ UNCHANGED <<connected, svars, rvars, ret>>

-----------------------------------------------------------------------------
UserNext ==
    \/ \E on \in BOOLEAN : Connect(on)
    \/ \E i \in Ids, own \in BOOLEAN : Send(i, own)
    \/ \E i \in Ids : ReleaseBorrowed(i)
    \/ TrySend \/ Recv \/ Stop \/ Close

LoopNext ==
    \/ \E i \in Ids, ok \in BOOLEAN : Transmit(i, ok)
    \/ \E i \in Ids : SendCallback(i)
    \/ \E n \in 0..MaxGrams : Receive(n)
    \/ CancelSends \/ RecvCallback \/ EmptyCallback \/ CloseCallback

Next == UserNext \/ LoopNext

Spec == Init /\ [][Next]_vars

-----------------------------------------------------------------------------
(* Properties.                                                             *)

\* The data of a queued send has not been freed, and that of an answered one
\* has, unless it is the user's: sent, failed or cancelled by a close.
SendDataOwned == /\ \A i \in Queued : data[i] \in {"owned", "borrowed"}
                 /\ \A i \in Answered : data[i] # "owned"

\* Every datagram libuv reports is published, an empty one too, and nothing
\* else is: the end of the data (no sender) is not taken for an empty packet.
PublishesAll == published = reported

\* A send event stands for a datagram that went, an error event for one that
\* did not, and the answers come in the order of the calls.
AnswersTrue ==
    /\ \A i \in Answered : st[i] = "told" <=> i \in gone
    /\ \A i, j \in Ids : i < j /\ j \in Answered => i \notin Queued \cup Done

\* "data will be destroyed no matter of what the value of nread is": each
\* buffer lent to libuv is destroyed, and once.
BufferFreedOnce == buf \notin {"twice", "leaked"}

\* Every datagram is accounted for: its data or buffer is owned and destroyed
\* once, and an event tells what became of it.
DatagramsAccounted == SendDataOwned /\ AnswersTrue /\ PublishesAll /\ BufferFreedOnce

-----------------------------------------------------------------------------
(* The inductive invariant, for a handle without UDP_RECVMMSG.             *)

\* A send request has its data while libuv has the request, and not after.
DataByState ==
    \A i \in Ids : CASE st[i] = "new" -> data[i] = "none"
                     [] st[i] \in {"queued", "sent", "failed"} -> data[i] \in {"owned", "borrowed"}
                     [] OTHER -> data[i] \in {"borrowed", "freed"}

GoneByState == \A i \in Ids : i \in gone <=> st[i] \in {"sent", "told"}

\* Sends are made, finish and are answered in their order.
SendsInOrder ==
    \A i, j \in Ids : i < j =>
        /\ st[i] = "new" => st[j] = "new"
        /\ st[i] = "queued" => st[j] \in {"queued", "new"}
        /\ st[i] \in {"sent", "failed"} => st[j] \notin {"told", "refused"}

\* libuv has a buffer only between the two callbacks, and at most one datagram.
BufferState ==
    /\ buf \in {"none", "lent"} /\ (buf = "lent" => recving)
    /\ batch \in {0, 1} /\ (batch = 1 => buf = "lent")

IInv ==
    /\ TypeOK /\ DataByState /\ GoneByState /\ SendsInOrder /\ BufferState
    /\ PublishesAll

-----------------------------------------------------------------------------
(* What the documentation says and the code does not do: TLC refutes it.  *)

\* "Every message sent by this handle is automatically sent to the given
\* destination": a connected handle can send.
ConnectedSends == connected => ret # UV_EISCONN
=============================================================================
