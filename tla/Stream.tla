------------------------------- MODULE Stream -------------------------------
(***************************************************************************)
(* One connection of a tcp or pipe handle (stream.h, stream.ipp, tcp.ipp,  *)
(* pipe.ipp), the outgoing side: connect, write in its four forms,         *)
(* try_write, shutdown and the two ways to close; StreamIn has the rest.   *)
(* Each connect, write and shutdown is a request of its own, which owns    *)
(* the data and captures the handle; its answer is published again on the  *)
(* handle, where nothing says which write an event belongs to.  The order  *)
(* of the events is all the user has.                                      *)
(*                                                                         *)
(* Writes are numbered in the order of the calls; the kernel takes any     *)
(* part of what it is offered.  Module Lifetime shows that a pending       *)
(* request is alive; here a write_req is the state of its data.            *)
(***************************************************************************)
EXTENDS Integers

CONSTANTS
    MaxWrites,   \* bound: calls of write and try_write that were accepted
    Units        \* bound: the length of the data of a write

ASSUME StreamAssumption == MaxWrites \in Nat /\ Units \in Nat \ {0}

VARIABLES
    hs,        \* the handle: open, closing, closed
    conn,      \* none, pending (a connect_req is in flight), up, down
    shut,      \* no, pending (a shutdown_req is in flight), told
    st,        \* what became of each write
    len,       \* the length of its data
    taken,     \* how much of it the kernel has taken
    data       \* none, owned by the request, borrowed from the user, freed

wvars == <<st, len, taken, data>>
vars == <<hs, conn, shut, wvars>>

Ids == 1..MaxWrites

\* The writes libuv has in its queue, and those finished but not called back.
Queued == {i \in Ids : st[i] = "queued"}
Finished == {i \in Ids : st[i] \in {"written", "failed"}}
Answered == {i \in Ids : st[i] \in {"confirmed", "refused"}}

\* The queues of libuv are first in, first out.
IsFirst(i, S) == i \in S /\ \A j \in S : i <= j

\* The number of the next write, if the bound allows one.
IsNext(i) == st[i] = "new" /\ \A j \in Ids : j < i => st[j] # "new"

\* The type invariant: the kernel takes no more than there is, and data comes
\* with the call.
TypeOK ==
    /\ hs \in {"open", "closing", "closed"}
    /\ conn \in {"none", "pending", "up", "down"}
    /\ shut \in {"no", "pending", "told"}
    /\ st \in [Ids -> {"new", "queued", "written", "failed", "confirmed",
                       "refused", "tried"}]
    /\ len \in [Ids -> 0..Units] /\ taken \in [Ids -> 0..Units]
    /\ \A i \in Ids : taken[i] <= len[i]
    /\ data \in [Ids -> {"none", "owned", "borrowed", "freed"}]

Init ==
    /\ hs = "open" /\ conn = "none" /\ shut = "no"
    /\ st = [i \in Ids |-> "new"]
    /\ len = [i \in Ids |-> 0] /\ taken = [i \in Ids |-> 0]
    /\ data = [i \in Ids |-> "none"]

-----------------------------------------------------------------------------
(* User calls.  A call that libuv refuses changes nothing here: the request *)
(* and the data it took over are destroyed before the call returns.         *)

\* connect(): libuv takes one connect_req at a time, on an unconnected handle.
Connect ==
    /\ hs = "open" /\ conn = "none"
    /\ conn' = "pending"
    /\ UNCHANGED <<hs, shut, wvars>>

\* A handle that takes data: connecting or connected, and not shut down.
Writable == hs = "open" /\ conn \in {"pending", "up"} /\ shut = "no"

\* (Faulty variant: the request is given the address only, and the unique_ptr
\* dies when write() returns.)
KeepAddressOnly(i, own) == data' = [data EXCEPT ![i] = IF own THEN "freed" ELSE "borrowed"]

\* What write() does with the data: write_req owns it, or has a deleter that
\* does nothing.
Keep(i, own) == data' = [data EXCEPT ![i] = IF own THEN "owned" ELSE "borrowed"]

\* (Faulty variant: write() offers the data to the kernel before it queues it.)
WriteAtOnce(i, n, own) ==
    /\ Writable /\ IsNext(i)
    /\ st' = [st EXCEPT ![i] = "queued"]
    /\ len' = [len EXCEPT ![i] = n]
    /\ taken' = [taken EXCEPT ![i] = 1]
    /\ Keep(i, own)
    /\ UNCHANGED <<hs, conn, shut>>

\* write(), the four forms: data owned or borrowed, with or without a handle
\* that is sent along over a pipe.
Write(i, n, own) ==
    /\ Writable /\ IsNext(i)
    /\ st' = [st EXCEPT ![i] = "queued"]
    /\ len' = [len EXCEPT ![i] = n]
    /\ Keep(i, own)
    /\ UNCHANGED <<hs, conn, shut, taken>>

\* try_write(): libuv returns UV_EAGAIN while it is connecting or has writes
\* queued; otherwise the kernel takes n units now.  The data is freed, or is
\* the caller's again, when the call returns.
TryWrite(i, n) ==
    /\ Writable /\ IsNext(i)
    /\ conn = "up" /\ Queued = {}
    /\ st' = [st EXCEPT ![i] = "tried"]
    /\ len' = [len EXCEPT ![i] = n] /\ taken' = [taken EXCEPT ![i] = n]
    /\ data' = [data EXCEPT ![i] = "freed"]
    /\ UNCHANGED <<hs, conn, shut>>

\* shutdown(): no write is accepted from here on.
Shutdown ==
    /\ Writable
    /\ shut' = "pending"
    /\ UNCHANGED <<hs, conn, wvars>>

\* close(), and close_reset(), which libuv refuses while a shutdown is in
\* flight.  The requests are called back before the handle is.
Close(reset) ==
    /\ hs = "open"
    /\ reset => shut # "pending"
    /\ hs' = "closing"
    /\ UNCHANGED <<conn, shut, wvars>>

\* The user destroys data it has lent, once the write has been answered.
ReleaseBorrowed(i) ==
    /\ data[i] = "borrowed" /\ i \in Answered
    /\ data' = [data EXCEPT ![i] = "freed"]
    /\ UNCHANGED <<hs, conn, shut, st, len, taken>>

-----------------------------------------------------------------------------
(* libuv and the kernel (external).                                        *)

\* The kernel takes one more unit of the first queued write; with the last
\* one the write is finished.
Transmit(i) ==
    /\ hs = "open" /\ conn = "up"
    /\ IsFirst(i, Queued)
    /\ taken' = [taken EXCEPT ![i] = @ + 1]
    /\ st' = IF taken[i] + 1 = len[i] THEN [st EXCEPT ![i] = "written"] ELSE st
    /\ UNCHANGED <<hs, conn, shut, len, data>>

\* The first queued write fails: the peer is gone, or the handle to be sent is.
WriteFails(i) ==
    /\ hs = "open" /\ conn \in {"up", "down"}
    /\ IsFirst(i, Queued)
    /\ st' = [st EXCEPT ![i] = "failed"]
    /\ UNCHANGED <<hs, conn, shut, len, taken, data>>

\* What has not been written when a connection fails or a handle is closed.
Flush == st' = [i \in Ids |-> IF st[i] = "queued" THEN "failed" ELSE st[i]]

\* A read error: libuv takes no more writes.
ReadError ==
    /\ hs = "open" /\ conn = "up"
    /\ conn' = "down"
    /\ UNCHANGED <<hs, shut, wvars>>

-----------------------------------------------------------------------------
(* Callbacks.                                                              *)

\* connect_callback: with an error libuv cancels the writes queued meanwhile;
\* uv_close cancels the connect_req and, next, the writes.
ConnectCallback(ok) ==
    /\ conn = "pending"
    /\ ok => hs = "open"
    /\ conn' = IF ok THEN "up" ELSE "down"
    /\ IF ok THEN UNCHANGED st ELSE Flush
    /\ UNCHANGED <<hs, shut, len, taken, data>>

\* (Faulty variant: the request keeps itself, and with it its data.)
ReserveKeeps(i) == UNCHANGED data

\* The end of a write_req: reserve() takes the reference, and the data it owns
\* goes with it.
Reserve(i) == data' = [data EXCEPT ![i] = IF @ = "owned" THEN "freed" ELSE @]

\* (Faulty variant: the status is not looked at.)
PublishedBlindly(i) == "confirmed"

\* What write_callback publishes for a finished write.
Published(i) == IF st[i] = "failed" THEN "refused" ELSE "confirmed"

\* (Faulty variant: a cancelled write is never answered.)
WriteCallbackOnSuccess(i) ==
    /\ hs # "closed" /\ IsFirst(i, Finished) /\ st[i] = "written"
    /\ st' = [st EXCEPT ![i] = "confirmed"]
    /\ Reserve(i)
    /\ UNCHANGED <<hs, conn, shut, len, taken>>

\* write_callback of the first finished write.
WriteCallback(i) ==
    /\ hs # "closed" /\ IsFirst(i, Finished)
    /\ hs = "closing" => conn # "pending" /\ Queued = {}
    /\ st' = [st EXCEPT ![i] = Published(i)]
    /\ Reserve(i)
    /\ UNCHANGED <<hs, conn, shut, len, taken>>

\* uv_close cancels what is queued.
CancelWrites ==
    /\ hs = "closing" /\ conn # "pending" /\ Queued # {}
    /\ Flush
    /\ UNCHANGED <<hs, conn, shut, len, taken, data>>

\* shoutdown_callback: libuv has nothing left to write.
ShutdownCallback ==
    /\ shut = "pending" /\ hs # "closed"
    /\ conn # "pending" /\ Queued \cup Finished = {}
    /\ shut' = "told"
    /\ UNCHANGED <<hs, conn, wvars>>

\* close_callback, after every request has been called back.
CloseCallback ==
    /\ hs = "closing"
    /\ conn # "pending" /\ shut # "pending" /\ Queued \cup Finished = {}
    /\ hs' = "closed"
    /\ UNCHANGED <<conn, shut, wvars>>

-----------------------------------------------------------------------------
UserNext ==
    \/ Connect \/ Shutdown
    \/ \E i \in Ids, n \in 1..Units, own \in BOOLEAN : Write(i, n, own)
    \/ \E i \in Ids, n \in 1..Units : TryWrite(i, n)
    \/ \E reset \in BOOLEAN : Close(reset)
    \/ \E i \in Ids : ReleaseBorrowed(i)

LoopNext ==
    \/ \E i \in Ids : Transmit(i) \/ WriteFails(i) \/ WriteCallback(i)
    \/ ReadError \/ CancelWrites \/ ShutdownCallback \/ CloseCallback
    \/ \E ok \in BOOLEAN : ConnectCallback(ok)

Next == UserNext \/ LoopNext

Spec == Init /\ [][Next]_vars

\* The loop calls back what has finished, and runs the steps of a close.  The
\* connection may stay pending for ever, and the peer may never read.
Fairness ==
    /\ \A i \in Ids : WF_vars(WriteCallback(i))
    /\ WF_vars(CancelWrites) /\ WF_vars(ShutdownCallback) /\ WF_vars(CloseCallback)
    /\ WF_vars(hs = "closing" /\ ConnectCallback(FALSE))

FairSpec == Spec /\ Fairness

-----------------------------------------------------------------------------
(* Properties.                                                             *)

\* libuv reads the data of a write until it is finished: whatever form of
\* write() was called, and whatever is closed meanwhile, it has not been freed.
DataAlive == \A i \in Queued : data[i] \in {"owned", "borrowed"}

\* Data that write() took over is freed with the answer: written, failed,
\* cancelled by a close or by a connection that could not be made.
DataReclaimed == \A i \in Answered : data[i] # "owned"

\* The data of a write lives as long as libuv reads it and no longer.
DataOwned == DataAlive /\ DataReclaimed

\* "Data are written in order": nothing of a write reaches the kernel before
\* all of an earlier one has, or that one has failed, try_write included.
WireInOrder == \A i, j \in Ids : i < j /\ taken[j] > 0 => i \notin Queued

\* A write event stands for data that has been written: the k-th answer is
\* that of the k-th write, and a write event among them means all of it went.
AnswersInOrder ==
    /\ \A i \in Ids : st[i] = "confirmed" => taken[i] = len[i]
    /\ \A i, j \in Ids : i < j /\ j \in Answered => i \notin Queued \cup Finished

\* When the close event is published every accepted write has been answered,
\* and it does come, whatever the peer does.
CloseAnswersAll ==
    hs = "closing" ~> hs = "closed" /\ Queued \cup Finished = {} /\ shut # "pending"

-----------------------------------------------------------------------------
(* Refinement of the abstract channel.                                     *)

Phase == [i \in Ids |-> CASE st[i] = "new" -> "idle"
                          [] st[i] \in {"queued", "written", "failed"} -> "accepted"
                          [] st[i] \in {"confirmed", "tried"} -> "sent"
                          [] OTHER -> "lost"]

Channel == INSTANCE OrderedChannel WITH Calls <- MaxWrites, phase <- Phase,
                                        size <- len, flown <- taken

\* A stream is an ordered channel, seen through its writes and their events.
ImplementsChannel == Channel!Spec

-----------------------------------------------------------------------------
(* The inductive invariant.                                                *)

\* Calls are numbered without gaps, and what was not called has no effect.
CallsInOrder == \A i, j \in Ids : i < j /\ st[i] = "new" => st[j] = "new"
NewIsEmpty == \A i \in Ids : st[i] = "new" => len[i] = 0 /\ data[i] = "none"

\* A queued write has something left, one that is written has not.
TakenWhole == \A i \in Ids : /\ st[i] = "queued" => taken[i] < len[i]
                             /\ st[i] \in {"written", "confirmed"} => taken[i] = len[i]

\* libuv finishes writes in the order of its queue.
FinishedFirst == \A i, j \in Ids : i < j /\ j \in Finished \cup Answered => i \notin Queued

\* Nothing is pending once the handle has been closed.
ClosedIsIdle == hs = "closed" => conn # "pending" /\ Queued \cup Finished = {}

\* Before the connection is made nothing is taken and nothing finishes, and
\* before it is asked for nothing is queued.
NotYetUp ==
    \A i \in Ids : /\ conn = "none" => st[i] = "new"
                   /\ conn = "pending" => taken[i] = 0 /\ st[i] \in {"new", "queued"}

\* What writes, callbacks and closing keep in any order.
IInv == /\ TypeOK /\ CallsInOrder /\ NewIsEmpty /\ TakenWhole /\ FinishedFirst
        /\ ClosedIsIdle /\ NotYetUp
        /\ DataAlive /\ DataReclaimed /\ WireInOrder /\ AnswersInOrder
=============================================================================
