-------------------------------- MODULE Poll --------------------------------
(***************************************************************************)
(* A poll handle (poll.ipp): start with the flags of interest, again to    *)
(* change them, stop, and the events the kernel reports for the            *)
(* descriptor.  The kernel's report is taken when the loop polls and       *)
(* delivered later, after other callbacks that may have called start or    *)
(* stop; libuv drops what it still has for a handle that is stopped.       *)
(***************************************************************************)
CONSTANT Flags     \* READABLE, WRITABLE, DISCONNECT, PRIORITIZED

\* What a report holds when the descriptor is in error.
BadDescriptor == "EBADF"

VARIABLES
    hs,        \* the handle: open, closing, closed
    tag,       \* how it was constructed: a descriptor or a socket
    mask,      \* the events libuv watches for; empty if the handle is inactive
    asked,     \* the flags of the last start(), and none after stop()
    cond,      \* what is true of the descriptor: a set of flags, or the error
    report,    \* what the kernel has reported and the loop not delivered
    event      \* the last event published: flags, an error, or none yet

vars == <<hs, tag, mask, asked, cond, report, event>>

\* The type invariant.
TypeOK ==
    /\ hs \in {"open", "closing", "closed"} /\ tag \in {"FD", "SOCKET"}
    /\ mask \in SUBSET Flags /\ asked \in SUBSET Flags
    /\ (hs # "open" => mask = {})
    /\ cond \in SUBSET Flags \cup {{BadDescriptor}}
    /\ report \in SUBSET Flags \cup {{BadDescriptor}}
    /\ event \in SUBSET Flags \cup {{BadDescriptor}}

Watched == mask # {}

\* init() picks uv_poll_init or uv_poll_init_socket by the tag.
Init ==
    /\ hs = "open" /\ tag \in {"FD", "SOCKET"}
    /\ mask = {} /\ asked = {} /\ cond = {} /\ report = {} /\ event = {}

-----------------------------------------------------------------------------
(* User calls.                                                             *)

\* (Faulty variant: flags add up.)
StartAdds(f) ==
    /\ hs = "open"
    /\ asked' = f
    /\ mask' = mask \cup f
    /\ report' = {}
    /\ UNCHANGED <<hs, tag, cond, event>>

\* start(flags): libuv stops the handle, with what was reported for it, and
\* starts it with the new flags.
Start(f) ==
    /\ hs = "open"
    /\ asked' = f
    /\ mask' = f
    /\ report' = {}
    /\ UNCHANGED <<hs, tag, cond, event>>

\* stop().
Stop ==
    /\ hs = "open"
    /\ asked' = {} /\ mask' = {} /\ report' = {}
    /\ UNCHANGED <<hs, tag, cond, event>>

\* close().
Close ==
    /\ hs = "open"
    /\ hs' = "closing"
    /\ asked' = {} /\ mask' = {} /\ report' = {}
    /\ UNCHANGED <<tag, cond, event>>
-----------------------------------------------------------------------------
(* The descriptor and libuv (external), and the callback.                  *)

Change(c) ==
    /\ c # cond /\ cond # {BadDescriptor}
    /\ cond' = c
    /\ UNCHANGED <<hs, tag, mask, asked, report, event>>

\* The loop polls: the kernel reports what is watched for, and errors always.
Poll ==
    /\ Watched /\ report = {}
    /\ cond = {BadDescriptor} \/ cond \cap mask # {}
    /\ report' = IF cond = {BadDescriptor} THEN cond ELSE cond \cap mask
    /\ UNCHANGED <<hs, tag, mask, asked, cond, event>>

\* start_callback: an error_event for a status, the flags if there is none.
\* libuv has stopped a handle whose descriptor is in error.
StartCallback ==
    /\ report # {}
    /\ event' = report
    /\ report' = {}
    /\ IF report = {BadDescriptor} THEN mask' = {} /\ asked' = {} ELSE UNCHANGED <<mask, asked>>
    /\ UNCHANGED <<hs, tag, cond>>

\* close_callback.
CloseCallback ==
    /\ hs = "closing"
    /\ hs' = "closed"
    /\ UNCHANGED <<tag, mask, asked, cond, report, event>>

-----------------------------------------------------------------------------
UserNext == Stop \/ Close \/ \E f \in SUBSET Flags \ {{}} : Start(f)

Next ==
    \/ UserNext
    \/ \E c \in SUBSET Flags \cup {{BadDescriptor}} : Change(c)
    \/ Poll \/ StartCallback \/ CloseCallback

Spec == Init /\ [][Next]_vars

-----------------------------------------------------------------------------
(* Properties.                                                             *)

\* An event carries flags the last start() asked for and nothing else, also
\* when the kernel's report is older than that call; stopped or closed, the
\* handle publishes nothing.
OnlyWhatWasAsked ==
    [][report # {} /\ report' = {} /\ event' # event => event' \subseteq asked \cup {BadDescriptor}]_vars

-----------------------------------------------------------------------------
(* The inductive invariant.                                                *)

\* libuv watches for what the last start() asked for, and has a report only for
\* a handle it watches: flags among those, or the error.
ReportAsked ==
    /\ mask = asked
    /\ report # {} => Watched
    /\ report = {BadDescriptor} \/ report \subseteq mask

\* What user calls, the descriptor and the loop keep in any order.
IInv == TypeOK /\ ReportAsked
=============================================================================
