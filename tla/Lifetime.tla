------------------------------ MODULE Lifetime ------------------------------
(***************************************************************************)
(* Who keeps a uvw object alive, and who may still call it.                *)
(*                                                                         *)
(* libuv stores raw pointers: a registered handle and a pending request    *)
(* carry the address of their C++ object in `data`, and libuv will call    *)
(* back through it.  uvw answers with reference counting: an object that   *)
(* libuv holds owns itself (resource::leak_if), its last callback takes    *)
(* the ownership back (handle::close_callback, request::reserve), a        *)
(* request created by a handle owns the handle through its listeners, and  *)
(* every object owns its loop.                                             *)
(*                                                                         *)
(* Requests stands for the internal requests a stream or udp handle makes  *)
(* (write, connect, shutdown, send: `cap` is the handle their listeners    *)
(* captured) and for the requests user code holds itself (work, dns: `cap` *)
(* is None).  An identity is used for one C++ object only.                 *)
(***************************************************************************)
CONSTANTS Handles, Requests, None

ASSUME ObjectsAssumption == /\ Handles \cap Requests = {}
                            /\ None \notin Handles \cup Requests

VARIABLES
    made,      \* objects that have been constructed
    user,      \* objects user code holds a shared_ptr to
    self,      \* objects whose self_ptr is set
    cap,       \* the handle captured by a request's listeners, or None
    uv,        \* what libuv knows of the object
    active,    \* started handles: libuv may report events on them
    frame,     \* the uvw callback on the stack, if any
    userLoop,  \* user code holds a shared_ptr<loop>
    uvloop,    \* the uv_loop_t: open, closed, or lost (dropped while busy)
    running    \* loop::run is on the stack, and how it may return

vars == <<made, user, self, cap, uv, active, frame, userLoop, uvloop, running>>

Objects == Handles \cup Requests

NoFrame == [kind |-> "none", obj |-> None]

Frames == {NoFrame} \cup [kind : {"event", "close"}, obj : Handles]
                    \cup [kind : {"req"}, obj : Requests]

\* The one type invariant: the C++ references and libuv's view of an object.
TypeOK ==
    /\ made \in SUBSET Objects
    /\ user \in SUBSET made
    /\ self \in SUBSET made
    /\ cap \in [Requests -> Handles \cup {None}]
    /\ uv \in [Objects -> {"none", "open", "closing", "closed", "pending"}]
    /\ \A h \in Handles : uv[h] # "pending"
    /\ \A r \in Requests : uv[r] \in {"none", "pending"}
    /\ active \in SUBSET {h \in Handles : uv[h] = "open"}
    /\ frame \in Frames
    /\ userLoop \in BOOLEAN
    /\ uvloop \in {"open", "closed", "lost"}
    /\ running \in {"no", "default", "once"}

-----------------------------------------------------------------------------
(* References.                                                             *)

\* Objects whose address libuv will still use.
Lent == {o \in Objects : uv[o] \in {"open", "closing", "pending"}}

\* (Faulty variant: close_callback and reserve without their local `ptr`.)
PinnedNever == {}

\* The local shared_ptr a callback holds until it returns: close_callback and
\* reserve take one, the event callbacks work on a bare reference.
Pinned == IF frame.kind \in {"close", "req"} THEN {frame.obj} ELSE {}

Owned == user \cup self \cup Pinned

\* A live object is owned directly or through the listeners of a live request.
Live == Owned \cup {h \in Handles : \E r \in Requests \cap Owned : cap[r] = h}

\* The object the published event is delivered on: the listeners a handle puts
\* on its internal requests publish the event again on the handle.
Target(f) == IF f.kind = "req" /\ cap[f.obj] # None THEN cap[f.obj] ELSE f.obj

Emitter == IF frame = NoFrame THEN {} ELSE {Target(frame)}

\* Every resource owns its loop (uv_type::owner).
LoopLive == userLoop \/ Live # {}

\* User code gets at the loop directly or through parent() of an object.
LoopInReach == userLoop \/ user # {} \/ frame # NoFrame

\* Handles loop::walk passes to its callback.
Walked == {h \in Handles : uv[h] \in {"open", "closing"}}

\* What user code can call: what it holds, the T& a listener is given, and the
\* handles it can walk to.
InReach == user \cup Emitter
             \cup (IF LoopInReach /\ uvloop = "open" THEN Walked ELSE {})

\* One thread: user code runs outside loop::run or inside a listener.
UserTurn == running = "no" \/ frame # NoFrame

\* ~loop, run as part of any step that releases the last reference to the
\* loop: it closes the uv_loop_t if close() has not been called before.
LoopDestructor ==
    uvloop' = IF uvloop # "open" \/ LoopLive' THEN uvloop
              ELSE IF Lent' = {} THEN "closed" ELSE "lost"

-----------------------------------------------------------------------------
(* resource.hpp                                                            *)

\* (Faulty variants: the error is not looked at; the self reference is missing.)
LeakIfAlways(o, ok) == self' = self \cup {o}
LeakIfNever(o, ok) == self' = self

\* leak_if(err): the object owns itself once libuv has accepted it.
LeakIf(o, ok) == self' = IF ok THEN self \cup {o} ELSE self

\* (Faulty variant: the self reference is never given up.)
SelfResetNever(o) == self' = self

\* self_reset()
SelfReset(o) == self' = self \ {o}

-----------------------------------------------------------------------------
(* Construction.                                                           *)

Init ==
    /\ made = {} /\ user = {} /\ self = {}
    /\ cap = [r \in Requests |-> None]
    /\ uv = [o \in Objects |-> "none"]
    /\ active = {}
    /\ frame = NoFrame
    /\ userLoop = TRUE
    /\ uvloop = "open"
    /\ running = "no"

\* loop::resource<H>(): construct and init; on failure the object dies here.
Resource(h, ok) ==
    /\ UserTurn /\ LoopInReach /\ uvloop = "open"
    /\ h \notin made
    /\ made' = made \cup {h}
    /\ LeakIf(h, ok)
    /\ uv' = IF ok THEN [uv EXCEPT ![h] = "open"] ELSE uv
    /\ user' = IF ok THEN user \cup {h} ELSE user
    /\ UNCHANGED <<cap, active, frame, userLoop, uvloop, running>>

\* loop::uninitialized_resource, and resource<R> for the requests, whose
\* init() does nothing.
UninitializedResource(o) ==
    /\ UserTurn /\ LoopInReach
    /\ o \notin made
    /\ made' = made \cup {o}
    /\ user' = user \cup {o}
    /\ UNCHANGED <<self, cap, uv, active, frame, userLoop, uvloop, running>>

\* init() of a handle, called by the user on an uninitialised handle or again
\* on one that has been closed.
HandleInit(h, ok) ==
    /\ UserTurn /\ uvloop = "open"
    /\ h \in made \cap InReach
    /\ uv[h] \in {"none", "closed"}
    /\ LeakIf(h, ok)
    /\ uv' = IF ok THEN [uv EXCEPT ![h] = "open"] ELSE uv
    /\ UNCHANGED <<made, user, cap, active, frame, userLoop, uvloop, running>>

-----------------------------------------------------------------------------
(* References of user code.                                                *)

\* The user releases its last reference to an object.
Drop(o) ==
    /\ UserTurn
    /\ o \in user
    /\ user' = user \ {o}
    /\ UNCHANGED <<made, self, cap, uv, active, frame, userLoop, running>>
    /\ LoopDestructor

\* shared_from_this() on the T& of a listener or of loop::walk.
Regain(o) ==
    /\ UserTurn
    /\ o \in InReach \ user
    /\ user' = user \cup {o}
    /\ UNCHANGED <<made, self, cap, uv, active, frame, userLoop, uvloop, running>>

\* The user releases its reference to the loop.  run() does not own the loop:
\* its caller has to hold the reference until run() returns.
DropLoop ==
    /\ userLoop /\ running = "no"
    /\ userLoop' = FALSE
    /\ UNCHANGED <<made, user, self, cap, uv, active, frame, running>>
    /\ LoopDestructor

\* parent().shared_from_this()
RegainLoop ==
    /\ UserTurn /\ ~userLoop /\ LoopInReach
    /\ userLoop' = TRUE
    /\ UNCHANGED <<made, user, self, cap, uv, active, frame, uvloop, running>>

\* An explicit loop::close().  The uv_loop_t is given up whatever
\* uv_loop_close returns; with handles or requests left it returned UV_EBUSY.
LoopClose ==
    /\ running = "no" /\ LoopInReach /\ uvloop = "open"
    /\ uvloop' = IF Lent = {} THEN "closed" ELSE "lost"
    /\ UNCHANGED <<made, user, self, cap, uv, active, frame, userLoop, running>>

-----------------------------------------------------------------------------
(* Operations on handles and requests.                                     *)

\* (Faulty variant: a closed handle counts as open.)
ClosingNotClosed(h) == uv[h] = "closing"

\* uv_is_closing: true of a handle that is closing or closed.
Closing(h) == uv[h] \in {"closing", "closed"}

\* handle::close() on a handle that has been initialised.
Close(h) ==
    /\ UserTurn /\ uvloop = "open"
    /\ h \in InReach /\ uv[h] # "none"
    /\ ~Closing(h)
    /\ uv' = [uv EXCEPT ![h] = "closing"]
    /\ active' = active \ {h}
    /\ UNCHANGED <<made, user, self, cap, frame, userLoop, uvloop, running>>

\* start(), read(), listen(), recv(): events may come from now on.
Start(h) ==
    /\ UserTurn /\ uvloop = "open"
    /\ h \in InReach /\ uv[h] = "open" /\ h \notin active
    /\ active' = active \cup {h}
    /\ UNCHANGED <<made, user, self, cap, uv, frame, userLoop, uvloop, running>>

\* stop()
Stop(h) ==
    /\ UserTurn /\ uvloop = "open"
    /\ h \in InReach /\ h \in active
    /\ active' = active \ {h}
    /\ UNCHANGED <<made, user, self, cap, uv, frame, userLoop, uvloop, running>>

\* write(), shutdown(), connect(), send(): make a request whose listeners
\* capture the handle, hand it to libuv, and release the local reference.
\* libuv refuses it on a handle that is closing or closed; a refused request
\* dies before the call returns and publishes nothing.
Submit(h, r, ok) ==
    /\ UserTurn /\ uvloop = "open"
    /\ h \in InReach /\ uv[h] # "none"
    /\ r \notin made
    /\ ok => ~Closing(h)
    /\ made' = made \cup {r}
    /\ cap' = [cap EXCEPT ![r] = h]
    /\ LeakIf(r, ok)
    /\ uv' = IF ok THEN [uv EXCEPT ![r] = "pending"] ELSE uv
    /\ UNCHANGED <<user, active, frame, userLoop, uvloop, running>>

\* work_req::queue, getaddrinfo, getnameinfo on a request user code holds; a
\* request may be used again once its callback has been called.
Queue(r, ok) ==
    /\ UserTurn /\ uvloop = "open"
    /\ r \in Requests \cap InReach
    /\ uv[r] = "none"
    /\ LeakIf(r, ok)
    /\ uv' = IF ok THEN [uv EXCEPT ![r] = "pending"] ELSE uv
    /\ UNCHANGED <<made, user, cap, active, frame, userLoop, uvloop, running>>

-----------------------------------------------------------------------------
(* The event loop (libuv, external) and the callbacks it makes.            *)

\* uv_loop_alive: active handles, closing handles or requests in flight.
Alive == \/ active # {}
         \/ \E o \in Objects : uv[o] \in {"closing", "pending"}

\* loop::run(mode): DEFAULT returns once nothing is alive, ONCE and NOWAIT
\* after any number of callbacks.
Run(mode) ==
    /\ running = "no" /\ frame = NoFrame
    /\ userLoop /\ uvloop = "open"
    /\ running' = mode
    /\ UNCHANGED <<made, user, self, cap, uv, active, frame, userLoop, uvloop>>

\* loop::stop() from a listener: run may return before everything is done.
LoopStop ==
    /\ running = "default" /\ frame # NoFrame
    /\ running' = "once"
    /\ UNCHANGED <<made, user, self, cap, uv, active, frame, userLoop, uvloop>>

RunReturn ==
    /\ running # "no" /\ frame = NoFrame
    /\ running = "default" => ~Alive
    /\ running' = "no"
    /\ UNCHANGED <<made, user, self, cap, uv, active, frame, userLoop, uvloop>>

\* timer, async, poll, read, listen... callback: publish on the T& found in
\* hndl->data.  Some handles (a one-shot timer) stop with the event.
EventCallback(h) ==
    /\ running # "no" /\ frame = NoFrame
    /\ h \in active
    /\ frame' = [kind |-> "event", obj |-> h]
    /\ active' \in {active, active \ {h}}
    /\ UNCHANGED <<made, user, self, cap, uv, userLoop, uvloop, running>>

\* write_callback, connect_callback, after_work_callback...: reserve() the
\* request, then publish the completion or the error.
ReqCallback(r) ==
    /\ running # "no" /\ frame = NoFrame
    /\ uv[r] = "pending"
    /\ uv' = [uv EXCEPT ![r] = "none"]
    /\ frame' = [kind |-> "req", obj |-> r]
    /\ SelfReset(r)
    /\ UNCHANGED <<made, user, cap, active, userLoop, uvloop, running>>

\* close_callback: libuv calls it once the requests on the handle have been
\* called back.
CloseCallback(h) ==
    /\ running # "no" /\ frame = NoFrame
    /\ uv[h] = "closing"
    /\ \A r \in Requests : uv[r] = "pending" => cap[r] # h
    /\ uv' = [uv EXCEPT ![h] = "closed"]
    /\ frame' = [kind |-> "close", obj |-> h]
    /\ SelfReset(h)
    /\ UNCHANGED <<made, user, cap, active, userLoop, uvloop, running>>

\* The listener, then the callback returns; the local shared_ptr goes, and
\* with it whatever it was the last reference to.
Return ==
    /\ frame # NoFrame
    /\ frame' = NoFrame
    /\ UNCHANGED <<made, user, self, cap, uv, active, userLoop, running>>
    /\ LoopDestructor

-----------------------------------------------------------------------------
UserNext ==
    \/ \E h \in Handles, ok \in BOOLEAN : Resource(h, ok) \/ HandleInit(h, ok)
    \/ \E o \in Objects : UninitializedResource(o) \/ Drop(o) \/ Regain(o)
    \/ \E h \in Handles : Close(h) \/ Start(h) \/ Stop(h)
    \/ \E h \in Handles, r \in Requests, ok \in BOOLEAN : Submit(h, r, ok)
    \/ \E r \in Requests, ok \in BOOLEAN : Queue(r, ok)
    \/ DropLoop \/ RegainLoop \/ LoopClose \/ LoopStop

LoopNext ==
    \/ \E mode \in {"default", "once"} : Run(mode)
    \/ RunReturn
    \/ \E h \in Handles : EventCallback(h) \/ CloseCallback(h)
    \/ \E r \in Requests : ReqCallback(r)
    \/ Return

Next == UserNext \/ LoopNext

Spec == Init /\ [][Next]_vars

\* The callback of a request whose handle is being closed: uv_close cancels it.
CancelCallback(r) == cap[r] # None /\ uv[cap[r]] = "closing" /\ ReqCallback(r)

\* Listeners return.  Every iteration of uv_run ends with the closing handles
\* and the requests they cancelled, so these callbacks cannot be put off for
\* ever by the events of other handles: strong fairness.  Nothing is assumed
\* of requests on open handles, whose peer may never answer, nor of events.
Fairness ==
    /\ WF_vars(Return)
    /\ \A h \in Handles : SF_vars(CloseCallback(h))
    /\ \A r \in Requests : SF_vars(CancelCallback(r))

FairSpec == Spec /\ Fairness

-----------------------------------------------------------------------------
(* Properties.                                                             *)

\* libuv never holds the address of a destroyed object: whatever references
\* the user drops and whenever, a registered handle and a pending request live
\* until their last callback (leak_if, self_reset).
NoDangling == Lent \subseteq Live

\* While a callback is on the stack the object it works on and the object the
\* event is delivered on are alive, even if the listener closes the handle or
\* drops every reference: the event callbacks rely on the self reference, the
\* others on the shared_ptr they took before self_reset().
CallbackSafe == frame # NoFrame => {frame.obj, Target(frame)} \subseteq Live

\* Nothing leaks: between callbacks a live object that user code no longer
\* holds is still registered with libuv, so neither self_ptr nor a reference
\* captured by the listeners of a finished request survives its purpose.
NoLeak == \A o \in Live \ user :
             o \in Lent \/ (frame # NoFrame /\ o \in {frame.obj, Target(frame)})

\* ~loop ignores what uv_loop_close returns.  It never meets UV_EBUSY: each
\* handle and request owns the loop, so the loop is destroyed after them, and
\* only an explicit close() can give up a busy uv_loop_t.
DestructorNeverBusy == [][uvloop' = "lost" /\ uvloop # "lost" => LoopLive']_vars

\* Once asked to close, and while the loop is run, a handle the user does not
\* hold is destroyed: closing neither waits for ever nor leaks the object.
ClosingIsReclaimed ==
    \A h \in Handles : (uv[h] = "closing" /\ running = "default")
                          ~> (h \notin Live \/ h \in user \/ running # "default"
                              \/ uv[h] = "open")

-----------------------------------------------------------------------------
(* Refinement of the abstract contract.                                    *)

Phase == [o \in Objects |-> IF o \notin made THEN "absent"
                             ELSE IF o \notin Live THEN "gone"
                             ELSE IF o \in Lent THEN "lent" ELSE "held"]

Telling == IF frame.kind \in {"close", "req"} THEN frame.obj ELSE None

Contract == INSTANCE ResourceContract WITH phase <- Phase, telling <- Telling

\* Lifetime implements ResourceContract: the callbacks and the reference
\* counting keep the promise whatever user code does with its references.
ImplementsContract == Contract!Spec

-----------------------------------------------------------------------------
(* The inductive invariant.                                                *)

\* self_ptr is set exactly while libuv holds the object.
SelfIffLent == self = Lent

\* An event callback works on a handle whose close callback is yet to come.
EventHandleLent == frame.kind = "event" => frame.obj \in Lent

\* User code never sees the requests that handles make.
InternalHidden == \A r \in Requests : cap[r] # None => r \notin user

\* A handle outlives its pending requests on libuv's side.
PendingOnOpen == \A r \in Requests :
    (uv[r] = "pending" /\ cap[r] # None) => cap[r] \in Lent

\* A callback works on a constructed object, and captured handles exist.
KnownObjects == /\ frame # NoFrame => frame.obj \in made
                /\ \A r \in Requests : cap[r] # None => {r, cap[r]} \subseteq made

\* What every step keeps: the pairing of leak_if and self_reset with libuv's
\* view of each object, across user calls and callbacks in any order.
IInv == /\ TypeOK
        /\ SelfIffLent
        /\ EventHandleLent
        /\ InternalHidden
        /\ PendingOnOpen
        /\ KnownObjects
=============================================================================
