----------------------------- MODULE LoopOwner -----------------------------
(***************************************************************************)
(* The loop wrappers themselves (loop.h, loop.ipp): which uv_loop_t a      *)
(* uvw::loop points to, who owns it, and what close(), the destructor and  *)
(* get_default() do to it.  The handles and requests of a loop appear only *)
(* as `busy`: some object of the wrapper is registered with libuv, and     *)
(* owns the wrapper (module Lifetime shows that it does).                  *)
(***************************************************************************)
EXTENDS Integers

CONSTANTS Wrappers, None

\* What the instances assume of the constants.
WrappersAssumption == None \notin Wrappers

VARIABLES
    kind,     \* how a wrapper was made: create(), create(res), get_default()
    user,     \* wrappers user code holds a shared_ptr to
    ptr,      \* wrappers whose uv_loop pointer is not null
    busy,     \* wrappers with handles or requests registered with libuv
    raw,      \* the uv_loop_t of a wrapper made by create() or create(res)
    rawDef,   \* libuv's default loop
    ref,      \* the static weak_ptr of get_default
    ret       \* what the step returned to the user

vars == <<kind, user, ptr, busy, raw, rawDef, ref, ret>>

RawStates == {"none", "ready", "closed", "freed"}

NoRet == [call |-> "none", wrapper |-> None, value |-> 0, ok |-> TRUE]

Timeouts == {-1, 0, 5}     \* uv_backend_timeout: none, poll, wait

UV_EBUSY == -16

\* The type invariant: only a wrapper that someone owns has a uv_loop pointer
\* (a destroyed one has none, ~loop and close() reset it).
TypeOK ==
    /\ kind \in [Wrappers -> {"none", "created", "given", "default"}]
    /\ user \in SUBSET Wrappers /\ busy \in SUBSET Wrappers
    /\ ptr \in SUBSET {w \in user \cup busy : kind[w] # "none"}
    /\ raw \in [Wrappers -> RawStates]
    /\ rawDef \in {"none", "ready"}
    /\ ref \in Wrappers \cup {None}
    /\ ret.wrapper \in Wrappers \cup {None}

\* The registered objects of a wrapper own it.
Live == user \cup busy

\* The state of the uv_loop_t a wrapper was made for.
RawOf(w) == IF kind[w] = "default" THEN rawDef ELSE raw[w]

-----------------------------------------------------------------------------
\* uv_loop_close (external) refuses a loop in use.  A closed default loop is
\* forgotten by libuv, which makes a new one when next asked.
UvLoopClose(w, inUse) ==
    IF inUse THEN UNCHANGED <<raw, rawDef>>
    ELSE IF kind[w] = "default" THEN rawDef' = "none" /\ UNCHANGED raw
    ELSE raw' = [raw EXCEPT ![w] = "closed"] /\ UNCHANGED rawDef

\* (Faulty variant: the pointer is reset and the loop is left as it is.)
CloseLeaks(w, inUse) == ptr' = ptr \ {w} /\ UNCHANGED <<raw, rawDef>>

\* (Faulty variant: the pointer to the closed loop is kept.)
CloseKeepsPointer(w, inUse) ==
    IF w \in ptr THEN UvLoopClose(w, inUse) /\ UNCHANGED ptr
    ELSE UNCHANGED <<ptr, raw, rawDef>>

\* loop::close: close the uv_loop_t, if there is one, and give it up whatever
\* the result.  The deleter of create() frees it even when it is in use.
CloseLoop(w, inUse) ==
    IF w \notin ptr THEN UNCHANGED <<ptr, raw, rawDef>>
    ELSE /\ ptr' = ptr \ {w}
         /\ IF kind[w] = "created"
            THEN raw' = [raw EXCEPT ![w] = "freed"] /\ UNCHANGED rawDef
            ELSE UvLoopClose(w, inUse)

-----------------------------------------------------------------------------
Init ==
    /\ kind = [w \in Wrappers |-> "none"]
    /\ user = {} /\ ptr = {} /\ busy = {}
    /\ raw = [w \in Wrappers |-> "none"]
    /\ rawDef = "none"
    /\ ref = None
    /\ ret = NoRet

\* loop::create(), and loop::create(uv_loop_t *) on a loop of the user's.
Create(w, how) ==
    /\ kind[w] = "none"
    /\ kind' = [kind EXCEPT ![w] = how]
    /\ raw' = [raw EXCEPT ![w] = "ready"]
    /\ user' = user \cup {w} /\ ptr' = ptr \cup {w}
    /\ UNCHANGED <<busy, rawDef, ref>> /\ ret' = NoRet

\* loop::create() when uv_loop_init fails: the wrapper dies at once, and its
\* destructor closes and frees the uv_loop_t that was never initialised.
CreateFails(w) ==
    /\ kind[w] = "none"
    /\ kind' = [kind EXCEPT ![w] = "created"]
    /\ raw' = [raw EXCEPT ![w] = "freed"]
    /\ UNCHANGED <<user, ptr, busy, rawDef, ref>> /\ ret' = NoRet

\* (Faulty variant: only the references of user code are counted.)
ExpiredForUser == ref \notin user

\* ref.expired(): no shared_ptr to the wrapper is left, neither the user's nor
\* that of a registered object.
Expired == ref \notin Live

\* loop::get_default() when the last default wrapper is gone: uv_default_loop
\* makes or returns libuv's default loop, unless it fails.
GetDefaultNew(w, ok) ==
    /\ Expired
    /\ kind[w] = "none"
    /\ IF ok
       THEN /\ kind' = [kind EXCEPT ![w] = "default"]
            /\ user' = user \cup {w} /\ ptr' = ptr \cup {w}
            /\ rawDef' = "ready"
            /\ ref' = w
       ELSE UNCHANGED <<kind, user, ptr, rawDef>> /\ ref' = None
    /\ ret' = [NoRet EXCEPT !.call = "get_default", !.wrapper = ref']
    /\ UNCHANGED <<busy, raw>>

\* loop::get_default() while some reference to the default wrapper exists.
GetDefaultAgain ==
    /\ ~Expired
    /\ user' = user \cup {ref}
    /\ ret' = [NoRet EXCEPT !.call = "get_default", !.wrapper = ref]
    /\ UNCHANGED <<kind, ptr, busy, raw, rawDef, ref>>

\* A handle or request is registered with the loop, or its last one goes.
Register(w) ==
    /\ w \in (user \cap ptr) \ busy
    /\ busy' = busy \cup {w}
    /\ UNCHANGED <<kind, user, ptr, raw, rawDef, ref>> /\ ret' = NoRet

\* run() needs the uv_loop_t: after close() nothing is ever called back.  With
\* its last object the wrapper itself may go (~loop).
Unregister(w) ==
    /\ w \in busy \cap ptr
    /\ busy' = busy \ {w}
    /\ IF w \in user THEN UNCHANGED <<ptr, raw, rawDef>> ELSE CloseLoop(w, FALSE)
    /\ UNCHANGED <<kind, user, ref>> /\ ret' = NoRet

\* The user's last shared_ptr goes: ~loop if no object owns the wrapper.
Release(w) ==
    /\ w \in user
    /\ user' = user \ {w}
    /\ IF w \in busy THEN UNCHANGED <<ptr, raw, rawDef>> ELSE CloseLoop(w, FALSE)
    /\ UNCHANGED <<kind, busy, ref>> /\ ret' = NoRet

\* An explicit close(), whether or not everything has been closed.
Close(w) ==
    /\ w \in user
    /\ CloseLoop(w, w \in busy)
    /\ ret' = [call |-> "close", wrapper |-> w, ok |-> TRUE,
               value |-> IF w \in ptr \cap busy THEN UV_EBUSY ELSE 0]
    /\ UNCHANGED <<kind, user, busy, ref>>

\* timeout(): a pair of a flag and the milliseconds.
Timeout(w, to) ==
    /\ w \in user \cap ptr
    /\ ret' = [call |-> "timeout", wrapper |-> w, value |-> to, ok |-> to = -1]
    /\ UNCHANGED <<kind, user, ptr, busy, raw, rawDef, ref>>

Next ==
    \/ \E w \in Wrappers, how \in {"created", "given"} : Create(w, how)
    \/ \E w \in Wrappers : CreateFails(w)
    \/ \E w \in Wrappers, ok \in BOOLEAN : GetDefaultNew(w, ok)
    \/ GetDefaultAgain
    \/ \E w \in Wrappers : Register(w) \/ Unregister(w) \/ Release(w) \/ Close(w)
    \/ \E w \in Wrappers, to \in Timeouts : Timeout(w, to)

Spec == Init /\ [][Next]_vars

-----------------------------------------------------------------------------
(* Properties.                                                             *)

\* A wrapper's pointer never refers to a uv_loop_t that has been closed or
\* freed, whichever wrappers were closed, released or made again before.
NoStaleLoop == \A w \in ptr : RawOf(w) = "ready"

\* The process has one default loop: two wrappers that can run it never exist
\* at once, so the destructor of one cannot close the loop of the other.
OneDefault == \A v, w \in ptr : kind[v] = "default" /\ kind[w] = "default" => v = w

\* Wrappers do not leak the uv_loop_t they made: once a wrapper made by
\* create() is gone, so is its loop.
NoLoopLeak == \A w \in Wrappers : kind[w] = "created" /\ w \notin Live => raw[w] = "freed"

(* What the documentation says and the code does not do: TLC refutes it.  *)

\* get_default: "Gets the initialized default loop. It may return an empty
\* pointer in case of failure."
DefaultIsInitialized ==
    ret.call = "get_default" /\ ret.wrapper # None => ret.wrapper \in ptr

\* close: call it only when everything has been closed, "or the loop will
\* error".
CloseErrors == ret.call = "close" /\ ret.wrapper \in busy => ret.value < 0

\* timeout: "A boolean value that is true in case of valid timeout".
TimeoutFlag == ret.call = "timeout" => (ret.ok <=> ret.value >= 0)

-----------------------------------------------------------------------------
(* The inductive invariant.                                                *)

\* A wrapper that can use the default loop is the one the weak_ptr remembers.
DefaultIsRef == \A w \in ptr : kind[w] = "default" => w = ref

\* Wrappers not made yet have no references.
Unmade == \A w \in user \cup busy : kind[w] # "none"

\* A live wrapper made by create() has lost its pointer only by close(), which
\* freed the loop.
HeapFreed == \A w \in Wrappers : kind[w] = "created" /\ w \notin ptr => raw[w] = "freed"

\* What create, get_default, close and ~loop keep in any order.
IInv == TypeOK /\ NoStaleLoop /\ DefaultIsRef /\ Unmade /\ HeapFreed
=============================================================================
