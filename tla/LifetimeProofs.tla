--------------------------- MODULE LifetimeProofs ---------------------------
(***************************************************************************)
(* Proofs about Lifetime, for any sets of handles and requests: the        *)
(* inductive invariant IInv, the safety properties it implies, and the     *)
(* refinement of ResourceContract.                                         *)
(***************************************************************************)
EXTENDS Lifetime, TLAPS

\* The initial state, before anything has been constructed, satisfies IInv.
LEMMA InitEstablishes == Init => IInv
<1> SUFFICES ASSUME Init PROVE IInv
  OBVIOUS
<1> USE ObjectsAssumption DEF Init, Objects, NoFrame
<1>1. TypeOK
  BY DEF TypeOK, Frames
<1>2. SelfIffLent
  BY DEF SelfIffLent, Lent
<1>3. EventHandleLent /\ InternalHidden /\ PendingOnOpen /\ KnownObjects
  BY DEF EventHandleLent, InternalHidden, PendingOnOpen, KnownObjects
<1> QED
  BY <1>1, <1>2, <1>3 DEF IInv

\* What the invariant says of a frame: it is about a constructed object of the
\* right sort.
LEMMA FrameFacts ==
    ASSUME TypeOK
    PROVE  /\ frame = NoFrame \/ frame.kind \in {"event", "close", "req"}
           /\ frame.kind \in {"event", "close"} => frame.obj \in Handles
           /\ frame.kind = "req" => frame.obj \in Requests
           /\ frame = NoFrame <=> frame.kind = "none"
  BY DEF TypeOK, Frames, NoFrame

\* The objects user code can call exist, and a request among them is one that
\* user code holds or that no handle has made.
LEMMA ReachFacts ==
    ASSUME IInv
    PROVE  /\ InReach \subseteq made
           /\ InReach \subseteq Objects
           /\ \A r \in Requests \cap InReach : cap[r] = None
<1> USE ObjectsAssumption DEF IInv, Objects
<1>1. user \subseteq made /\ made \subseteq Objects
  BY DEF TypeOK
<1>2. Walked \subseteq made /\ Walked \subseteq Handles
  BY DEF Walked, TypeOK, SelfIffLent, Lent
<1>3. Emitter \subseteq made
  BY FrameFacts DEF Emitter, Target, KnownObjects
<1>4. \A r \in Requests \cap Emitter : cap[r] = None
  BY FrameFacts DEF Emitter, Target, KnownObjects, TypeOK
<1>5. \A r \in Requests \cap user : cap[r] = None
  BY DEF InternalHidden
<1> QED
  BY <1>1, <1>2, <1>3, <1>4, <1>5 DEF InReach

\* Constructing and initialising a handle preserves IInv.
LEMMA ResourceStep ==
    ASSUME NEW h \in Handles, NEW ok \in BOOLEAN, IInv, Resource(h, ok)
    PROVE  IInv'
<1> USE ObjectsAssumption DEF IInv, Objects, Resource, LeakIf
<1>1. TypeOK'
  BY DEF TypeOK, Frames, NoFrame
<1>2. SelfIffLent'
  BY DEF SelfIffLent, Lent, TypeOK
<1>3. EventHandleLent'
  BY DEF EventHandleLent, Lent, TypeOK
<1>4. InternalHidden'
  BY DEF InternalHidden, TypeOK
<1>5. PendingOnOpen'
  BY DEF PendingOnOpen, Lent, TypeOK
<1>6. KnownObjects'
  BY DEF KnownObjects, TypeOK, NoFrame
<1> QED
  BY <1>1, <1>2, <1>3, <1>4, <1>5, <1>6

\* Constructing an object without initialising it preserves IInv.
LEMMA UninitializedStep ==
    ASSUME NEW o \in Objects, IInv, UninitializedResource(o)
    PROVE  IInv'
<1> USE ObjectsAssumption DEF IInv, Objects, UninitializedResource
<1>1. TypeOK'
  BY DEF TypeOK, Frames, NoFrame
<1>2. SelfIffLent'
  BY DEF SelfIffLent, Lent, TypeOK
<1>3. EventHandleLent'
  BY DEF EventHandleLent, Lent, TypeOK
<1>4. InternalHidden'
  BY DEF InternalHidden, KnownObjects
<1>5. PendingOnOpen'
  BY DEF PendingOnOpen, Lent, TypeOK
<1>6. KnownObjects'
  BY DEF KnownObjects, TypeOK, NoFrame
<1> QED
  BY <1>1, <1>2, <1>3, <1>4, <1>5, <1>6

\* init() on a constructed handle preserves IInv.
LEMMA HandleInitStep ==
    ASSUME NEW h \in Handles, NEW ok \in BOOLEAN, IInv, HandleInit(h, ok)
    PROVE  IInv'
<1> USE ObjectsAssumption DEF IInv, Objects, HandleInit, LeakIf
<1>1. TypeOK'
  BY DEF TypeOK, Frames, NoFrame
<1>2. SelfIffLent'
  BY DEF SelfIffLent, Lent, TypeOK
<1>3. EventHandleLent'
  BY DEF EventHandleLent, Lent, TypeOK
<1>4. InternalHidden'
  BY DEF InternalHidden, TypeOK
<1>5. PendingOnOpen'
  BY DEF PendingOnOpen, Lent, TypeOK
<1>6. KnownObjects'
  BY DEF KnownObjects, TypeOK, NoFrame
<1> QED
  BY <1>1, <1>2, <1>3, <1>4, <1>5, <1>6

\* Releasing a reference preserves IInv.
LEMMA DropStep ==
    ASSUME NEW o \in Objects, IInv, Drop(o)
    PROVE  IInv'
<1> USE ObjectsAssumption DEF IInv, Objects, Drop, LoopDestructor
<1>1. TypeOK'
  BY DEF TypeOK, Frames, NoFrame
<1>2. SelfIffLent'
  BY DEF SelfIffLent, Lent, TypeOK
<1>3. EventHandleLent'
  BY DEF EventHandleLent, Lent, TypeOK
<1>4. InternalHidden'
  BY DEF InternalHidden, TypeOK
<1>5. PendingOnOpen'
  BY DEF PendingOnOpen, Lent, TypeOK
<1>6. KnownObjects'
  BY DEF KnownObjects, TypeOK, NoFrame
<1> QED
  BY <1>1, <1>2, <1>3, <1>4, <1>5, <1>6

\* Taking a reference from a listener or from walk preserves IInv.
LEMMA RegainStep ==
    ASSUME NEW o \in Objects, IInv, Regain(o)
    PROVE  IInv'
<1> USE ObjectsAssumption DEF IInv, Objects, Regain
<1>1. TypeOK'
  BY ReachFacts DEF TypeOK, Frames, NoFrame
<1>2. SelfIffLent'
  BY ReachFacts DEF SelfIffLent, Lent, TypeOK
<1>3. EventHandleLent'
  BY ReachFacts DEF EventHandleLent, Lent, TypeOK
<1>4. InternalHidden'
  BY ReachFacts DEF InternalHidden, TypeOK
<1>5. PendingOnOpen'
  BY ReachFacts DEF PendingOnOpen, Lent, TypeOK
<1>6. KnownObjects'
  BY ReachFacts DEF KnownObjects, TypeOK, NoFrame
<1> QED
  BY <1>1, <1>2, <1>3, <1>4, <1>5, <1>6

\* close() preserves IInv.
LEMMA CloseStep ==
    ASSUME NEW h \in Handles, IInv, Close(h)
    PROVE  IInv'
<1> USE ObjectsAssumption DEF IInv, Objects, Close, Closing
<1>1. TypeOK'
  BY DEF TypeOK, Frames, NoFrame
<1>2. SelfIffLent'
  BY DEF SelfIffLent, Lent, TypeOK
<1>3. EventHandleLent'
  BY DEF EventHandleLent, Lent, TypeOK
<1>4. InternalHidden'
  BY DEF InternalHidden, TypeOK
<1>5. PendingOnOpen'
  BY DEF PendingOnOpen, Lent, TypeOK
<1>6. KnownObjects'
  BY DEF KnownObjects, TypeOK, NoFrame
<1> QED
  BY <1>1, <1>2, <1>3, <1>4, <1>5, <1>6

\* Creating a request on a handle preserves IInv.
LEMMA SubmitStep ==
    ASSUME NEW h \in Handles, NEW r \in Requests, NEW ok \in BOOLEAN, IInv, Submit(h, r, ok)
    PROVE  IInv'
<1> USE ObjectsAssumption DEF IInv, Objects, Submit, LeakIf, Closing
<1>1. TypeOK'
  BY ReachFacts DEF TypeOK, Frames, NoFrame
<1>2. SelfIffLent'
  BY ReachFacts DEF SelfIffLent, Lent, TypeOK
<1>3. EventHandleLent'
  BY ReachFacts DEF EventHandleLent, Lent, TypeOK
<1>4. InternalHidden'
  BY ReachFacts DEF InternalHidden, TypeOK
<1>5. PendingOnOpen'
  <2>1. h \in Handles /\ h # None /\ uv[r] = "none"
    BY DEF TypeOK, SelfIffLent, Lent
  <2>2. ok => uv[h] = "open"
    BY <2>1 DEF TypeOK
  <2>3. Lent \subseteq Lent'
    BY DEF Lent, TypeOK
  <2>4. CASE ok
    BY <2>1, <2>2, <2>3, <2>4 DEF PendingOnOpen, Lent, TypeOK
  <2>5. CASE ~ok
    BY <2>1, <2>3, <2>5 DEF PendingOnOpen, Lent, TypeOK
  <2> QED
    BY <2>4, <2>5
<1>6. KnownObjects'
  BY ReachFacts DEF KnownObjects, TypeOK, NoFrame
<1> QED
  BY <1>1, <1>2, <1>3, <1>4, <1>5, <1>6

\* Queueing a request user code holds preserves IInv.
LEMMA QueueStep ==
    ASSUME NEW r \in Requests, NEW ok \in BOOLEAN, IInv, Queue(r, ok)
    PROVE  IInv'
<1> USE ObjectsAssumption DEF IInv, Objects, Queue, LeakIf
<1>1. TypeOK'
  BY ReachFacts DEF TypeOK, Frames, NoFrame
<1>2. SelfIffLent'
  BY ReachFacts DEF SelfIffLent, Lent, TypeOK
<1>3. EventHandleLent'
  BY ReachFacts DEF EventHandleLent, Lent, TypeOK
<1>4. InternalHidden'
  BY ReachFacts DEF InternalHidden, TypeOK
<1>5. PendingOnOpen'
  BY ReachFacts DEF PendingOnOpen, Lent, TypeOK
<1>6. KnownObjects'
  BY ReachFacts DEF KnownObjects, TypeOK, NoFrame
<1> QED
  BY <1>1, <1>2, <1>3, <1>4, <1>5, <1>6

\* An event callback preserves IInv.
LEMMA EventStep ==
    ASSUME NEW h \in Handles, IInv, EventCallback(h)
    PROVE  IInv'
<1> USE ObjectsAssumption DEF IInv, Objects, EventCallback
<1>1. TypeOK'
  BY DEF TypeOK, Frames, NoFrame
<1>2. SelfIffLent'
  BY DEF SelfIffLent, Lent, TypeOK
<1>3. EventHandleLent'
  BY DEF EventHandleLent, Lent, TypeOK
<1>4. InternalHidden'
  BY DEF InternalHidden, TypeOK
<1>5. PendingOnOpen'
  BY DEF PendingOnOpen, Lent, TypeOK
<1>6. KnownObjects'
  BY DEF KnownObjects, SelfIffLent, Lent, TypeOK, NoFrame
<1> QED
  BY <1>1, <1>2, <1>3, <1>4, <1>5, <1>6

\* The last callback of a request preserves IInv.
LEMMA ReqStep ==
    ASSUME NEW r \in Requests, IInv, ReqCallback(r)
    PROVE  IInv'
<1> USE ObjectsAssumption DEF IInv, Objects, ReqCallback, SelfReset
<1>1. TypeOK'
  BY DEF TypeOK, Frames, NoFrame
<1>2. SelfIffLent'
  BY DEF SelfIffLent, Lent, TypeOK
<1>3. EventHandleLent'
  BY DEF EventHandleLent, Lent, TypeOK
<1>4. InternalHidden'
  BY DEF InternalHidden, TypeOK
<1>5. PendingOnOpen'
  BY DEF PendingOnOpen, Lent, TypeOK
<1>6. KnownObjects'
  BY DEF KnownObjects, SelfIffLent, Lent, TypeOK, NoFrame
<1> QED
  BY <1>1, <1>2, <1>3, <1>4, <1>5, <1>6

\* The close callback preserves IInv.
LEMMA CloseCallbackStep ==
    ASSUME NEW h \in Handles, IInv, CloseCallback(h)
    PROVE  IInv'
<1> USE ObjectsAssumption DEF IInv, Objects, CloseCallback, SelfReset
<1>1. TypeOK'
  BY DEF TypeOK, Frames, NoFrame
<1>2. SelfIffLent'
  BY DEF SelfIffLent, Lent, TypeOK
<1>3. EventHandleLent'
  BY DEF EventHandleLent, Lent, TypeOK
<1>4. InternalHidden'
  BY DEF InternalHidden, TypeOK
<1>5. PendingOnOpen'
  BY DEF PendingOnOpen, Lent, TypeOK
<1>6. KnownObjects'
  BY DEF KnownObjects, SelfIffLent, Lent, TypeOK, NoFrame
<1> QED
  BY <1>1, <1>2, <1>3, <1>4, <1>5, <1>6

\* The return of a callback preserves IInv.
LEMMA ReturnStep ==
    ASSUME IInv, Return
    PROVE  IInv'
<1> USE ObjectsAssumption DEF IInv, Objects, Return, LoopDestructor
<1>1. TypeOK'
  BY DEF TypeOK, Frames, NoFrame
<1>2. SelfIffLent'
  BY DEF SelfIffLent, Lent, TypeOK
<1>3. EventHandleLent'
  BY DEF EventHandleLent, NoFrame
<1>4. InternalHidden'
  BY DEF InternalHidden, TypeOK
<1>5. PendingOnOpen'
  BY DEF PendingOnOpen, Lent, TypeOK
<1>6. KnownObjects'
  BY DEF KnownObjects, TypeOK, NoFrame
<1> QED
  BY <1>1, <1>2, <1>3, <1>4, <1>5, <1>6

\* The steps that change only what the loop does, or which handles are
\* started, preserve IInv.
LEMMA OtherSteps ==
    ASSUME IInv,
           \/ \E h \in Handles : Start(h) \/ Stop(h)
           \/ DropLoop \/ RegainLoop \/ LoopClose \/ LoopStop
           \/ \E mode \in {"default", "once"} : Run(mode)
           \/ RunReturn
           \/ UNCHANGED vars
    PROVE  IInv'
<1> USE ObjectsAssumption DEF IInv, Objects, Start, Stop, DropLoop, RegainLoop,
        LoopClose, LoopStop, Run, RunReturn, LoopDestructor, vars
<1>1. UNCHANGED <<made, user, self, cap, uv, frame>>
  OBVIOUS
<1>2. TypeOK'
  BY DEF TypeOK
<1>3. SelfIffLent' /\ EventHandleLent' /\ InternalHidden' /\ PendingOnOpen'
      /\ KnownObjects'
  BY <1>1 DEF SelfIffLent, EventHandleLent, InternalHidden, PendingOnOpen,
              KnownObjects, Lent
<1> QED
  BY <1>2, <1>3

\* IInv is an invariant of every behaviour.
THEOREM Invariance == Spec => []IInv
<1>1. IInv /\ [Next]_vars => IInv'
  <2> SUFFICES ASSUME IInv, [Next]_vars PROVE IInv'
    OBVIOUS
  <2>1. CASE UserNext
    BY <2>1, ResourceStep, HandleInitStep, UninitializedStep, DropStep,
       RegainStep, CloseStep, SubmitStep, QueueStep, OtherSteps DEF UserNext
  <2>2. CASE LoopNext
    BY <2>2, EventStep, ReqStep, CloseCallbackStep, ReturnStep, OtherSteps
    DEF LoopNext
  <2>3. CASE UNCHANGED vars
    BY <2>3, OtherSteps
  <2> QED
    BY <2>1, <2>2, <2>3 DEF Next
<1> QED
  BY <1>1, InitEstablishes, PTL DEF Spec

\* Type correctness of the references and of libuv's view of the objects.
THEOREM TypeCorrect == Spec => []TypeOK
  BY Invariance, PTL DEF IInv

\* The invariant implies the three safety properties in every state.
LEMMA InvariantImplies == IInv => NoDangling /\ CallbackSafe /\ NoLeak
<1> SUFFICES ASSUME IInv PROVE NoDangling /\ CallbackSafe /\ NoLeak
  OBVIOUS
<1> USE ObjectsAssumption DEF IInv
<1>1. Lent \subseteq Live
  BY DEF SelfIffLent, Live, Owned
<1>2. CallbackSafe
  <2> SUFFICES ASSUME frame # NoFrame
               PROVE  {frame.obj, Target(frame)} \subseteq Live
    BY DEF CallbackSafe
  <2>1. CASE frame.kind = "event"
    BY <1>1, <2>1 DEF EventHandleLent, Target
  <2>2. CASE frame.kind \in {"close", "req"}
    <3>1. frame.obj \in Owned
      BY <2>2 DEF Owned, Pinned
    <3>2. ASSUME frame.kind = "req", cap[frame.obj] # None
          PROVE  cap[frame.obj] \in Live
      BY <3>1, <3>2, FrameFacts DEF Live, TypeOK
    <3> QED
      BY <3>1, <3>2 DEF Target, Live
  <2> QED
    BY <2>1, <2>2, FrameFacts
<1>3. NoLeak
  <2> SUFFICES ASSUME NEW o \in Live \ user, o \notin Lent
               PROVE  frame # NoFrame /\ o \in {frame.obj, Target(frame)}
    BY DEF NoLeak
  <2>1. CASE o \in Owned
    BY <2>1, FrameFacts DEF Owned, Pinned, SelfIffLent
  <2>2. CASE o \notin Owned
    <3>1. PICK r \in Requests \cap Owned : cap[r] = o
      BY <2>2 DEF Live
    <3>2. o \in Handles /\ cap[r] # None
      BY <2>2, <3>1 DEF Live, TypeOK
    <3>3. r \notin user
      BY <3>1, <3>2 DEF InternalHidden
    <3>4. r \notin self
      BY <3>1, <3>2 DEF PendingOnOpen, SelfIffLent, Lent, TypeOK
    <3>5. frame.kind \in {"close", "req"} /\ r = frame.obj
      BY <3>1, <3>3, <3>4 DEF Owned, Pinned
    <3> QED
      BY <3>1, <3>2, <3>5, FrameFacts DEF Target
  <2> QED
    BY <2>1, <2>2
<1> QED
  BY <1>1, <1>2, <1>3 DEF NoDangling

\* libuv never keeps the address of a destroyed handle or request.
THEOREM NeverDangling == Spec => []NoDangling
  BY Invariance, InvariantImplies, PTL

\* A callback never works on, nor publishes on, a destroyed object.
THEOREM CallbacksSafe == Spec => []CallbackSafe
  BY Invariance, InvariantImplies, PTL

\* No object outlives both its user references and its use by libuv.
THEOREM NeverLeaks == Spec => []NoLeak
  BY Invariance, InvariantImplies, PTL

\* The loop destructor never meets UV_EBUSY.
THEOREM DestructorClean == Spec => DestructorNeverBusy
<1>1. IInv /\ IInv' /\ [Next]_vars
        => (uvloop' = "lost" /\ uvloop # "lost" => LoopLive')
  <2> SUFFICES ASSUME IInv', [Next]_vars, uvloop' = "lost", uvloop # "lost"
               PROVE  LoopLive'
    OBVIOUS
  <2>1. LoopLive' \/ Lent' # {}
    <3>1. CASE UserNext
      BY <3>1 DEF UserNext, Resource, HandleInit, UninitializedResource, Drop,
         Regain, Close, Start, Stop, Submit, Queue, DropLoop, RegainLoop,
         LoopStop, LoopClose, LoopDestructor, Lent
    <3>2. CASE LoopNext
      BY <3>2 DEF LoopNext, Run, RunReturn, EventCallback, CloseCallback,
         ReqCallback, Return, LoopDestructor
    <3>3. CASE UNCHANGED vars
      BY <3>3 DEF vars
    <3> QED
      BY <3>1, <3>2, <3>3 DEF Next
  <2> QED
    BY <2>1 DEF IInv, SelfIffLent, Live, Owned, LoopLive
<1> QED
  BY <1>1, Invariance, PTL DEF Spec, DestructorNeverBusy

\* User code can only call live objects.
LEMMA ReachLive == ASSUME IInv PROVE InReach \subseteq Live
<1>1. Walked \subseteq Lent
  BY DEF Walked, Lent, Objects
<1>2. Emitter \subseteq Live
  BY InvariantImplies DEF CallbackSafe, Emitter
<1> QED
  BY <1>1, <1>2, InvariantImplies DEF InReach, NoDangling, Live, Owned

\* A destroyed object stays destroyed: a step adds a reference only to an
\* object it constructs or to a live one.
LEMMA NoResurrection ==
    ASSUME IInv, IInv', [Next]_vars
    PROVE  made \subseteq made' /\ Live' \cap made \subseteq Live
<1> USE ObjectsAssumption DEF Objects
<1> DEFINE LiveBy(u, s, p, c) ==
      (u \cup s \cup p)
        \cup {h \in Handles : \E r \in Requests \cap (u \cup s \cup p) : c[r] = h}
<1>0. Live = LiveBy(user, self, Pinned, cap) /\ Live' = LiveBy(user', self', Pinned', cap')
  BY DEF Live, Owned
<1>1. ASSUME NEW h \in Handles, NEW ok \in BOOLEAN, Resource(h, ok)
      PROVE  made \subseteq made' /\ Live' \cap made \subseteq Live
  BY <1>0, <1>1 DEF Resource, LeakIf, Pinned
<1>2. ASSUME NEW o \in Objects, UninitializedResource(o)
      PROVE  made \subseteq made' /\ Live' \cap made \subseteq Live
  BY <1>0, <1>2 DEF UninitializedResource, Pinned, IInv, KnownObjects, TypeOK
<1>3. ASSUME NEW h \in Handles, NEW ok \in BOOLEAN, HandleInit(h, ok)
      PROVE  made \subseteq made' /\ Live' \cap made \subseteq Live
  BY <1>0, <1>3, ReachLive DEF HandleInit, LeakIf, Pinned
<1>4. ASSUME NEW o \in Objects, Drop(o)
      PROVE  made \subseteq made' /\ Live' \cap made \subseteq Live
  BY <1>0, <1>4 DEF Drop, Pinned
<1>5. ASSUME NEW o \in Objects, Regain(o)
      PROVE  made \subseteq made' /\ Live' \cap made \subseteq Live
  <2>1. o \in Live /\ (o \in Requests => cap[o] = None)
    BY <1>5, ReachLive, ReachFacts DEF Regain
  <2> QED
    BY <1>0, <1>5, <2>1 DEF Regain, Pinned
<1>6. ASSUME NEW h \in Handles, NEW r \in Requests, NEW ok \in BOOLEAN,
             Submit(h, r, ok)
      PROVE  made \subseteq made' /\ Live' \cap made \subseteq Live
  <2>1. h \in Live /\ r \notin user /\ r \notin self
    BY <1>6, ReachLive DEF Submit, IInv, TypeOK
  <2>2. Pinned' = Pinned /\ user' = user /\ self' \subseteq self \cup {r}
    BY <1>6 DEF Submit, LeakIf, Pinned
  <2>3. \A q \in Requests : q # r => cap'[q] = cap[q]
    BY <1>6 DEF Submit, IInv, TypeOK
  <2>4. cap'[r] = h /\ r \notin made /\ made \subseteq made'
    BY <1>6 DEF Submit, IInv, TypeOK
  <2> QED
    BY <1>0, <2>1, <2>2, <2>3, <2>4
<1>7. ASSUME NEW r \in Requests, NEW ok \in BOOLEAN, Queue(r, ok)
      PROVE  made \subseteq made' /\ Live' \cap made \subseteq Live
  <2>1. r \in Live /\ cap[r] = None
    BY <1>7, ReachLive, ReachFacts DEF Queue
  <2> QED
    BY <1>0, <1>7, <2>1 DEF Queue, LeakIf, Pinned
<1>8. ASSUME NEW h \in Handles, EventCallback(h) \/ CloseCallback(h)
      PROVE  made \subseteq made' /\ Live' \cap made \subseteq Live
  <2>1. CloseCallback(h) => h \in Live
    BY InvariantImplies DEF CloseCallback, NoDangling, Lent
  <2> QED
    BY <1>0, <1>8, <2>1 DEF EventCallback, CloseCallback, SelfReset, Pinned
<1>9. ASSUME NEW r \in Requests, ReqCallback(r)
      PROVE  made \subseteq made' /\ Live' \cap made \subseteq Live
  <2>1. r \in self
    BY <1>9 DEF ReqCallback, IInv, SelfIffLent, Lent
  <2>2. Owned' \subseteq Owned /\ cap' = cap
    BY <1>9, <2>1 DEF ReqCallback, SelfReset, Pinned, Owned
  <2> QED
    BY <1>9, <2>2 DEF Live, ReqCallback
<1>10. ASSUME Return
       PROVE  made \subseteq made' /\ Live' \cap made \subseteq Live
  BY <1>0, <1>10 DEF Return, Pinned, NoFrame
<1>11. ASSUME UNCHANGED <<made, user, self, cap, frame>>
       PROVE  made \subseteq made' /\ Live' \cap made \subseteq Live
  BY <1>0, <1>11 DEF Pinned
<1>12. CASE UserNext
  BY <1>12, <1>1, <1>2, <1>3, <1>4, <1>5, <1>6, <1>7, <1>11
  DEF UserNext, Close, Start, Stop, DropLoop, RegainLoop, LoopClose, LoopStop
<1>13. CASE LoopNext
  BY <1>13, <1>8, <1>9, <1>10, <1>11 DEF LoopNext, Run, RunReturn
<1> QED
  BY <1>11, <1>12, <1>13 DEF Next, vars

\* libuv hands an object back only in the step that starts to publish its
\* completion, and completions are published one at a time.
LEMMA HandBackTells ==
    ASSUME IInv, [Next]_vars
    PROVE  /\ \A o \in Lent : o \in Lent' \/ Telling' = o
           /\ Telling' # Telling => Telling = None \/ Telling' = None
<1> USE DEF Objects
<1>1. CASE UserNext
  <2>1. Telling' = Telling
    BY <1>1 DEF UserNext, Resource, HandleInit, UninitializedResource, Drop,
       Regain, Close, Start, Stop, Submit, Queue, DropLoop, RegainLoop,
       LoopStop, LoopClose, Telling
  <2>2. Lent \subseteq Lent'
    BY <1>1 DEF UserNext, Resource, HandleInit, UninitializedResource, Drop,
       Regain, Close, Start, Stop, Submit, Queue, DropLoop, RegainLoop,
       LoopStop, LoopClose, Lent, IInv, TypeOK
  <2> QED
    BY <2>1, <2>2
<1>2. CASE \E h \in Handles : EventCallback(h)
  BY <1>2 DEF EventCallback, Lent, Telling, NoFrame
<1>3. CASE \E h \in Handles : CloseCallback(h)
  BY <1>3 DEF CloseCallback, Lent, Telling, NoFrame, IInv, TypeOK
<1>4. CASE \E r \in Requests : ReqCallback(r)
  BY <1>4 DEF ReqCallback, Lent, Telling, NoFrame, IInv, TypeOK
<1>5. CASE Return
  BY <1>5 DEF Return, Lent, Telling, NoFrame
<1>6. CASE UNCHANGED vars \/ RunReturn \/ \E mode \in {"default", "once"} : Run(mode)
  BY <1>6 DEF vars, RunReturn, Run, Lent, Telling
<1> QED
  BY <1>1, <1>2, <1>3, <1>4, <1>5, <1>6 DEF Next, LoopNext

\* Lifetime implements ResourceContract.
THEOREM Refinement == Spec => ImplementsContract
<1>1. Init => Contract!Init
  BY DEF Init, Contract!Init, Phase, Telling, NoFrame, Objects
<1>2. IInv /\ IInv' /\ [Next]_vars => [Contract!Next]_<<Phase, Telling>>
  <2> SUFFICES ASSUME IInv, IInv', [Next]_vars PROVE Contract!Next
    OBVIOUS
  <2>1. /\ made \subseteq made' /\ Live' \cap made \subseteq Live
        /\ \A o \in Lent : o \in Lent' \/ Telling' = o
        /\ Telling' # Telling => Telling = None \/ Telling' = None
    BY NoResurrection, HandBackTells
  <2>2. Telling' # None => Telling' \in Live' /\ Telling' \in made'
    BY DEF Telling, Live, Owned, Pinned, IInv, KnownObjects, NoFrame
  <2>3. Telling' \in Objects \cup {None}
    BY DEF Telling, IInv, TypeOK, Frames, NoFrame, Objects
  <2>4. Lent \subseteq Live /\ Lent' \subseteq Live' /\ Lent' \subseteq made'
        /\ made \subseteq Objects /\ None \notin Objects
    BY InvariantImplies, ObjectsAssumption
    DEF IInv, SelfIffLent, TypeOK, Live, Owned, Objects
  <2>5. Phase' \in [Objects -> Contract!Phases]
    BY DEF Phase, Contract!Phases
  <2>6. ASSUME NEW o \in Objects
        PROVE  /\ Phase'[o] = Phase[o] \/ <<Phase[o], Phase'[o]>> \in Contract!Allowed
               /\ Phase[o] = "lent" /\ Phase'[o] # "lent" => Telling' = o
    <3>1. CASE o \in Lent /\ o \in made /\ o \in Live
      BY <2>1, <2>2, <2>4, <3>1 DEF Phase, Contract!Allowed
    <3>2. CASE ~(o \in Lent /\ o \in made /\ o \in Live)
      BY <2>1, <2>4, <3>2 DEF Phase, Contract!Allowed
    <3> QED
      BY <3>1, <3>2
  <2>7. Telling' # None => Phase'[Telling'] \in {"held", "lent"}
    BY <2>2, <2>3 DEF Phase
  <2> QED
    BY <2>1, <2>3, <2>5, <2>6, <2>7 DEF Contract!Next, Contract!HandBack
<1> QED
  BY <1>1, <1>2, Invariance, PTL DEF Spec, ImplementsContract, Contract!Spec
=============================================================================
