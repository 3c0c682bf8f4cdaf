-------------------------- MODULE LoopOwnerProofs --------------------------
(***************************************************************************)
(* Proofs about LoopOwner, for any set of wrappers.                        *)
(***************************************************************************)
EXTENDS MCLifetime, Integers, TLAPS

\* IInv is an invariant of every behaviour.
THEOREM LoopInvariance == O!Spec => []O!IInv
<1> USE DEF O!IInv, O!NoRet
<1>1. O!Init => O!IInv
  BY DEF O!Init, O!TypeOK, O!NoStaleLoop, O!DefaultIsRef, O!Unmade, O!HeapFreed, O!RawStates
<1>2. O!IInv /\ [O!Next]_(O!vars) => O!IInv'
  <2> SUFFICES ASSUME O!IInv, [O!Next]_(O!vars) PROVE O!IInv'
    OBVIOUS
  <2> USE DEF O!TypeOK, O!NoStaleLoop, O!DefaultIsRef, O!Unmade, O!HeapFreed, O!RawStates,
              O!RawOf, O!Live
  <2>1. ASSUME NEW w \in Wrappers, NEW how \in {"created", "given"}, O!Create(w, how)
        PROVE  O!IInv'
    BY <2>1 DEF O!Create
  <2>2. ASSUME NEW w \in Wrappers, O!CreateFails(w)
        PROVE  O!IInv'
    BY <2>2 DEF O!CreateFails
  <2>3. ASSUME NEW w \in Wrappers, NEW ok \in BOOLEAN, O!GetDefaultNew(w, ok)
        PROVE  O!IInv'
    <3>1. \A v \in ptr : kind[v] # "default"
      BY <2>3 DEF O!GetDefaultNew, O!Expired
    <3>2. CASE ok
      BY <2>3, <3>1, <3>2 DEF O!GetDefaultNew
    <3>3. CASE ~ok
      BY <2>3, <3>1, <3>3 DEF O!GetDefaultNew
    <3> QED
      BY <3>2, <3>3
  <2>4. CASE O!GetDefaultAgain
    BY <2>4 DEF O!GetDefaultAgain, O!Expired
  <2>5. ASSUME NEW w \in Wrappers, O!Register(w)
        PROVE  O!IInv'
    BY <2>5 DEF O!Register
  <2>6. ASSUME NEW w \in Wrappers, O!Unregister(w)
        PROVE  O!IInv'
    BY <2>6 DEF O!Unregister, O!CloseLoop, O!UvLoopClose
  <2>7. ASSUME NEW w \in Wrappers, O!Release(w)
        PROVE  O!IInv'
    BY <2>7 DEF O!Release, O!CloseLoop, O!UvLoopClose
  <2>8. ASSUME NEW w \in Wrappers, O!Close(w)
        PROVE  O!IInv'
    BY <2>8 DEF O!Close, O!CloseLoop, O!UvLoopClose
  <2>9. ASSUME NEW w \in Wrappers, NEW to \in O!Timeouts, O!Timeout(w, to)
        PROVE  O!IInv'
    BY <2>9 DEF O!Timeout
  <2>10. CASE UNCHANGED O!vars
    BY <2>10 DEF O!vars
  <2> QED
    BY <2>1, <2>2, <2>3, <2>4, <2>5, <2>6, <2>7, <2>8, <2>9, <2>10 DEF O!Next
<1> QED
  BY <1>1, <1>2, PTL DEF O!Spec

\* A wrapper never points to a loop that has been closed or freed.
THEOREM NeverStale == O!Spec => []NoStaleLoop
<1>1. O!IInv => NoStaleLoop
  BY DEF O!IInv, NoStaleLoop
<1> QED
  BY <1>1, LoopInvariance, PTL

\* There are never two wrappers that can use the default loop.
THEOREM SingleDefault == O!Spec => []OneDefault
<1>1. O!IInv => OneDefault
  BY DEF O!IInv, O!DefaultIsRef, O!OneDefault, OneDefault
<1> QED
  BY <1>1, LoopInvariance, PTL

\* The uv_loop_t made by create() never outlives its wrapper.
THEOREM LoopsFreed == O!Spec => []NoLoopLeak
<1>1. O!IInv => NoLoopLeak
  BY DEF O!IInv, O!HeapFreed, NoLoopLeak, O!NoLoopLeak, O!Live, O!TypeOK
<1> QED
  BY <1>1, LoopInvariance, PTL
============================================================================
