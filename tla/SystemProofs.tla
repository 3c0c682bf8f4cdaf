---------------------------- MODULE SystemProofs ----------------------------
(***************************************************************************)
(* Proofs about the parts of MCSystem: Process, Tty and Util, for any      *)
(* number of descriptors and handles and strings of any length.            *)
(***************************************************************************)
EXTENDS MCSystem, Integers, Sequences, SequenceTheorems, TLAPS

\* What a sequence is made of.
LEMMA SeqElements ==
    ASSUME NEW S, NEW q \in Seq(S)
    PROVE  DOMAIN q = 1..Len(q) /\ Len(q) \in Nat /\ \A k \in DOMAIN q : q[k] \in S
OBVIOUS

-----------------------------------------------------------------------------
(* Util.                                                                   *)

\* A call of libuv that writes the string stays in the buffer.
LEMMA UtilReturns ==
    ASSUME U!UtilAssumption, U!IInv, stage # "idle", NEW n \in U!Lengths, U!Returns(n),
           \/ n = text /\ U!Fits
           \/ n = 0 /\ stage = "second" /\ ~U!Fits
           \/ n = size - 1 /\ stage = "first" /\ how = "cut" /\ ~U!Fits,
           over' = (over \/ (n # 0 /\ n >= buf))
    PROVE  U!IInv'
<1> USE DEF U!UtilAssumption, U!IInv, U!TypeOK, U!Lengths, U!Unread, U!Returns, U!Fits, U!tvars
<1>1. over' = FALSE
  BY DEF U!SizeOfBuffer, U!ReadsSafe, U!InBuffer
<1>2. U!TypeOK'
  BY <1>1
<1>3. U!ReadsAValue' /\ U!EmptyForAReason'
  <2>1. ~U!Fits /\ stage = "second" => changes > 0
    <3>1. ASSUME ~U!Fits, stage = "second", changes = 0 PROVE FALSE
      BY <3>1 DEF U!SeenIsThere
    <3> QED
      BY <3>1
  <2>2. n = size - 1 /\ stage = "first" => n = Size - 1 /\ n # 0
    BY DEF U!SizeOfBuffer
  <2>3. n = size - 1 /\ stage = "first" /\ ~U!Fits => \E v \in seen : v >= Size
    BY DEF U!SizeOfBuffer
  <2> QED
    BY <2>1, <2>2, <2>3 DEF U!ReadsAValue, U!EmptyForAReason
<1> QED
  BY <1>1, <1>2, <1>3 DEF U!SizeOfBuffer, U!SeenIsThere, U!ReadsSafe, U!InBuffer

\* Neither the caller, libuv nor another thread breaks the invariant of try_read().
LEMMA UtilStep ==
    ASSUME U!UtilAssumption, U!IInv, U!Next
    PROVE  U!IInv'
<1> USE DEF U!UtilAssumption, U!IInv, U!TypeOK, U!Lengths, U!Unread, U!rvars, U!tvars,
            U!SizeOfBuffer, U!SeenIsThere, U!ReadsSafe, U!InBuffer, U!ReadsAValue,
            U!EmptyForAReason
<1>1. ASSUME NEW n \in U!Lengths, U!Change(n) PROVE U!IInv'
  <2>1. CASE stage = "idle"
    BY <1>1, <2>1 DEF U!Change
  <2>2. CASE stage # "idle"
    <3>1. U!TypeOK'
      BY <1>1, <2>2 DEF U!Change
    <3>2. changes' > 0 /\ stage' = stage /\ buf' = buf /\ size' = size /\ over' = over
      BY <1>1, <2>2 DEF U!Change
    <3> QED
      BY <2>2, <3>1, <3>2
  <2> QED
    BY <2>1, <2>2
<1>2. ASSUME NEW k \in {"told", "cut"}, U!TryRead(k) PROVE U!IInv'
  <2>1. fails' \in BOOLEAN /\ seen' = {text} /\ seen' \in SUBSET U!Lengths
    BY <1>2 DEF U!TryRead
  <2>2. U!TypeOK'
    BY <1>2, <2>1 DEF U!TryRead
  <2> QED
    BY <1>2, <2>2 DEF U!TryRead
<1>3. CASE U!First
  <2>1. CASE U!Fits \/ how = "cut"
    <3>1. /\ stage = "first" /\ U!Returns(U!Part) /\ over' = (over \/ U!Part >= buf)
          /\ size = Size /\ buf = Size
      BY <1>3, <2>1 DEF U!First
    <3>2. /\ U!Part \in U!Lengths
          /\ (U!Part = text /\ U!Fits) \/ (U!Part = size - 1 /\ how = "cut" /\ ~U!Fits)
      BY <2>1, <3>1 DEF U!Part, U!Fits
    <3>3. over' = (over \/ (U!Part # 0 /\ U!Part >= buf))
      BY <3>1, <3>2
    <3> HIDE DEF U!IInv
    <3> QED
      BY <3>1, <3>2, <3>3, UtilReturns
  <2>2. CASE ~U!Fits /\ how # "cut"
    <3>1. /\ stage = "first" /\ stage' = "second" /\ size' = text + 1 /\ buf' = text + 1
          /\ UNCHANGED <<text, how, seen, changes, fails, str, over, title, gotTitle, pwd>>
      BY <1>3, <2>2 DEF U!First, U!NextBuffer
    <3>2. text \in seen /\ text >= Size /\ how = "told"
      BY <2>2, <3>1 DEF U!Fits
    <3>3. U!TypeOK'
      BY <3>1, <3>2
    <3> QED
      BY <3>1, <3>3
  <2> QED
    BY <2>1, <2>2
<1>4. CASE U!Second
  <2> DEFINE n == IF U!Fits THEN text ELSE 0
  <2>1. stage = "second" /\ U!Returns(n) /\ over' = (over \/ (U!Fits /\ text >= buf)) /\ buf # 0
    BY <1>4 DEF U!Second
  <2>2. n \in U!Lengths /\ ((n = text /\ U!Fits) \/ (n = 0 /\ ~U!Fits))
    OBVIOUS
  <2>3. over' = (over \/ (n # 0 /\ n >= buf))
    BY <2>1, <2>2
  <2> HIDE DEF U!IInv, n
  <2> QED
    BY <2>1, <2>2, <2>3, UtilReturns
<1>5. CASE U!Fails
  BY <1>5 DEF U!Fails
<1>6. ASSUME NEW n \in U!Lengths, U!SetTitle(n) PROVE U!IInv'
  BY <1>6 DEF U!SetTitle
<1>7. CASE U!GetTitle
  BY <1>7 DEF U!GetTitle
<1>8. ASSUME NEW found \in BOOLEAN, U!Passwd(found) PROVE U!IInv'
  BY <1>8 DEF U!Passwd
<1>9. CASE U!FreePasswd
  BY <1>9 DEF U!FreePasswd
<1> QED
  BY <1>1, <1>2, <1>3, <1>4, <1>5, <1>6, <1>7, <1>8, <1>9 DEF U!Next

LEMMA UtilInit ==
    ASSUME U!UtilAssumption, U!Init
    PROVE  U!IInv
<1>1. U!TypeOK
  <2>1. /\ fails \in BOOLEAN /\ over \in BOOLEAN
        /\ pwd \in [ptr : BOOLEAN, data : {"none", "entry", "garbage"}]
    BY DEF U!Init
  <2>2. stage = "idle" /\ seen \in SUBSET U!Lengths
    BY DEF U!Init
  <2> QED
    BY <2>1, <2>2 DEF U!UtilAssumption, U!Init, U!TypeOK, U!Lengths
<1> QED
  BY <1>1 DEF U!Init, U!IInv, U!SizeOfBuffer, U!SeenIsThere, U!ReadsSafe, U!InBuffer,
              U!ReadsAValue, U!EmptyForAReason

-----------------------------------------------------------------------------
(* Tty.                                                                    *)

\* The last handle that goes takes the memo with it, and any other nothing.
LEMMA TtyDestroy ==
    ASSUME T!TtyAssumption, T!IInv, NEW h \in Handles, h \in T!Alive, T!Destroy(h),
           keeps' = keeps \ {h}, selves' = selves \ {h}, UNCHANGED closing, h \notin rec
    PROVE  T!IInv'
<1> USE DEF T!TtyAssumption, T!IInv, T!TypeOK, T!None, T!Destroy, T!mvars, T!tvars, T!rvars, T!gvars
<1>1. T!Alive' = T!Alive \ {h}
  BY DEF T!Alive
<1>2. T!Holders(memo[h]) = T!Alive
  BY DEF T!Alive, T!Holders
<1>3. T!LastOne(h) => rec = {}
  BY <1>2 DEF T!LastOne
<1>4. term' = term
  BY <1>3 DEF T!Reset
<1>5. T!TypeOK'
  <2>1. keeps' \subseteq T!Alive' /\ selves' \subseteq T!Alive'
    BY <1>1
  <2>2. \A g \in Handles : g \in T!Alive' <=> memo'[g] = weak' /\ weak' # T!None
    BY <1>1
  <2> QED
    BY <1>4, <2>1, <2>2
<1>6. T!RecordIsNormal'
  BY <1>4 DEF T!RecordIsNormal
<1>7. T!TerminalSafe'
  <2>1. T!ModeAsAsked'
    BY <1>4 DEF T!TerminalSafe, T!ModeAsAsked, T!Wanted
  <2>2. T!ModeRestored'
    <3>1. T!Alive' = {} => rec = {}
      BY <1>1
    <3> QED
      BY <1>4, <3>1 DEF T!RecordIsNormal, T!ModeRestored
  <2> QED
    BY <2>1, <2>2 DEF T!TerminalSafe
<1> QED
  BY <1>5, <1>6, <1>7

\* mode(m) that libuv carries out or fails to.
LEMMA TtyMode ==
    ASSUME T!TtyAssumption, T!IInv, NEW h \in Handles, NEW m \in Modes, NEW ok \in BOOLEAN,
           T!Mode(h, m, ok)
    PROVE  T!IInv'
<1> USE DEF T!TtyAssumption, T!IInv, T!None, T!ovars, T!mvars
<1>1. T!Alive' = T!Alive /\ h \in T!Alive
  BY DEF T!Mode, T!Alive, T!TypeOK
<1>2. shared' \in BOOLEAN /\ stale' \in BOOLEAN
  BY DEF T!Mode, T!TypeOK
<1>3. /\ orig' \in [Handles -> Modes] /\ cur' \in [Handles -> Modes]
      /\ saved' \in Modes /\ term' \in Modes /\ asked' \in Modes \cup {"default"}
  BY DEF T!Mode, T!TypeOK
<1>4. rec' \in SUBSET (selves' \ closing') /\ \A f, g \in rec' : f = g
  BY DEF T!Mode, T!TypeOK
<1>5. T!TypeOK'
  BY <1>1, <1>2, <1>3, <1>4 DEF T!Mode, T!TypeOK
<1>6. ASSUME ~shared' PROVE T!RecordIsNormal' /\ T!ModeAsAsked'
  <2>1. ~shared /\ (rec = {} \/ h \in rec)
    BY <1>6 DEF T!Mode
  <2>2. cur[h] = "normal" => term = "normal"
    BY <2>1 DEF T!RecordIsNormal
  <2>3. saved' = "normal" /\ \A g \in Handles : orig'[g] = "normal"
    BY <2>1, <2>2 DEF T!Mode, T!RecordIsNormal, T!TypeOK
  <2>4. rec' = {h} /\ \A g \in Handles \ closing : cur'[g] # "normal" => g = h
    BY <2>1 DEF T!Mode, T!RecordIsNormal, T!TypeOK
  <2>5. cur'[h] = "normal" => term' = "normal"
    BY <2>1, <2>2 DEF T!Mode, T!RecordIsNormal, T!TypeOK
  <2>6. T!RecordIsNormal'
    BY <2>3, <2>4, <2>5 DEF T!RecordIsNormal, T!Mode
  <2>7. T!ModeAsAsked'
    <3>1. CASE ok
      <4>1. asked' = m /\ term' = IF m = "normal" THEN orig[h] ELSE m
        BY <3>1 DEF T!Mode
      <4>2. orig[h] = "normal"
        BY <2>1 DEF T!RecordIsNormal
      <4> QED
        BY <4>1, <4>2 DEF T!ModeAsAsked, T!Wanted
    <3>2. CASE ~ok
      <4>1. asked' = asked /\ term' = term /\ stale' = stale
        BY <3>2 DEF T!Mode
      <4> QED
        BY <2>1, <4>1 DEF T!TerminalSafe, T!ModeAsAsked, T!Wanted
    <3> QED
      BY <3>1, <3>2
  <2> QED
    BY <2>6, <2>7
<1>7. T!RecordIsNormal' /\ T!TerminalSafe'
  BY <1>1, <1>6 DEF T!RecordIsNormal, T!TerminalSafe, T!ModeAsAsked, T!ModeRestored
<1> QED
  BY <1>5, <1>7

\* The handle that is closed takes back what it has done to the terminal.
LEMMA TtyClose ==
    ASSUME T!TtyAssumption, T!IInv, NEW h \in Handles, T!Close(h)
    PROVE  T!IInv'
<1> USE DEF T!TtyAssumption, T!IInv, T!None, T!mvars, T!tvars
<1>1. T!Alive' = T!Alive /\ h \in T!Alive
  BY DEF T!Close, T!Alive, T!TypeOK
<1>2. stale' \in BOOLEAN /\ shared' = shared
  BY DEF T!Close, T!TypeOK
<1>3. T!TypeOK'
  BY <1>1, <1>2 DEF T!Close, T!TypeOK
<1>4. ASSUME ~shared PROVE T!RecordIsNormal' /\ T!ModeAsAsked'
  <2>1. h \in rec => rec' = {} /\ term' = "normal"
    BY <1>4 DEF T!Close, T!TypeOK, T!RecordIsNormal
  <2>2. h \notin rec => rec' = rec /\ term' = term /\ cur[h] = "normal"
    BY <1>4 DEF T!Close, T!TypeOK, T!RecordIsNormal
  <2>3. T!RecordIsNormal'
    BY <1>4, <2>1, <2>2 DEF T!RecordIsNormal, T!Close, T!TypeOK
  <2>4. T!ModeAsAsked'
    <3>1. CASE cur[h] # "normal"
      BY <2>1, <2>2, <3>1 DEF T!Close, T!ModeAsAsked, T!Wanted
    <3>2. CASE cur[h] = "normal"
      <4>1. asked' = asked /\ stale' = stale
        BY <3>2 DEF T!Close, T!TypeOK
      <4>2. term' = term
        BY <1>4, <2>1, <2>2, <3>2 DEF T!RecordIsNormal
      <4> QED
        BY <1>4, <4>1, <4>2 DEF T!TerminalSafe, T!ModeAsAsked, T!Wanted
    <3> QED
      BY <3>1, <3>2
  <2> QED
    BY <2>3, <2>4
<1>5. T!RecordIsNormal' /\ T!TerminalSafe'
  BY <1>1, <1>2, <1>4 DEF T!RecordIsNormal, T!TerminalSafe, T!ModeAsAsked, T!ModeRestored
<1> QED
  BY <1>3, <1>5

\* In whatever order handles come and go, the invariant of the terminal is kept.
LEMMA TtyStep ==
    ASSUME T!TtyAssumption, T!IInv, T!Next
    PROVE  T!IInv'
<1> USE DEF T!TtyAssumption, T!IInv, T!TypeOK, T!None, T!ovars, T!mvars, T!tvars, T!rvars, T!gvars
<1> DEFINE Rest == T!RecordIsNormal' /\ T!TerminalSafe'
<1>1. ASSUME NEW h \in Handles, T!Create(h) PROVE T!IInv'
  <2> USE DEF T!Create
  <2>1. T!Alive' = T!Alive \cup {h} /\ h \notin T!Alive
    BY <1>1 DEF T!Alive
  <2>2. T!ModeMemoHandler \in 1..MaxMemos /\ T!ModeMemoHandler <= memos + 1
    BY <1>1 DEF T!ModeMemoHandler, T!Expired
  <2>3. \A g \in Handles : g # h => (g \in T!Alive <=> memo[g] = T!ModeMemoHandler)
    <3>1. T!Holders(weak) = {} \/ weak = T!None => T!Alive = {}
      BY DEF T!Holders, T!Alive
    <3> QED
      BY <3>1 DEF T!ModeMemoHandler, T!Expired
  <2>4. T!TypeOK'
    <3>1. /\ memos' \in 0..MaxMemos /\ weak' \in 0..memos' /\ memos <= memos'
          /\ memo' \in [Handles -> 0..memos']
      BY <1>1, <2>2
    <3>2. \A g \in Handles : g \in T!Alive' <=> memo'[g] = weak' /\ weak' # T!None
      BY <1>1, <2>1, <2>2, <2>3
    <3>3. keeps' \subseteq T!Alive' /\ selves' \subseteq T!Alive'
      BY <1>1, <2>1
    <3> QED
      BY <1>1, <3>1, <3>2, <3>3
  <2>5. Rest
    BY <1>1, <2>1 DEF T!RecordIsNormal, T!TerminalSafe, T!ModeAsAsked, T!Wanted, T!ModeRestored
  <2> QED
    BY <2>4, <2>5
<1>2. ASSUME NEW h \in Handles, NEW ok \in BOOLEAN, T!InitHandle(h, ok) PROVE T!IInv'
  <2>1. T!Alive' = T!Alive
    BY <1>2 DEF T!InitHandle, T!Alive
  <2>2. T!TypeOK'
    BY <1>2, <2>1 DEF T!InitHandle
  <2> QED
    BY <1>2, <2>1, <2>2 DEF T!InitHandle, T!RecordIsNormal, T!TerminalSafe, T!ModeAsAsked,
       T!Wanted, T!ModeRestored
<1>3. ASSUME NEW h \in Handles, NEW m \in Modes, T!ModeAgain(h, m) PROVE T!IInv'
  <2>1. T!Alive' = T!Alive
    BY <1>3 DEF T!ModeAgain, T!Alive
  <2>2. stale' \in BOOLEAN /\ (~stale' => term = m) /\ asked' = m
    BY <1>3 DEF T!ModeAgain
  <2>3. T!TypeOK'
    BY <1>3, <2>1, <2>2 DEF T!ModeAgain
  <2>4. Rest
    BY <1>3, <2>1, <2>2 DEF T!ModeAgain, T!RecordIsNormal, T!TerminalSafe, T!ModeAsAsked,
       T!Wanted, T!ModeRestored
  <2> QED
    BY <2>3, <2>4
<1>4. ASSUME NEW h \in Handles, T!ResetMode(h) PROVE T!IInv'
  <2>1. T!Alive' = T!Alive /\ T!Alive # {}
    BY <1>4 DEF T!ResetMode, T!Alive
  <2>2. stale' \in BOOLEAN
    BY <1>4 DEF T!ResetMode
  <2>3. T!TypeOK'
    BY <1>4, <2>1, <2>2 DEF T!ResetMode, T!Reset
  <2>4. Rest
    BY <1>4, <2>1 DEF T!ResetMode, T!Reset, T!RecordIsNormal, T!TerminalSafe, T!ModeAsAsked,
                      T!Wanted, T!ModeRestored
  <2> QED
    BY <2>3, <2>4
<1>5. ASSUME NEW h \in Handles, T!Drop(h) PROVE T!IInv'
  <2>1. CASE h \in selves
    <3>1. T!Alive' = T!Alive
      BY <1>5, <2>1 DEF T!Drop, T!Alive
    <3>2. T!TypeOK'
      BY <1>5, <2>1, <3>1 DEF T!Drop
    <3> QED
      BY <1>5, <2>1, <3>1, <3>2 DEF T!Drop, T!RecordIsNormal, T!TerminalSafe, T!ModeAsAsked,
         T!Wanted, T!ModeRestored
  <2>2. CASE h \notin selves
    BY <1>5, <2>2, TtyDestroy DEF T!Drop
  <2> QED
    BY <2>1, <2>2
<1>6. ASSUME NEW h \in Handles, T!CloseCallback(h) PROVE T!IInv'
  <2>1. CASE h \in keeps
    <3>1. T!Alive' = T!Alive
      BY <1>6, <2>1 DEF T!CloseCallback, T!Alive
    <3>2. T!TypeOK'
      BY <1>6, <2>1, <3>1 DEF T!CloseCallback
    <3> QED
      BY <1>6, <2>1, <3>1, <3>2 DEF T!CloseCallback, T!RecordIsNormal, T!TerminalSafe,
         T!ModeAsAsked, T!Wanted, T!ModeRestored
  <2>2. CASE h \notin keeps
    BY <1>6, <2>2, TtyDestroy DEF T!CloseCallback
  <2> QED
    BY <2>1, <2>2
<1> QED
  BY <1>1, <1>2, <1>3, <1>4, <1>5, <1>6, TtyMode, TtyClose DEF T!Next, T!UserNext

LEMMA TtyInit ==
    ASSUME T!TtyAssumption, T!Init
    PROVE  T!IInv
<1>1. T!Alive = {}
  BY DEF T!Init, T!Alive
<1>2. shared \in BOOLEAN /\ stale \in BOOLEAN
  BY DEF T!Init
<1>3. T!TypeOK
  BY <1>1, <1>2 DEF T!TtyAssumption, T!Init, T!TypeOK, T!None
<1> QED
  BY <1>1, <1>3 DEF T!Init, T!IInv, T!RecordIsNormal, T!TerminalSafe, T!ModeAsAsked, T!Wanted,
              T!ModeRestored

-----------------------------------------------------------------------------
(* Process.                                                                *)

\* A function on the first n numbers is a sequence.
LEMMA FunctionIsSeq ==
    ASSUME NEW S, NEW n \in Nat, NEW q \in [1..n -> S]
    PROVE  q \in Seq(S) /\ Len(q) = n
BY SeqDef

\* stdio(fd, flags) leaves one entry for the descriptor, with these flags, and every
\* other entry as it was.
LEMMA WithFdEntries ==
    ASSUME Child!ProcessAssumption, Child!IInv, NEW fd \in Fds, NEW f \in StdioFlags
    PROVE  /\ Child!WithFd(fd, f) \in Seq([what : Fds, flags : StdioFlags])
           /\ Len(Child!WithFd(fd, f)) <= Len(fdStdio) + 1
           /\ \E k \in DOMAIN Child!WithFd(fd, f) : Child!WithFd(fd, f)[k].what = fd
           /\ \A k \in DOMAIN fdStdio :
                 k \in DOMAIN Child!WithFd(fd, f) /\ Child!WithFd(fd, f)[k].what = fdStdio[k].what
           /\ \A k \in DOMAIN Child!WithFd(fd, f) :
                 IF Child!WithFd(fd, f)[k].what = fd
                   THEN Child!WithFd(fd, f)[k].flags = f
                   ELSE k \in DOMAIN fdStdio /\ Child!WithFd(fd, f)[k] = fdStdio[k]
           /\ \A j, k \in DOMAIN Child!WithFd(fd, f) :
                 Child!WithFd(fd, f)[j].what = Child!WithFd(fd, f)[k].what => j = k
<1> DEFINE C == [what : Fds, flags : StdioFlags]
           c == [what |-> fd, flags |-> f]
           q == Child!WithFd(fd, f)
<1>1. fdStdio \in Seq(C)
  BY DEF Child!IInv, Child!TypeOK
<1>2. c \in C /\ c.what = fd /\ c.flags = f
  OBVIOUS
<1>3. /\ DOMAIN fdStdio = 1..Len(fdStdio) /\ Len(fdStdio) \in Nat
      /\ \A k \in DOMAIN fdStdio : fdStdio[k] \in C
  <2> HIDE DEF C
  <2> QED
    BY <1>1, SeqElements
<1>4. \A j, k \in DOMAIN fdStdio : fdStdio[j].what = fdStdio[k].what => j = k
  BY DEF Child!IInv, Child!FdsAsWanted
<1>5. CASE \E k \in DOMAIN fdStdio : fdStdio[k].what = fd
  <2>1. q = [k \in DOMAIN fdStdio |-> IF fdStdio[k].what = fd THEN c ELSE fdStdio[k]]
    BY <1>5 DEF Child!WithFd
  <2> HIDE DEF q, c
  <2>2. q \in [1..Len(fdStdio) -> C] /\ DOMAIN q = DOMAIN fdStdio
    <3> HIDE DEF C
    <3> QED
      BY <1>2, <1>3, <2>1
  <2>3. q \in Seq(C) /\ Len(q) = Len(fdStdio)
    <3> HIDE DEF C
    <3> QED
      BY <1>3, <2>2, FunctionIsSeq
  <2>4. \A k \in DOMAIN q : /\ q[k].what = fdStdio[k].what
                            /\ IF q[k].what = fd THEN q[k].flags = f ELSE q[k] = fdStdio[k]
    BY <1>2, <2>1, <2>2
  <2>5. \E k \in DOMAIN q : q[k].what = fd
    BY <1>5, <2>2, <2>4
  <2> QED
    BY <1>3, <1>4, <2>2, <2>3, <2>4, <2>5 DEF q
<1>6. CASE ~\E k \in DOMAIN fdStdio : fdStdio[k].what = fd
  <2>1. q = Append(fdStdio, c)
    BY <1>6 DEF Child!WithFd
  <2> HIDE DEF q, c
  <2>2. /\ q \in Seq(C) /\ Len(q) = Len(fdStdio) + 1
        /\ DOMAIN q = 1..(Len(fdStdio) + 1) /\ q[Len(fdStdio) + 1] = c
        /\ \A k \in 1..Len(fdStdio) : q[k] = fdStdio[k]
    <3> HIDE DEF C
    <3> QED
      BY <1>1, <1>2, <1>3, <2>1
  <2>3. \A k \in DOMAIN q : k \in DOMAIN fdStdio \/ k = Len(fdStdio) + 1
    BY <1>3, <2>2
  <2>4. \E k \in DOMAIN q : q[k].what = fd
    BY <1>2, <1>3, <2>2
  <2>5. \A k \in DOMAIN q : IF q[k].what = fd THEN q[k].flags = f
                            ELSE k \in DOMAIN fdStdio /\ q[k] = fdStdio[k]
    BY <1>2, <1>3, <1>6, <2>2, <2>3
  <2>6. \A j, k \in DOMAIN q : q[j].what = q[k].what => j = k
    BY <1>2, <1>3, <1>4, <1>6, <2>2, <2>3
  <2>7. \A k \in DOMAIN fdStdio : k \in DOMAIN q /\ q[k].what = fdStdio[k].what
    BY <1>3, <2>2
  <2> QED
    BY <1>3, <2>2, <2>4, <2>5, <2>6, <2>7 DEF q
<1> QED
  BY <1>5, <1>6

\* spawn() hands the child the descriptors and behind them the streams.
LEMMA StdioEntries ==
    ASSUME Child!ProcessAssumption, Child!IInv
    PROVE  /\ Child!PoStdio \in Seq(Child!Container)
           /\ Len(Child!PoStdio) = Len(fdStdio) + Len(strStdio)
           /\ DOMAIN Child!PoStdio = 1..(Len(fdStdio) + Len(strStdio))
           /\ \A k \in 1..Len(fdStdio) : Child!PoStdio[k] = fdStdio[k]
           /\ \A k \in DOMAIN Child!PoStdio : k > Len(fdStdio) => Child!PoStdio[k] = strStdio[k - Len(fdStdio)]
<1> DEFINE F == [what : Fds, flags : StdioFlags]
           S == [what : Streams, flags : StdioFlags]
<1>1. fdStdio \in Seq(F) /\ strStdio \in Seq(S)
  BY DEF Child!IInv, Child!TypeOK
<1>2. F \subseteq Child!Container /\ S \subseteq Child!Container
  BY DEF Child!Container
<1> HIDE DEF F, S
<1>3. fdStdio \in Seq(Child!Container) /\ strStdio \in Seq(Child!Container)
  BY <1>1, <1>2, SeqElements, FunctionIsSeq
<1>4. Len(fdStdio) \in Nat /\ Len(strStdio) \in Nat
  BY <1>1
<1>5. /\ Child!PoStdio \in Seq(Child!Container)
      /\ Len(Child!PoStdio) = Len(fdStdio) + Len(strStdio)
      /\ \A k \in 1..Len(fdStdio) + Len(strStdio) : Child!PoStdio[k] =
            IF k <= Len(fdStdio) THEN fdStdio[k] ELSE strStdio[k - Len(fdStdio)]
  BY <1>3, ConcatProperties DEF Child!PoStdio
<1>6. DOMAIN Child!PoStdio = 1..(Len(fdStdio) + Len(strStdio))
  BY <1>5, SeqElements
<1>7. \A k \in 1..Len(fdStdio) : Child!PoStdio[k] = fdStdio[k]
  BY <1>4, <1>5
<1>8. \A k \in DOMAIN Child!PoStdio : k > Len(fdStdio) => Child!PoStdio[k] = strStdio[k - Len(fdStdio)]
  BY <1>4, <1>5, <1>6
<1> QED
  BY <1>5, <1>6, <1>7, <1>8

\* stdio() on a descriptor.
LEMMA StdioFdStep ==
    ASSUME Child!ProcessAssumption, Child!IInv, NEW fd \in Fds, NEW f \in StdioFlags, Child!StdioFd(fd, f)
    PROVE  Child!IInv'
<1> USE DEF Child!ProcessAssumption, Child!StdioFd, Child!Collecting, Child!Unset
<1> DEFINE q == Child!WithFd(fd, f)
<1>1. /\ q \in Seq([what : Fds, flags : StdioFlags]) /\ Len(q) <= Len(fdStdio) + 1
      /\ \E k \in DOMAIN q : q[k].what = fd
      /\ \A k \in DOMAIN fdStdio : k \in DOMAIN q /\ q[k].what = fdStdio[k].what
      /\ \A k \in DOMAIN q : IF q[k].what = fd THEN q[k].flags = f
                             ELSE k \in DOMAIN fdStdio /\ q[k] = fdStdio[k]
      /\ \A j, k \in DOMAIN q : q[j].what = q[k].what => j = k
  BY WithFdEntries
<1>2. /\ fdStdio' = q /\ wanted' = [wanted EXCEPT ![fd] = f]
      /\ wanted \in [Fds -> StdioFlags \cup {"unset"}]
  BY DEF Child!IInv, Child!TypeOK
<1> HIDE DEF q
<1>3. Child!TypeOK'
  <2>1. Len(fdStdio') + Len(strStdio') <= calls' /\ calls' \in 0..MaxStdio
    <3>1. Len(fdStdio) \in Nat /\ Len(strStdio) \in Nat /\ Len(q) \in Nat
      BY <1>1 DEF Child!IInv, Child!TypeOK
    <3> QED
      BY <1>1, <1>2, <3>1 DEF Child!IInv, Child!TypeOK
  <2>2. fdStdio' \in Seq([what : Fds, flags : StdioFlags])
    BY <1>1, <1>2
  <2>3. wanted' \in [Fds -> StdioFlags \cup {"unset"}]
    BY <1>2
  <2> QED
    BY <2>1, <2>2, <2>3 DEF Child!IInv, Child!TypeOK, Child!Container
<1>4. Child!FdsAsWanted'
  <2>1. \A k \in DOMAIN q : wanted'[q[k].what] = q[k].flags
    <3> SUFFICES ASSUME NEW k \in DOMAIN q PROVE wanted'[q[k].what] = q[k].flags
      OBVIOUS
    <3>1. CASE q[k].what = fd
      BY <1>1, <1>2, <3>1
    <3>2. CASE q[k].what # fd
      <4>1. k \in DOMAIN fdStdio /\ q[k] = fdStdio[k]
        BY <1>1, <3>2
      <4>2. wanted[q[k].what] = q[k].flags
        BY <4>1 DEF Child!IInv, Child!FdsAsWanted
      <4> QED
        BY <1>2, <3>2, <4>2
    <3> QED
      BY <3>1, <3>2
  <2>2. ASSUME NEW g \in Fds, wanted'[g] # "unset" PROVE \E k \in DOMAIN q : q[k].what = g
    <3>1. CASE g = fd
      BY <1>1, <3>1
    <3>2. CASE g # fd
      <4>1. wanted[g] # "unset"
        BY <1>2, <2>2, <3>2
      <4>2. PICK k \in DOMAIN fdStdio : fdStdio[k].what = g
        BY <4>1 DEF Child!IInv, Child!FdsAsWanted
      <4> QED
        BY <1>1, <4>2
    <3> QED
      BY <3>1, <3>2
  <2> QED
    BY <1>1, <1>2, <2>1, <2>2 DEF Child!FdsAsWanted
<1> QED
  <2>1. Child!ChildByState'
    BY DEF Child!IInv, Child!ChildByState
  <2>2. Child!SelfIsRegistered'
    BY DEF Child!IInv, Child!SelfIsRegistered, Child!Registered
  <2> QED
    BY <1>3, <1>4, <2>1, <2>2 DEF Child!IInv

\* The invariant of a process handle.
LEMMA ProcessStep ==
    ASSUME Child!ProcessAssumption, Child!IInv, Child!Next
    PROVE  Child!IInv'
<1> USE DEF Child!ProcessAssumption
<1>1. ASSUME NEW s \in Streams, NEW f \in StdioFlags, Child!StdioStream(s, f) PROVE Child!IInv'
  <2> DEFINE C == [what : Streams, flags : StdioFlags]
  <2>1. strStdio \in Seq(C) /\ [what |-> s, flags |-> f] \in C
    BY DEF Child!IInv, Child!TypeOK
  <2>2. strStdio' \in Seq(C) /\ Len(strStdio') = Len(strStdio) + 1
    <3> HIDE DEF C
    <3> QED
      BY <1>1, <2>1 DEF Child!StdioStream
  <2>3. Len(fdStdio) \in Nat /\ Len(strStdio) \in Nat
    BY DEF Child!IInv, Child!TypeOK
  <2>4. Child!TypeOK'
    BY <1>1, <2>2, <2>3 DEF Child!StdioStream, Child!IInv, Child!TypeOK, Child!Container
  <2>5. Child!ChildByState'
    BY <1>1 DEF Child!StdioStream, Child!Collecting, Child!IInv, Child!ChildByState
  <2>6. Child!SelfIsRegistered' /\ Child!FdsAsWanted'
    BY <1>1 DEF Child!StdioStream, Child!IInv, Child!SelfIsRegistered, Child!Registered, Child!FdsAsWanted
  <2> QED
    BY <2>4, <2>5, <2>6 DEF Child!IInv
<1>2. ASSUME NEW ok \in BOOLEAN, NEW started \in BOOLEAN, Child!Spawn(ok, started) PROVE Child!IInv'
  <2>1. stdio' \in Seq(Child!Container)
    BY <1>2, StdioEntries, EmptySeq DEF Child!Spawn
  <2>2. Child!PoStdio' = Child!PoStdio
    BY <1>2 DEF Child!Spawn, Child!ovars, Child!PoStdio
  <2>3. own' = TRUE /\ uv' \in {"idle", "active"}
    BY <1>2 DEF Child!Spawn, Child!LeakIf
  <2>4. Child!TypeOK'
    BY <1>2, <2>1, <2>3 DEF Child!Spawn, Child!ovars, Child!IInv, Child!TypeOK, Child!Container
  <2>5. Child!ChildByState'
    BY <1>2, <2>2, <2>3 DEF Child!Spawn, Child!IInv, Child!ChildByState
  <2>6. Child!SelfIsRegistered' /\ Child!FdsAsWanted'
    BY <1>2, <2>3 DEF Child!Spawn, Child!ovars, Child!IInv, Child!SelfIsRegistered, Child!Registered, Child!FdsAsWanted
  <2> QED
    BY <2>4, <2>5, <2>6 DEF Child!IInv
<1>3. CASE \/ Child!SetFlags \/ Child!Close \/ Child!Drop \/ Child!ChildEnds \/ Child!ExitCallback
           \/ Child!CloseCallback \/ Child!Return
  <2> USE <1>3 DEF Child!SetFlags, Child!Close, Child!Drop, Child!ChildEnds, Child!ExitCallback, Child!CloseCallback,
                   Child!Return, Child!ovars, Child!Collecting
  <2>1. UNCHANGED <<fdStdio, strStdio, calls, wanted, stdio, mode>>
    OBVIOUS
  <2>2. /\ held' \in BOOLEAN /\ own' \in BOOLEAN /\ inside' \in BOOLEAN
        /\ uv' \in {"none", "idle", "active", "closing", "closed"}
        /\ flags' \in {"indeterminate", "set"} /\ child' \in {"none", "running", "ended", "reaped"}
    BY DEF Child!IInv, Child!TypeOK
  <2>3. exits' = IF child' = "reaped" THEN 1 ELSE 0
    BY DEF Child!IInv, Child!ChildByState
  <2>4. (uv' = "none" => child' = "none") /\ (child' # "none" => child # "none")
    BY DEF Child!IInv, Child!ChildByState
  <2>5. Child!SelfIsRegistered'
    BY DEF Child!IInv, Child!SelfIsRegistered, Child!Registered
  <2>6. Child!TypeOK'
    BY <2>1, <2>2, <2>3 DEF Child!IInv, Child!TypeOK, Child!Container
  <2>7. Child!ChildByState' /\ Child!FdsAsWanted'
    BY <2>1, <2>3, <2>4 DEF Child!IInv, Child!ChildByState, Child!PoStdio, Child!FdsAsWanted
  <2> QED
    BY <2>5, <2>6, <2>7 DEF Child!IInv
<1> QED
  BY <1>1, <1>2, <1>3, StdioFdStep DEF Child!Next, Child!UserNext

\* The constructor establishes it.
LEMMA ProcessInit ==
    ASSUME Child!ProcessAssumption, Child!Init
    PROVE  Child!IInv
<1> USE DEF Child!ProcessAssumption, Child!Init
<1>1. Child!TypeOK
  <2>1. held \in BOOLEAN /\ own \in BOOLEAN /\ inside \in BOOLEAN
    OBVIOUS
  <2> QED
    BY <2>1 DEF Child!TypeOK, Child!Unset
<1>2. Child!FdsAsWanted /\ Child!ChildByState
  BY DEF Child!FdsAsWanted, Child!ChildByState, Child!Unset
<1> QED
  BY <1>1, <1>2 DEF Child!IInv, Child!SelfIsRegistered, Child!Registered

\* What the invariant says of the handle and its child.
LEMMA ProcessIsSafe ==
    ASSUME Child!ProcessAssumption, Child!IInv
    PROVE  Child!RegisteredAlive /\ Child!ChildHasStdio
<1>1. Child!RegisteredAlive
  BY DEF Child!IInv, Child!SelfIsRegistered, Child!RegisteredAlive, Child!Live
<1>2. ASSUME child # "none" PROVE Child!ChildHasStdio
  <2> DEFINE n == Len(fdStdio)
             m == Len(strStdio)
             F == [what : Fds, flags : StdioFlags]
             S == [what : Streams, flags : StdioFlags]
  <2>1. fdStdio \in Seq(F) /\ strStdio \in Seq(S) /\ wanted \in [Fds -> StdioFlags \cup {"unset"}]
    BY DEF Child!IInv, Child!TypeOK, Child!Unset
  <2>2. (\A c \in F : c.what \in Fds /\ c.flags \in StdioFlags) /\ (\A c \in S : c.what \in Streams)
    OBVIOUS
  <2>3. \A w : ~(w \in Fds /\ w \in Streams)
    BY DEF Child!ProcessAssumption
  <2>4. stdio = Child!PoStdio
    BY <1>2 DEF Child!IInv, Child!ChildByState
  <2> HIDE DEF F, S
  <2>5. n \in Nat /\ m \in Nat /\ DOMAIN fdStdio = 1..n /\ DOMAIN strStdio = 1..m
    BY <2>1
  <2>6. /\ Len(stdio) = n + m /\ DOMAIN stdio = 1..(n + m)
        /\ \A k \in 1..n : stdio[k] = fdStdio[k]
        /\ \A k \in DOMAIN stdio : k > n => stdio[k] = strStdio[k - n]
    BY <2>4, StdioEntries
  <2> HIDE DEF n, m
  <2>7. \A k \in 1..n : /\ k \in DOMAIN stdio /\ stdio[k] = fdStdio[k]
                        /\ stdio[k].what \in Fds /\ stdio[k].flags \in StdioFlags
    BY <2>1, <2>2, <2>5, <2>6, SeqElements
  <2>8. ASSUME NEW k \in DOMAIN stdio, k \notin 1..n PROVE stdio[k].what \notin Fds /\ k > n
    <3>1. k > n /\ k - n \in 1..m
      BY <2>5, <2>6, <2>8
    <3>2. stdio[k] = strStdio[k - n] /\ strStdio[k - n] \in S
      BY <2>1, <2>5, <2>6, <3>1, SeqElements
    <3> QED
      BY <2>2, <2>3, <3>1, <3>2
  <2>9. \A fd \in Fds : (\E k \in DOMAIN stdio : stdio[k].what = fd) <=> wanted[fd] # "unset"
    <3> SUFFICES ASSUME NEW fd \in Fds
                 PROVE  (\E k \in DOMAIN stdio : stdio[k].what = fd) <=> wanted[fd] # "unset"
      OBVIOUS
    <3>1. ASSUME NEW k \in DOMAIN stdio, stdio[k].what = fd PROVE wanted[fd] # "unset"
      <4>1. k \in 1..n
        BY <2>8, <3>1
      <4>2. wanted[fd] = fdStdio[k].flags /\ fdStdio[k].flags \in StdioFlags
        BY <2>5, <2>7, <3>1, <4>1 DEF Child!IInv, Child!FdsAsWanted
      <4> QED
        BY <4>2 DEF Child!ProcessAssumption
    <3>2. ASSUME wanted[fd] # "unset" PROVE \E k \in DOMAIN stdio : stdio[k].what = fd
      <4>1. PICK k \in 1..n : fdStdio[k].what = fd
        BY <2>5, <3>2 DEF Child!IInv, Child!FdsAsWanted, Child!Unset
      <4> QED
        BY <2>7, <4>1
    <3> QED
      BY <3>1, <3>2
  <2>10. \A j, k \in DOMAIN stdio : stdio[j].what \in Fds /\ stdio[j].what = stdio[k].what => j = k
    <3> SUFFICES ASSUME NEW j \in DOMAIN stdio, NEW k \in DOMAIN stdio,
                        stdio[j].what \in Fds, stdio[j].what = stdio[k].what
                 PROVE  j = k
      OBVIOUS
    <3>1. j \in 1..n /\ k \in 1..n
      BY <2>8
    <3>2. fdStdio[j].what = fdStdio[k].what
      BY <2>7, <3>1
    <3> QED
      BY <2>5, <3>1, <3>2 DEF Child!IInv, Child!FdsAsWanted
  <2>11. \A k \in DOMAIN stdio : stdio[k].what \in Fds => stdio[k].flags = wanted[stdio[k].what]
    BY <2>5, <2>7, <2>8 DEF Child!IInv, Child!FdsAsWanted
  <2>12. Len(stdio) - Len(strStdio) = n
    BY <2>5, <2>6 DEF m
  <2>13. \A k \in DOMAIN stdio : IF k <= n THEN stdio[k].what \in Fds ELSE stdio[k] = strStdio[k - n]
    BY <2>5, <2>6, <2>7
  <2>14. \A fd \in Fds : {k \in DOMAIN stdio : stdio[k].what = fd} = {} <=> wanted[fd] = Child!Unset
    BY <2>9 DEF Child!Unset
  <2> QED
    BY <2>5, <2>10, <2>11, <2>12, <2>13, <2>14 DEF Child!ChildHasStdio
<1> QED
  BY <1>1, <1>2 DEF Child!ChildHasStdio

\* The loop tells the exit of a child that has ended, on a handle that is not closing.
LEMMA ExitIsTold ==
    ASSUME Child!IInv, Child!Next, exits' > exits
    PROVE  child # "running" /\ uv = "active"
<1>1. exits \in {0, 1}
  BY DEF Child!IInv, Child!TypeOK
<1>2. ~Child!ExitCallback => exits' = exits
  BY DEF Child!Next, Child!UserNext, Child!StdioFd, Child!StdioStream, Child!Spawn, Child!SetFlags, Child!Close, Child!Drop,
         Child!ChildEnds, Child!CloseCallback, Child!Return
<1>3. Child!ExitCallback
  BY <1>1, <1>2
<1> QED
  BY <1>3 DEF Child!ExitCallback

-----------------------------------------------------------------------------
(* The three parts together.                                               *)

\* A part that keeps still keeps its invariant.
LEMMA PartsKept ==
    /\ Child!IInv /\ UNCHANGED processVars => Child!IInv'
    /\ T!IInv /\ UNCHANGED ttyVars => T!IInv'
    /\ U!IInv /\ UNCHANGED utilVars => U!IInv'
<1>1. Child!IInv /\ UNCHANGED processVars => Child!IInv'
  BY DEF processVars, Child!IInv, Child!TypeOK, Child!Container, Child!SelfIsRegistered, Child!Registered,
         Child!FdsAsWanted, Child!ChildByState, Child!PoStdio
<1>2. T!IInv /\ UNCHANGED ttyVars => T!IInv'
  BY DEF ttyVars, T!IInv, T!TypeOK, T!Alive, T!RecordIsNormal, T!TerminalSafe, T!ModeAsAsked,
         T!Wanted, T!ModeRestored
<1>3. U!IInv /\ UNCHANGED utilVars => U!IInv'
  BY DEF utilVars, U!IInv, U!TypeOK, U!Lengths, U!SizeOfBuffer, U!SeenIsThere, U!ReadsSafe,
         U!InBuffer, U!ReadsAValue, U!EmptyForAReason
<1> QED
  BY <1>1, <1>2, <1>3

\* The assumptions of the parts.
LEMMA PartAssumptions ==
    Child!ProcessAssumption /\ T!TtyAssumption /\ U!UtilAssumption
BY SystemAssumption

\* The handle of a process owns itself exactly while the loop has it, and what was
\* collected for the child is what was asked for (process.ipp).
THEOREM ProcessInvariance == SystemSpec => []Child!IInv
<1>1. SystemInit => Child!IInv
  BY ProcessInit, PartAssumptions DEF SystemInit
<1>2. Child!IInv /\ [SystemNext]_systemVars => Child!IInv'
  BY ProcessStep, PartsKept, PartAssumptions DEF SystemNext, systemVars
<1> QED
  BY <1>1, <1>2, PTL DEF SystemSpec

\* For any descriptors and streams: the handle is alive while the loop has it, the child
\* has each descriptor once with the flags given last and then the streams, and the exit
\* event comes before close() and after the child has ended.
THEOREM ProcessesAsAsked == SystemSpec => ProcessSafe
<1>1. Child!IInv => Child!RegisteredAlive /\ Child!ChildHasStdio
  BY ProcessIsSafe, PartAssumptions
<1>2. Child!IInv /\ [SystemNext]_systemVars => [exits' > exits => child # "running" /\ uv = "active"]_(Child!vars)
  BY ExitIsTold DEF SystemNext, systemVars, processVars, Child!vars, Child!ovars
<1>3. SystemSpec => []Child!IInv
  BY ProcessInvariance
<1>4. SystemSpec => [](Child!RegisteredAlive /\ Child!ChildHasStdio)
  BY <1>1, <1>3, PTL
<1>5. SystemSpec => Child!ExitBeforeClose
  BY <1>2, <1>3, PTL DEF SystemSpec, Child!ExitBeforeClose
<1> QED
  BY <1>4, <1>5 DEF ProcessSafe, Child!ProcessSafe

\* The mode memo shared by the handles of a terminal (tty.ipp) goes with the last of them,
\* and, as long as handles do not change the mode while another has, the mode recorded is
\* the one the terminal was found in and the record belongs to the handle that changed it.
THEOREM TtyInvariance == SystemSpec => []T!IInv
<1>1. SystemInit => T!IInv
  BY TtyInit, PartAssumptions DEF SystemInit
<1>2. T!IInv /\ [SystemNext]_systemVars => T!IInv'
  BY TtyStep, PartsKept, PartAssumptions DEF SystemNext, systemVars
<1> QED
  BY <1>1, <1>2, PTL DEF SystemSpec

\* For any number of handles, of which no two change the mode at a time: whichever come,
\* are closed and go, the terminal is in the mode asked for last, and it is back in the
\* mode it was found in when the last handle is gone.
THEOREM TerminalRestored == SystemSpec => []TerminalSafe
<1>1. T!IInv => TerminalSafe
  BY DEF T!IInv, TerminalSafe
<1> QED
  BY <1>1, TtyInvariance, PTL

\* Between the two calls of try_read() (util.ipp) the buffer has the size the first was
\* told, and what the string has been is remembered.
THEOREM UtilInvariance == SystemSpec => []U!IInv
<1>1. SystemInit => U!IInv
  BY UtilInit, PartAssumptions DEF SystemInit
<1>2. U!IInv /\ [SystemNext]_systemVars => U!IInv'
  BY UtilStep, PartsKept, PartAssumptions DEF SystemNext, systemVars
<1> QED
  BY <1>1, <1>2, PTL DEF SystemSpec

\* For strings and default buffers of any length: a read returns a value there was during
\* the call, whole unless libuv cuts it (utilities::path()), or nothing for a reason, and
\* never writes behind its buffer.
THEOREM ReadsWhole == SystemSpec => []ReadsSafe
<1>1. U!IInv => ReadsSafe
  BY DEF U!IInv, ReadsSafe
<1> QED
  BY <1>1, UtilInvariance, PTL

\* The three invariants together, which the run checks on its instance.
THEOREM SystemInvariance == SystemSpec => []SystemIInv
<1>1. SystemSpec => []Child!IInv /\ []T!IInv /\ []U!IInv
  BY ProcessInvariance, TtyInvariance, UtilInvariance
<1>2. Child!IInv /\ T!IInv /\ U!IInv => SystemIInv
  BY DEF SystemIInv
<1> QED
  BY <1>1, <1>2, PTL
=============================================================================
