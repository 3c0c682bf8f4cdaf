-------------------------------- MODULE Tty --------------------------------
(***************************************************************************)
(* The mode of the terminal (tty.ipp).  Every tty_handle keeps a reference *)
(* to one reset_mode_memo, found through a static weak pointer, and the    *)
(* destructor of the memo puts the terminal back to the mode it had.       *)
(* The handles here are on one terminal, each with a descriptor of its own *)
(* (uv_tty_init opens the terminal anew); of the rest of a handle's life   *)
(* (module Lifetime) only what decides its destruction is kept.            *)
(*                                                                         *)
(* libuv (1.50, the oldest uvw builds with) records one mode to go back    *)
(* to, with the descriptor of the handle that was the first to leave the   *)
(* normal mode.  When that handle is closed the mode is written and the    *)
(* record is gone, whatever the other handles have done in the meantime.   *)
(***************************************************************************)
EXTENDS Integers, FiniteSets

CONSTANTS
    Handles,     \* tty handles, created one after the other or together
    Modes,       \* the modes of a terminal: "normal", raw, io
    MaxMemos     \* bound: reset_mode_memo objects ever created

\* What the model assumes of its constants.
TtyAssumption == MaxMemos \in Nat /\ "normal" \in Modes /\ "default" \notin Modes

None == 0

VARIABLES
    obj,      \* each handle: none, alive, destroyed
    user,     \* handles the program has a reference to
    self,     \* handles that own themselves, from init() to the close callback
    closing,  \* handles on which close() was called
    memo,     \* the memo a handle refers to, or None
    weak,     \* the memo the static weak pointer refers to
    memos,    \* memos created so far
    term,     \* the mode of the terminal
    rec,      \* orig_termios_fd: the handle that made the record, or nobody
    saved,    \* orig_termios: the mode recorded for uv_tty_reset_mode
    cur,      \* the mode libuv takes each handle to be in
    orig,     \* the mode recorded when the handle last left the normal mode
    asked,    \* the mode the program has asked for, or "default"
    shared,   \* mode() was called on a handle while the record was another's
    stale     \* mode() has skipped the mode asked for, which is not the terminal's

ovars == <<obj, user, self, closing>>
mvars == <<memo, weak, memos>>
tvars == <<cur, orig>>
rvars == <<rec, saved>>
gvars == <<asked, shared, stale>>
vars == <<ovars, mvars, term, tvars, rvars, gvars>>

Alive == {h \in Handles : obj[h] = "alive"}
Holders(m) == {h \in Handles : memo[h] = m}
Expired == weak = None \/ Holders(weak) = {}

\* The type invariant: there is one memo, and every handle refers to it.
TypeOK ==
    /\ obj \in [Handles -> {"none", "alive", "destroyed"}]
    /\ user \in SUBSET Alive /\ self \in SUBSET Alive /\ closing \in SUBSET Handles
    /\ memos \in 0..MaxMemos /\ weak \in 0..memos
    /\ memo \in [Handles -> 0..memos]
    /\ \A h \in Handles : h \in Alive <=> memo[h] = weak /\ weak # None
    /\ term \in Modes /\ saved \in Modes /\ asked \in Modes \cup {"default"}
    /\ rec \in SUBSET (self \ closing) /\ \A g, h \in rec : g = h
    /\ shared \in BOOLEAN /\ stale \in BOOLEAN
    /\ cur \in [Handles -> Modes] /\ orig \in [Handles -> Modes]

Init ==
    /\ obj = [h \in Handles |-> "none"] /\ user = {} /\ self = {} /\ closing = {}
    /\ memo = [h \in Handles |-> None] /\ weak = None /\ memos = 0
    /\ term = "normal" /\ rec = {} /\ saved = "normal"
    /\ asked = "normal" /\ shared = FALSE /\ stale = FALSE
    /\ cur = [h \in Handles |-> "normal"] /\ orig = [h \in Handles |-> "normal"]

-----------------------------------------------------------------------------

\* mode_memo_handler(): what the weak pointer locks, or a new one.
ModeMemoHandler == IF Expired THEN memos + 1 ELSE weak

\* The constructor.
Create(h) ==
    /\ obj[h] = "none" /\ ModeMemoHandler <= MaxMemos
    /\ obj' = [obj EXCEPT ![h] = "alive"] /\ user' = user \cup {h}
    /\ memo' = [memo EXCEPT ![h] = ModeMemoHandler]
    /\ weak' = ModeMemoHandler
    /\ memos' = IF ModeMemoHandler > memos THEN ModeMemoHandler ELSE memos
    /\ UNCHANGED <<self, closing, term, tvars, rvars, gvars>>

\* init(): leak_if(uv_tty_init()), for a handle that was not initialised.
InitHandle(h, ok) ==
    /\ h \in user /\ h \notin self /\ h \notin closing
    /\ self' = IF ok THEN self \cup {h} ELSE self
    /\ UNCHANGED <<obj, user, closing, mvars, term, tvars, rvars, gvars>>

\* (Faulty variant: the destructor of the memo does nothing.)
ResetNothing == term

\* ~reset_mode_memo(), and reset_mode(): uv_tty_reset_mode (external) writes the
\* mode that was recorded, if there is a record.
Reset == IF rec = {} THEN term ELSE saved

\* mode(m) on a handle that is not in mode m: uv_tty_set_mode (external) notes
\* the mode of the terminal when the handle leaves the normal one, makes the
\* record if there is none, and then sets the mode m, or fails to; the normal
\* mode is what the handle has noted.
Mode(h, m, ok) ==
    /\ h \in user /\ h \in self /\ h \notin closing
    /\ cur[h] # m
    /\ orig' = IF cur[h] = "normal" THEN [orig EXCEPT ![h] = term] ELSE orig
    /\ rec' = IF cur[h] = "normal" /\ rec = {} THEN {h} ELSE rec
    /\ saved' = IF cur[h] = "normal" /\ rec = {} THEN term ELSE saved
    /\ shared' = (shared \/ (rec # {} /\ h \notin rec))
    /\ IF ok
         THEN /\ cur' = [cur EXCEPT ![h] = m]
              /\ term' = IF m = "normal" THEN orig[h] ELSE m
              /\ asked' = m /\ stale' = FALSE
         ELSE UNCHANGED <<cur, term, asked, stale>>
    /\ UNCHANGED <<ovars, mvars>>

\* mode(m) on a handle libuv takes to be in mode m succeeds and does nothing.
ModeAgain(h, m) ==
    /\ h \in user /\ h \in self /\ h \notin closing
    /\ cur[h] = m
    /\ asked' = m /\ stale' = (term # m)
    /\ UNCHANGED <<ovars, mvars, term, tvars, rvars, shared>>

\* reset_mode(): the handles are not told.
ResetMode(h) ==
    /\ h \in user
    /\ term' = Reset
    /\ asked' = "default" /\ stale' = FALSE
    /\ UNCHANGED <<ovars, mvars, tvars, rvars, shared>>

-----------------------------------------------------------------------------
(* The end of a handle.                                                    *)

\* (Faulty variant: the memo goes with the first handle that does.)
LastOneFirst(h) == TRUE

\* The reference the handle has to its memo is the last one.
LastOne(h) == Holders(memo[h]) = {h}

\* ~tty_handle(): the member `memo` is released.
Destroy(h) ==
    /\ obj' = [obj EXCEPT ![h] = "destroyed"]
    /\ memo' = [memo EXCEPT ![h] = None]
    /\ term' = IF LastOne(h) THEN Reset ELSE term
    /\ UNCHANGED <<weak, memos, tvars, rvars, gvars>>

\* The program releases its reference.
Drop(h) ==
    /\ h \in user
    /\ user' = user \ {h}
    /\ IF h \in self THEN UNCHANGED <<obj, mvars, term, tvars, rvars, gvars>> ELSE Destroy(h)
    /\ UNCHANGED <<self, closing>>

\* close(), on an initialised handle: uv__tty_close (external) ends with the
\* handle the mode it has recorded.  The callback will follow.
Close(h) ==
    /\ h \in user /\ h \in self /\ h \notin closing
    /\ closing' = closing \cup {h}
    /\ rec' = rec \ {h}
    /\ term' = IF h \in rec THEN saved ELSE term
    /\ asked' = IF cur[h] # "normal" THEN "normal" ELSE asked
    /\ stale' = (cur[h] = "normal" /\ stale)
    /\ UNCHANGED <<obj, user, self, mvars, tvars, saved, shared>>

\* close_callback(): the self reference is released.
CloseCallback(h) ==
    /\ h \in closing \cap self
    /\ self' = self \ {h}
    /\ IF h \in user THEN UNCHANGED <<obj, mvars, term, tvars, rvars, gvars>> ELSE Destroy(h)
    /\ UNCHANGED <<user, closing>>

-----------------------------------------------------------------------------
UserNext(h) ==
    \/ Create(h) \/ ResetMode(h) \/ Drop(h) \/ Close(h)
    \/ \E ok \in BOOLEAN : InitHandle(h, ok)
    \/ \E m \in Modes : ModeAgain(h, m) \/ \E ok \in BOOLEAN : Mode(h, m, ok)

Next == \E h \in Handles : UserNext(h) \/ CloseCallback(h)

Spec == Init /\ [][Next]_vars

-----------------------------------------------------------------------------
(* Properties.                                                             *)

\* What the calls of mode() and reset_mode() add up to.
Wanted == IF asked = "default" THEN "normal" ELSE asked

\* The terminal is in the mode the program's calls of mode() and reset_mode()
\* have put it, whichever handles come, are closed and go: only the handle that
\* has changed the mode takes the change with it when it is closed.  That is so
\* as long as handles do not change the mode while the record is another's.
ModeAsAsked == ~shared /\ ~stale => term = Wanted

\* When the last tty_handle is gone, in whatever order they were closed and
\* released, the terminal is as the program found it.
ModeRestored == ~shared /\ Alive = {} => term = "normal"

\* The terminal is in the mode the program has put it, to the last handle.
TerminalSafe == ModeAsAsked /\ ModeRestored

-----------------------------------------------------------------------------
(* What the documentation says and the code does not do: TLC refutes it.  *)

\* "Resets TTY settings to default values" (reset_mode): after the call the
\* terminal is as it was found, as long as nobody changes its mode again.
ResetWorks == asked = "default" => term = "normal"

\* "Sets the TTY using the specified terminal mode" (mode): also when it is the
\* mode libuv takes the handle to be in.
ModeSet == asked \in Modes => term = asked

-----------------------------------------------------------------------------
(* The inductive invariant.                                                *)

\* As long as handles do not share the record, the one that has changed the mode
\* has made it, with the mode the terminal was found in.
RecordIsNormal ==
    ~shared =>
        /\ saved = "normal" /\ \A h \in Handles : orig[h] = "normal"
        /\ rec = {} => term = "normal"
        /\ \A h \in rec : cur[h] = "normal" => term = "normal"
        /\ \A h \in Handles \ closing : cur[h] # "normal" => h \in rec

IInv == TypeOK /\ RecordIsNormal /\ TerminalSafe
=============================================================================
