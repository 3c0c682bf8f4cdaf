------------------------------ MODULE MCSystem ------------------------------
(***************************************************************************)
(* What uvw keeps around calls of the system: a child process, a terminal, *)
(* the strings of the environment.  The three parts share no state: a      *)
(* behaviour is one of the part `system` names, and the others keep still. *)
(***************************************************************************)
CONSTANTS
    Fds, Streams, StdioFlags, MaxStdio,        \* Process
    Handles, Modes, MaxMemos,                  \* Tty
    Size, MaxLen, MaxCalls                     \* Util

VARIABLES
    system,
    uv, held, own, inside, flags, fdStdio, strStdio, calls, wanted, child, stdio,
    mode, exits,
    tty, keeps, selves, closing, memo, weak, memos, term, rec, saved, cur, orig,
    asked, shared, stale,
    text, how, stage, buf, size, seen, changes, fails, str, over, title, gotTitle, pwd

Child == INSTANCE Process WITH user <- held, self <- own
T == INSTANCE Tty WITH obj <- tty, user <- keeps, self <- selves
U == INSTANCE Util WITH pc <- stage

ASSUME SystemAssumption == Child!ProcessAssumption /\ T!TtyAssumption /\ U!UtilAssumption

processVars == <<uv, held, own, inside, flags, fdStdio, strStdio, calls, wanted,
                 child, stdio, mode, exits>>
ttyVars == <<tty, keeps, selves, closing, memo, weak, memos, term, rec, saved, cur, orig,
             asked, shared, stale>>
utilVars == <<text, how, stage, buf, size, seen, changes, fails, str, over, title,
              gotTitle, pwd>>
systemVars == <<system, processVars, ttyVars, utilVars>>

SystemInit ==
    /\ system \in {"process", "tty", "util"}
    /\ Child!Init /\ T!Init /\ U!Init

SystemNext ==
    \/ system = "process" /\ Child!Next /\ UNCHANGED <<system, ttyVars, utilVars>>
    \/ system = "tty" /\ T!Next /\ UNCHANGED <<system, processVars, utilVars>>
    \/ system = "util" /\ U!Next /\ UNCHANGED <<system, processVars, ttyVars>>

SystemSpec == SystemInit /\ [][SystemNext]_systemVars

-----------------------------------------------------------------------------
\* The invariants of the parts that their proofs are by induction on.
SystemIInv == Child!IInv /\ T!IInv /\ U!IInv

\* A process handle the loop has in its lists is alive, the child finds the
\* descriptors and streams it was to have, and no exit event comes after
\* close() or for a child that still runs.
ProcessSafe == Child!ProcessSafe

\* The terminal is in the mode asked for last, and with the last handle it is
\* back in the mode it was found in, as long as handles do not change the mode
\* while another has changed it.
TerminalSafe == T!TerminalSafe

\* try_read() returns a value there was during the call, whole unless libuv cuts
\* it, or nothing for a reason, and writes nothing behind a buffer.
ReadsSafe == U!ReadsSafe
=============================================================================
