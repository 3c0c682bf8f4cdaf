-------------------------------- MODULE Util --------------------------------
(***************************************************************************)
(* The strings utilities (util.h, util.ipp) and pipe handles read from     *)
(* libuv through try_read(): a first call with a buffer on the stack, and, *)
(* when that is too small, a second one with a buffer of the size the      *)
(* first asked for, while another thread may change what is read.  One of  *)
(* the functions it is given, uv_exepath, never asks for more: it cuts.    *)
(* Next to it the process title, which is read without a second call, and  *)
(* the entry of the password file.  A string stands for its length, and    *)
(* the beginning of one for the length of the beginning.                   *)
(***************************************************************************)
EXTENDS Integers, FiniteSets

CONSTANTS
    Size,      \* details::DEFAULT_SIZE
    MaxLen,    \* bound: the longest string
    MaxCalls   \* bound: changes of the string while one call runs

\* What the model assumes of its constants.
UtilAssumption ==
    Size \in Nat /\ Size > 1 /\ MaxLen \in Nat /\ MaxLen > Size /\ MaxCalls \in Nat

Lengths == 0..MaxLen
Unread == -1

VARIABLES
    text,      \* the working directory, an environment variable (0: unset), ...
    how,       \* what libuv does with a buffer too small: it tells the size, or cuts
    pc,        \* the caller: idle, first (before the first call), second
    buf,       \* the capacity of the buffer the next call writes to
    size,      \* `size`: what libuv is told, then what it has answered
    seen,      \* the values of text since try_read() began
    changes,   \* how often it has changed since
    fails,     \* a call of libuv has failed for reasons of its own
    str,       \* the string that was returned
    over,      \* libuv has written behind the end of a buffer
    title,     \* the process title
    gotTitle,  \* what process_title() has returned since it was set, or Unread
    pwd        \* the passwd_info of the program: its pointer, and what is behind

rvars == <<how, pc, buf, size, seen, changes, fails, str, over>>
tvars == <<title, gotTitle>>
vars == <<text, rvars, tvars, pwd>>

\* The type invariant: a call that runs has seen what is there.
TypeOK ==
    /\ text \in Lengths /\ how \in {"told", "cut"} /\ pc \in {"idle", "first", "second"}
    /\ buf \in 0..(MaxLen + 1) /\ size \in 0..(MaxLen + 1)
    /\ seen \in SUBSET Lengths /\ changes \in 0..MaxCalls
    /\ fails \in BOOLEAN /\ over \in BOOLEAN /\ str \in Lengths
    /\ pc # "idle" => text \in seen /\ buf # 0
    /\ pc = "second" => how = "told" /\ \E n \in seen : n >= Size /\ size = n + 1
    /\ title \in Lengths /\ gotTitle \in Lengths \cup {Unread}
    /\ pwd \in [ptr : BOOLEAN, data : {"none", "entry", "garbage"}]

Init ==
    /\ text = 0 /\ how = "told" /\ pc = "idle" /\ buf = 0 /\ size = 0 /\ seen = {} /\ changes = 0
    /\ fails = FALSE /\ str = 0 /\ over = FALSE
    /\ title = 0 /\ gotTitle = Unread
    /\ pwd = [ptr |-> FALSE, data |-> "none"]

-----------------------------------------------------------------------------
(* What is read changes.                                                   *)

\* chdir(dir), and env(name, value) with a value, or without one to unset it.
Change(n) ==
    /\ n # text /\ (pc = "idle" \/ changes < MaxCalls)
    /\ text' = n
    /\ seen' = IF pc = "idle" THEN seen ELSE seen \cup {n}
    /\ changes' = IF pc = "idle" THEN changes ELSE changes + 1
    /\ UNCHANGED <<how, pc, buf, size, fails, str, over, tvars, pwd>>

-----------------------------------------------------------------------------
(* try_read().                                                             *)

\* cwd(), homedir(), tmpdir(), hostname(), env(name), index_to_name(),
\* index_to_iid(), sock() and peer() of a pipe, path() of fs_event and fs_poll
\* ("told"), and utilities::path() ("cut"): the call begins.
TryRead(k) ==
    /\ pc = "idle"
    /\ how' = k /\ pc' = "first" /\ buf' = Size /\ size' = Size
    /\ seen' = {text} /\ changes' = 0 /\ fails' = FALSE
    /\ UNCHANGED <<text, str, over, tvars, pwd>>

\* libuv (external) is told a size: the string and its terminator fit, or it
\* answers the size that would do, or it writes what there is room for.
Fits == text < size
Part == IF Fits THEN text ELSE size - 1

\* libuv writes the string to the buffer, and try_read() returns it.
Returns(n) ==
    /\ str' = n /\ pc' = "idle" /\ buf' = 0 /\ size' = 0 /\ seen' = seen
    /\ UNCHANGED <<text, how, changes, fails, tvars, pwd>>

\* (Faulty variant: the answer is taken for the length of the string.)
NextBufferShort(n) == n - 1

\* std::make_unique<char[]>(size), with the size of the answer.
NextBuffer(n) == n

\* (Faulty variant: the second call is told the size of the first buffer.)
FirstKeepsSize ==
    /\ pc = "first"
    /\ IF Fits \/ how = "cut"
         THEN Returns(Part) /\ over' = (over \/ Part >= buf)
         ELSE /\ pc' = "second" /\ buf' = NextBuffer(text + 1)
              /\ UNCHANGED <<text, how, size, seen, changes, fails, str, over, tvars, pwd>>

\* The first call: the string, or its beginning, is there, or a second call is
\* due.
First ==
    /\ pc = "first"
    /\ IF Fits \/ how = "cut"
         THEN Returns(Part) /\ over' = (over \/ Part >= buf)
         ELSE /\ pc' = "second" /\ size' = text + 1 /\ buf' = NextBuffer(text + 1)
              /\ UNCHANGED <<text, how, seen, changes, fails, str, over, tvars, pwd>>

\* (Faulty variant: the buffer is returned whatever the second call says.)
SecondAnyway ==
    /\ pc = "second"
    /\ Returns(IF Fits THEN text ELSE size) /\ over' = (over \/ (Fits /\ text >= buf))

\* The second call: the string, or nothing if it has outgrown the buffer.
Second ==
    /\ pc = "second"
    /\ Returns(IF Fits THEN text ELSE 0) /\ over' = (over \/ (Fits /\ text >= buf))

\* Either call fails: the directory is gone, there is no such variable.
Fails ==
    /\ pc # "idle"
    /\ str' = 0 /\ pc' = "idle" /\ buf' = 0 /\ size' = 0 /\ seen' = seen
    /\ fails' = TRUE
    /\ UNCHANGED <<text, how, changes, over, tvars, pwd>>

-----------------------------------------------------------------------------
(* The process title.                                                      *)

\* process_title(title).
SetTitle(n) ==
    /\ pc = "idle" /\ title' = n /\ gotTitle' = Unread
    /\ UNCHANGED <<text, rvars, pwd>>

\* process_title(): the whole buffer is assigned, and a title that does not fit
\* is not read at all.
GetTitle ==
    /\ pc = "idle"
    /\ gotTitle' = IF title < Size THEN Size ELSE 0
    /\ UNCHANGED <<text, rvars, title, pwd>>

-----------------------------------------------------------------------------
(* The password file.                                                      *)

\* passwd(): the answer of uv_os_get_passwd is not looked at, and without an
\* entry the structure stays as `new` has left it.
Passwd(found) ==
    /\ pc = "idle" /\ pwd.data = "none"
    /\ pwd' = [ptr |-> TRUE, data |-> IF found THEN "entry" ELSE "garbage"]
    /\ UNCHANGED <<text, rvars, tvars>>

\* The last copy of the passwd_info goes: uv_os_free_passwd, delete.
FreePasswd ==
    /\ pc = "idle" /\ pwd.ptr
    /\ pwd' = [ptr |-> FALSE, data |-> "none"]
    /\ UNCHANGED <<text, rvars, tvars>>

\* passwd_info::operator bool().
PasswdIsValid == pwd.ptr

-----------------------------------------------------------------------------
Next ==
    \/ \E n \in Lengths : Change(n)
    \/ TryRead("told") \/ TryRead("cut") \/ First \/ Second \/ Fails
    \/ \E n \in Lengths : SetTitle(n)
    \/ GetTitle
    \/ Passwd(TRUE) \/ Passwd(FALSE) \/ FreePasswd

Spec == Init /\ [][Next]_vars

-----------------------------------------------------------------------------
(* Properties.                                                             *)

\* try_read() returns a string that was the value at some time during the call,
\* never a part of one or a mixture, or the empty string; utilities::path()
\* returns such a value or as much of its beginning as the buffer has room for.
ReadsAValue ==
    pc = "idle" /\ str # 0 =>
        str \in seen \/ (how = "cut" /\ str = Size - 1 /\ \E n \in seen : n >= Size)

\* It returns the empty string, its way to report an error, only when libuv has
\* failed, when the value was empty, or when it has changed under the call: a
\* value that stays is read whatever its length.
EmptyForAReason ==
    pc = "idle" /\ seen # {} /\ str = 0 => fails \/ 0 \in seen \/ changes > 0

\* Nothing is written behind a buffer, the terminator included.
InBuffer == ~over

\* try_read() returns what it was to read and says nothing only for a reason, within
\* its buffer.
ReadsSafe == ReadsAValue /\ EmptyForAReason /\ InBuffer

-----------------------------------------------------------------------------
(* What the documentation says and the code does not do: TLC refutes it.  *)

\* "The executable path, an empty string in case of errors": path() returns the
\* path, not the beginning of it.
PathWhole == pc = "idle" /\ how = "cut" => str \in seen \cup {0}

\* process_title() returns the title that was set.
TitleAsSet == gotTitle # Unread => gotTitle = title

\* "True if data are all valid, false otherwise".
PasswdValid == PasswdIsValid => pwd.data = "entry"
-----------------------------------------------------------------------------
(* The inductive invariant.                                                *)

\* libuv is told the size of the buffer it writes to, and what it was told in
\* a second call was the size of a value of this call.
SizeOfBuffer ==
    /\ pc # "idle" => buf = size
    /\ pc = "first" => size = Size

\* Without a change the one value seen is the one that is there.
SeenIsThere == pc # "idle" /\ changes = 0 => seen = {text}

IInv == TypeOK /\ SizeOfBuffer /\ SeenIsThere /\ ReadsSafe
=============================================================================
