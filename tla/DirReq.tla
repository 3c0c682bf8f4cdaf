------------------------------- MODULE DirReq -------------------------------
(***************************************************************************)
(* fs_req (fs.h, fs.ipp) and the uv_fs_t inside it.  All operations of a   *)
(* request share one uv_fs_t: each begins with uv_fs_req_cleanup, which    *)
(* releases what the previous operation left in it, and a directory stream *)
(* is remembered only in its `ptr`.  Every operation exists in an          *)
(* asynchronous form, whose result fs_request_callback publishes, and in a *)
(* synchronous one, which returns it.  An asynchronous operation may be    *)
(* cancelled as long as no pool thread has begun it.                       *)
(*                                                                         *)
(* User code has one operation in flight at a time, reads and closes only  *)
(* a directory it has opened with this request, and does nothing else with *)
(* the request before it has closed it.  A behaviour ends where an         *)
(* operation is given the memory of a directory that is freed: what        *)
(* follows is undefined.                                                   *)
(***************************************************************************)
EXTENDS Integers

CONSTANT MaxEntries   \* bound: entries in a directory

\* What the model assumes of its constant.
EntriesAssumption == MaxEntries \in Nat

VARIABLES
    type,     \* uv_fs_t::fs_type of the last operation
    ptr,      \* uv_fs_t::ptr: null, a directory, a scandir list, other memory,
              \* or "freed": the uv_dir_t of a directory, which has been freed
    result,   \* uv_fs_t::result: negative for an error
    left,     \* entries of the open directory not read yet; -1: none is open
    dirent,   \* the name in the member `dirents`: unset, valid or freed
    flight,   \* the asynchronous operation in flight
    cancelled,\* it was cancelled before it began
    aborted,  \* a closedir of the open directory was cancelled
    listed,   \* entries of the last scandir not given out by scandir_next
    got       \* what the step reported to the user

vars == <<type, ptr, result, left, dirent, flight, cancelled, aborted, listed, got>>

\* The operations on paths: those that leave memory in ptr, and the others.
PathOps == {"query", "change"}

Ops == {"opendir", "readdir", "closedir", "scandir"} \cup PathOps

Nothing == [call |-> "none", entry |-> FALSE, error |-> FALSE]

\* The type invariant: entries are never read past the end of a directory
\* (readdir) nor given out past the end of a list (scandir_next).
TypeOK ==
    /\ type \in Ops \cup {"none"}
    /\ ptr \in {"null", "dir", "list", "memory", "freed"}
    /\ result \in -1 .. MaxEntries
    /\ left \in -1 .. MaxEntries
    /\ dirent \in {"unset", "valid", "freed"}
    /\ flight \in Ops \cup {"none"}
    /\ cancelled \in BOOLEAN /\ aborted \in BOOLEAN
    /\ listed \in 0 .. MaxEntries
    /\ got \in [call : {"none", "event", "return", "scandir_next"},
                entry : BOOLEAN, error : BOOLEAN]

Init ==
    /\ type = "none" /\ ptr = "null" /\ result = 0
    /\ left = -1 /\ dirent = "unset" /\ flight = "none" /\ listed = 0
    /\ cancelled = FALSE /\ aborted = FALSE
    /\ got = Nothing

-----------------------------------------------------------------------------
(* The uv_fs_t (external): what cleanup and the operations do to it.       *)

\* uv_fs_req_cleanup: frees the names of a readdir, the list of a scandir and
\* what ptr is left with by other operations; the directory of an opendir or a
\* readdir is spared, that of a closedir that never ran is not.
DirentAfterCleanup == IF type = "readdir" /\ result > 0 THEN "freed" ELSE dirent

\* (Faulty variant: the stream is looked for after the cleanup.)
SavedDirLate == "null"

\* closedir and readdir take the stream out of req->ptr before the cleanup, which
\* may free what they have taken.
SavedDir == IF type = "closedir" /\ ptr = "dir" THEN "freed" ELSE ptr

\* Operation o ends with r on the uv_fs_t that held `dir`: what remains in it,
\* and what became of the directory.  A closedir fails only if it never ran.
Effect(o, r, dir) ==
    /\ type' = o
    /\ result' = r
    /\ ptr' = CASE o = "readdir" \/ (o = "closedir" /\ r < 0) -> dir
                [] o = "opendir" /\ r = 0 -> "dir"
                [] o = "scandir" /\ r > 0 -> "list"
                [] o = "query" /\ r = 0 -> "memory"
                [] OTHER -> "null"
    /\ dirent' = IF o = "readdir" /\ r > 0 THEN "valid" ELSE DirentAfterCleanup
    /\ listed' = IF o = "scandir" /\ r > 0 THEN r ELSE 0
    /\ IF o = "opendir" /\ r = 0 THEN left' \in 0 .. MaxEntries
       ELSE left' = CASE o = "readdir" /\ r > 0 -> left - 1
                      [] o = "closedir" /\ r = 0 -> -1
                      [] OTHER -> left
    /\ aborted' = (o = "closedir" /\ r < 0)

\* The results operation o can end with when it runs: readdir reads one entry,
\* or none at the end of the stream; scandir counts the entries; any but
\* closedir may fail.
Results(o) ==
    IF o = "readdir" THEN {-1, IF left > 0 THEN 1 ELSE 0}
    ELSE IF o = "scandir" THEN -1 .. MaxEntries
    ELSE IF o = "closedir" THEN {0}
    ELSE {-1, 0}

\* UV_ECANCELED, or what the operation came to.
Outcomes == IF cancelled THEN {-1} ELSE Results(flight)

\* The rules user code follows.
MayStart(o) ==
    /\ flight = "none"
    /\ o \in {"readdir", "closedir"} <=> left >= 0

-----------------------------------------------------------------------------
(* The operations of fs_req.                                               *)

\* The asynchronous forms clean the uv_fs_t up and hand it to libuv, which
\* keeps the directory of readdir and closedir in it.
Async(o) ==
    /\ MayStart(o) /\ SavedDir # "freed"
    /\ flight' = o
    /\ type' = o
    /\ result' = 0
    /\ ptr' = IF o \in {"readdir", "closedir"} THEN SavedDir ELSE "null"
    /\ dirent' = DirentAfterCleanup
    /\ listed' = 0
    /\ cancelled' = FALSE
    /\ got' = Nothing
    /\ UNCHANGED <<left, aborted>>

\* cancel(), when it succeeds: the operation has not begun, and never will.
Cancel ==
    /\ flight # "none" /\ ~cancelled
    /\ cancelled' = TRUE
    /\ got' = Nothing
    /\ UNCHANGED <<type, ptr, result, left, dirent, flight, aborted, listed>>

\* (Faulty variant: every result is published as an event with an entry.)
CallbackUnchecked(r) ==
    /\ flight # "none"
    /\ r \in Outcomes
    /\ Effect(flight, r, ptr)
    /\ flight' = "none" /\ cancelled' = FALSE
    /\ got' = [call |-> "event", entry |-> flight = "readdir", error |-> FALSE]

\* fs_request_callback: error_event for a negative result, else fs_event, whose
\* dirent.eos is set when readdir read nothing.
Callback(r) ==
    /\ flight # "none"
    /\ r \in Outcomes
    /\ Effect(flight, r, ptr)
    /\ flight' = "none" /\ cancelled' = FALSE
    /\ got' = [call |-> "event", entry |-> flight = "readdir" /\ r > 0, error |-> r < 0]

\* The value the synchronous form of o returns first.  readdir_sync tells
\* whether result differs from zero, the others whether it is not negative.
SyncFlag(o, r) == (o = "readdir" => r # 0) /\ (o # "readdir" => r >= 0)

\* opendir_sync, closedir_sync, scandir_sync, and the forms that make, remove,
\* change or query a path.
Sync(o, r) ==
    /\ o # "readdir"
    /\ MayStart(o) /\ SavedDir # "freed"
    /\ r \in Results(o)
    /\ Effect(o, r, SavedDir)
    /\ got' = [call |-> "return", entry |-> FALSE, error |-> ~SyncFlag(o, r)]
    /\ UNCHANGED <<flight, cancelled>>

\* readdir_sync: a flag and the entry it is about.
ReaddirSync(r) ==
    /\ MayStart("readdir") /\ SavedDir # "freed"
    /\ r \in Results("readdir")
    /\ Effect("readdir", r, SavedDir)
    /\ got' = [call |-> "return", entry |-> SyncFlag("readdir", r), error |-> FALSE]
    /\ UNCHANGED <<flight, cancelled>>

\* scandir_next: the cleanup comes first, so uv_fs_scandir_next finds no list;
\* it returns UV_EOF, or the error of the last operation.
ScandirNext ==
    /\ flight = "none" /\ type = "scandir"
    /\ ptr' = "null"
    /\ got' = [call |-> "scandir_next", entry |-> result < 0, error |-> FALSE]
    /\ listed' = IF listed > 0 THEN listed - 1 ELSE 0
    /\ UNCHANGED <<type, result, left, dirent, flight, cancelled, aborted>>

\* readdir and closedir in either form, after a closedir that was cancelled: the
\* uv_dir_t they pass to libuv has been freed by their own cleanup.
OnFreed(o) ==
    /\ MayStart(o) /\ ptr = "dir" /\ SavedDir = "freed"
    /\ type' = o /\ ptr' = "freed"
    /\ got' = Nothing
    /\ UNCHANGED <<result, left, dirent, flight, cancelled, aborted, listed>>

Next ==
    \/ \E o \in Ops : Async(o) \/ OnFreed(o)
    \/ Cancel
    \/ \E r \in -1 .. MaxEntries : Callback(r) \/ ReaddirSync(r)
    \/ \E o \in Ops, r \in -1 .. MaxEntries : Sync(o, r)
    \/ ScandirNext

Spec == Init /\ [][Next]_vars

-----------------------------------------------------------------------------
(* Properties.                                                             *)

\* An open directory can be read again and closed: the only pointer to its
\* stream survives the cleanup that begins every operation, also after the
\* end of the directory and after a read that failed or was cancelled, up to a
\* closedir that was cancelled.
DirReachable == left >= 0 /\ flight = "none" /\ ~aborted => ptr = "dir"

\* An event that announces an entry carries a name that has been read and has
\* not been freed.
EventEntryValid == got.call = "event" /\ got.entry => dirent = "valid"

-----------------------------------------------------------------------------
(* What the documentation says and the code does not do: TLC refutes it.  *)

\* "The memory allocated by this function must be freed by calling `closedir` or
\* `closedir_sync`" (opendir): as long as a directory is open, no other call
\* frees that memory.
FreedByClosedir == left >= 0 => ptr # "freed"

\* readdir_sync: the flag "indicates if the current entry is still valid".
SyncEntryValid == got.call = "return" /\ got.entry => result > 0

\* scandir_next: the flag "indicates if the current entry is still valid", and
\* the function gets "entries populated with the next directory entry data".
ScandirGivesEntries ==
    [][got'.call = "scandir_next" /\ result >= 0 => (got'.entry <=> listed > 0)]_vars

-----------------------------------------------------------------------------
(* The inductive invariant.                                                *)

\* While a directory is open its stream is in ptr, in flight or not, until a
\* closedir was cancelled, and the operations in flight are those that leave it
\* there.
StreamKept == left >= 0 => /\ ptr = "dir" \/ aborted
                           /\ type \in {"opendir", "readdir", "closedir"}
                           /\ flight \in {"none", "readdir", "closedir"}
                           /\ type = "closedir" /\ flight = "none" => aborted

\* After that the cleanup of the next operation frees it.
AbortedFreed ==
    aborted => /\ left >= 0 /\ flight = "none"
               /\ ptr = "freed" \/ (ptr = "dir" /\ type = "closedir")

\* A readdir or closedir in flight works on an open directory.
FlightOnOpen == flight \in {"readdir", "closedir"} => left >= 0

\* What cleanup, the operations and their callbacks keep in any order.
IInv == TypeOK /\ StreamKept /\ AbortedFreed /\ FlightOnOpen /\ EventEntryValid
=============================================================================
