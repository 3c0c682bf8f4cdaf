------------------------------ MODULE MCDirReq ------------------------------
(***************************************************************************)
(* DirReq under names that do not meet those of FileReq, so that the       *)
(* theorems about the two kinds of file system requests share a module.    *)
(***************************************************************************)
CONSTANT MaxEntries

VARIABLES type, ptr, result, left, dirent, flight, cancelled, aborted, listed, told

D == INSTANCE DirReq WITH got <- told

ASSUME DirReqAssumption == D!EntriesAssumption

DirSpec == D!Spec

\* The stream of an open directory is not lost between two operations, up to a
\* closedir that was cancelled.
DirReachable == D!DirReachable

\* The entry of a readdir event has been read and not been freed.
EventEntryValid == D!EventEntryValid

\* The memory of an open directory is freed by nothing but closedir.
FreedByClosedir == D!FreedByClosedir
=============================================================================
