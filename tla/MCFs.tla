-------------------------------- MODULE MCFs --------------------------------
(***************************************************************************)
(* One run for the file system requests: those on a descriptor (FileReq)   *)
(* and those on paths and directories (DirReq).  The two share no state: a *)
(* behaviour is one of the part `kind` names, and the other keeps still.   *)
(***************************************************************************)
EXTENDS FileReq, MCDirReq

VARIABLE kind

dirVars == <<type, ptr, result, left, dirent, flight, cancelled, aborted, listed, told>>

FsInit == kind \in {"file", "dir"} /\ Init /\ D!Init

FsNext ==
    \/ kind = "file" /\ Next /\ UNCHANGED <<kind, dirVars>>
    \/ kind = "dir" /\ D!Next /\ UNCHANGED <<kind, vars>>

\* The fairness is FileReq's: where no file request works none of it is owed.
FsSpec == FsInit /\ [][FsNext]_<<kind, vars, dirVars>> /\ Fairness
=============================================================================
