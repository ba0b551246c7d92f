----------------------------- MODULE MCBackupRun -----------------------------
(* Instances of BackupRun for TLC: a directory D with two files, which are
   zipped together when both wait, and a file r beside it. *)
EXTENDS BackupRun, TLC

CONSTANTS a, b, r, D

MCFolderOf == (a :> D) @@ (b :> D) @@ (r :> Root)
OneInside  == (a :> Root) @@ (b :> D) @@ (r :> Root)

(* source.Walk's lexical order, D before r and r before D. *)
FolderFirst == <<a, b, r>>
FileFirst   == <<r, a, b>>

(* No two contents share a size. *)
Distinct ==
  [f \in Files |-> [v \in 1..MaxVer |->
     10 * v + (CASE f = a -> 1 [] f = b -> 2 [] OTHER -> 3)]]
(* Every content has the same size. *)
Alike == [f \in Files |-> [v \in 1..MaxVer |-> 1]]
=============================================================================
