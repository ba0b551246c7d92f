---------------------------- MODULE BackupPromise ----------------------------
(***************************************************************************)
(* What a backup promises, without scans, zips, buffers or crashes: for    *)
(* every file, which version the index claims is backed up and which is    *)
(* the newest one the bucket can give back.                                *)
(***************************************************************************)
EXTENDS Naturals

CONSTANT Files

VARIABLES
  claim,  \* the version the index says is backed up (0: none)
  safe    \* the newest version the bucket holds (0: none)

Init == claim = [f \in Files |-> 0] /\ safe = [f \in Files |-> 0]

(* Uploads make newer versions safe, or change nothing a restore would see;
   nothing is ever made less safe. *)
Store ==
  /\ UNCHANGED claim
  /\ \/ UNCHANGED safe
     \/ safe' \in [Files -> Nat] /\ \A f \in Files : safe'[f] >= safe[f]

(* The index learns of uploads, or withdraws a claim because the file changed,
   is retried or the index is lost.  It claims no more than there is. *)
Claim ==
  /\ claim' \in [Files -> Nat]
  /\ \A f \in Files : claim'[f] = claim[f] \/ claim'[f] <= safe[f]
  /\ UNCHANGED safe

Next == Store \/ Claim

Spec == Init /\ [][Next]_<<claim, safe>>

(* No claim without the bytes. *)
Honest == \A f \in Files : claim[f] <= safe[f]
=============================================================================
