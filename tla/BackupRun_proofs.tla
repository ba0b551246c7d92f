--------------------------- MODULE BackupRun_proofs ---------------------------
(* Theorems of BackupRun, for every value of its constants. *)
EXTENDS BackupRun, FiniteSetTheorems, WellFoundedInduction, TLAPS

(* The constants' assumptions, as the proofs use them. *)
LEMMA Constants ==
  /\ Root \notin Files /\ FolderOf \in [Files -> Groups]
  /\ MaxVer \in Nat /\ MaxVer > 0 /\ MaxSlots \in Nat
  /\ Cardinality(Files) \in Nat
<1>1. Cardinality(Files) \in Nat
  BY FS_CardinalityType, SourceAssumption
<1> QED BY <1>1, SourceAssumption, BoundsAssumption DEF Groups

(* The sets the variables range over contain the values they start with. *)
LEMMA Members ==
  /\ Nothing \in Contents /\ Empty \in Versions /\ NoRow \in Rows
  /\ NoJob \in Jobs /\ \A m \in {"full", "scan", "upload"} : Fresh(m) \in RunStates
  /\ Resting \in RunStates /\ Resting.pc = "idle"
<1>1. Nothing \in Contents /\ Empty \in Versions
  BY Constants DEF Nothing, Contents, Empty, Versions
<1>2. NoRow \in Rows
  BY Constants DEF NoRow, Rows, Status
<1>3. NoJob \in Jobs
  BY <1>1 DEF NoJob, Jobs
<1>4. \A m \in {"full", "scan", "upload"} : Fresh(m) \in RunStates
  BY DEF Fresh, RunStates, Terminal
<1>5. Resting \in RunStates /\ Resting.pc = "idle"
  <2>1. Fresh("full") \in RunStates
    BY <1>4
  <2> QED BY <2>1 DEF Resting, RunStates
<1> QED BY <1>1, <1>2, <1>3, <1>4, <1>5

(* A row stays a row when its fields change to values of theirs. *)
LEMMA RowEdits ==
  ASSUME NEW r \in Rows
  PROVE  /\ \A st \in Status : [r EXCEPT !.st = st] \in Rows
         /\ \A st \in Status, v \in 0..MaxVer :
              [r EXCEPT !.st = st, !.ver = v] \in Rows
         /\ \A st \in Status, up \in BOOLEAN, k \in {0} \cup Slots :
              [r EXCEPT !.st = st, !.up = up, !.key = k] \in Rows
         /\ \A st \in Status, i \in Ids \cup {0}, v \in 0..MaxVer :
              [r EXCEPT !.st = st, !.id = i, !.ver = v] \in Rows
BY DEF Rows

LEMMA UseTypes ==
  ASSUME TypeOK, NEW what \in {"change", "runs", "crash", "loss", "retry"},
         NEW bound, Use(what, bound)
  PROVE  used' \in [{"change", "runs", "crash", "loss", "retry"} -> Nat]
BY DEF TypeOK, Use

LEMMA InitTypes == Init => TypeInv
<1> SUFFICES ASSUME Init PROVE TypeInv
  OBVIOUS
<1>1. src \in [Files -> 0..MaxVer] /\ born \in [Files -> 1..MaxVer]
  BY Constants DEF Init
<1>2. /\ row \in [Files -> Rows] /\ obj \in [Files -> Contents]
      /\ tmp \in [Ids -> Contents] /\ job \in [Groups -> Jobs]
  BY Members DEF Init
<1>3. zip \in [Groups -> [Slots -> Versions]] /\ idx = zip
  BY Members DEF Init
<1>4. run \in RunStates
  BY Members DEF Init, Terminal
<1>5. used \in [{"change", "runs", "crash", "loss", "retry"} -> Nat]
  BY DEF Init
<1>6. TypeOK
  BY <1>1, <1>2, <1>3, <1>4, <1>5 DEF Init, TypeOK
<1>7. RowsExist /\ PhasesOK
  BY DEF Init, RowsExist, RowExists, PhasesOK, NoRow, NoJob
<1> QED BY <1>6, <1>7 DEF TypeInv

(* A step that neither loses rows nor hands unknown ones to the pipeline or the
   write buffer keeps RowsExist. *)
LEMMA RowsKept ==
  ASSUME RowsExist, buf' \subseteq Files,
         \A f \in Files : RowExists(f) => RowExists(f)',
         \A f \in Files : row'[f].st # "absent" => RowExists(f)',
         \A f \in buf' : f \in buf \/ \E g \in Groups : job[g].got[f] # Nothing,
         \A g \in Groups, f \in Files :
           f \in job'[g].files \/ job'[g].got[f] # Nothing
             => f \in job[g].files \/ job[g].got[f] # Nothing
  PROVE  RowsExist'
<1>1. ASSUME NEW f \in buf' PROVE RowExists(f)'
  <2>1. f \in Files
    OBVIOUS
  <2> QED BY <2>1 DEF RowsExist
<1>2. ASSUME NEW g \in Groups, NEW f \in Files,
             f \in job'[g].files \/ job'[g].got[f] # Nothing
      PROVE  RowExists(f)'
  BY <1>2 DEF RowsExist
<1> QED BY <1>1, <1>2 DEF RowsExist

(* A step that changes no row's identity. *)
SameRows ==
  \A f \in Files : /\ row'[f].id = row[f].id /\ row'[f].ver = row[f].ver
                   /\ row'[f].st # "absent" <=> row[f].st # "absent"

LEMMA SameRowsExist ==
  ASSUME RowsExist, SameRows
  PROVE  /\ \A f \in Files : RowExists(f) => RowExists(f)'
         /\ \A f \in Files : row'[f].st # "absent" => RowExists(f)'
<1> SUFFICES ASSUME NEW f \in Files
             PROVE  /\ RowExists(f) => RowExists(f)'
                    /\ row'[f].st # "absent" => RowExists(f)'
  OBVIOUS
<1>1. row'[f].st # "absent" => RowExists(f)
  BY DEF RowsExist, SameRows
<1>2. RowExists(f) => RowExists(f)'
  BY DEF RowExists, SameRows
<1> QED BY <1>1, <1>2

(* The least of a set of numbers. *)
LEMMA LeastNumber ==
  ASSUME NEW S, S \subseteq Nat, S # {}
  PROVE  \E n \in S : \A k \in S : n <= k
<1> DEFINE R == {ss \in Nat \X Nat : ss[1] < ss[2]}
<1>1. IsWellFoundedOn(R, Nat)
  BY NatLessThanWellFounded, Zenon DEF OpToRel
<1>2. PICK n \in S : \A k \in S : ~ (<<k, n>> \in R)
  BY <1>1, WFMin, Zenon
<1>3. ASSUME NEW k \in S PROVE n <= k
  <2>1. k \in Nat /\ n \in Nat
    OBVIOUS
  <2>2. k < n => <<k, n>> \in R
    BY <2>1
  <2> QED BY <1>2, <2>1, <2>2
<1> QED BY <1>3

(* What reconciliation makes of a row. *)
LEMMA ReboundRow ==
  ASSUME TypeOK, NEW f \in Files, NEW read
  PROVE  /\ Rebound(f, read) \in Rows
         /\ \/ Rebound(f, read) = row[f]
            \/ /\ row[f].st \in {"pending", "failed"}
               /\ \E n \in Listing(f, read) :
                    Rebound(f, read) = [row[f] EXCEPT !.st = "uploaded", !.up = TRUE,
                                                     !.key = n]
<1> DEFINE n == CHOOSE n \in Listing(f, read) : \A k \in Listing(f, read) : n <= k
<1>1. row[f] \in Rows
  BY DEF TypeOK
<1>2. Listing(f, read) \subseteq Slots /\ Slots \subseteq Nat
  BY Constants DEF Listing, Slots
<1>3. CASE Rebound(f, read) = row[f]
  BY <1>1, <1>3
<1>4. CASE Rebound(f, read) # row[f]
  <2>1. /\ row[f].st \in {"pending", "failed"} /\ Listing(f, read) # {}
        /\ Rebound(f, read) = [row[f] EXCEPT !.st = "uploaded", !.up = TRUE, !.key = n]
    BY <1>4 DEF Rebound
  <2>2. n \in Listing(f, read)
    BY <1>2, <2>1, LeastNumber
  <2>3. n \in Slots
    BY <1>2, <2>2
  <2> HIDE DEF n
  <2>4. [row[f] EXCEPT !.st = "uploaded", !.up = TRUE, !.key = n] \in Rows
    BY <1>1, <2>3 DEF Rows, Status
  <2> QED BY <2>1, <2>2, <2>4
<1> QED BY <1>3, <1>4

LEMMA EnvironmentTypes ==
  ASSUME TypeInv,
         \/ \E f \in Files : \/ ModifyFile(f) \/ DeleteFile(f) \/ BringBackFile(f)
                             \/ RetryFile(f)
         \/ LoseIndex \/ Crash \/ ClearScanCache
  PROVE  TypeInv' /\ (SameRows \/ LoseIndex)
<1> USE DEF source, bucket
<1>0. TypeOK /\ RowsExist /\ PhasesOK
  BY DEF TypeInv
<1>1. ASSUME NEW f \in Files, ModifyFile(f) PROVE TypeInv' /\ SameRows
  <2>1. used' \in [{"change", "runs", "crash", "loss", "retry"} -> Nat]
    BY <1>0, <1>1, UseTypes DEF ModifyFile
  <2>2. born' \in [Files -> 1..MaxVer] /\ src' \in [Files -> 0..MaxVer]
    BY <1>0, <1>1, Constants DEF ModifyFile, TypeOK
  <2>3. TypeOK'
    BY <1>0, <1>1, <2>1, <2>2 DEF TypeOK, ModifyFile
  <2> QED BY <1>0, <1>1, <2>3 
            DEF TypeInv, RowsExist, RowExists, PhasesOK, SameRows, ModifyFile
<1>2. ASSUME NEW f \in Files, DeleteFile(f) PROVE TypeInv' /\ SameRows
  <2>1. used' \in [{"change", "runs", "crash", "loss", "retry"} -> Nat]
    BY <1>0, <1>2, UseTypes DEF DeleteFile
  <2>2. src' \in [Files -> 0..MaxVer]
    BY <1>0, <1>2, Constants DEF DeleteFile, TypeOK
  <2>3. TypeOK'
    BY <1>0, <1>2, <2>1, <2>2 DEF TypeOK, DeleteFile
  <2> QED BY <1>0, <1>2, <2>3 
            DEF TypeInv, RowsExist, RowExists, PhasesOK, SameRows, DeleteFile
<1>3. ASSUME NEW f \in Files, BringBackFile(f) PROVE TypeInv' /\ SameRows
  <2>1. used' \in [{"change", "runs", "crash", "loss", "retry"} -> Nat]
    BY <1>0, <1>3, UseTypes DEF BringBackFile
  <2>2. src' \in [Files -> 0..MaxVer]
    BY <1>0, <1>3, Constants DEF BringBackFile, TypeOK
  <2>3. TypeOK'
    BY <1>0, <1>3, <2>1, <2>2 DEF TypeOK, BringBackFile
  <2> QED BY <1>0, <1>3, <2>3 
            DEF TypeInv, RowsExist, RowExists, PhasesOK, SameRows, BringBackFile
<1>4. ASSUME NEW f \in Files, RetryFile(f) PROVE TypeInv' /\ SameRows
  <2>1. used' \in [{"change", "runs", "crash", "loss", "retry"} -> Nat]
    BY <1>0, <1>4, UseTypes DEF RetryFile
  <2>2. row[f] \in Rows /\ row[f].st # "absent"
    BY <1>0, <1>4 DEF TypeOK, RetryFile
  <2>3. [row[f] EXCEPT !.st = "pending", !.up = FALSE, !.key = 0] \in Rows
    BY <2>2, RowEdits DEF Status
  <2>4. row' \in [Files -> Rows]
    BY <1>0, <1>4, <2>3 DEF RetryFile, TypeOK
  <2>5. TypeOK'
    BY <1>0, <1>4, <2>1, <2>4 DEF TypeOK, RetryFile
  <2>6. SameRows
    BY <1>0, <1>4, <2>2 DEF RetryFile, TypeOK, Rows, SameRows
  <2>7. RowsExist'
    BY <1>0, <1>4, <2>6, SameRowsExist, RowsKept DEF RetryFile, TypeOK
  <2> QED BY <1>0, <1>4, <2>5, <2>6, <2>7 DEF TypeInv, PhasesOK, RetryFile
<1>5. CASE LoseIndex
  <2>1. used' \in [{"change", "runs", "crash", "loss", "retry"} -> Nat]
    BY <1>0, <1>5, UseTypes DEF LoseIndex
  <2>2. row' \in [Files -> Rows]
    BY <1>5, Members DEF LoseIndex
  <2>3. TypeOK'
    BY <1>0, <1>5, <2>1, <2>2 DEF TypeOK, LoseIndex
  <2>4. buf' = {} /\ job' = [g \in Groups |-> NoJob]
    BY <1>0, <1>5 DEF LoseIndex, PhasesOK
  <2>5. RowsExist'
    BY <1>5, <2>4 DEF LoseIndex, RowsExist, RowExists, NoRow, NoJob
  <2> QED BY <1>0, <1>5, <2>3, <2>5 DEF TypeInv, PhasesOK, LoseIndex
<1>6. CASE Crash
  <2>1. used' \in [{"change", "runs", "crash", "loss", "retry"} -> Nat]
    BY <1>0, <1>6, UseTypes DEF Crash
  <2>2. job' \in [Groups -> Jobs]
    BY <1>6, Members DEF Crash
  <2>3. run' \in RunStates
    BY <1>6, Members DEF Crash
  <2>4. TypeOK'
    BY <1>0, <1>6, <2>1, <2>2, <2>3 DEF TypeOK, Crash
  <2>5. RowsExist'
    BY <1>0, <1>6 DEF Crash, RowsExist, RowExists, NoJob
  <2> QED BY <1>0, <1>6, <2>4, <2>5, Members DEF TypeInv, PhasesOK, SameRows, Crash
<1>7. CASE ClearScanCache
  BY <1>0, <1>7 DEF TypeInv, TypeOK, RowsExist, RowExists, PhasesOK, SameRows, ClearScanCache
<1> QED BY <1>1, <1>2, <1>3, <1>4, <1>5, <1>6, <1>7

LEMMA ScanTypes ==
  ASSUME TypeInv, \/ \E m \in Modes : StartRun(m)
                  \/ \E how \in Terminal : Abort(how) \/ Halt(how)
                  \/ ScanFile \/ EndScan \/ CommitFolders
  PROVE  TypeInv' /\ (SameRows \/ ScanFile) /\ (EndScan => SameRows)
<1> USE DEF source, bucket, FileTable
<1>0. TypeOK /\ RowsExist /\ PhasesOK
  BY DEF TypeInv
<1>1. ASSUME NEW m \in Modes, StartRun(m) PROVE TypeInv' /\ SameRows
  <2>1. used' \in [{"change", "runs", "crash", "loss", "retry"} -> Nat]
    BY <1>0, <1>1, UseTypes DEF StartRun
  <2>2. run' \in RunStates
    BY <1>1, Members, BoundsAssumption DEF StartRun
  <2>3. TypeOK'
    BY <1>0, <1>1, <2>1, <2>2 DEF TypeOK, StartRun
  <2>4. PhasesOK'
    BY <1>0, <1>1 DEF PhasesOK, StartRun, Fresh
  <2> QED BY <1>0, <1>1, <2>3, <2>4 DEF TypeInv, RowsExist, RowExists, SameRows, StartRun
<1>2. ASSUME NEW how \in Terminal, Abort(how) \/ Halt(how) PROVE TypeInv' /\ SameRows
  <2>1. run' \in RunStates
    BY <1>0, <1>2 DEF TypeOK, RunStates, Abort, Halt
  <2>2. TypeOK'
    BY <1>0, <1>2, <2>1 DEF TypeOK, Abort, Halt
  <2>3. PhasesOK'
    BY <1>0, <1>2 DEF PhasesOK, TypeOK, RunStates, Abort, Halt
  <2> QED BY <1>0, <1>2, <2>2, <2>3 DEF TypeInv, RowsExist, RowExists, SameRows, Abort, Halt
<1>3. ASSUME ScanFile PROVE TypeInv'
  <2> DEFINE f == Walk[run.pos]
  <2>0. /\ run \in RunStates /\ run.pc = "scan" /\ run.pos <= Len(Walk)
        /\ nextId \in Nat /\ nextId' \in {nextId, nextId + 1}
        /\ \E stop \in {run.stop, UnitOf(f)}, seen \in {run.seen, run.seen \cup {f}} :
             run' = [run EXCEPT !.pos = run.pos + 1, !.seen = seen, !.stop = stop]
    <3>1. run \in RunStates /\ run.pc = "scan" /\ run.pos <= Len(Walk) /\ nextId \in Nat
      BY <1>0, <1>3 DEF ScanFile, TypeOK
    <3>2. CASE UnitOf(f) \in Skip \/ src[f] = 0
      <4>1. run' = [run EXCEPT !.pos = @ + 1] /\ nextId' = nextId
        BY <1>3, <3>2 DEF ScanFile
      <4>2. run' = [run EXCEPT !.pos = @ + 1, !.seen = run.seen, !.stop = run.stop]
        BY <3>1, <4>1 DEF RunStates
      <4> QED BY <3>1, <4>1, <4>2, Zenon
    <3>3. CASE ~(UnitOf(f) \in Skip \/ src[f] = 0)
      <4>1. /\ nextId' = nextId \/ nextId' = nextId + 1
            /\ \E stop \in {run.stop} \cup
                            {u \in {UnitOf(f)} : run.stop = Root /\
                                 ScanPauses /\ run.mode = "full"} :
                  run' = [run EXCEPT !.pos = @ + 1, !.seen = @ \cup {f},
                                     !.stop = stop]
        BY <1>3, <3>3 DEF ScanFile
      <4> QED BY <3>1, <4>1, Zenon
    <3> QED BY <3>2, <3>3
  <2>1. f \in Files
    BY <2>0, SourceAssumption DEF RunStates
  <2>2. run' \in RunStates /\ run'.pc = "scan"
    <3>1. UnitOf(f) \in Units \cup {Root}
      BY <2>1, Constants DEF UnitOf, Units, Groups
    <3>2. PICK stop \in {run.stop, UnitOf(f)}, seen \in {run.seen, run.seen \cup {f}} :
             run' = [run EXCEPT !.pos = run.pos + 1, !.seen = seen, !.stop = stop]
      BY <2>0
    <3>3. stop \in Units \cup {Root} /\ seen \in SUBSET Files /\ run.pos + 1 \in Nat \ {0}
      BY <2>0, <2>1, <3>1 DEF RunStates
    <3>4. /\ [run EXCEPT !.pos = run.pos + 1, !.seen = seen, !.stop = stop] \in RunStates
          /\ [run EXCEPT !.pos = run.pos + 1, !.seen = seen, !.stop = stop].pc = "scan"
      BY <2>0, <3>3 DEF RunStates
    <3> QED BY <3>2, <3>4, Zenon
  <2>3. nextId' \in Nat
    BY <2>0
  <2>4. CASE row' = row
    <3>1. TypeOK'
      BY <1>0, <1>3, <2>2, <2>3, <2>4 DEF TypeOK, ScanFile
    <3> QED BY <1>0, <1>3, <2>2, <2>4, <3>1
              DEF TypeInv, RowsExist, RowExists, PhasesOK, ScanFile
  <2>5. CASE row' # row
    <3>1. /\ row' = [row EXCEPT ![f] = Upserted(f, src[f])] /\ src[f] # 0
          /\ row[f].st = "absent" => nextId \in Ids
      BY <1>3, <2>5 DEF ScanFile
    <3>2. row[f] \in Rows /\ src[f] \in 0..MaxVer /\ src[f] \in Nat
      BY <1>0, <2>1, Constants DEF TypeOK
    <3>3. Upserted(f, src[f]) \in Rows
      BY <3>1, <3>2, Members, RowEdits DEF Upserted, Status
    <3>4. /\ Upserted(f, src[f]).st # "absent"
          /\ Upserted(f, src[f]).id \in Ids /\ Upserted(f, src[f]).ver # 0
      BY <1>0, <2>1, <3>1, <3>2 DEF Upserted, RowsExist, RowExists, Rows, NoRow
    <3>5. row' \in [Files -> Rows]
      BY <1>0, <3>1, <3>3 DEF TypeOK
    <3>6. TypeOK'
      BY <1>0, <1>3, <2>2, <2>3, <3>5 DEF TypeOK, ScanFile
    <3>7. \A h \in Files : row'[h].st # "absent" => RowExists(h)'
      BY <1>0, <2>1, <3>1, <3>4 DEF TypeOK, RowsExist, RowExists
    <3>8. \A h \in Files : RowExists(h) => RowExists(h)'
      BY <1>0, <2>1, <3>1, <3>4 DEF TypeOK, RowsExist, RowExists
    <3>9. RowsExist'
      BY <1>0, <1>3, <3>7, <3>8, RowsKept DEF TypeOK, ScanFile
    <3> QED BY <1>0, <1>3, <2>2, <3>6, <3>9 DEF TypeInv, PhasesOK, ScanFile
  <2> QED BY <2>4, <2>5
<1>4. CASE EndScan
  <2>1. \A f \in Files : Unseen(f) \in Rows /\ Unseen(f).id = row[f].id
                        /\ Unseen(f).ver = row[f].ver
                        /\ (Unseen(f).st # "absent" <=> row[f].st # "absent")
    <3> SUFFICES ASSUME NEW f \in Files
                 PROVE  /\ Unseen(f) \in Rows /\ Unseen(f).id = row[f].id
                        /\ Unseen(f).ver = row[f].ver
                        /\ (Unseen(f).st # "absent" <=> row[f].st # "absent")
      OBVIOUS
    <3>1. row[f] \in Rows
      BY <1>0 DEF TypeOK
    <3>2. CASE Unseen(f) = row[f]
      BY <3>1, <3>2
    <3>3. CASE row[f].st # "absent" /\ \E st \in {"missing", "cloud_only"} :
                 Unseen(f) = [row[f] EXCEPT !.st = st]
      BY <3>1, <3>3 DEF Rows, Status
    <3>4. \/ Unseen(f) = row[f]
          \/ row[f].st # "absent" /\ Unseen(f) = [row[f] EXCEPT !.st = "missing"]
          \/ row[f].st # "absent" /\ Unseen(f) = [row[f] EXCEPT !.st = "cloud_only"]
      BY DEF Unseen
    <3> QED BY <3>2, <3>3, <3>4
  <2>2. row' \in [Files -> Rows] /\ SameRows
    BY <1>0, <1>4, <2>1 DEF EndScan, TypeOK, SameRows
  <2>3. Finished \in SUBSET Units
    BY <1>0 DEF Finished, Units, TypeOK, RunStates
  <2>4. run' \in RunStates /\ run'.pc \in {"close", "reconcile"}
    <3> DEFINE pc == IF run.mode = "scan" THEN "close" ELSE "reconcile"
               paused == run.pos <= Len(Walk)
    <3>1. Fresh(run.mode) \in RunStates /\ pc \in {"close", "reconcile"}
      BY <1>0, Members DEF TypeOK, RunStates
    <3>2. run' = [Fresh(run.mode) EXCEPT !.pc = pc, !.paused = paused, !.fin = Finished]
      BY <1>4, Zenon DEF EndScan
    <3>3. paused \in BOOLEAN
      OBVIOUS
    <3> HIDE DEF pc, paused
    <3>4. /\ [Fresh(run.mode) EXCEPT !.pc = pc, !.paused = paused, !.fin = Finished]
               \in RunStates
          /\ [Fresh(run.mode) EXCEPT !.pc = pc, !.paused = paused, !.fin = Finished].pc = pc
      BY <2>3, <3>1, <3>3 DEF RunStates
    <3> QED BY <3>1, <3>2, <3>4, Zenon
  <2>5. TypeOK'
    BY <1>0, <1>4, <2>2, <2>4 DEF TypeOK, EndScan
  <2>6. RowsExist'
    <3>1. buf' \subseteq Files /\ buf' = buf /\ job' = job
      BY <1>0, <1>4 DEF EndScan, TypeOK
    <3> QED BY <1>0, <2>2, <3>1, SameRowsExist, RowsKept
  <2>7. PhasesOK'
    BY <1>0, <1>4, <2>4 DEF PhasesOK, EndScan
  <2> QED BY <2>2, <2>5, <2>6, <2>7 DEF TypeInv
<1>5. CASE CommitFolders
  <2>1. run' \in RunStates /\ done' \subseteq Units
    BY <1>0, <1>5 DEF CommitFolders, TypeOK, RunStates
  <2>2. TypeOK'
    BY <1>0, <1>5, <2>1 DEF TypeOK, CommitFolders
  <2> QED BY <1>0, <1>5, <2>2
            DEF TypeInv, RowsExist, RowExists, PhasesOK, SameRows, CommitFolders,
                TypeOK, RunStates
<1> QED BY <1>1, <1>2, <1>3, <1>4, <1>5

LEMMA PlanTypes ==
  ASSUME TypeInv, Reconcile \/ NothingToUpload \/ Plan
  PROVE  TypeInv' /\ SameRows
<1> USE DEF source, bucket, FileTable
<1>0. TypeOK /\ RowsExist /\ PhasesOK
  BY DEF TypeInv
<1>1. CASE Reconcile
  <2>1. PICK read \in SUBSET Sidecars :
          /\ row' = [f \in Files |-> Rebound(f, read)]
          /\ idx' = [g \in Groups |-> [n \in Slots |->
                       IF <<g, n>> \in read \cap Orphans THEN Empty ELSE idx[g][n]]]
    BY <1>1 DEF Reconcile
  <2>2. row' \in [Files -> Rows]
    BY <1>0, <2>1, ReboundRow
  <2>3. SameRows
    <3> SUFFICES ASSUME NEW f \in Files
                 PROVE  /\ row'[f].id = row[f].id /\ row'[f].ver = row[f].ver
                        /\ row'[f].st # "absent" <=> row[f].st # "absent"
      BY DEF SameRows
    <3>1. row[f] \in Rows /\ row'[f] = Rebound(f, read)
      BY <1>0, <2>1 DEF TypeOK
    <3>2. CASE Rebound(f, read) = row[f]
      BY <3>1, <3>2
    <3>3. CASE /\ row[f].st \in {"pending", "failed"}
               /\ \E n \in Listing(f, read) :
                    Rebound(f, read) = [row[f] EXCEPT !.st = "uploaded", !.up = TRUE,
                                                     !.key = n]
      BY <3>1, <3>3 DEF Rows
    <3> QED BY <1>0, <3>2, <3>3, ReboundRow
  <2>4. idx' \in [Groups -> [Slots -> Versions]]
    BY <1>0, <2>1, Members DEF TypeOK
  <2>5. run' \in RunStates /\ run'.pc = "plan"
    BY <1>0, <1>1 DEF Reconcile, TypeOK, RunStates
  <2>6. TypeOK'
    BY <1>0, <1>1, <2>2, <2>4, <2>5 DEF TypeOK, Reconcile
  <2>7. RowsExist'
    <3>1. buf' \subseteq Files /\ buf' = buf /\ job' = job
      BY <1>0, <1>1 DEF Reconcile, TypeOK
    <3> QED BY <1>0, <2>3, <3>1, SameRowsExist, RowsKept
  <2>8. PhasesOK'
    BY <1>0, <1>1, <2>5 DEF PhasesOK, Reconcile
  <2> QED BY <2>3, <2>6, <2>7, <2>8 DEF TypeInv
<1>2. CASE NothingToUpload
  <2>1. run' \in RunStates /\ run'.pc \in {"commit", "close"}
    BY <1>0, <1>2 DEF NothingToUpload, AfterUpload, TypeOK, RunStates
  <2>2. TypeOK'
    BY <1>0, <1>2, <2>1 DEF TypeOK, NothingToUpload
  <2> QED BY <1>0, <1>2, <2>1, <2>2
            DEF TypeInv, RowsExist, RowExists, PhasesOK, SameRows, NothingToUpload
<1>3. CASE Plan
  <2>1. run' \in RunStates /\ run'.pc = "upload"
    BY <1>0, <1>3 DEF Plan, TypeOK, RunStates
  <2>2. tmp' \in [Ids -> Contents]
    BY <1>0, <1>3, Members DEF Plan, TypeOK
  <2>3. \A g \in Groups :
          /\ job'[g] \in Jobs /\ job'[g].files \subseteq ToUpload \cap MembersOf(g)
          /\ job'[g].got = [f \in Files |-> Nothing]
          /\ job'[g].st \in {"none", "work"}
    <3> TAKE g \in Groups
    <3> DEFINE fs == ToUpload \cap MembersOf(g)
    <3> DEFINE zipped == Cardinality(fs) >= ZipThresh
    <3>1. fs \in SUBSET Files /\ fs \subseteq ToUpload \cap MembersOf(g)
      BY DEF MembersOf
    <3>2. job'[g] = IF fs = {} THEN NoJob
                    ELSE [NoJob EXCEPT !.st = "work", !.files = fs, !.zip = zipped]
      BY <1>3 DEF Plan
    <3>3. zipped \in BOOLEAN
      OBVIOUS
    <3> HIDE DEF fs, zipped
    <3>4. NoJob.files = {} /\ NoJob.st = "none" /\ NoJob.got = [f \in Files |-> Nothing]
      BY DEF NoJob
    <3>5. CASE fs # {}
      <4> DEFINE j == [NoJob EXCEPT !.st = "work", !.files = fs, !.zip = zipped]
      <4>1. j \in Jobs
        BY <3>1, <3>3, Members DEF Jobs
      <4>2. j.files = fs /\ j.st = "work" /\ j.got = NoJob.got
        BY Members DEF Jobs
      <4>3. job'[g] = j
        BY <3>2, <3>5
      <4> HIDE DEF j
      <4> QED BY <3>1, <3>4, <4>1, <4>2, <4>3
    <3>6. CASE fs = {}
      BY <3>2, <3>4, <3>6, Members
    <3> QED BY <3>5, <3>6
  <2>4. job' \in [Groups -> Jobs]
    BY <1>3, <2>3 DEF Plan
  <2>5. TypeOK'
    BY <1>0, <1>3, <2>1, <2>2, <2>4 DEF TypeOK, Plan
  <2>6. \A f \in ToUpload : RowExists(f)
    BY <1>0 DEF ToUpload, RowsExist
  <2>7. RowsExist'
    <3>1. row' = row /\ buf' = buf
      BY <1>3 DEF Plan
    <3>2. \A g \in Groups, f \in Files :
            f \in job'[g].files \/ job'[g].got[f] # Nothing => RowExists(f)
      BY <2>3, <2>6
    <3> QED BY <1>0, <3>1, <3>2 DEF RowsExist, RowExists
  <2> QED BY <1>0, <1>3, <2>1, <2>5, <2>7 DEF TypeInv, PhasesOK, SameRows, Plan
<1> QED BY <1>1, <1>2, <1>3

(* A step of the pipeline gives no job a file that was not in it. *)
SameFiles ==
  \A g \in Groups, f \in Files :
    f \in job'[g].files \/ job'[g].got[f] # Nothing
      => f \in job[g].files \/ job[g].got[f] # Nothing

LEMMA JobTypes ==
  ASSUME TypeOK, NEW g \in Groups, NEW st \in {"none", "work", "zip", "indexed", "put", "ind", "done"}
  PROVE  /\ job' = [job EXCEPT ![g].st = st] => job' \in [Groups -> Jobs] /\ SameFiles
         /\ \A own \in BOOLEAN : job' = [job EXCEPT ![g].st = st, ![g].own = own]
              => job' \in [Groups -> Jobs] /\ SameFiles
<1>1. job[g] \in Jobs
  BY DEF TypeOK
<1>2. ASSUME job' = [job EXCEPT ![g].st = st]
      PROVE  job' \in [Groups -> Jobs] /\ SameFiles
  <2>1. [job[g] EXCEPT !.st = st] \in Jobs
    BY <1>1 DEF Jobs
  <2>2. job' = [job EXCEPT ![g] = [job[g] EXCEPT !.st = st]]
    BY <1>2
  <2>3. /\ [job[g] EXCEPT !.st = st].files = job[g].files
        /\ [job[g] EXCEPT !.st = st].got = job[g].got
    BY <1>1 DEF Jobs
  <2> QED BY <2>1, <2>2, <2>3 DEF TypeOK, SameFiles
<1>3. ASSUME NEW own \in BOOLEAN, job' = [job EXCEPT ![g].st = st, ![g].own = own]
      PROVE  job' \in [Groups -> Jobs] /\ SameFiles
  <2>1. [job[g] EXCEPT !.st = st, !.own = own] \in Jobs
    BY <1>1 DEF Jobs
  <2>2. job' = [job EXCEPT ![g] = [job[g] EXCEPT !.st = st, !.own = own]]
    BY <1>3 DEF TypeOK
  <2>3. /\ [job[g] EXCEPT !.st = st, !.own = own].files = job[g].files
        /\ [job[g] EXCEPT !.st = st, !.own = own].got = job[g].got
    BY <1>1 DEF Jobs
  <2> QED BY <2>1, <2>2, <2>3 DEF TypeOK, SameFiles
<1> QED BY <1>2, <1>3

LEMMA FailJobTypes ==
  ASSUME TypeOK, NEW g \in Groups, FailJob(g)
  PROVE  /\ run' \in RunStates /\ run'.pc = run.pc
         /\ job' \in [Groups -> Jobs] /\ SameFiles
<1>1. job' \in [Groups -> Jobs] /\ SameFiles
  BY JobTypes DEF FailJob
<1>2. run' \in RunStates /\ run'.pc = run.pc
  BY DEF FailJob, TypeOK, RunStates, Terminal
<1> QED BY <1>1, <1>2

LEMMA StagedTypes ==
  ASSUME TypeOK, NEW g \in Groups, NEW f \in Files, NEW c \in Contents, Staged(g, f, c),
         f \in job[g].files \/ job[g].got[f] # Nothing
  PROVE  job' \in [Groups -> Jobs] /\ SameFiles
<1> DEFINE got  == [job[g].got EXCEPT ![f] = c]
           left == job[g].files \ {f}
           st   == IF left # {} THEN "work"
                   ELSE IF \E h \in Files : got[h] # Nothing THEN "ind" ELSE "done"
           j    == [job[g] EXCEPT !.files = left, !.got = got, !.st = st]
<1>1. job[g] \in Jobs /\ left \in SUBSET Files /\ got \in [Files -> Contents]
  BY DEF TypeOK, Jobs
<1>2. st \in {"work", "ind", "done"}
  OBVIOUS
<1>3. job' = [job EXCEPT ![g].files = left, ![g].got = got, ![g].st = st]
  BY DEF Staged
<1>4. \A h \in Files : h \in left \/ got[h] # Nothing
                         => h \in job[g].files \/ job[g].got[h] # Nothing
  BY <1>1 DEF Jobs
<1> HIDE DEF got, left, st
<1>5. job' = [job EXCEPT ![g] = j]
  BY <1>3 DEF TypeOK
<1>6. j \in Jobs /\ j.files = left /\ j.got = got
  BY <1>1, <1>2 DEF Jobs
<1> HIDE DEF j
<1> QED BY <1>4, <1>5, <1>6 DEF TypeOK, SameFiles

(* A step of the pipeline that is typed, and changes no row's identity, keeps
   the invariant. *)
LEMMA PipelineKeeps ==
  ASSUME TypeInv, TypeOK', SameRows, SameFiles, run.pc = "upload", run'.pc = "upload",
         \A f \in buf' : f \in buf \/ \E g \in Groups : job[g].got[f] # Nothing
  PROVE  TypeInv'
<1>1. buf' \subseteq Files
  BY DEF TypeOK
<1>2. RowsExist'
  BY <1>1, SameRowsExist, RowsKept DEF TypeInv, SameFiles
<1> QED BY <1>2 DEF TypeInv, PhasesOK

(* An object put into, or deleted from, a slot. *)
LEMMA SlotEdits ==
  ASSUME NEW z \in [Groups -> [Slots -> Versions]], NEW g \in Groups, NEW n,
         NEW v \in Versions
  PROVE  [z EXCEPT ![g][n] = v] \in [Groups -> [Slots -> Versions]]
<1>1. [z[g] EXCEPT ![n] = v] \in [Slots -> Versions]
  OBVIOUS
<1> QED BY <1>1

(* Zips on their way to the bucket. *)
LEMMA ZipTypes ==
  ASSUME TypeInv, NEW g \in Groups,
         \/ StageZip(g) \/ StageZipFail(g) \/ PutIndex(g) \/ PutIndexFail(g)
         \/ PutZip(g) \/ PutZipFail(g) \/ PutZipTaken(g)
         \/ CommitZip(g) \/ CommitZipFail(g) \/ Drop(g)
  PROVE  TypeInv' /\ SameRows /\ SameFiles /\ run'.pc = "upload"
<1> USE DEF source, bucket, FileTable
<1>0. TypeOK /\ RowsExist /\ PhasesOK /\ job[g] \in Jobs
  BY DEF TypeInv, TypeOK
<1>a. row' = row => SameRows
  BY DEF SameRows
<1>b. job[g].got \in [Files -> Contents] /\ Packed(g) \in Versions /\ Listed(g) \in Versions
  <2>1. \A f \in Files : row[f].ver \in 0..MaxVer /\ job[g].got[f].ver \in 0..MaxVer
    BY <1>0 DEF TypeOK, Rows, Jobs, Contents
  <2> QED BY <1>0, <2>1, Constants DEF Jobs, Packed, Listed, Versions
<1>c. /\ [idx EXCEPT ![g][job[g].slot] = Listed(g)] \in [Groups -> [Slots -> Versions]]
      /\ [idx EXCEPT ![g][job[g].slot] = Empty] \in [Groups -> [Slots -> Versions]]
      /\ [zip EXCEPT ![g][job[g].slot] = Packed(g)] \in [Groups -> [Slots -> Versions]]
  <2> DEFINE n == job[g].slot
  <2> HIDE DEF n
  <2>1. /\ [idx EXCEPT ![g][n] = Listed(g)] \in [Groups -> [Slots -> Versions]]
        /\ [idx EXCEPT ![g][n] = Empty] \in [Groups -> [Slots -> Versions]]
        /\ [zip EXCEPT ![g][n] = Packed(g)] \in [Groups -> [Slots -> Versions]]
    BY <1>0, <1>b, Members, SlotEdits DEF TypeOK
  <2> QED BY <2>1 DEF n
<1>1. CASE StageZip(g)
  <2>1. PICK n \in Slots :
          job' = [job EXCEPT ![g].st = "zip", ![g].slot = n,
            ![g].got = [f \in Files |-> IF f \in job[g].files
                          THEN [file |-> f, ver |-> src[f]] ELSE Nothing]]
    BY <1>1 DEF StageZip
  <2> DEFINE got == [f \in Files |-> IF f \in job[g].files
                       THEN [file |-> f, ver |-> src[f]] ELSE Nothing]
             j   == [job[g] EXCEPT !.st = "zip", !.slot = n, !.got = got]
  <2>2. got \in [Files -> Contents]
    BY <1>0, Members DEF TypeOK, Contents
  <2>3. \A f \in Files : got[f] # Nothing => f \in job[g].files
    OBVIOUS
  <2> HIDE DEF got
  <2>4. job' = [job EXCEPT ![g] = j]
    BY <1>0, <2>1 DEF TypeOK, got
  <2>5. j \in Jobs /\ j.files = job[g].files /\ j.got = got
    BY <1>0, <2>2 DEF Jobs
  <2> HIDE DEF j
  <2>6. job' \in [Groups -> Jobs] /\ SameFiles
    BY <1>0, <2>3, <2>4, <2>5 DEF TypeOK, SameFiles
  <2>7. TypeOK'
    BY <1>0, <1>1, <2>6 DEF TypeOK, StageZip
  <2> QED BY <1>0, <1>1, <1>a, <2>6, <2>7, PipelineKeeps DEF StageZip, Staging
<1>2. CASE StageZipFail(g)
  <2>1. TypeOK' /\ SameFiles /\ run'.pc = run.pc
    BY <1>0, <1>2, FailJobTypes DEF TypeOK, StageZipFail
  <2> QED BY <1>0, <1>2, <1>a, <2>1, PipelineKeeps DEF StageZipFail, Staging
<1>3. CASE PutIndex(g)
  <2>1. /\ run.pc = "upload" /\ UNCHANGED <<row, run, buf>>
        /\ \E own \in BOOLEAN : job' = [job EXCEPT ![g].st = "indexed", ![g].own = own]
        /\ idx' = idx \/ idx' = [idx EXCEPT ![g][job[g].slot] = Listed(g)]
    BY <1>3 DEF PutIndex, Sending
  <2>2. idx' \in [Groups -> [Slots -> Versions]]
    BY <1>0, <1>c, <2>1 DEF TypeOK
  <2>3. job' \in [Groups -> Jobs] /\ SameFiles
    BY <1>0, <2>1, JobTypes
  <2>4. TypeOK'
    BY <1>0, <1>3, <2>2, <2>3 DEF TypeOK, PutIndex
  <2> QED BY <1>a, <2>1, <2>3, <2>4, PipelineKeeps
<1>4. CASE PutIndexFail(g)
  <2>1. idx' \in [Groups -> [Slots -> Versions]]
    BY <1>0, <1>c, <1>4 DEF PutIndexFail, TypeOK
  <2>2. TypeOK' /\ SameFiles /\ run'.pc = run.pc
    BY <1>0, <1>4, <2>1, FailJobTypes DEF TypeOK, PutIndexFail
  <2> QED BY <1>4, <1>a, <2>2, PipelineKeeps DEF PutIndexFail
<1>5. CASE PutZip(g)
  <2>1. zip' \in [Groups -> [Slots -> Versions]]
    BY <1>0, <1>c, <1>5 DEF PutZip, TypeOK
  <2>2. job' \in [Groups -> Jobs] /\ SameFiles
    BY <1>0, <1>5, JobTypes DEF PutZip
  <2>3. TypeOK'
    BY <1>0, <1>5, <2>1, <2>2 DEF TypeOK, PutZip
  <2> QED BY <1>5, <1>a, <2>2, <2>3, PipelineKeeps DEF PutZip, Sending
<1>6. CASE PutZipFail(g)
  <2>1. /\ zip' \in [Groups -> [Slots -> Versions]]
        /\ idx' \in [Groups -> [Slots -> Versions]]
    BY <1>0, <1>c, <1>6 DEF PutZipFail, CleanUpIndex, TypeOK
  <2>2. TypeOK' /\ SameFiles /\ run'.pc = run.pc
    BY <1>0, <1>6, <2>1, FailJobTypes DEF TypeOK, PutZipFail
  <2> QED BY <1>6, <1>a, <2>2, PipelineKeeps DEF PutZipFail
<1>7. CASE CommitZip(g)
  <2>1. \A f \in job[g].files : row[f] \in Rows /\ row[f].st # "absent"
    BY <1>0 DEF RowsExist, RowExists, TypeOK, Jobs
  <2>2. job[g].slot \in {0} \cup Slots
    BY <1>0 DEF Jobs
  <2>3. \A f \in Files :
          row'[f] = IF f \in job[g].files
                      THEN [row[f] EXCEPT !.st = "uploaded", !.up = TRUE,
                                          !.key = job[g].slot] ELSE row[f]
    BY <1>7 DEF CommitZip
  <2>4. \A f \in job[g].files :
          [row[f] EXCEPT !.st = "uploaded", !.up = TRUE, !.key = job[g].slot] \in Rows
    BY <2>1, <2>2, RowEdits DEF Status
  <2>5. row' \in [Files -> Rows]
    BY <1>0, <1>7, <2>3, <2>4 DEF CommitZip, TypeOK
  <2>6. SameRows
    <3> SUFFICES ASSUME NEW f \in Files
                 PROVE  /\ row'[f].id = row[f].id /\ row'[f].ver = row[f].ver
                        /\ row'[f].st # "absent" <=> row[f].st # "absent"
      BY DEF SameRows
    <3>1. row[f] \in Rows
      BY <1>0 DEF TypeOK
    <3> QED BY <2>1, <2>3, <3>1 DEF Rows
  <2>7. job' \in [Groups -> Jobs] /\ SameFiles
    BY <1>0, <1>7, JobTypes DEF CommitZip
  <2>8. TypeOK'
    BY <1>0, <1>7, <2>5, <2>7 DEF TypeOK, CommitZip
  <2> QED BY <1>7, <2>6, <2>7, <2>8, PipelineKeeps DEF CommitZip, Sending
<1>8. CASE CommitZipFail(g)
  <2>1. TypeOK' /\ SameFiles /\ run'.pc = run.pc
    BY <1>0, <1>8, FailJobTypes DEF TypeOK, CommitZipFail
  <2> QED BY <1>8, <1>a, <2>1, PipelineKeeps DEF CommitZipFail
<1>9. CASE Drop(g)
  <2>1. job' \in [Groups -> Jobs] /\ SameFiles
    BY <1>0, <1>9, JobTypes DEF Drop
  <2>2. TypeOK'
    BY <1>0, <1>9, <2>1 DEF TypeOK, Drop
  <2> QED BY <1>9, <1>a, <2>1, <2>2, PipelineKeeps DEF Drop
<1>10. CASE PutZipTaken(g)
  <2>1. /\ zip' \in [Groups -> [Slots -> Versions]]
        /\ idx' \in [Groups -> [Slots -> Versions]]
    BY <1>0, <1>c, <1>10 DEF PutZipTaken, CleanUpIndex, TypeOK
  <2>2. used' \in [{"change", "runs", "crash", "loss", "retry"} -> Nat]
    BY <1>0, <1>10, UseTypes DEF PutZipTaken
  <2>3. \/ job' = [job EXCEPT ![g].st = "work"]
        \/ job' = [job EXCEPT ![g].st = "done"]
    BY <1>10 DEF PutZipTaken
  <2>4. job' \in [Groups -> Jobs] /\ SameFiles
    BY <1>0, <2>3, JobTypes
  <2>5. TypeOK'
    BY <1>0, <1>10, <2>1, <2>2, <2>4 DEF TypeOK, PutZipTaken
  <2> QED BY <1>10, <1>a, <2>4, <2>5, PipelineKeeps DEF PutZipTaken, Sending
<1> QED BY <1>1, <1>2, <1>3, <1>4, <1>5, <1>6, <1>7, <1>8, <1>9, <1>10

(* Files uploaded one by one. *)
LEMMA FileTypes ==
  ASSUME TypeInv, NEW g \in Groups, NEW f \in Files,
         StageFile(g, f) \/ UploadFile(g, f) \/ UploadFileFail(g, f)
  PROVE  TypeInv' /\ SameRows /\ SameFiles /\ run'.pc = "upload"
<1> USE DEF source, bucket, FileTable
<1>0. TypeOK /\ RowsExist /\ PhasesOK /\ job[g] \in Jobs /\ row[f] \in Rows
  BY DEF TypeInv, TypeOK
<1>a. row' = row => SameRows /\ row' \in [Files -> Rows]
  BY <1>0 DEF SameRows, TypeOK
<1>b. job[g].got[f] \in Contents
  BY <1>0 DEF Jobs
<1>c. ASSUME row[f].st # "absent", row' = [row EXCEPT ![f].st = "failed"]
      PROVE  SameRows /\ row' \in [Files -> Rows]
  <2>1. [row[f] EXCEPT !.st = "failed"] \in Rows
    BY <1>0, RowEdits DEF Status
  <2>2. row' = [row EXCEPT ![f] = [row[f] EXCEPT !.st = "failed"]]
    BY <1>c DEF TypeOK
  <2>3. row' \in [Files -> Rows]
    BY <1>0, <2>1, <2>2 DEF TypeOK
  <2>4. SameRows
    BY <1>0, <1>c, <2>2 DEF SameRows, TypeOK, Rows
  <2> QED BY <2>3, <2>4
<1>1. CASE StageFile(g, f)
  <2>1. f \in job[g].files /\ RowExists(f) /\ tmp[row[f].id] \in Contents
    BY <1>0, <1>1 DEF StageFile, RowsExist, RowExists, TypeOK
  <2>2. [file |-> f, ver |-> src[f]] \in Contents
    BY <1>0 DEF TypeOK, Contents
  <2>3. \E c \in Contents : Staged(g, f, c)
    BY <1>1, <2>1, <2>2, Members, Zenon DEF StageFile
  <2>4. job' \in [Groups -> Jobs] /\ SameFiles
    BY <1>0, <2>1, <2>3, StagedTypes
  <2>5. row' = row \/ row' = [row EXCEPT ![f].st = "failed"]
    BY <1>1, Zenon DEF StageFile, MarkFailed
  <2>6. SameRows /\ row' \in [Files -> Rows]
    BY <1>a, <1>c, <2>1, <2>5 DEF RowExists
  <2>7. \/ tmp' = tmp
        \/ tmp' = [tmp EXCEPT ![row[f].id] = [file |-> f, ver |-> src[f]]]
        \/ tmp' = [tmp EXCEPT ![row[f].id] = Nothing]
    BY <1>1, Zenon DEF StageFile
  <2>8. tmp' \in [Ids -> Contents]
    BY <1>0, <2>2, <2>7, Members DEF TypeOK
  <2>9. UNCHANGED <<source, nextId, done, last, bucket, buf, run, used>> /\ run.pc = "upload"
    BY <1>1 DEF StageFile, Staging
  <2>10. TypeOK'
    BY <1>0, <2>4, <2>6, <2>8, <2>9 DEF TypeOK
  <2> QED BY <2>4, <2>6, <2>9, <2>10, PipelineKeeps
<1>2. CASE UploadFile(g, f)
  <2>1. job' \in [Groups -> Jobs] /\ SameFiles
    BY <1>0, <1>2, StagedTypes, Members DEF UploadFile
  <2>2. obj' \in [Files -> Contents] /\ tmp' \in [Ids -> Contents]
    BY <1>0, <1>2, <1>b, Members DEF UploadFile, TypeOK
  <2>3. TypeOK'
    BY <1>0, <1>2, <2>1, <2>2 DEF TypeOK, UploadFile
  <2>4. /\ run.pc = "upload" /\ run'.pc = "upload" /\ row' = row
        /\ \A h \in buf' : h \in buf \/ job[g].got[h] # Nothing
    BY <1>2 DEF UploadFile, Sending
  <2> QED BY <1>a, <2>1, <2>3, <2>4, PipelineKeeps
<1>3. CASE UploadFileFail(g, f)
  <2>1. row' = row \/ row' = [row EXCEPT ![f].st = "failed"]
    BY <1>3 DEF UploadFileFail, MarkFailed
  <2>2. SameRows /\ row' \in [Files -> Rows]
    BY <1>0, <1>3, <1>a, <1>c, <2>1 DEF UploadFileFail, RowsExist, RowExists
  <2>3. obj' \in [Files -> Contents]
    BY <1>0, <1>3, <1>b DEF UploadFileFail, TypeOK
  <2>4. TypeOK' /\ SameFiles /\ run'.pc = run.pc
    BY <1>0, <1>3, <2>2, <2>3, FailJobTypes DEF TypeOK, UploadFileFail
  <2> QED BY <1>3, <2>2, <2>4, PipelineKeeps DEF UploadFileFail
<1> QED BY <1>1, <1>2, <1>3

(* The ends of the upload phase and of the run. *)
LEMMA EndTypes ==
  ASSUME TypeInv, PipeDone \/ Resume \/ ResumeFail \/ Flush \/ Close \/ CloseFail
  PROVE  TypeInv' /\ SameRows
<1> USE DEF source, bucket, FileTable
<1>0. TypeOK /\ RowsExist /\ PhasesOK
  BY DEF TypeInv
<1>1. ASSUME FlushAll
      PROVE  SameRows /\ row' \in [Files -> Rows] /\ buf' = {}
  <2>1. \A f \in Files : row[f] \in Rows /\ row'[f] = Flushed(f)
    BY <1>0, <1>1 DEF FlushAll, TypeOK
  <2>2. \A f \in buf : row[f].st # "absent"
    BY <1>0 DEF RowsExist, RowExists
  <2>3. \A f \in Files : Flushed(f) \in Rows
    BY <2>1, RowEdits DEF Flushed, Status
  <2>4. SameRows
    BY <2>1, <2>2 DEF SameRows, Flushed, Rows
  <2> QED BY <1>1, <2>3, <2>4 DEF FlushAll
<1>2. ASSUME TypeOK', SameRows, buf' \subseteq buf, job' = job \/ job' = [g \in Groups |-> NoJob]
      PROVE  RowsExist'
  <2>1. \A g \in Groups, f \in Files :
          f \in job'[g].files \/ job'[g].got[f] # Nothing
            => f \in job[g].files \/ job[g].got[f] # Nothing
    BY <1>2 DEF NoJob
  <2> QED BY <1>0, <1>2, <2>1, SameRowsExist, RowsKept DEF TypeOK
<1>3. CASE PipeDone
  <2>1. run' \in RunStates /\ job' = [g \in Groups |-> NoJob]
    BY <1>0, <1>3 DEF PipeDone, AfterUpload, TypeOK, RunStates
  <2>2. TypeOK' /\ SameRows
    BY <1>0, <1>3, <2>1, Members DEF TypeOK, PipeDone, SameRows
  <2>3. PhasesOK'
    BY <1>0, <1>3, <2>1 DEF PhasesOK, PipeDone, AfterUpload, Drained, TypeOK, RunStates
  <2> QED BY <1>2, <1>3, <2>1, <2>2, <2>3 DEF TypeInv, PipeDone
<1>4. CASE Resume
  <2>1. run' \in RunStates /\ run'.pc = "reconcile" /\ job' = [g \in Groups |-> NoJob]
    BY <1>0, <1>4 DEF Resume, TypeOK, RunStates, Terminal
  <2>2. TypeOK'
    BY <1>0, <1>1, <1>4, <2>1, Members DEF TypeOK, Resume
  <2>3. PhasesOK'
    BY <2>1 DEF PhasesOK
  <2> QED BY <1>1, <1>2, <1>4, <2>1, <2>2, <2>3 DEF TypeInv, Resume
<1>5. CASE Flush
  <2>1. TypeOK'
    BY <1>0, <1>1, <1>5 DEF TypeOK, Flush
  <2>2. PhasesOK'
    BY <1>0, <1>1, <1>5 DEF PhasesOK, Flush
  <2> QED BY <1>1, <1>2, <1>5, <2>1, <2>2 DEF TypeInv, Flush
<1>6. CASE Close
  <2>1. run' \in RunStates /\ last' \in Terminal \cup {"none", "running"}
    BY <1>0, <1>6, Members DEF Close, TypeOK, RunStates
  <2>2. TypeOK'
    BY <1>0, <1>1, <1>6, <2>1 DEF TypeOK, Close
  <2>3. PhasesOK'
    BY <1>0, <1>1, <1>6, Members DEF PhasesOK, Close
  <2> QED BY <1>1, <1>2, <1>6, <2>2, <2>3 DEF TypeInv, Close
<1>7. CASE CloseFail
  <2>1. used' \in [{"change", "runs", "crash", "loss", "retry"} -> Nat]
    BY <1>0, <1>7, UseTypes DEF CloseFail
  <2>2. run' \in RunStates
    BY <1>7, Members DEF CloseFail
  <2>3. TypeOK' /\ SameRows
    BY <1>0, <1>7, <2>1, <2>2 DEF TypeOK, CloseFail, SameRows
  <2>4. PhasesOK'
    BY <1>0, <1>7, Members DEF PhasesOK, CloseFail
  <2> QED BY <1>2, <1>7, <2>3, <2>4 DEF TypeInv, CloseFail
<1>8. CASE ResumeFail
  <2>1. run' \in RunStates /\ run'.pc = "close" /\ job' = [g \in Groups |-> NoJob]
    BY <1>0, <1>8 DEF ResumeFail, TypeOK, RunStates, Terminal
  <2>2. TypeOK' /\ SameRows
    BY <1>0, <1>8, <2>1, Members DEF TypeOK, ResumeFail, SameRows
  <2>3. PhasesOK'
    BY <2>1 DEF PhasesOK
  <2> QED BY <1>2, <1>8, <2>1, <2>2, <2>3 DEF TypeInv, ResumeFail
<1> QED BY <1>3, <1>4, <1>5, <1>6, <1>7, <1>8

(* Only a scan and the loss of the index change a row's identity. *)
LEMMA StepTypes ==
  ASSUME TypeInv, [Next]_vars
  PROVE  TypeInv' /\ (SameRows \/ ScanFile \/ LoseIndex)
<1>1. CASE UNCHANGED vars
  BY <1>1 DEF vars, TypeInv, TypeOK, RowsExist, RowExists, PhasesOK, SameRows
<1>2. CASE \E g \in Groups : GroupStep(g)
  <2>1. PICK g \in Groups : GroupStep(g)
    BY <1>2
  <2>2. CASE \E f \in Files : StageFile(g, f) \/ UploadFile(g, f) \/ UploadFileFail(g, f)
    BY <2>2, FileTypes
  <2>3. CASE ~ \E f \in Files : StageFile(g, f) \/ UploadFile(g, f) \/ UploadFileFail(g, f)
    BY <2>1, <2>3, ZipTypes DEF GroupStep
  <2> QED BY <2>2, <2>3
<1>3. CASE Next /\ ~ \E g \in Groups : GroupStep(g)
  <2>1. CASE \E f \in Files : ModifyFile(f) \/ DeleteFile(f) \/ BringBackFile(f) \/ RetryFile(f)
    BY <2>1, EnvironmentTypes
  <2>2. CASE \/ \E m \in Modes : StartRun(m)
             \/ \E how \in Terminal : Abort(how) \/ Halt(how)
             \/ ScanFile \/ EndScan \/ CommitFolders
    BY <2>2, ScanTypes
  <2>3. CASE Reconcile \/ NothingToUpload \/ Plan
    BY <2>3, PlanTypes
  <2>4. CASE PipeDone \/ Resume \/ ResumeFail \/ Flush \/ Close \/ CloseFail
    BY <2>4, EndTypes
  <2>5. CASE LoseIndex \/ Crash \/ ClearScanCache
    BY <2>5, EnvironmentTypes
  <2>6. CASE Idle
    BY <1>1, <2>6 DEF Idle
  <2> QED BY <1>3, <2>1, <2>2, <2>3, <2>4, <2>5, <2>6 DEF Next, EngineStep
<1> QED BY <1>1, <1>2, <1>3

(* Rows that exist have an id and a version, and the pipeline and the write
   buffer know only files with such a row and are empty when no run works. *)
LEMMA TypeInvariance == Spec => []TypeInv
<1>1. TypeInv /\ [Next]_vars => TypeInv'
  BY StepTypes
<1> QED BY <1>1, InitTypes, PTL DEF Spec

(* In every reachable state every variable has its type. *)
THEOREM TypeCorrectness == Spec => []TypeOK
<1>1. TypeInv => TypeOK
  BY DEF TypeInv
<1> QED BY <1>1, TypeInvariance, PTL
-----------------------------------------------------------------------------
(* Paused batches make progress: the unit one stops after was not completed. *)

(* A step of the pipeline leaves all of the run but its outcome. *)
LEMMA GroupRun ==
  ASSUME NEW g \in Groups, GroupStep(g)
  PROVE  run.pc = "upload" /\ done' = done /\ (run' = run \/ FailJob(g))
<1> USE DEF source, bucket, FileTable, Staging, Sending
<1>1. CASE StageZip(g) \/ StageZipFail(g) \/ PutIndex(g) \/ PutIndexFail(g)
  BY <1>1 DEF StageZip, StageZipFail, PutIndex, PutIndexFail
<1>2. CASE PutZip(g) \/ PutZipFail(g) \/ PutZipTaken(g)
  BY <1>2 DEF PutZip, PutZipFail, PutZipTaken
<1>3. CASE CommitZip(g) \/ CommitZipFail(g) \/ Drop(g)
  BY <1>3 DEF CommitZip, CommitZipFail, Drop
<1>4. CASE \E f \in Files : StageFile(g, f) \/ UploadFile(g, f) \/ UploadFileFail(g, f)
  BY <1>4 DEF StageFile, UploadFile, UploadFileFail
<1> QED BY <1>1, <1>2, <1>3, <1>4 DEF GroupStep

LEMMA StopIsNewStep ==
  ASSUME TypeInv, StopIsNew, [Next]_vars
  PROVE  StopIsNew'
<1> USE DEF source, bucket, FileTable
<1>0. run \in RunStates
  BY DEF TypeInv, TypeOK
<1>1. CASE ScanFile
  <2>1. run'.pc = "scan" /\ done' = done /\ run.pc = "scan"
    BY <1>0, <1>1 DEF ScanFile, RunStates
  <2>2. run'.stop # run.stop =>
          run'.stop = UnitOf(Walk[run.pos]) /\ run.mode = "full" /\ run'.stop \notin Skip
    BY <1>0, <1>1 DEF ScanFile, RunStates
  <2> QED BY <2>1, <2>2 DEF StopIsNew, Skip
<1>2. CASE EndScan
  <2>1. /\ run'.pc \in {"close", "reconcile"} /\ done' = done /\ run.pc = "scan"
        /\ run'.paused => run.pos <= Len(Walk)
        /\ run'.fin = Finished
        /\ run'.stop = Root
    BY <1>0, <1>2 DEF EndScan, Fresh
  <2>2. run'.paused => run.stop # Root
    <3>1. Len(Walk) \in Nat /\ run.pos \in Nat
      BY <1>0, SourceAssumption DEF RunStates
    <3>2. run.pos > Len(Walk) \/ Halts(Walk[run.pos])
      BY <1>2 DEF EndScan
    <3> QED BY <2>1, <3>1, <3>2 DEF Halts
  <2> QED BY <2>1, <2>2 DEF StopIsNew, Finished
<1>3. CASE CommitFolders
  <2>1. /\ run.pc = "commit" /\ run'.stop = run.stop
        /\ run'.pc \in {"scan", "close"} /\ ~run'.paused
    BY <1>0, <1>3 DEF CommitFolders, RunStates
  <2> QED BY <2>1 DEF StopIsNew
<1>4. CASE Crash \/ Close \/ CloseFail \/ \E m \in Modes : StartRun(m)
  <2>1. run' = Resting \/ \E m \in Modes : run' = Fresh(m)
    BY <1>4 DEF Crash, Close, CloseFail, StartRun
  <2>2. run'.stop = Root /\ ~run'.paused
    BY <2>1 DEF Resting, Fresh
  <2> QED BY <2>2 DEF StopIsNew
<1>5. CASE LoseIndex \/ ClearScanCache
  BY <1>5 DEF LoseIndex, ClearScanCache, StopIsNew
<1>6. CASE ~(ScanFile \/ EndScan \/ CommitFolders \/ Crash \/ Close \/ CloseFail
               \/ LoseIndex \/ ClearScanCache \/ \E m \in Modes : StartRun(m))
  <2>1. /\ done' = done /\ run'.paused = run.paused /\ run'.fin = run.fin
        /\ run'.stop = run.stop
        /\ run'.pc = "scan" => run' = run
        /\ run'.pc \in {"reconcile", "plan", "upload", "commit"} =>
             run.pc \in {"reconcile", "plan", "upload", "commit"}
    <3>1. CASE UNCHANGED vars
      BY <3>1 DEF vars
    <3>2. CASE \E g \in Groups : GroupStep(g)
      BY <1>0, <3>2, GroupRun DEF FailJob, RunStates
    <3>3. CASE \E f \in Files : ModifyFile(f) \/ DeleteFile(f) \/ BringBackFile(f) \/ RetryFile(f)
      BY <3>3 DEF ModifyFile, DeleteFile, BringBackFile, RetryFile
    <3>4. CASE \E how \in Terminal : Abort(how) \/ Halt(how)
      BY <1>0, <3>4 DEF Abort, Halt, RunStates
    <3>5. CASE Reconcile \/ NothingToUpload \/ Plan
      BY <1>0, <3>5 DEF Reconcile, NothingToUpload, AfterUpload, Plan, RunStates
    <3>6. CASE PipeDone \/ Resume \/ ResumeFail \/ Flush \/ Idle
      BY <1>0, <3>6
         DEF PipeDone, Resume, ResumeFail, Flush, Idle, vars, AfterUpload, Drained, RunStates
    <3> QED BY <1>6, <3>1, <3>2, <3>3, <3>4, <3>5, <3>6 DEF Next, EngineStep
  <2> QED BY <2>1 DEF StopIsNew
<1> QED BY <1>1, <1>2, <1>3, <1>4, <1>5, <1>6

(* Which steps end a batch or an upload phase. *)
LEMMA CommitFoldersOnly ==
  ASSUME TypeInv, [Next]_vars, run.pc = "commit", run'.pc = "scan"
  PROVE  CommitFolders
<1> USE DEF source, bucket, FileTable
<1>0. run \in RunStates
  BY DEF TypeInv, TypeOK
<1>1. CASE UNCHANGED vars
  BY <1>1 DEF vars
<1>2. CASE \E g \in Groups : GroupStep(g)
  BY <1>2, GroupRun
<1>3. CASE \E f \in Files : ModifyFile(f) \/ DeleteFile(f) \/ BringBackFile(f) \/ RetryFile(f)
  BY <1>3 DEF ModifyFile, DeleteFile, BringBackFile, RetryFile
<1>4. CASE \/ \E how \in Terminal : Abort(how) \/ Halt(how)
           \/ \E m \in Modes : StartRun(m)
           \/ LoseIndex \/ ClearScanCache \/ Crash
  BY <1>0, <1>4 DEF Abort, Halt, StartRun, LoseIndex, ClearScanCache, Crash,
                    RunStates, Resting, Fresh
<1>5. CASE ScanFile \/ EndScan \/ Reconcile \/ NothingToUpload \/ Plan
  BY <1>5 DEF ScanFile, EndScan, Reconcile, NothingToUpload, Plan
<1>6. CASE PipeDone \/ Resume \/ ResumeFail \/ Flush \/ Close \/ CloseFail \/ Idle
  BY <1>6 DEF PipeDone, Resume, ResumeFail, Flush, Close, CloseFail, Idle, Drained, vars
<1> QED BY <1>1, <1>2, <1>3, <1>4, <1>5, <1>6 DEF Next, EngineStep

LEMMA PlanOnly ==
  ASSUME TypeInv, [Next]_vars, run.pc = "plan", run'.pc \in {"upload", "commit"}
  PROVE  Plan \/ NothingToUpload
<1> USE DEF source, bucket, FileTable
<1>0. run \in RunStates
  BY DEF TypeInv, TypeOK
<1>1. CASE UNCHANGED vars
  BY <1>1 DEF vars
<1>2. CASE \E g \in Groups : GroupStep(g)
  BY <1>2, GroupRun
<1>3. CASE \E f \in Files : ModifyFile(f) \/ DeleteFile(f) \/ BringBackFile(f) \/ RetryFile(f)
  BY <1>3 DEF ModifyFile, DeleteFile, BringBackFile, RetryFile
<1>4. CASE \/ \E how \in Terminal : Abort(how) \/ Halt(how)
           \/ \E m \in Modes : StartRun(m)
           \/ LoseIndex \/ ClearScanCache \/ Crash
  BY <1>0, <1>4 DEF Abort, Halt, StartRun, LoseIndex, ClearScanCache, Crash,
                    RunStates, Resting, Fresh
<1>5. CASE ScanFile \/ EndScan \/ Reconcile \/ CommitFolders
  BY <1>5 DEF ScanFile, EndScan, Reconcile, CommitFolders
<1>6. CASE PipeDone \/ Resume \/ ResumeFail \/ Flush \/ Close \/ CloseFail \/ Idle
  BY <1>6 DEF PipeDone, Resume, ResumeFail, Flush, Close, CloseFail, Idle, Drained, vars
<1> QED BY <1>1, <1>2, <1>3, <1>4, <1>5, <1>6 DEF Next, EngineStep

(* A batch that paused completes a directory or file that was not completed:
   for any sources, walks and interleavings, the next batch of the run does
   not scan the same remainder again. *)
THEOREM PausedBatchesProgress == Spec => BatchesProgress
<1>1. Init => StopIsNew
  BY Members DEF Init, StopIsNew
<1>2. ASSUME TypeInv, StopIsNew, [Next]_vars, run.pc = "commit", run'.pc = "scan"
      PROVE  done # done'
  <2>1. CommitFolders
    BY <1>2, CommitFoldersOnly
  <2> QED BY <1>2, <2>1 DEF CommitFolders, StopIsNew, TypeInv, TypeOK, RunStates
<1>3. TypeInv /\ StopIsNew /\ [Next]_vars =>
        StopIsNew' /\ [run.pc = "commit" /\ run'.pc = "scan" => done # done']_vars
  BY <1>2, StopIsNewStep
<1> QED BY <1>1, <1>3, TypeInvariance, PTL DEF Spec, BatchesProgress
-----------------------------------------------------------------------------
(* What a completed run leaves: with one process that is not killed, calls that
   succeed and nobody who retries a file, no file waits for an upload that a
   completed folder hides. *)
Undisturbed == ~Flaky /\ MaxCrashes = 0 /\ MaxRetries = 0 /\ "scan" \notin Modes

LEMMA NoDisturbance ==
  ASSUME TypeOK, Undisturbed
  PROVE  ~Crash /\ ~CloseFail /\ \A f \in Files : ~RetryFile(f)
<1>1. ~Use("crash", MaxCrashes) /\ ~Use("retry", MaxRetries)
  BY DEF TypeOK, Undisturbed, Use
<1> QED BY <1>1 DEF Crash, CloseFail, RetryFile

NoNewWait == \A f \in Files : Waits(f)' => Waits(f)

LEMMA FlushedWait ==
  ASSUME TypeOK, FlushAll
  PROVE  NoNewWait
<1> SUFFICES ASSUME NEW f \in Files, Waits(f)' PROVE Waits(f)
  BY DEF NoNewWait
<1>1. row[f] \in Rows /\ row'[f] = Flushed(f)
  BY DEF TypeOK, FlushAll
<1> QED BY <1>1 DEF Waits, Flushed, Rows

(* A step that neither moves the run nor hands out work. *)
LEMMA AsideCommit ==
  ASSUME CommitInv, NoNewWait, done' \subseteq done, run' = run, job' = job
  PROVE  CommitInv'
<1>1. \A f \in Files : InPipeline(f) => InPipeline(f)'
  BY DEF InPipeline
<1>2. \A f \in Files : UnitOf(f)' = UnitOf(f)
  BY DEF UnitOf
<1> QED BY <1>1, <1>2 DEF CommitInv, NoNewWait

LEMMA EnvironmentCommit ==
  ASSUME TypeInv, CommitInv, Undisturbed,
         \/ \E f \in Files : ModifyFile(f) \/ DeleteFile(f) \/ BringBackFile(f) \/ RetryFile(f)
         \/ LoseIndex \/ ClearScanCache \/ Crash \/ CloseFail
         \/ Flush \/ Idle \/ UNCHANGED vars
  PROVE  CommitInv'
<1> USE DEF source, bucket, FileTable
<1>0. TypeOK
  BY DEF TypeInv
<1>1. CASE \E f \in Files : ModifyFile(f) \/ DeleteFile(f) \/ BringBackFile(f)
  <2>1. UNCHANGED <<row, buf, done, run, job>>
    BY <1>1 DEF ModifyFile, DeleteFile, BringBackFile
  <2> QED BY <2>1, AsideCommit DEF NoNewWait, Waits
<1>2. CASE LoseIndex
  <2>1. done' = {} /\ run' = run /\ job' = job /\ row' = [f \in Files |-> NoRow]
    BY <1>2 DEF LoseIndex
  <2>2. NoNewWait
    BY <2>1 DEF NoNewWait, Waits, NoRow
  <2> QED BY <2>1, <2>2, AsideCommit
<1>3. CASE ClearScanCache \/ Idle \/ UNCHANGED vars
  <2>1. UNCHANGED <<row, buf, run, job>> /\ done' \subseteq done
    BY <1>3 DEF ClearScanCache, Idle, vars
  <2> QED BY <2>1, AsideCommit DEF NoNewWait, Waits
<1>4. CASE Flush
  <2>1. FlushAll /\ UNCHANGED <<done, run, job>>
    BY <1>4 DEF Flush
  <2> QED BY <1>0, <2>1, FlushedWait, AsideCommit
<1> QED BY <1>0, <1>1, <1>2, <1>3, <1>4, NoDisturbance

(* A scan makes files wait outside the completed folders only; what it closes
   a batch with makes none wait. *)
LEMMA ScanCommit ==
  ASSUME TypeInv, CommitInv, ScanFile \/ EndScan
  PROVE  CommitInv'
<1> USE DEF source, bucket
<1>0. run \in RunStates /\ row \in [Files -> Rows] /\ run.mode = "full"
  BY DEF TypeInv, TypeOK, CommitInv, ScanFile, EndScan
<1>1. UNCHANGED <<buf, done>>
  BY DEF ScanFile, EndScan
<1>2. CASE ScanFile
  <2>1. run'.pc = "scan" /\ run'.mode = "full"
    BY <1>0, <1>2 DEF ScanFile, RunStates
  <2>2. \A f \in Files : row'[f] # row[f] => UnitOf(f) \notin done
    BY <1>0, <1>2 DEF ScanFile, FileTable, Skip
  <2> QED BY <1>1, <2>1, <2>2 DEF CommitInv, Waits, UnitOf
<1>3. CASE EndScan
  <2>1. run'.pc = "reconcile"
    BY <1>0, <1>3 DEF EndScan, Fresh
  <2>2. \A f \in Files : row'[f] = Unseen(f) \/ row'[f] = row[f]
    BY <1>3 DEF EndScan
  <2>3. \A f \in Files : row'[f].st = "pending" => row[f].st = "pending"
    BY <1>0, <2>2 DEF Unseen, Rows
  <2> QED BY <1>1, <2>1, <2>3 DEF CommitInv, Waits, UnitOf
<1> QED BY <1>2, <1>3

(* A plan takes every file that waits, as none is in a completed folder. *)
LEMMA PlanTakesAll ==
  ASSUME CommitInv, NEW f \in Files, Waits(f)
  PROVE  f \in ToUpload
BY DEF CommitInv, ToUpload, Waits, Skip

LEMMA PlannedJob ==
  ASSUME Plan, NEW f \in ToUpload
  PROVE  /\ FolderOf[f] \in Groups /\ job'[FolderOf[f]].st = "work"
         /\ f \in job'[FolderOf[f]].files
<1> DEFINE fs == ToUpload \cap MembersOf(FolderOf[f])
<1>1. FolderOf[f] \in Groups /\ f \in fs
  BY Constants DEF ToUpload, MembersOf
<1>2. job'[FolderOf[f]] = [NoJob EXCEPT !.st = "work", !.files = fs,
                                        !.zip = Cardinality(fs) >= ZipThresh]
  BY <1>1 DEF Plan
<1> HIDE DEF fs
<1> QED BY <1>1, <1>2 DEF NoJob

LEMMA PhaseCommit ==
  ASSUME TypeInv, CommitInv, Undisturbed,
         \/ Reconcile \/ NothingToUpload \/ Plan \/ CommitFolders
         \/ PipeDone \/ Resume \/ ResumeFail \/ Close
         \/ \E m \in Modes : StartRun(m)
         \/ \E how \in Terminal : Abort(how) \/ Halt(how)
  PROVE  CommitInv'
<1> USE DEF source, bucket, FileTable
<1>0. TypeOK /\ run \in RunStates /\ row \in [Files -> Rows]
  BY DEF TypeInv, TypeOK
<1>1. CASE Reconcile
  <2>1. PICK read \in SUBSET Sidecars : row' = [f \in Files |-> Rebound(f, read)]
    BY <1>1 DEF Reconcile
  <2>2. NoNewWait
    <3> SUFFICES ASSUME NEW f \in Files, Waits(f)' PROVE Waits(f)
      BY DEF NoNewWait
    <3>1. row'[f] = Rebound(f, read)
      BY <2>1
    <3>2. \/ Rebound(f, read) = row[f]
          \/ \E n : Rebound(f, read) = [row[f] EXCEPT !.st = "uploaded", !.up = TRUE,
                                                       !.key = n]
      BY <1>0, ReboundRow, Zenon
    <3>3. row'[f] = row[f] \/ row'[f].st = "uploaded"
      BY <1>0, <3>1, <3>2 DEF Rows
    <3> QED BY <1>1, <3>3 DEF Waits, Reconcile
  <2>3. done' = done /\ run'.pc = "plan"
    BY <1>0, <1>1 DEF Reconcile, RunStates
  <2> QED BY <2>2, <2>3 DEF CommitInv, NoNewWait, UnitOf
<1>2. CASE NothingToUpload
  <2>1. \A f \in Files : ~Waits(f)
    BY <1>2, PlanTakesAll DEF NothingToUpload
  <2>2. UNCHANGED <<row, buf, done>> /\ run'.mode = run.mode
    BY <1>0, <1>2 DEF NothingToUpload, RunStates
  <2>3. run'.pc = AfterUpload
    BY <1>0, <1>2 DEF NothingToUpload, RunStates
  <2> QED BY <2>1, <2>2, <2>3 DEF CommitInv, Waits, AfterUpload
<1>3. CASE Plan
  <2>1. UNCHANGED <<row, buf, done>> /\ run'.pc = "upload"
    BY <1>0, <1>3 DEF Plan, RunStates
  <2>2. \A f \in Files : Waits(f) => InPipeline(f)'
    BY <1>3, PlanTakesAll, PlannedJob DEF InPipeline
  <2> QED BY <2>1, <2>2 DEF CommitInv, Waits, UnitOf
<1>4. CASE CommitFolders
  <2>1. \A f \in Files : ~Waits(f)
    BY <1>4 DEF CommitFolders, CommitInv
  <2>2. /\ UNCHANGED <<row, buf>> /\ run'.pc \in {"scan", "close"}
        /\ run'.mode = run.mode /\ run.mode = "full"
    BY <1>0, <1>4 DEF CommitFolders, CommitInv, RunStates
  <2> QED BY <2>1, <2>2 DEF CommitInv, Waits
<1>5. CASE PipeDone
  <2>1. UNCHANGED <<row, buf, done>> /\ run'.mode = run.mode /\ run'.term = run.term
    BY <1>0, <1>5 DEF PipeDone, RunStates
  <2>2. run'.pc = IF run.term = "completed" THEN AfterUpload ELSE "close"
    BY <1>0, <1>5 DEF PipeDone, RunStates
  <2>3. \A f \in Files : ~InPipeline(f)
    BY <1>5 DEF PipeDone, Drained, InPipeline
  <2>4. run.term = "completed" => \A f \in Files : ~Waits(f)
    BY <1>5, <2>3 DEF PipeDone, Drained, CommitInv
  <2> QED BY <2>1, <2>2, <2>4 DEF CommitInv, Waits, AfterUpload, UnitOf
<1>6. CASE Resume \/ ResumeFail
  <2>1. FlushAll \/ UNCHANGED <<row, buf>>
    BY <1>6 DEF Resume, ResumeFail
  <2>2. NoNewWait
    BY <1>0, <2>1, FlushedWait DEF NoNewWait, Waits
  <2>3. done' = done /\ run'.pc \in {"reconcile", "close"}
    BY <1>0, <1>6 DEF Resume, ResumeFail, RunStates
  <2>4. run'.pc = "close" => run'.term = "failed"
    BY <1>0, <1>6 DEF Resume, ResumeFail, RunStates
  <2> QED BY <2>2, <2>3, <2>4 DEF CommitInv, NoNewWait, UnitOf
<1>7. CASE Close
  <2>1. FlushAll /\ done' = done /\ run' = Resting
    BY <1>7 DEF Close
  <2> QED BY <1>0, <2>1, FlushedWait, Members DEF CommitInv, NoNewWait, UnitOf
<1>8. CASE \E m \in Modes : StartRun(m)
  <2>1. PICK m \in Modes : run' = Fresh(m) /\ UNCHANGED <<row, buf, done>>
    BY <1>8 DEF StartRun
  <2>2. m \in {"full", "upload"}
    BY <1>0, BoundsAssumption DEF Undisturbed
  <2>3. run'.pc \in {"scan", "reconcile"} /\ (run'.pc = "scan" => run'.mode = "full")
    BY <2>1, <2>2 DEF Fresh
  <2> QED BY <2>1, <2>3 DEF CommitInv, Waits, UnitOf
<1>9. CASE \E how \in Terminal : Abort(how) \/ Halt(how)
  <2>1. /\ UNCHANGED <<row, buf, done>> /\ run'.term # "completed"
        /\ run'.pc \in {"close", "upload"}
    BY <1>0, <1>9 DEF Abort, Halt, RunStates
  <2> QED BY <2>1 DEF CommitInv, Waits, UnitOf
<1> QED BY <1>1, <1>2, <1>3, <1>4, <1>5, <1>6, <1>7, <1>8, <1>9

(* A job of whole files keeps what it has, but for the file that is moved. *)
LEMMA StagedPipeline ==
  ASSUME TypeOK, NEW g \in Groups, NEW f \in Files, NEW c \in Contents, Staged(g, f, c),
         ~job[g].zip, job[g].st \in {"work", "ind"}
  PROVE  /\ \A h \in Files : h # f /\ InPipeline(h) => InPipeline(h)'
         /\ c # Nothing => InPipeline(f)'
<1> DEFINE got  == [job[g].got EXCEPT ![f] = c]
           left == job[g].files \ {f}
           st   == IF left # {} THEN "work"
                   ELSE IF \E h \in Files : got[h] # Nothing THEN "ind" ELSE "done"
<1>1. job' = [job EXCEPT ![g].files = left, ![g].got = got, ![g].st = st]
  BY DEF Staged
<1>2. \A h \in Files : got[h] = IF h = f THEN c ELSE job[g].got[h]
  BY DEF TypeOK, Jobs
<1>3. \A h \in Files : h \in left \/ got[h] # Nothing =>
        /\ h \in left => st = "work"
        /\ got[h] # Nothing => st \in {"work", "ind"}
  OBVIOUS
<1>4. \A h \in Files : h # f => (h \in left <=> h \in job[g].files)
  OBVIOUS
<1> HIDE DEF got, left, st
<1>5. /\ \A k \in Groups \ {g} : job'[k] = job[k]
      /\ job'[g].zip = job[g].zip /\ job'[g].files = left /\ job'[g].got = got
      /\ job'[g].st = st
  BY <1>1 DEF TypeOK, Jobs
<1>6. ASSUME NEW h \in Files, h \in left \/ got[h] # Nothing
      PROVE  InPipeline(h)'
  BY <1>3, <1>5, <1>6 DEF InPipeline
<1>7. ASSUME NEW h \in Files, h # f, InPipeline(h)
      PROVE  InPipeline(h)'
  <2>1. PICK k \in Groups :
          \/ job[k].st \in {"work", "zip", "indexed", "put"} /\ h \in job[k].files
          \/ job[k].st \in {"work", "ind"} /\ ~job[k].zip /\ job[k].got[h] # Nothing
    BY <1>7 DEF InPipeline
  <2>2. CASE k # g
    BY <1>5, <2>1, <2>2 DEF InPipeline
  <2>3. CASE k = g
    BY <1>2, <1>4, <1>6, <1>7, <2>1, <2>3
  <2> QED BY <2>2, <2>3
<1> QED BY <1>2, <1>6, <1>7

(* What a step of a job leaves of the rows and marks, and what its job is. *)
LEMMA GroupWait ==
  ASSUME TypeOK, NEW g \in Groups, GroupStep(g)
  PROVE  NoNewWait
<1> USE DEF source, bucket, FileTable
<1>1. row \in [Files -> Rows]
  BY DEF TypeOK
<1>2. CASE UNCHANGED <<row, buf>>
  BY <1>2 DEF NoNewWait, Waits
<1>3. CASE CommitZip(g)
  BY <1>1, <1>3 DEF CommitZip, NoNewWait, Waits, Rows
<1>4. CASE \E f \in Files : StageFile(g, f) \/ UploadFileFail(g, f)
  <2>1. PICK f \in Files : UNCHANGED buf /\ (UNCHANGED row \/ MarkFailed(f))
    BY <1>4 DEF StageFile, UploadFileFail
  <2> QED BY <1>1, <2>1 DEF MarkFailed, NoNewWait, Waits, Rows
<1>5. CASE \E f \in Files : UploadFile(g, f)
  <2>1. UNCHANGED row /\ buf \subseteq buf'
    BY <1>5 DEF UploadFile
  <2> QED BY <2>1 DEF NoNewWait, Waits
<1>6. CASE \/ StageZip(g) \/ StageZipFail(g) \/ PutIndex(g) \/ PutIndexFail(g)
           \/ PutZip(g) \/ PutZipFail(g) \/ PutZipTaken(g) \/ CommitZipFail(g) \/ Drop(g)
  <2>1. UNCHANGED <<row, buf>>
    BY <1>6 DEF StageZip, StageZipFail, PutIndex, PutIndexFail, PutZip, PutZipFail,
                PutZipTaken, CommitZipFail, Drop
  <2> QED BY <1>2, <2>1
<1> QED BY <1>3, <1>4, <1>5, <1>6 DEF GroupStep

(* Until the run halts, a job loses no file but to its commit or its mark. *)
LEMMA GroupCommit ==
  ASSUME TypeInv, CommitInv, Undisturbed, NEW g \in Groups, GroupStep(g)
  PROVE  CommitInv'
<1> USE DEF source, bucket, FileTable
<1>0. TypeOK /\ job \in [Groups -> Jobs] /\ run \in RunStates /\ row \in [Files -> Rows]
  BY DEF TypeInv, TypeOK
<1>1. run.pc = "upload" /\ run'.pc = "upload" /\ done' = done
  BY <1>0, GroupRun DEF FailJob, RunStates
<1>2. NoNewWait
  BY <1>0, GroupWait
<1> SUFFICES ASSUME run'.term = "completed", NEW h \in Files, Waits(h)'
             PROVE  InPipeline(h)'
  BY <1>1, <1>2 DEF CommitInv, NoNewWait, UnitOf
<1>3. ~FailJob(g) /\ run' = run /\ run.term = "completed" /\ ~CanFail
  BY <1>0, GroupRun DEF FailJob, CanFail, Undisturbed, RunStates
<1>4. Waits(h) /\ InPipeline(h)
  BY <1>1, <1>2, <1>3 DEF NoNewWait, CommitInv
<1>5. PICK k \in Groups :
        \/ job[k].st \in {"work", "zip", "indexed", "put"} /\ h \in job[k].files
        \/ job[k].st \in {"work", "ind"} /\ ~job[k].zip /\ job[k].got[h] # Nothing
  BY <1>4 DEF InPipeline
<1>6. ASSUME job'[k].files = job[k].files, job'[k].got = job[k].got,
             job'[k].zip = job[k].zip, job'[k].st = job[k].st
      PROVE  InPipeline(h)'
  BY <1>5, <1>6 DEF InPipeline
<1>7. CASE StageZip(g)
  <2>1. /\ job[g].zip /\ job'[g].st = "zip" /\ job'[g].files = job[g].files
        /\ \A i \in Groups \ {g} : job'[i] = job[i]
    BY <1>0, <1>7 DEF StageZip, Jobs
  <2>2. CASE k = g
    BY <1>5, <2>1, <2>2 DEF InPipeline
  <2> QED BY <1>6, <2>1, <2>2
<1>8. CASE PutIndex(g) \/ PutZip(g)
  <2>1. /\ job[g].st \in {"zip", "indexed"} /\ job'[g].st \in {"indexed", "put"}
        /\ job'[g].files = job[g].files
        /\ \A i \in Groups \ {g} : job'[i] = job[i]
    BY <1>0, <1>8 DEF PutIndex, PutZip, Jobs
  <2>2. CASE k = g
    BY <1>5, <2>1, <2>2 DEF InPipeline
  <2> QED BY <1>6, <2>1, <2>2
<1>9. CASE CommitZip(g)
  <2>1. /\ job[g].st = "put" /\ \A i \in Groups \ {g} : job'[i] = job[i]
        /\ \A f \in job[g].files : row'[f].st = "uploaded"
    BY <1>0, <1>9 DEF CommitZip, Jobs, Rows
  <2>2. k # g
    BY <1>5, <2>1 DEF Waits
  <2> QED BY <1>6, <2>1, <2>2
<1>10. CASE \E f \in Files : StageFile(g, f)
  <2>1. PICK f \in Files : StageFile(g, f)
    BY <1>10
  <2>2. ~job[g].zip /\ job[g].st = "work" /\ f \in job[g].files
    BY <2>1 DEF StageFile, Staging
  <2>3. \/ \E c \in Contents : c # Nothing /\ Staged(g, f, c)
        \/ Staged(g, f, Nothing) /\ row' = [row EXCEPT ![f].st = "failed"]
    <3>1. Reusable(f, tmp[row[f].id]) => tmp[row[f].id] # Nothing /\ tmp[row[f].id] \in Contents
      BY <1>0, <2>2 DEF Reusable, TypeInv, TypeOK, RowsExist, RowExists
    <3>2. [file |-> f, ver |-> src[f]] \in Contents /\ [file |-> f, ver |-> src[f]] # Nothing
      BY <1>0, Constants DEF Contents, Nothing, TypeOK
    <3> QED BY <1>3, <2>1, <3>1, <3>2 DEF StageFile, MarkFailed
  <2>4. CASE \E c \in Contents : c # Nothing /\ Staged(g, f, c)
    BY <1>0, <1>4, <2>2, <2>4, StagedPipeline
  <2>5. CASE Staged(g, f, Nothing) /\ row' = [row EXCEPT ![f].st = "failed"]
    <3>1. h # f
      BY <1>0, <2>5 DEF Waits, Rows
    <3> QED BY <1>0, <1>4, <2>2, <2>5, <3>1, StagedPipeline, Members
  <2> QED BY <2>3, <2>4, <2>5
<1>11. CASE \E f \in Files : UploadFile(g, f)
  <2>1. PICK f \in Files : UploadFile(g, f)
    BY <1>11
  <2>2. Staged(g, f, Nothing) /\ job[g].st = "ind" /\ h # f
    BY <2>1 DEF UploadFile, Waits
  <2>3. CASE ~job[g].zip
    BY <1>0, <1>4, <2>2, <2>3, StagedPipeline, Members
  <2>4. CASE job[g].zip
    <3>1. k # g
      BY <1>5, <2>2, <2>4
    <3>2. job'[k] = job[k]
      BY <1>0, <2>2, <3>1 DEF Staged
    <3> QED BY <1>6, <3>2
  <2> QED BY <2>3, <2>4
<1> QED
  BY <1>3, <1>7, <1>8, <1>9, <1>10, <1>11
     DEF GroupStep, StageZipFail, PutIndexFail, PutZipFail, PutZipTaken, CommitZipFail,
         Drop, UploadFileFail, CanFail

LEMMA CommitInvariance ==
  ASSUME Undisturbed
  PROVE  Spec => []CommitInv
<1>1. Init => CommitInv
  BY Members DEF Init, CommitInv, Waits, NoRow
<1>2. TypeInv /\ CommitInv /\ [Next]_vars => CommitInv'
  BY EnvironmentCommit, ScanCommit, PhaseCommit, GroupCommit DEF Next, EngineStep
<1> QED BY <1>1, <1>2, TypeInvariance, PTL DEF Spec

(* In undisturbed runs, every file that waits when a run plans is planned, or
   uploaded already and only to be committed: whatever pauses, stops and resumes came before, no
   completed folder hides one. *)
THEOREM WaitingIsPlanned ==
  ASSUME Undisturbed
  PROVE  Spec => PendingIsPlanned
<1>1. ASSUME TypeInv, CommitInv, [Next]_vars, run.pc = "plan", run'.pc \in {"upload", "commit"},
             NEW f \in Files, row[f].st = "pending"
      PROVE  f \in buf \/ \E g \in Groups : f \in job'[g].files
  <2>1. f \in buf \/ f \in ToUpload
    BY <1>1, PlanTakesAll DEF Waits
  <2>2. Plan \/ NothingToUpload
    BY <1>1, PlanOnly
  <2> QED BY <2>1, <2>2, PlannedJob DEF NothingToUpload
<1>2. TypeInv /\ CommitInv /\ [Next]_vars =>
        [run.pc = "plan" /\ run'.pc \in {"upload", "commit"} =>
           \A f \in Files : row[f].st = "pending" =>
             f \in buf \/ \E g \in Groups : f \in job'[g].files]_vars
  BY <1>1
<1> QED BY <1>2, TypeInvariance, CommitInvariance, PTL DEF Spec, PendingIsPlanned

(* In undisturbed runs, a full or upload run that completes leaves no file
   waiting, whatever stopped and resumed it and whatever the source did. *)
THEOREM CompletionLeavesNoneWaiting ==
  ASSUME Undisturbed
  PROVE  Spec => CompletedLeavesNothingPending
<1>1. ASSUME TypeInv, CommitInv, Close, run.term = "completed", NEW f \in Files
      PROVE  row'[f].st # "pending"
  <2>1. row[f] \in Rows /\ row'[f] = Flushed(f) /\ ~Waits(f)
    BY <1>1 DEF TypeInv, TypeOK, CommitInv, Close, FlushAll
  <2> QED BY <2>1 DEF Waits, Flushed, Rows
<1>2. TypeInv /\ CommitInv =>
        [Close /\ run.term = "completed" /\ run.mode # "scan" =>
           \A f \in Files : row'[f].st # "pending"]_vars
  BY <1>1
<1> QED BY <1>2, TypeInvariance, CommitInvariance, PTL DEF Spec, CompletedLeavesNothingPending
=============================================================================
