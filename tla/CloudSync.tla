------------------------------- MODULE CloudSync -------------------------------
(***************************************************************************)
(* The two requests that make the index and the bucket agree: POST         *)
(* /api/sync (runSyncCloudCompare) reads the bucket into the index, POST   *)
(* /api/sync/delete-cloud-paths removes objects and marks their rows.      *)
(* Both look once that no backup run is active and then work for up to     *)
(* thirty minutes, so the two overlap each other and the runs that start   *)
(* meanwhile.  How a run scans and uploads is in BackupRun: here it is     *)
(* reduced to what it writes to rows and objects.                          *)
(***************************************************************************)
EXTENDS Naturals, FiniteSets, FiniteSetsExt

CONSTANTS
  Files,    \* a file's own key is the file itself
  NumZips,  \* how many archive names there are
  None,
  Large,    \* the versions <<file, version>> that are not zipped
  Prefixed, \* s3.prefix is not empty
  MaxChanges, MaxDeletes,
  MaxOverlaps, \* runs that start while a request is under way
  MaxFaults    \* failed calls and restarts

Zips == 1..NumZips
Keys == Files \cup Zips

ASSUME KeyAssumption ==
  /\ NumZips \in Nat \ {0} /\ Files \cap Zips = {} /\ None \notin Keys
  /\ Large \subseteq Files \X {1, 2} /\ Prefixed \in BOOLEAN

ASSUME BoundAssumption == {MaxChanges, MaxDeletes, MaxOverlaps, MaxFaults} \subseteq Nat

VARIABLES
  disk,  \* the version of each file on the source, 0 if it is not there
  row,   \* the files table
  obj,   \* the bucket: which version each object holds of each file
  run,   \* the backup run
  sync,  \* the sync request
  del,   \* the delete request
  used   \* how much of each bound is used up

vars == <<disk, row, obj, run, sync, del, used>>
-----------------------------------------------------------------------------
(* Version 0 of a row: size and time were taken from the object. *)
NoRow  == [st |-> "none", ver |-> 0, key |-> None]
Rows   == [st : {"none", "pending", "uploaded", "missing", "cloud_only"},
           ver : 0..2, key : Keys \cup {None}]
Empty  == [f \in Files |-> 0]

NoIndex == [f \in Files |-> None]

NoRun  == [step |-> "idle", seen |-> {}, todo |-> {}, put |-> {}, key |-> None]
NoSync == [step |-> "idle", idx |-> NoIndex, new |-> {},
           set |-> [f \in Files |-> "none"], calm |-> TRUE]
NoDel  == [step |-> "idle", paths |-> {}, idx |-> NoIndex, todo |-> {},
           gone |-> {}]

Use(what, bound) ==
  /\ used[what] < bound
  /\ used' = [used EXCEPT ![what] = @ + 1]
Fault == Use("fault", MaxFaults)

(* A first run has put the files there were into one archive. *)
Init ==
  /\ disk \in [Files -> {0, 1}]
  /\ row = [f \in Files |-> IF disk[f] = 0 THEN NoRow
                            ELSE [st |-> "uploaded", ver |-> 1, key |-> 1]]
  /\ obj = [k \in Keys |-> IF k = 1 THEN disk ELSE Empty]
  /\ run = NoRun /\ sync = NoSync /\ del = NoDel
  /\ used = [change |-> 0, delete |-> 0, overlap |-> 0, fault |-> 0]

(* The user edits, removes or brings back a file; what happens to a file
   that changes under a run is in BackupRun. *)
Change(f, v) ==
  /\ run.step = "idle" /\ disk[f] # v /\ Use("change", MaxChanges)
  /\ disk' = [disk EXCEPT ![f] = v]
  /\ UNCHANGED <<row, obj, run, sync, del>>

(* The program dies.  It may come up with an empty index (a new machine). *)
Restart(lost) ==
  /\ Fault
  /\ row' = IF lost THEN [f \in Files |-> NoRow] ELSE row
  /\ run' = NoRun /\ sync' = NoSync /\ del' = NoDel
  /\ UNCHANGED <<disk, obj>>

(* From now on the sync under way works from a listing, or from rows, that
   have changed. *)
Overtaken(s) == [s EXCEPT !.calm = FALSE]
-----------------------------------------------------------------------------
(* A backup run: the walk's batches, MarkMissing, and one upload after
   another. *)
StartRun ==
  /\ run.step = "idle"
  /\ IF sync.step = "idle" /\ del.step = "idle" THEN UNCHANGED used
     ELSE Use("overlap", MaxOverlaps)
  /\ run' = [NoRun EXCEPT !.step = "walk"]
  /\ UNCHANGED <<disk, row, obj, sync, del>>

(* Mutant of SeenAgain: a missing row that is back is only counted as seen. *)
SeenAgainStaysMissing(r, v) ==
  CASE r.st = "none" -> [st |-> "pending", ver |-> v, key |-> None]
    [] r.st # "none" /\ r.ver # v -> [r EXCEPT !.st = "pending", !.ver = v]
    [] r.ver = v /\ r.st = "cloud_only" -> [r EXCEPT !.st = "uploaded"]
    [] OTHER -> r

(* UpsertFileBatch: a changed row is pending and keeps its old key; an
   unchanged one that was cloud_only is uploaded, one that was missing is
   pending. *)
SeenAgain(r, v) ==
  CASE r.st = "none"       -> [st |-> "pending", ver |-> v, key |-> None]
    [] r.st # "none" /\ r.ver # v -> [r EXCEPT !.st = "pending", !.ver = v]
    [] r.ver = v /\ r.st = "cloud_only" -> [r EXCEPT !.st = "uploaded"]
    [] r.ver = v /\ r.st = "missing"    -> [r EXCEPT !.st = "pending"]
    [] OTHER -> r

Walk ==
  /\ run.step = "walk"
  /\ LET here == {f \in Files : disk[f] # 0}
     IN /\ row' = [f \in Files |-> IF f \in here THEN SeenAgain(row[f], disk[f])
                                   ELSE row[f]]
        /\ run' = [run EXCEPT !.step = "mark", !.seen = here]
  /\ sync' = Overtaken(sync)
  /\ UNCHANGED <<disk, obj, del, used>>

(* Mutant of Unseen: a status the other queries do not know. *)
UnseenDeleted(r) == IF r.st = "pending" THEN [r EXCEPT !.st = "deleted"] ELSE r

Unseen(r) ==
  CASE r.st = "pending"  -> [r EXCEPT !.st = "missing"]
    [] r.st = "uploaded" -> [r EXCEPT !.st = "cloud_only"]
    [] OTHER -> r

MarkMissing ==
  /\ run.step = "mark"
  /\ row' = [f \in Files |-> IF f \in run.seen THEN row[f] ELSE Unseen(row[f])]
  /\ run' = [run EXCEPT !.step = "reconcile", !.seen = {}]
  /\ sync' = Overtaken(sync)
  /\ UNCHANGED <<disk, obj, del, used>>

(* Mutant of Matching: by path alone. *)
MatchingByPath(f) == {z \in Zips : obj[z][f] # 0}

(* reconcileFromS3: a row never uploaded is bound to the first archive that has
   its path in its size; then the upload is planned. *)
Matching(f) == {z \in Zips : obj[z][f] = row[f].ver}
Rebound(f) ==
  IF row[f].st = "pending" /\ row[f].key = None /\ Matching(f) # {}
    THEN [row[f] EXCEPT !.st = "uploaded", !.key = Min(Matching(f))] ELSE row[f]

Reconcile ==
  /\ run.step = "reconcile"
  /\ row' = [f \in Files |-> Rebound(f)]
  /\ run' = [run EXCEPT !.step = "upload",
                         !.todo = {f \in Files : row'[f].st = "pending"}]
  /\ sync' = Overtaken(sync)
  /\ UNCHANGED <<disk, obj, del, used>>

(* Uploads of what was pending: the object first, the rows later.  A new
   archive takes the number after the highest in the bucket. *)
NextZip == 1 + Max({0} \cup {z \in Zips : obj[z] # Empty})

Put(F, k) ==
  /\ run.step = "upload" /\ run.put = {}
  /\ obj' = [obj EXCEPT ![k] = [f \in Files |-> IF f \in F THEN disk[f] ELSE 0]]
  /\ run' = [run EXCEPT !.put = F, !.key = k, !.todo = @ \ F]
  /\ sync' = Overtaken(sync)
  /\ UNCHANGED <<disk, row, del, used>>

PutOwn(f) == f \in run.todo /\ <<f, disk[f]>> \in Large /\ Put({f}, f)
PutZip(F) ==
  /\ F # {} /\ F \subseteq {f \in run.todo : <<f, disk[f]>> \notin Large}
  /\ NextZip \in Zips /\ Put(F, NextZip)

MarkUploaded ==
  /\ run.put # {}
  /\ row' = [f \in Files |-> IF f \in run.put
               THEN [row[f] EXCEPT !.st = "uploaded", !.key = run.key] ELSE row[f]]
  /\ run' = [run EXCEPT !.put = {}, !.key = None]
  /\ sync' = Overtaken(sync)
  /\ UNCHANGED <<disk, obj, del, used>>

(* A run ends when all is uploaded; it may also fail. *)
EndRun ==
  /\ run.step = "upload" /\ run.put = {}
  /\ IF run.todo = {} THEN UNCHANGED used ELSE Fault
  /\ run' = NoRun
  /\ UNCHANGED <<disk, row, obj, sync, del>>
-----------------------------------------------------------------------------
(* LoadCloudIndex: the archives in the order of the listing, the first that
   has a path keeps it, then the objects of their own. *)
Holders(f) == {z \in Zips : obj[z][f] # 0}
CloudIndex ==
  [f \in Files |-> IF Holders(f) # {} THEN Min(Holders(f))
                   ELSE IF obj[f][f] # 0 THEN f ELSE None]

(* handleSync, handleDeleteCloudPaths: the only look at currentRun. *)
Quiet == run.step = "idle"

StartSync ==
  /\ sync.step = "idle" /\ Quiet
  /\ sync' = [NoSync EXCEPT !.step = "load"]
  /\ UNCHANGED <<disk, row, obj, run, del, used>>

LoadSync ==
  /\ sync.step = "load"
  /\ sync' = [sync EXCEPT !.step = "read", !.idx = CloudIndex, !.calm = TRUE]
  /\ UNCHANGED <<disk, row, obj, run, del, used>>

(* Mutant of Compared: cloud_only rows are taken on trust. *)
ComparedKeepsGone(f, r) ==
  CASE sync.idx[f] # None /\ r.st = "missing"  -> "cloud_only"
    [] sync.idx[f] # None /\ r.st = "pending"  -> "uploaded"
    [] sync.idx[f] = None /\ r.st = "uploaded" -> "pending"
    [] OTHER -> "none"

(* What the sync makes of a row, if anything.  A row not on the source is
   cloud_only if the bucket's index has its path, else missing; one on the
   source is uploaded if it has it, else pending. *)
Compared(f, r) ==
  CASE sync.idx[f] # None /\ r.st \in {"missing", "cloud_only"} -> "cloud_only"
    [] sync.idx[f] # None /\ r.st = "pending"                   -> "uploaded"
    [] sync.idx[f] = None /\ r.st = "cloud_only"                -> "missing"
    [] sync.idx[f] = None /\ r.st = "uploaded"              -> "pending"
    [] sync.idx[f] = None /\ r.st = "pending" /\ r.key # None    -> "pending"
    [] OTHER -> "none"

(* ListFiles: the updates, and the rows to create, are built from this page. *)
ReadSync ==
  /\ sync.step = "read"
  /\ sync' = [sync EXCEPT !.step = "create",
        !.new = {f \in Files : row[f].st = "none" /\ sync.idx[f] # None},
        !.set = [f \in Files |-> Compared(f, row[f])]]
  /\ UNCHANGED <<disk, row, obj, run, del, used>>

(* CreateFiles: a path that has a row by now is left alone. *)
CreateFiles ==
  /\ sync.step = "create"
  /\ row' = [f \in Files |-> IF f \in sync.new /\ row[f].st = "none"
               THEN [st |-> "cloud_only", ver |-> 0, key |-> sync.idx[f]]
               ELSE row[f]]
  /\ sync' = [sync EXCEPT !.step = "update"]
  /\ UNCHANGED <<disk, obj, run, del, used>>

(* UpdateFiles: by id, whatever the row has become.  A cloud_only row takes its
   time from the object, a missing one keeps its key, a pending one loses it. *)
Updated(f, r) ==
  LET st == sync.set[f]
  IN [st  |-> st,
      ver |-> IF st = "cloud_only" THEN 0 ELSE r.ver,
      key |-> IF st = "missing" THEN r.key ELSE sync.idx[f]]

UpdateFiles ==
  /\ sync.step = "update"
  /\ row' = [f \in Files |-> IF sync.set[f] = "none" THEN row[f]
                             ELSE Updated(f, row[f])]
  /\ sync' = NoSync
  /\ UNCHANGED <<disk, obj, run, del, used>>

(* A failed listing, page or transaction, or the deadline, ends the request. *)
FailSync ==
  /\ sync.step # "idle" /\ Fault
  /\ sync' = NoSync
  /\ UNCHANGED <<disk, row, obj, run, del>>
-----------------------------------------------------------------------------
(* handleDeleteCloudPaths: the paths asked for are looked up in the bucket's
   index, their own objects are deleted one by one, then the archives. *)
StartDelete(F) ==
  /\ del.step = "idle" /\ Quiet /\ F # {} /\ Use("delete", MaxDeletes)
  /\ del' = [NoDel EXCEPT !.step = "load", !.paths = F]
  /\ UNCHANGED <<disk, row, obj, run, sync>>

(* The members of an archive, as the request knows them: the paths the index
   gives to it. *)
ZipContents(z) == {f \in Files : del.idx[f] = z}

LoadDelete ==
  /\ del.step = "load"
  /\ del' = [del EXCEPT !.step = "own", !.idx = CloudIndex,
               !.todo = {f \in del.paths : CloudIndex[f] = f}]
  /\ UNCHANGED <<disk, row, obj, run, sync, used>>

(* An object that cannot be deleted is reported and its row left alone. *)
DeleteOwn(f, ok) ==
  /\ del.step = "own" /\ f \in del.todo
  /\ IF ok THEN UNCHANGED used ELSE Fault
  /\ obj' = IF ok THEN [obj EXCEPT ![f] = Empty] ELSE obj
  /\ del' = [del EXCEPT !.todo = @ \ {f}, !.gone = IF ok THEN @ \cup {f} ELSE @]
  /\ sync' = Overtaken(sync)
  /\ UNCHANGED <<disk, row, run>>

(* Mutant of AllTargeted: one member asked for is enough. *)
AnyTargeted(z) == ZipContents(z) \cap del.paths # {}

(* Only archives all of whose members are asked for. *)
AllTargeted(z) == ZipContents(z) # {} /\ ZipContents(z) \subseteq del.paths

ListZips ==
  /\ del.step = "own" /\ del.todo = {}
  /\ del' = [del EXCEPT !.step = "zips", !.todo = {z \in Zips : AllTargeted(z)}]
  /\ UNCHANGED <<disk, row, obj, run, sync, used>>

(* The index has whole keys, and the prefix is put before them once more: with
   a prefix the call deletes nothing, and succeeds. *)
DeleteZip(z, ok) ==
  /\ del.step = "zips" /\ z \in del.todo
  /\ IF ok THEN UNCHANGED used ELSE Fault
  /\ obj' = IF ok /\ ~Prefixed THEN [obj EXCEPT ![z] = Empty] ELSE obj
  /\ del' = [del EXCEPT !.todo = @ \ {z},
                        !.gone = IF ok THEN @ \cup ZipContents(z) ELSE @]
  /\ sync' = Overtaken(sync)
  /\ UNCHANGED <<disk, row, run>>

(* MarkMissingByPaths: whatever the rows have become. *)
MarkGone(ok) ==
  /\ del.step = "zips" /\ del.todo = {}
  /\ IF ok THEN UNCHANGED used ELSE Fault
  /\ row' = [f \in Files |-> IF ok /\ f \in del.gone /\ row[f].st # "none"
               THEN [row[f] EXCEPT !.st = "missing"] ELSE row[f]]
  /\ del' = NoDel
  /\ sync' = Overtaken(sync)
  /\ UNCHANGED <<disk, obj, run>>

(* The index of the bucket cannot be loaded. *)
FailDelete ==
  /\ del.step = "load" /\ Fault
  /\ del' = NoDel
  /\ UNCHANGED <<disk, row, obj, run, sync>>
-----------------------------------------------------------------------------
RunSteps    == Walk \/ MarkMissing \/ Reconcile \/ MarkUploaded \/ EndRun
               \/ (\E f \in Files : PutOwn(f)) \/ \E F \in SUBSET Files : PutZip(F)
SyncSteps   == LoadSync \/ ReadSync \/ CreateFiles \/ UpdateFiles \/ FailSync
DeleteSteps == \/ LoadDelete \/ ListZips \/ FailDelete
               \/ \E ok \in BOOLEAN : \/ \E f \in Files : DeleteOwn(f, ok)
                                      \/ \E z \in Zips : DeleteZip(z, ok)
                                      \/ MarkGone(ok)

Next ==
  \/ \E f \in Files, v \in 0..2 : Change(f, v)
  \/ \E lost \in BOOLEAN : Restart(lost)
  \/ StartRun \/ RunSteps
  \/ StartSync \/ SyncSteps
  \/ (\E F \in SUBSET Files : StartDelete(F)) \/ DeleteSteps

Spec == Init /\ [][Next]_vars

(* Every request and every run goes on; runs are scheduled for ever, and the
   operator syncs again and again. *)
FairSpec ==
  /\ Spec
  /\ WF_vars(RunSteps) /\ WF_vars(SyncSteps) /\ WF_vars(DeleteSteps)
  /\ SF_vars(StartRun) /\ SF_vars(StartSync)
-----------------------------------------------------------------------------
(* Rows, objects and the three activities have their types, and the work of a
   request that is over is forgotten. *)
TypeOK ==
  /\ disk \in [Files -> 0..2]
  /\ row \in [Files -> Rows]
  /\ obj \in [Keys -> [Files -> 0..2]]
  /\ run \in [step : {"idle", "walk", "mark", "reconcile", "upload"}, seen : SUBSET Files,
              todo : SUBSET Files, put : SUBSET Files, key : Keys \cup {None}]
  /\ sync \in [step : {"idle", "load", "read", "create", "update"},
               idx : [Files -> Keys \cup {None}], new : SUBSET Files,
               set : [Files -> {"none", "pending", "uploaded", "missing", "cloud_only"}],
               calm : BOOLEAN]
  /\ del \in [step : {"idle", "load", "own", "zips"}, paths : SUBSET Files,
              idx : [Files -> Keys \cup {None}], todo : SUBSET Keys, gone : SUBSET Files]
  /\ used \in [change : 0..MaxChanges, delete : 0..MaxDeletes,
               overlap : 0..MaxOverlaps, fault : 0..MaxFaults]

InBucket(f) == \E k \in Keys : obj[k][f] # 0
Holds(f, v) == \E k \in Keys : obj[k][f] = v

(* A sync that nothing overtook leaves every row in the state the bucket calls
   for: uploaded or cloud_only exactly when some object has the path, and a row
   for every path some object has. *)
SyncMatchesBucket ==
  [][UpdateFiles /\ sync.calm =>
       \A f \in Files : row'[f].st \in {"uploaded", "cloud_only"} <=> InBucket(f)]_vars

(* Deleting some paths never takes another path out of the bucket, whatever
   runs and syncs do between the look at the bucket and the deletions. *)
UntargetedSurvives ==
  [][DeleteSteps => \A f \in Files \ del.paths : InBucket(f) => InBucket(f)']_vars

(* What the deletion's comment says: an archive goes only if every path it
   contains is asked for. *)
OnlyTargetedDeleted ==
  [][DeleteSteps => \A f \in Files \ del.paths, k \in Keys :
       obj[k][f] # 0 => obj'[k][f] # 0]_vars

(* A row takes a version for backed up, and only another one is in the bucket:
   the sync has taken the older version for this one, or a deletion has taken
   the newer one.  No later run or sync repairs it while the file stays. *)
Outdated(f) ==
  /\ row[f].st \in {"uploaded", "cloud_only"} /\ row[f].ver # 0
  /\ InBucket(f) /\ ~Holds(f, row[f].ver)

(* The scan and the reconcile of a run, whatever overlaps them, never make a
   row such: an old object is not taken for the version on the source (#103). *)
ScansTellVersions ==
  [][Walk \/ MarkMissing \/ Reconcile =>
       \A f \in Files : Outdated(f)' => Outdated(f)]_vars

(* Whatever order syncs, deletions, runs, faults and a lost index come in: in
   the end the bucket has the present version of every file on the source, but
   for the rows that hide an older one and once archive names have run out. *)
BackedUpInTheEnd ==
  \A f \in Files : <>[](disk[f] = 0 \/ Holds(f, disk[f]) \/ Outdated(f)
                         \/ NextZip \notin Zips)
================================================================================
