------------------------------ MODULE BackupRun ------------------------------
(***************************************************************************)
(* One backup run of internal/engine against the SQLite index              *)
(* (internal/db) and the bucket: scan, reconcile, plan, stage, upload,     *)
(* commit, finish; and what the environment may do meanwhile: the source   *)
(* changes, S3 and disk calls fail, the user stops or retries, the process *)
(* is killed, the index is lost.                                           *)
(*                                                                         *)
(* A file's content is the number of its version, born when the source     *)
(* last changed; a scan tells two versions apart by size and mtime, a zip  *)
(* sidecar by size alone.  Sources are one directory level deep, each      *)
(* directory fits in one zip (backup.zip_max_bytes is not reached), and at *)
(* most one process runs the engine (RunControl shows why).                *)
(***************************************************************************)
EXTENDS Naturals, Sequences, FiniteSets

CONSTANTS
  Files,       \* the source's files
  Folders,     \* its directories
  Root,        \* the group of the files outside every directory
  FolderOf,    \* [Files -> Folders \cup {Root}]
  Walk,        \* the files in the order source.Walk visits them
  SizeOf,      \* [Files -> [1..MaxVer -> Nat]]: the size of each version
  Backdated,   \* versions whose mtime is older than any copy (cp -p, mv)
  ZipThresh,   \* backup.zip_thresh
  RetryFailed, \* backup.retry_failed
  ScanPauses,  \* whether backup.scan_batch_bytes can be reached
  Flaky,       \* whether S3 and disk calls may fail
  UserStops,   \* whether the user stops, continues or cancels runs
  Modes,       \* the run modes that are started
  MaxVer, MaxSlots, MaxChanges, MaxRuns, MaxCrashes, MaxLosses, MaxRetries

ASSUME SourceAssumption ==
  /\ Files \cap Folders = {} /\ Root \notin Files \cup Folders
  /\ FolderOf \in [Files -> Folders \cup {Root}]
  /\ Walk \in Seq(Files)
  /\ MaxVer \in Nat \ {0}
  /\ SizeOf \in [Files -> [1..MaxVer -> Nat]]
  /\ IsFiniteSet(Files)

ASSUME BoundsAssumption ==
  /\ {MaxSlots, MaxChanges, MaxRuns, MaxCrashes, MaxLosses, MaxRetries}
       \subseteq Nat
  /\ ZipThresh \in Nat \ {0}
  /\ {RetryFailed, ScanPauses, Flaky, UserStops} \subseteq BOOLEAN
  /\ Modes \subseteq {"full", "scan", "upload"}

VARIABLES
  src, born, \* the version at each path now (0: deleted), the newest there was
  row,       \* the files table
  nextId,    \* its AUTOINCREMENT counter
  done,      \* run_scan_folders: the completed-folder cache
  last,      \* the status of the newest row of the runs table
  obj,       \* the object at each file's own key
  zip,       \* the zip at slot N of each directory: its members' versions
  idx,       \* its .index.txt sidecar: the versions whose sizes it records
  tmp,       \* TmpDir/ind-{id}
  buf,       \* the writeBuffer: uploads not committed to the index yet
  run,       \* the engine's own control state
  job,       \* the pipeline's work, one group per directory
  used       \* how much of each bound is used up

vars == <<src, born, row, nextId, done, last, obj, zip, idx, tmp, buf, run,
          job, used>>
source  == <<src, born>>
bucket  == <<obj, zip, idx>>
-----------------------------------------------------------------------------
Groups  == Folders \cup {Root}
Units   == Folders \cup Files
Slots   == 1..MaxSlots
Ids     == 1..Cardinality(Files)
Versions == [Files -> 0..MaxVer]       \* 0: not a member
Contents == [file : Files \cup {Root}, ver : 0..MaxVer]
Nothing  == [file |-> Root, ver |-> 0]
Empty    == [f \in Files |-> 0]
MembersOf(g) == {f \in Files : FolderOf[f] = g}

(* The unit a paused batch records as completed: the directory the walker is
   in, or the file itself when it is in none (scan.go 357-363). *)
UnitOf(f) == IF FolderOf[f] = Root THEN f ELSE FolderOf[f]

Status == {"absent", "pending", "failed", "uploaded", "cloud_only", "missing"}
Rows   == [st : Status, id : Ids \cup {0}, ver : 0..MaxVer,
           up : BOOLEAN,            \* uploaded_at (and s3_key) set
           key : {0} \cup Slots]    \* 0: the file's own key, n: zip slot n
NoRow  == [st |-> "absent", id |-> 0, ver |-> 0, up |-> FALSE, key |-> 0]
NoJob  == [st |-> "none", zip |-> FALSE, files |-> {},
           got |-> [f \in Files |-> Nothing], slot |-> 0, own |-> FALSE]

BucketBacked == {"uploaded", "cloud_only"}
Terminal     == {"completed", "failed", "stopped", "cancelled"}

(* The folders a full run neither walks nor uploads from: its skip-set. *)
Skip == IF run.mode = "full" THEN done ELSE {}

(* Where the bucket keeps the version a bucket-backed row points to. *)
StoredAt(f) ==
  IF row[f].key = 0
    THEN IF obj[f].file = f THEN obj[f].ver ELSE 0
    ELSE zip[FolderOf[f]][row[f].key][f]
-----------------------------------------------------------------------------
Fresh(m) == [pc |-> IF m = "upload" THEN "reconcile" ELSE "scan", mode |-> m,
             term |-> "completed", pos |-> 1, stop |-> Root, seen |-> {},
             paused |-> FALSE, fin |-> {}]

Resting == [Fresh("full") EXCEPT !.pc = "idle"]

Init ==
  /\ src = [f \in Files |-> 1] /\ born = src
  /\ row = [f \in Files |-> NoRow] /\ nextId = 1
  /\ done = {} /\ last = "none"
  /\ obj = [f \in Files |-> Nothing]
  /\ zip = [g \in Groups |-> [n \in Slots |-> Empty]] /\ idx = zip
  /\ tmp = [i \in Ids |-> Nothing] /\ buf = {}
  /\ run = Resting
  /\ job = [g \in Groups |-> NoJob]
  /\ used = [change |-> 0, runs |-> 0, crash |-> 0, loss |-> 0, retry |-> 0]

Use(what, bound) ==
  /\ used[what] < bound
  /\ used' = [used EXCEPT ![what] = @ + 1]
-----------------------------------------------------------------------------
(* The environment. *)

ModifyFile(f) ==
  /\ born[f] < MaxVer /\ Use("change", MaxChanges)
  /\ born' = [born EXCEPT ![f] = @ + 1] /\ src' = [src EXCEPT ![f] = born'[f]]
  /\ UNCHANGED <<row, nextId, done, last, bucket, tmp, buf, run, job>>

DeleteFile(f) ==
  /\ src[f] # 0 /\ Use("change", MaxChanges)
  /\ src' = [src EXCEPT ![f] = 0]
  /\ UNCHANGED <<born, row, nextId, done, last, bucket, tmp, buf, run, job>>

(* A deleted file comes back unchanged, its mtime preserved. *)
BringBackFile(f) ==
  /\ src[f] = 0 /\ Use("change", MaxChanges)
  /\ src' = [src EXCEPT ![f] = born[f]]
  /\ UNCHANGED <<born, row, nextId, done, last, bucket, tmp, buf, run, job>>

(* handleRetryFile / MarkPendingByIDs: allowed at any time. *)
RetryFile(f) ==
  /\ row[f].st # "absent" /\ Use("retry", MaxRetries)
  /\ row' = [row EXCEPT ![f].st = "pending", ![f].up = FALSE, ![f].key = 0]
  /\ UNCHANGED <<source, nextId, done, last, bucket, tmp, buf, run, job>>

(* The index.db is lost; a new one starts its ids at 1 again.  TmpDir and the
   bucket survive. *)
LoseIndex ==
  /\ run.pc = "idle" /\ Use("loss", MaxLosses)
  /\ row' = [f \in Files |-> NoRow] /\ nextId' = 1 /\ done' = {}
  /\ last' = "none"
  /\ UNCHANGED <<source, bucket, tmp, buf, run, job>>

(* A process kill: what was in memory is gone, the run row stays 'running'. *)
Crash ==
  /\ run.pc # "idle" /\ Use("crash", MaxCrashes)
  /\ buf' = {} /\ job' = [g \in Groups |-> NoJob]
  /\ run' = Resting
  /\ UNCHANGED <<source, row, nextId, done, last, bucket, tmp>>

(* handleDeleteScanCache: the completed-folder cache is emptied. *)
ClearScanCache ==
  /\ run.pc = "idle" /\ done # {} /\ done' = {}
  /\ UNCHANGED <<source, row, nextId, last, bucket, tmp, buf, run, job, used>>
-----------------------------------------------------------------------------
(* The engine: one run, phase by phase. *)

FileTable == <<row, nextId>>

StartRun(m) ==
  /\ run.pc = "idle" /\ Use("runs", MaxRuns)
  /\ run' = Fresh(m) /\ last' = "running"
  /\ UNCHANGED <<source, FileTable, done, bucket, tmp, buf, job>>

(* A phase returns an error: a failure, or the cancelled context. *)
Abort(how) ==
  /\ run.pc \in {"scan", "reconcile", "plan", "commit"}
  /\ \/ how = "failed" /\ Flaky
     \/ how = "cancelled" /\ UserStops
  /\ run' = [run EXCEPT !.pc = "close", !.term = how]
  /\ UNCHANGED <<source, FileTable, done, last, bucket, tmp, buf, job, used>>

(* Mutant of Upserted: a new row takes the counter's next value. *)
UpsertedWithNextId(f, v) ==
  IF row[f].st = "absent"
    THEN [NoRow EXCEPT !.st = "pending", !.id = nextId + 1, !.ver = v]
    ELSE row[f]

(* UpsertFileBatch, for one entry at the version the walk sees. *)
Upserted(f, v) ==
  CASE row[f].st = "absent" ->
         [NoRow EXCEPT !.st = "pending", !.id = nextId, !.ver = v]
    [] row[f].st # "absent" /\ row[f].ver # v ->
         [row[f] EXCEPT !.st = "pending", !.ver = v]
    [] row[f].st = "cloud_only" /\ row[f].ver = v ->
         [row[f] EXCEPT !.st = "uploaded"]
    [] row[f].st = "missing" /\ row[f].ver = v ->
         [row[f] EXCEPT !.st = "pending"]
    [] OTHER -> row[f]

(* The walk reaches an entry outside the unit the batch stops after. *)
Halts(f) ==
  /\ run.stop # Root /\ UnitOf(f) # run.stop
  /\ FolderOf[f] # Root \/ src[f] # 0

(* source.Scan: the next entry of the walk. *)
ScanFile ==
  /\ run.pc = "scan" /\ run.pos <= Len(Walk)
  /\ LET f == Walk[run.pos]
     IN /\ ~Halts(f)
        /\ IF UnitOf(f) \in Skip \/ src[f] = 0
             THEN /\ run' = [run EXCEPT !.pos = @ + 1]
                  /\ UNCHANGED FileTable
             ELSE /\ \/ row[f].st # "absent" /\ UNCHANGED nextId
                     \/ /\ row[f].st = "absent"
                        /\ nextId \in Ids /\ nextId' = nextId + 1
                  /\ row' = [row EXCEPT ![f] = Upserted(f, src[f])]
                  /\ \E stop \in {run.stop} \cup
                                 {u \in {UnitOf(f)} : run.stop = Root /\
                                      ScanPauses /\ run.mode = "full"} :
                       run' = [run EXCEPT !.pos = @ + 1, !.seen = @ \cup {f},
                                          !.stop = stop]
  /\ UNCHANGED <<source, done, last, bucket, tmp, buf, job, used>>

(* MarkMissing: the rows this scan did not see. *)
Unseen(f) ==
  CASE f \notin run.seen /\ row[f].st \in {"pending", "failed"} ->
         [row[f] EXCEPT !.st = "missing"]
    [] f \notin run.seen /\ row[f].st = "uploaded" ->
         [row[f] EXCEPT !.st = "cloud_only"]
    [] OTHER -> row[f]

(* Mutant of Finished: the unit the batch stopped after is forgotten. *)
FinishedWithoutStop ==
  {u \in Folders \ {run.stop} : \E i \in 1..(run.pos - 1) :
                     FolderOf[Walk[i]] = u /\ u \notin Skip}

(* The directories walked in full, and the unit the batch stopped after. *)
Finished ==
  {u \in Folders : \E i \in 1..(run.pos - 1) :
                     FolderOf[Walk[i]] = u /\ u \notin Skip}
    \cup ({run.stop} \ {Root})

EndScan ==
  /\ run.pc = "scan"
  /\ \/ run.pos > Len(Walk)
     \/ run.pos <= Len(Walk) /\ Halts(Walk[run.pos])
  /\ row' = IF run.stop = Root /\ Skip = {}
              THEN [f \in Files |-> Unseen(f)] ELSE row
  /\ run' = [Fresh(run.mode) EXCEPT
                !.pc = IF run.mode = "scan" THEN "close" ELSE "reconcile",
                !.paused = run.pos <= Len(Walk), !.fin = Finished]
  /\ UNCHANGED <<source, nextId, done, last, bucket, tmp, buf, job, used>>
-----------------------------------------------------------------------------
Sidecars  == {s \in Groups \X Slots : idx[s[1]][s[2]] # Empty}
ZipAt(s)  == zip[s[1]][s[2]]
Orphans   == {s \in Sidecars : ZipAt(s) = Empty}
SameSize(f, v, w) == v # 0 /\ w # 0 /\ SizeOf[f][v] = SizeOf[f][w]

(* Mutant of Listing: legacy path-only entries match too. *)
ListingByPath(f, read) ==
  {n \in Slots : <<FolderOf[f], n>> \in read \ Orphans
                   /\ idx[FolderOf[f]][n][f] # 0}

(* ReconcileZip's match: path and size, the zip being there. *)
Listing(f, read) ==
  {n \in Slots : /\ <<FolderOf[f], n>> \in read \ Orphans
                 /\ SameSize(f, idx[FolderOf[f]][n][f], row[f].ver)}

Rebound(f, read) ==
  IF row[f].st \in {"pending", "failed"} /\ ~row[f].up /\ Listing(f, read) # {}
    THEN [row[f] EXCEPT !.st = "uploaded", !.up = TRUE,
            !.key = CHOOSE n \in Listing(f, read) :
                      \A k \in Listing(f, read) : n <= k]
    ELSE row[f]

(* reconcileFromS3: "read" are the sidecars whose S3 and index calls work;
   the orphans among them are deleted, the others bound. *)
Reconcile ==
  /\ run.pc = "reconcile"
  /\ \E read \in SUBSET Sidecars :
       /\ Flaky \/ read = Sidecars
       /\ row' = [f \in Files |-> Rebound(f, read)]
       /\ idx' = [g \in Groups |-> [n \in Slots |->
                    IF <<g, n>> \in read \cap Orphans THEN Empty
                                                      ELSE idx[g][n]]]
  /\ run' = [run EXCEPT !.pc = "plan"]
  /\ UNCHANGED <<source, nextId, done, last, obj, zip, tmp, buf, job, used>>

ToUpload ==
  {f \in Files : /\ \/ row[f].st = "pending"
                    \/ row[f].st = "failed" /\ RetryFailed
                 /\ UnitOf(f) \notin Skip}

AfterUpload == IF run.mode = "full" THEN "commit" ELSE "close"

NothingToUpload ==
  /\ run.pc = "plan" /\ ToUpload = {}
  /\ run' = [run EXCEPT !.pc = AfterUpload]
  /\ UNCHANGED <<source, FileTable, done, last, bucket, tmp, buf, job, used>>

(* listPending, the skip-set filter, GroupFiles and sweepOrphanTmps. *)
Plan ==
  /\ run.pc = "plan" /\ ToUpload # {}
  /\ \/ tmp' = [i \in Ids |-> IF \E f \in ToUpload : row[f].id = i
                                THEN tmp[i] ELSE Nothing]
     \/ Flaky /\ UNCHANGED tmp
  /\ job' = [g \in Groups |->
       LET fs == ToUpload \cap MembersOf(g)
       IN IF fs = {} THEN NoJob
          ELSE [NoJob EXCEPT !.st = "work", !.files = fs,
                             !.zip = Cardinality(fs) >= ZipThresh]]
  /\ run' = [run EXCEPT !.pc = "upload"]
  /\ UNCHANGED <<source, FileTable, done, last, bucket, buf, used>>
-----------------------------------------------------------------------------
(* The pipeline: each group's job, in any order and interleaving.  A copy
   worker that is at work when the run halts may still finish: as if it had
   finished before. *)

Staging(g) == run.pc = "upload" /\ job[g].st = "work" /\ run.term = "completed"
Sending(g) == run.pc = "upload" /\ run.term # "cancelled"
CanFail    == Flaky \/ run.term = "cancelled"

(* The orchestrator's answer to a group's error: the first one decides. *)
FailJob(g) ==
  /\ run' = [run EXCEPT !.term = IF @ = "completed" THEN "failed" ELSE @]
  /\ job' = [job EXCEPT ![g].st = "done"]

(* A failing index call, or a cancelled context, leaves the row as it is. *)
MarkFailed(f) ==
  \/ run.term # "cancelled" /\ row' = [row EXCEPT ![f].st = "failed"]
  \/ CanFail /\ UNCHANGED row

(* Mutant of NextSlot: only the index is asked, not the bucket. *)
NextSlotByIndex(g, n) ==
  /\ \A f \in MembersOf(g) : row[f].key < n
  /\ n > 1 => \E f \in MembersOf(g) : row[f].key = n - 1

(* claimZipSlot: one past the greatest number in the bucket and the index. *)
NextSlot(g, n) ==
  /\ \A k \in Slots : zip[g][k] # Empty => k < n
  /\ n > 1 => zip[g][n - 1] # Empty

(* The zip's members, and what its sidecar says of them: the sizes of the rows
   the plan was made from, which a file changed since then no longer has. *)
Packed(g) == [f \in Files |-> IF f \in job[g].files THEN job[g].got[f].ver ELSE 0]
Listed(g) == [f \in Files |-> IF f \in job[g].files THEN row[f].ver ELSE 0]

StageZip(g) ==
  /\ Staging(g) /\ job[g].zip /\ \A f \in job[g].files : src[f] # 0
  /\ \E n \in Slots :
       /\ NextSlot(g, n)
       /\ job' = [job EXCEPT ![g].st = "zip", ![g].slot = n,
            ![g].got = [f \in Files |-> IF f \in job[g].files
                          THEN [file |-> f, ver |-> src[f]] ELSE Nothing]]
  /\ UNCHANGED <<source, FileTable, done, last, bucket, tmp, buf, run, used>>

StageZipFail(g) ==
  /\ Staging(g) /\ job[g].zip
  /\ Flaky \/ \E f \in job[g].files : src[f] = 0
  /\ FailJob(g)
  /\ UNCHANGED <<source, FileTable, done, last, bucket, tmp, buf, used>>

(* Mutant of Reusable: neither size nor mtime is compared. *)
ReusableIfThere(f, c) == c # Nothing

(* tryReuseTmp: the size is the row's and the copy is not older than the
   row's mtime; a copy of another file may be younger or older than it. *)
Reusable(f, c) ==
  /\ c # Nothing /\ SizeOf[c.file][c.ver] = SizeOf[f][row[f].ver]
  /\ c.file = f => c.ver >= row[f].ver \/ row[f].ver \in Backdated

(* One file of an individual group staged as c, or dropped from it. *)
Staged(g, f, c) ==
  LET got  == [job[g].got EXCEPT ![f] = c]
      left == job[g].files \ {f}
  IN job' = [job EXCEPT ![g].files = left, ![g].got = got,
       ![g].st = IF left # {} THEN "work"
                 ELSE IF \E h \in Files : got[h] # Nothing THEN "ind"
                 ELSE "done"]

StageFile(g, f) ==
  /\ Staging(g) /\ ~job[g].zip /\ f \in job[g].files
  /\ LET i == row[f].id
         copy == [file |-> f, ver |-> src[f]]
     IN \/ /\ Reusable(f, tmp[i]) /\ Staged(g, f, tmp[i])
           /\ UNCHANGED <<tmp, row>>
        \/ /\ Reusable(f, tmp[i]) /\ tmp[i].file = f => Flaky
           /\ \/ /\ src[f] # 0 /\ Staged(g, f, copy)
                 /\ tmp' = [tmp EXCEPT ![i] = copy] /\ UNCHANGED row
              \/ /\ src[f] = 0 \/ Flaky
                 /\ Staged(g, f, Nothing)
                 /\ tmp' = [tmp EXCEPT ![i] = Nothing]
                 /\ MarkFailed(f)
  /\ UNCHANGED <<source, nextId, done, last, bucket, buf, run, used>>

(* uploadStagedZip: the sidecar first.  One that already lists the same sizes
   is left alone and is not this run's own to delete. *)
SameListing(a, b) ==
  \A f \in Files : a[f] = b[f] \/ SameSize(f, a[f], b[f])

PutIndex(g) ==
  /\ Sending(g) /\ job[g].st = "zip"
  /\ LET own == ~SameListing(idx[g][job[g].slot], Listed(g))
     IN /\ idx' = IF own THEN [idx EXCEPT ![g][job[g].slot] = Listed(g)]
                         ELSE idx
        /\ job' = [job EXCEPT ![g].st = "indexed", ![g].own = own]
  /\ UNCHANGED <<source, FileTable, done, last, obj, zip, tmp, buf, run, used>>

PutIndexFail(g) ==
  /\ run.pc = "upload" /\ CanFail /\ job[g].st = "zip"
  /\ \/ UNCHANGED idx
     \/ idx' = [idx EXCEPT ![g][job[g].slot] = Listed(g)]
  /\ FailJob(g)
  /\ UNCHANGED <<source, FileTable, done, last, obj, zip, tmp, buf, used>>

PutZip(g) ==
  /\ Sending(g) /\ job[g].st = "indexed"
  /\ zip[g][job[g].slot] = Empty                       \* PutIfAbsent
  /\ zip' = [zip EXCEPT ![g][job[g].slot] = Packed(g)]
  /\ job' = [job EXCEPT ![g].st = "put"]
  /\ UNCHANGED <<source, FileTable, done, last, obj, idx, tmp, buf, run, used>>

(* The cleanup after an error deletes an own sidecar, and may itself fail. *)
CleanUpIndex(g) ==
  \/ ~job[g].own /\ UNCHANGED idx
  \/ CanFail /\ UNCHANGED idx
  \/ /\ job[g].own /\ run.term # "cancelled"
     /\ idx' = [idx EXCEPT ![g][job[g].slot] = Empty]

(* The error may hide a success. *)
PutZipFail(g) ==
  /\ run.pc = "upload" /\ CanFail /\ job[g].st = "indexed"
  /\ \/ UNCHANGED zip
     \/ zip' = [zip EXCEPT ![g][job[g].slot] = Packed(g)]
  /\ CleanUpIndex(g) /\ FailJob(g)
  /\ UNCHANGED <<source, FileTable, done, last, obj, tmp, buf, used>>

(* The put's answer is lost and the SDK's own retry finds the slot taken: the
   group goes back to the copy workers, for the next slot, unless the run
   halts. *)
PutZipTaken(g) ==
  /\ Sending(g) /\ Flaky /\ job[g].st = "indexed" /\ Use("crash", MaxCrashes)
  /\ zip' = [zip EXCEPT ![g][job[g].slot] = Packed(g)]
  /\ CleanUpIndex(g)
  /\ job' = [job EXCEPT ![g].st =
               IF run.term = "completed" THEN "work" ELSE "done"]
  /\ UNCHANGED <<source, FileTable, done, last, obj, tmp, buf, run>>

(* Mutant of CommitZip: the index is told before the zip is put. *)
CommitZipEarly(g) ==
  /\ Sending(g) /\ job[g].st = "indexed"
  /\ row' = [f \in Files |-> IF f \in job[g].files
               THEN [row[f] EXCEPT !.st = "uploaded", !.up = TRUE,
                                   !.key = job[g].slot] ELSE row[f]]
  /\ job' = [job EXCEPT ![g].st = "done"]
  /\ UNCHANGED <<source, nextId, done, last, bucket, tmp, buf, run, used>>

(* MarkZipUploadedBatch *)
CommitZip(g) ==
  /\ Sending(g) /\ job[g].st = "put"
  /\ row' = [f \in Files |-> IF f \in job[g].files
               THEN [row[f] EXCEPT !.st = "uploaded", !.up = TRUE,
                                   !.key = job[g].slot] ELSE row[f]]
  /\ job' = [job EXCEPT ![g].st = "done"]
  /\ UNCHANGED <<source, nextId, done, last, bucket, tmp, buf, run, used>>

CommitZipFail(g) ==
  /\ run.pc = "upload" /\ CanFail /\ job[g].st = "put" /\ FailJob(g)
  /\ UNCHANGED <<source, FileTable, done, last, bucket, tmp, buf, used>>

(* uploadOneIndividual: the mark goes to the write buffer. *)
UploadFile(g, f) ==
  /\ Sending(g) /\ job[g].st = "ind" /\ job[g].got[f] # Nothing
  /\ obj' = [obj EXCEPT ![f] = job[g].got[f]]
  /\ tmp' = [tmp EXCEPT ![row[f].id] = Nothing] /\ buf' = buf \cup {f}
  /\ Staged(g, f, Nothing)
  /\ UNCHANGED <<source, FileTable, done, last, zip, idx, run, used>>

(* The group stops at its first failed upload. *)
UploadFileFail(g, f) ==
  /\ run.pc = "upload" /\ CanFail
  /\ job[g].st = "ind" /\ job[g].got[f] # Nothing
  /\ \/ UNCHANGED obj
     \/ obj' = [obj EXCEPT ![f] = job[g].got[f]]
  /\ MarkFailed(f) /\ FailJob(g)
  /\ UNCHANGED <<source, nextId, done, last, zip, idx, tmp, buf, used>>

(* A group not sent yet is dropped once the run stops, fails or is cancelled. *)
Drop(g) ==
  /\ run.pc = "upload" /\ run.term # "completed"
  /\ job[g].st \in {"work", "zip", "ind"}
  /\ job' = [job EXCEPT ![g].st = "done"]
  /\ UNCHANGED <<source, FileTable, done, last, bucket, tmp, buf, run, used>>

(* The stop flag or the cancelled context is seen. *)
Halt(how) ==
  /\ run.pc = "upload" /\ UserStops
  /\ \/ how = "stopped" /\ run.term = "completed"
     \/ how = "cancelled" /\ run.term # "cancelled"
  /\ run' = [run EXCEPT !.term = how]
  /\ UNCHANGED <<source, FileTable, done, last, bucket, tmp, buf, job, used>>

Drained == run.pc = "upload" /\ \A g \in Groups : job[g].st \in {"none", "done"}

(* Mutant of PipeDone: a failed batch's folders are committed too. *)
PipeDoneAnyhow ==
  /\ Drained
  /\ run' = [run EXCEPT !.pc = AfterUpload]
  /\ job' = [g \in Groups |-> NoJob]
  /\ UNCHANGED <<source, FileTable, done, last, bucket, tmp, buf, used>>

PipeDone ==
  /\ Drained
  /\ run' = [run EXCEPT !.pc = IF run.term = "completed" THEN AfterUpload
                                                         ELSE "close"]
  /\ job' = [g \in Groups |-> NoJob]
  /\ UNCHANGED <<source, FileTable, done, last, bucket, tmp, buf, used>>
-----------------------------------------------------------------------------
(* MarkUploadedMany: by id, whatever the row says by now. *)
Flushed(f) ==
  IF f \in buf THEN [row[f] EXCEPT !.st = "uploaded", !.up = TRUE, !.key = 0]
               ELSE row[f]

FlushAll == row' = [f \in Files |-> Flushed(f)] /\ buf' = {}

(* Mutant of Resume: the rest of the plan is not planned again. *)
ResumeWithoutPlan ==
  /\ Drained /\ run.term = "stopped" /\ FlushAll
  /\ run' = [run EXCEPT !.pc = AfterUpload, !.term = "completed"]
  /\ job' = [g \in Groups |-> NoJob]
  /\ UNCHANGED <<source, nextId, done, last, bucket, tmp, used>>

(* runUploadPhaseResumable: the stop was withdrawn before it was committed. *)
Resume ==
  /\ Drained /\ run.term = "stopped" /\ FlushAll
  /\ run' = [run EXCEPT !.pc = "reconcile", !.term = "completed"]
  /\ job' = [g \in Groups |-> NoJob]
  /\ UNCHANGED <<source, nextId, done, last, bucket, tmp, used>>

(* The flush before the resume fails, or its context is cancelled. *)
ResumeFail ==
  /\ Drained /\ run.term = "stopped" /\ (Flaky \/ UserStops)
  /\ run' = [run EXCEPT !.pc = "close", !.term = "failed"]
  /\ job' = [g \in Groups |-> NoJob]
  /\ UNCHANGED <<source, FileTable, done, last, bucket, tmp, buf, used>>

(* The end of a batch in runBatchedFull. *)
CommitFolders ==
  /\ run.pc = "commit"
  /\ done' = done \cup run.fin
  /\ run' = [run EXCEPT !.pc = IF run.paused THEN "scan" ELSE "close",
                        !.paused = FALSE, !.fin = {}]
  /\ UNCHANGED <<source, FileTable, last, bucket, tmp, buf, job, used>>

(* The write buffer's ticker, or its inline flush. *)
Flush ==
  /\ run.pc # "idle" /\ buf # {} /\ FlushAll
  /\ UNCHANGED <<source, nextId, done, last, bucket, tmp, run, job, used>>

(* runWithID's end: the final drain, then FinishRun. *)
Close ==
  /\ run.pc = "close" /\ FlushAll
  /\ \/ last' = run.term
     \/ Flaky /\ UNCHANGED last
  /\ run' = Resting
  /\ UNCHANGED <<source, nextId, done, bucket, tmp, job, used>>

(* The final drain fails: its marks are lost and the run is not finished. *)
CloseFail ==
  /\ run.pc = "close" /\ Flaky /\ Use("crash", MaxCrashes)
  /\ buf # {} /\ buf' = {}
  /\ run' = Resting
  /\ UNCHANGED <<source, FileTable, done, last, bucket, tmp, job>>

(* Nothing is asked of the engine. *)
Idle == run.pc = "idle" /\ UNCHANGED vars
-----------------------------------------------------------------------------
GroupStep(g) ==
  \/ StageZip(g) \/ StageZipFail(g)
  \/ PutIndex(g) \/ PutIndexFail(g)
  \/ PutZip(g) \/ PutZipFail(g) \/ PutZipTaken(g)
  \/ CommitZip(g) \/ CommitZipFail(g) \/ Drop(g)
  \/ \E f \in Files : StageFile(g, f) \/ UploadFile(g, f) \/ UploadFileFail(g, f)

EngineStep ==
  \/ ScanFile \/ EndScan \/ Reconcile \/ NothingToUpload \/ Plan
  \/ \E g \in Groups : GroupStep(g)
  \/ PipeDone \/ CommitFolders \/ Close

Next ==
  \/ EngineStep \/ Flush \/ Resume \/ ResumeFail \/ CloseFail \/ Idle
  \/ \E m \in Modes : StartRun(m)
  \/ \E how \in Terminal : Abort(how) \/ Halt(how)
  \/ \E f \in Files : ModifyFile(f) \/ DeleteFile(f) \/ BringBackFile(f)
                        \/ RetryFile(f)
  \/ LoseIndex \/ ClearScanCache \/ Crash

Spec == Init /\ [][Next]_vars

(* Every S3, disk and index call returns, and Go schedules every goroutine. *)
FairSpec == Spec /\ WF_vars(EngineStep)
-----------------------------------------------------------------------------
(* Properties.  Those of the runs and the proofs; which hold under which
   CONSTANTS, and which the code breaks, the README tells. *)

Jobs == [st : {"none", "work", "zip", "indexed", "put", "ind", "done"},
         zip : BOOLEAN, files : SUBSET Files, got : [Files -> Contents],
         slot : {0} \cup Slots, own : BOOLEAN]

RunStates ==
  [pc : {"idle", "scan", "reconcile", "plan", "upload", "commit", "close"},
   mode : {"full", "scan", "upload"}, term : Terminal, pos : Nat \ {0},
   stop : Units \cup {Root}, seen : SUBSET Files, paused : BOOLEAN,
   fin : SUBSET Units]

(* Every variable is a value the program's state can take. *)
TypeOK ==
  /\ src \in [Files -> 0..MaxVer] /\ born \in [Files -> 1..MaxVer]
  /\ row \in [Files -> Rows] /\ nextId \in Nat
  /\ done \subseteq Units /\ last \in Terminal \cup {"none", "running"}
  /\ obj \in [Files -> Contents]
  /\ zip \in [Groups -> [Slots -> Versions]]
  /\ idx \in [Groups -> [Slots -> Versions]]
  /\ tmp \in [Ids -> Contents] /\ buf \subseteq Files
  /\ run \in RunStates /\ job \in [Groups -> Jobs]
  /\ used \in [{"change", "runs", "crash", "loss", "retry"} -> Nat]

(* A row the index calls uploaded or cloud_only points to an object that holds
   that very file, at the version the row describes or a later one: what the
   user would restore is never another file's bytes nor an older content. *)
UploadedIsBacked ==
  \A f \in Files : row[f].st \in BucketBacked =>
    row[f].up /\ StoredAt(f) # 0 /\ StoredAt(f) >= row[f].ver

(* What is staged for a file is that file, at the version of its row or a
   later one: a cached copy stands in for a fresh one. *)
StagedIsCurrent ==
  \A g \in Groups, f \in Files : job[g].got[f] # Nothing =>
    job[g].got[f].file = f /\ job[g].got[f].ver >= row[f].ver

(* What listed says of packed: every member, none at a newer version. *)
Describes(listed, packed) ==
  \A f \in Files : listed[f] <= packed[f] /\ (listed[f] = 0 <=> packed[f] = 0)

(* A zip's sidecar, when there is one, lists exactly its members, none at a
   version newer than the archived one: no retry, failed put, cleanup or crash
   leaves a sidecar that describes another zip. *)
SidecarDescribesZip ==
  \A s \in Sidecars \ Orphans : Describes(idx[s[1]][s[2]], ZipAt(s))

(* A full or upload run that ends "completed" leaves no file waiting: each is
   uploaded, failed or missing. *)
CompletedLeavesNothingPending ==
  [][Close /\ run.term = "completed" /\ run.mode # "scan" =>
       \A f \in Files : row'[f].st # "pending"]_vars

(* The upload phase of a full run plans every file that waits: neither the
   completed-folder cache nor an earlier run hides one, unless it has been
   uploaded and only its commit is outstanding. *)
PendingIsPlanned ==
  [][run.pc = "plan" /\ run'.pc \in {"upload", "commit"} =>
       \A f \in Files : row[f].st = "pending" =>
         f \in buf \/ \E g \in Groups : f \in job'[g].files]_vars

(* A paused full run never scans the same remainder twice. *)
BatchesProgress ==
  [][run.pc = "commit" /\ run'.pc = "scan" => done # done']_vars

(* Once started, a run ends, whatever fails. *)
RunsEnd == run.pc # "idle" ~> run.pc = "idle"
(* The parts of the proofs' inductive invariants. *)

(* A row that exists has an id and a version, and so do those that the plan,
   the pipeline and the write buffer know of. *)
RowExists(f) == row[f].st # "absent" /\ row[f].id \in Ids /\ row[f].ver # 0
RowsExist ==
  /\ \A f \in Files : row[f].st # "absent" => RowExists(f)
  /\ \A f \in buf : RowExists(f)
  /\ \A g \in Groups, f \in Files :
       f \in job[g].files \/ job[g].got[f] # Nothing => RowExists(f)

(* The pipeline is empty outside the upload phase, the write buffer when no
   run works. *)
PhasesOK ==
  /\ run.pc # "upload" => job = [g \in Groups |-> NoJob]
  /\ run.pc = "idle" => buf = {}

(* A run that cannot pause never does, so nothing is buffered in a scan. *)
NeverPaused ==
  run.stop = Root /\ ~run.paused /\ (run.pc = "scan" => buf = {})

(* No row describes a version that has not been there yet, and a file that is
   there is at its newest version. *)
VersionsOK ==
  \A f \in Files : src[f] \in {0, born[f]} /\ row[f].ver <= born[f]

(* A temporary copy holds some version of some file. *)
CopiesOK == \A i \in Ids : tmp[i] # Nothing => tmp[i].file \in Files /\ tmp[i].ver # 0

(* A buffered mark speaks of an object that is there. *)
BufferOK ==
  \A f \in buf : obj[f].file = f /\ obj[f].ver # 0 /\ obj[f].ver >= row[f].ver

(* Where a group's zip is on its way to the bucket. *)
ZipsOK ==
  \A g \in Groups :
    /\ job[g].files \subseteq MembersOf(g)
    /\ job[g].st \in {"zip", "indexed", "put"} =>
         job[g].slot \in Slots /\ \A f \in job[g].files : job[g].got[f] # Nothing
    /\ job[g].st \in {"zip", "indexed"} => zip[g][job[g].slot] = Empty
    /\ job[g].st = "indexed" => Describes(idx[g][job[g].slot], Packed(g))
    /\ job[g].st = "put" => zip[g][job[g].slot] = Packed(g)

TypeInv == TypeOK /\ RowsExist /\ PhasesOK
BackupInv ==
  /\ TypeInv /\ NeverPaused /\ VersionsOK /\ CopiesOK /\ BufferOK /\ ZipsOK
  /\ StagedIsCurrent /\ SidecarDescribesZip /\ UploadedIsBacked

(* What BackupPromise needs besides: no upload replaces a newer object. *)

(* While a run scans, reconciles or plans, no upload awaits its commit. *)
BufferQuiet == run.pc \in {"scan", "reconcile", "plan"} => buf = {}

(* The object at f's own key is at version v or older. *)
Unsurpassed(f, v) == obj[f].file = f => obj[f].ver <= v

(* The copy a retry would reuse is not older than the object. *)
CopiesFresh ==
  \A f \in Files :
    row[f].st # "absent" /\ tmp[row[f].id] = [file |-> f, ver |-> row[f].ver]
      => Unsurpassed(f, row[f].ver)

(* Nor is a copy on its way there, or the one it was made from. *)
InHandFresh ==
  \A g \in Groups, f \in Files : job[g].got[f] # Nothing /\ ~job[g].zip =>
    /\ f \in MembersOf(g) \ job[g].files
    /\ job[g].got[f].ver <= born[f] /\ Unsurpassed(f, job[g].got[f].ver)
    /\ tmp[row[f].id].file = f => tmp[row[f].id].ver >= job[g].got[f].ver

(* What a job still has to upload, the index does not claim. *)
Waiting ==
  \A g \in Groups :
    /\ job[g].st = "ind" => ~job[g].zip
    /\ job[g].st # "done" => \A f \in Files :
         f \in job[g].files \/ (~job[g].zip /\ job[g].got[f] # Nothing)
           => row[f].st \notin BucketBacked /\ f \notin buf

NewestInv ==
  /\ BackupInv /\ BufferQuiet /\ \A f \in Files : Unsurpassed(f, born[f])
  /\ CopiesFresh /\ InHandFresh /\ Waiting

(* What PendingIsPlanned and CompletedLeavesNothingPending need, in runs that
   only the user stops. *)

(* The pipeline has f, to be staged or sent. *)
InPipeline(f) ==
  \E g \in Groups :
    \/ job[g].st \in {"work", "zip", "indexed", "put"} /\ f \in job[g].files
    \/ job[g].st \in {"work", "ind"} /\ ~job[g].zip /\ job[g].got[f] # Nothing

(* A file that waits can wait for its commit only (in a folder that is done,
   or at the end), or be in the pipeline as well. *)
Waits(f) == row[f].st = "pending" /\ f \notin buf

CommitInv ==
  /\ run.pc \in {"scan", "commit"} => run.mode = "full"
  /\ \A f \in Files : Waits(f) => UnitOf(f) \notin done
  /\ run.pc = "upload" /\ run.term = "completed" =>
       \A f \in Files : Waits(f) => InPipeline(f)
  /\ run.pc = "commit" \/ (run.pc = "close" /\ run.term = "completed") =>
       \A f \in Files : ~Waits(f)

(* What BatchesProgress needs: the unit a batch stops after is new. *)
StopIsNew ==
  /\ run.pc = "scan" /\ run.stop # Root => run.stop \notin done
  /\ run.pc \in {"reconcile", "plan", "upload", "commit"} =>
       run.stop = Root /\ (run.paused => ~(run.fin \subseteq done))
-----------------------------------------------------------------------------
(* BackupPromise, read off the index and the bucket. *)

StoredVersions(f) ==
  {IF obj[f].file = f THEN obj[f].ver ELSE 0}
    \cup {zip[FolderOf[f]][n][f] : n \in Slots}

Claimed == [f \in Files |-> IF row[f].st \in BucketBacked THEN row[f].ver ELSE 0]
Safe    == [f \in Files |-> LET stored == StoredVersions(f)
                            IN CHOOSE v \in stored : \A w \in stored : w <= v]

Promise == INSTANCE BackupPromise WITH claim <- Claimed, safe <- Safe

(* Whatever the run, the source, the failures and the user do, the index
   claims only versions the bucket holds, and no step makes the newest stored
   version of a file older: no upload replaces a newer object by an older one
   or by another file's bytes. *)
KeepsPromise == Promise!Spec
=============================================================================
