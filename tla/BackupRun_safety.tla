-------------------------- MODULE BackupRun_safety --------------------------
(* What backs an uploaded row: the proof that the index never claims what the
   bucket does not hold, for runs that do not pause and contents that sizes
   tell apart. *)
EXTENDS BackupRun_proofs

(* No two contents have the same size. *)
SizesTellApart ==
  \A f, h \in Files, v, w \in 1..MaxVer :
    SizeOf[f][v] = SizeOf[h][w] => f = h /\ v = w

(* The parts of BackupInv that a step without uploads keeps. *)
BucketInv ==
  /\ VersionsOK /\ CopiesOK /\ BufferOK /\ ZipsOK
  /\ StagedIsCurrent /\ SidecarDescribesZip

LEMMA InitInv == Init => BackupInv
<1> SUFFICES ASSUME Init PROVE BackupInv
  OBVIOUS
<1>1. TypeInv
  BY InitTypes
<1>2. NeverPaused /\ VersionsOK /\ CopiesOK /\ BufferOK
  BY DEF Init, Resting, Fresh, NeverPaused, VersionsOK, CopiesOK, BufferOK, NoRow
<1>3. ZipsOK
  BY DEF Init, ZipsOK, NoJob
<1>4. StagedIsCurrent /\ UploadedIsBacked
  BY DEF Init, StagedIsCurrent, UploadedIsBacked, NoJob, NoRow, BucketBacked
<1>5. SidecarDescribesZip
  BY DEF Init, SidecarDescribesZip, Sidecars
<1> QED BY <1>1, <1>2, <1>3, <1>4, <1>5 DEF BackupInv

(* A step that changes neither the source, the bucket nor the copies, and
   keeps the jobs or ends them all. *)
LEMMA QuietStep ==
  ASSUME BackupInv, SameRows, UNCHANGED <<source, bucket, tmp>>, buf' \subseteq buf,
         job' = job \/ job' = [g \in Groups |-> NoJob]
  PROVE  BucketInv'
<1> USE DEF source, bucket
<1>1. VersionsOK' /\ CopiesOK' /\ BufferOK'
  BY DEF BackupInv, TypeInv, TypeOK, VersionsOK, CopiesOK, BufferOK, SameRows
<1>2. SidecarDescribesZip'
  BY DEF BackupInv, SidecarDescribesZip, Describes, Sidecars, Orphans, ZipAt
<1>3. CASE job' = job
  <2>1. StagedIsCurrent'
    BY <1>3 DEF BackupInv, StagedIsCurrent, SameRows
  <2>2. ZipsOK'
    BY <1>3 DEF BackupInv, ZipsOK, Describes, Packed
  <2> QED BY <1>1, <1>2, <2>1, <2>2 DEF BucketInv
<1>4. CASE job' = [g \in Groups |-> NoJob]
  <2>1. StagedIsCurrent'
    BY <1>4 DEF StagedIsCurrent, NoJob
  <2>2. ZipsOK'
    BY <1>4 DEF ZipsOK, NoJob
  <2> QED BY <1>1, <1>2, <2>1, <2>2 DEF BucketInv
<1> QED BY <1>3, <1>4

(* A step that makes no new claim. *)
LEMMA NoNewClaim ==
  ASSUME BackupInv, UNCHANGED <<obj, zip>>,
         \A f \in Files : \/ row'[f].st \notin BucketBacked
                          \/ /\ row[f].st \in BucketBacked
                             /\ row'[f].up = row[f].up /\ row'[f].key = row[f].key
                             /\ row'[f].ver = row[f].ver
  PROVE  UploadedIsBacked'
BY DEF BackupInv, UploadedIsBacked, StoredAt

(* The write buffer's marks are true. *)
LEMMA FlushIsBacked ==
  ASSUME BackupInv, FlushAll, UNCHANGED <<obj, zip>>
  PROVE  UploadedIsBacked'
<1> SUFFICES ASSUME NEW f \in Files, row'[f].st \in BucketBacked
             PROVE  /\ row'[f].up /\ StoredAt(f)' # 0 /\ StoredAt(f)' >= row'[f].ver
  BY DEF UploadedIsBacked
<1>1. row[f] \in Rows /\ row'[f] = Flushed(f)
  BY DEF FlushAll, BackupInv, TypeInv, TypeOK
<1>2. CASE f \in buf
  <2>1. row'[f].up /\ row'[f].key = 0 /\ row'[f].ver = row[f].ver
    BY <1>1, <1>2 DEF Flushed, Rows
  <2>2. obj[f].file = f /\ obj[f].ver # 0 /\ obj[f].ver >= row[f].ver
    BY <1>2 DEF BackupInv, BufferOK
  <2> QED BY <2>1, <2>2 DEF StoredAt
<1>3. CASE f \notin buf
  BY <1>1, <1>3 DEF Flushed, BackupInv, UploadedIsBacked, StoredAt
<1> QED BY <1>2, <1>3

(* The environment. *)
LEMMA EnvironmentInv ==
  ASSUME BackupInv,
         \/ \E f \in Files : \/ ModifyFile(f) \/ DeleteFile(f) \/ BringBackFile(f)
                             \/ RetryFile(f)
         \/ LoseIndex \/ Crash \/ ClearScanCache
  PROVE  BucketInv' /\ UploadedIsBacked'
<1> USE DEF source, bucket
<1>1. ASSUME NEW f \in Files, ModifyFile(f) \/ DeleteFile(f) \/ BringBackFile(f)
      PROVE  BucketInv' /\ UploadedIsBacked'
  <2>1. UNCHANGED <<row, bucket, tmp, buf, job>>
    BY <1>1 DEF ModifyFile, DeleteFile, BringBackFile
  <2>2. VersionsOK'
    <3> SUFFICES ASSUME NEW h \in Files
                 PROVE  src'[h] \in {0, born'[h]} /\ row'[h].ver <= born'[h]
      BY DEF VersionsOK
    <3>1. /\ src \in [Files -> 0..MaxVer] /\ born \in [Files -> 1..MaxVer]
          /\ src[h] \in {0, born[h]} /\ row[h].ver <= born[h] /\ row[h].ver \in Nat
      BY Constants DEF BackupInv, TypeInv, TypeOK, Rows, VersionsOK
    <3>2. CASE ModifyFile(f)
      BY <2>1, <3>1, <3>2, Constants DEF ModifyFile
    <3>3. CASE DeleteFile(f)
      BY <2>1, <3>1, <3>3 DEF DeleteFile
    <3>4. CASE BringBackFile(f)
      BY <2>1, <3>1, <3>4 DEF BringBackFile
    <3> QED BY <1>1, <3>2, <3>3, <3>4
  <2>3. CopiesOK' /\ BufferOK' /\ StagedIsCurrent' /\ UploadedIsBacked'
    BY <2>1 DEF BackupInv, CopiesOK, BufferOK, StagedIsCurrent, UploadedIsBacked, StoredAt
  <2>4. SidecarDescribesZip' /\ ZipsOK'
    BY <2>1 DEF BackupInv, SidecarDescribesZip, Describes, Sidecars, Orphans, ZipAt, ZipsOK,
                Packed
  <2> QED BY <2>2, <2>3, <2>4 DEF BucketInv
<1>2. ASSUME NEW f \in Files, RetryFile(f)
      PROVE  BucketInv' /\ UploadedIsBacked'
  <2>1. SameRows
    BY <1>2 DEF BackupInv, TypeInv, TypeOK, Rows, SameRows, RetryFile
  <2>2. BucketInv'
    BY <1>2, <2>1, QuietStep DEF RetryFile
  <2>3. row'[f].st = "pending" /\ \A h \in Files \ {f} : row'[h] = row[h]
    BY <1>2 DEF BackupInv, TypeInv, TypeOK, Rows, RetryFile
  <2>4. UploadedIsBacked'
    BY <1>2, <2>3, NoNewClaim DEF RetryFile, BucketBacked
  <2> QED BY <2>2, <2>4
<1>3. CASE LoseIndex
  <2>1. UNCHANGED <<source, bucket, tmp>> /\ buf' = {} /\ job' = [g \in Groups |-> NoJob]
    BY <1>3 DEF LoseIndex, BackupInv, TypeInv, PhasesOK
  <2>2. \A f \in Files : row'[f] = NoRow
    BY <1>3 DEF LoseIndex
  <2>3. VersionsOK' /\ UploadedIsBacked'
    BY <2>1, <2>2 DEF BackupInv, TypeInv, TypeOK, VersionsOK, UploadedIsBacked, NoRow,
                      BucketBacked
  <2>4. CopiesOK' /\ BufferOK' /\ StagedIsCurrent' /\ ZipsOK'
    BY <2>1 DEF BackupInv, CopiesOK, BufferOK, StagedIsCurrent, ZipsOK, NoJob
  <2>5. SidecarDescribesZip'
    BY <2>1 DEF BackupInv, SidecarDescribesZip, Describes, Sidecars, Orphans, ZipAt
  <2> QED BY <2>3, <2>4, <2>5 DEF BucketInv
<1>4. CASE Crash \/ ClearScanCache
  <2>1. /\ UNCHANGED <<row, source, bucket, tmp>> /\ buf' \subseteq buf
        /\ job' = job \/ job' = [g \in Groups |-> NoJob]
    BY <1>4 DEF Crash, ClearScanCache
  <2>2. SameRows
    BY <2>1 DEF SameRows
  <2> QED BY <2>1, <2>2, QuietStep, NoNewClaim
<1> QED BY <1>1, <1>2, <1>3, <1>4

(* The phases before and after the uploads. *)
LEMMA PhaseInv ==
  ASSUME BackupInv,
         \/ \E m \in Modes : StartRun(m)
         \/ \E how \in Terminal : Abort(how) \/ Halt(how)
         \/ NothingToUpload \/ CommitFolders \/ PipeDone \/ ResumeFail \/ Idle
  PROVE  BucketInv' /\ UploadedIsBacked'
<1>1. /\ UNCHANGED <<row, source, bucket, tmp, buf>>
      /\ job' = job \/ job' = [g \in Groups |-> NoJob]
  BY DEF StartRun, Abort, Halt, NothingToUpload, CommitFolders, PipeDone, ResumeFail, Idle,
         vars, FileTable, source, bucket
<1>2. SameRows
  BY <1>1 DEF SameRows
<1> QED BY <1>1, <1>2, QuietStep, NoNewClaim DEF bucket

LEMMA FlushInv ==
  ASSUME BackupInv, Resume \/ Flush \/ Close \/ CloseFail
  PROVE  BucketInv' /\ UploadedIsBacked'
<1>1. SameRows
  BY EndTypes DEF BackupInv
<1>2. /\ UNCHANGED <<source, bucket, tmp>> /\ buf' \subseteq buf
      /\ job' = job \/ job' = [g \in Groups |-> NoJob]
  BY DEF Resume, Flush, Close, CloseFail, FlushAll
<1>3. BucketInv'
  BY <1>1, <1>2, QuietStep
<1>4. CASE FlushAll
  BY <1>2, <1>3, <1>4, FlushIsBacked DEF bucket
<1>5. CASE row' = row
  BY <1>2, <1>3, <1>5, NoNewClaim DEF bucket
<1> QED BY <1>3, <1>4, <1>5 DEF Resume, Flush, Close, CloseFail, FileTable

(* A scan: no job runs and, as runs do not pause, nothing is buffered. *)
LEMMA ScanInv ==
  ASSUME BackupInv, ScanFile \/ EndScan
  PROVE  BucketInv' /\ UploadedIsBacked'
<1> USE DEF source, bucket, FileTable
<1>1. CASE EndScan
  <2>1. SameRows /\ UNCHANGED <<source, bucket, tmp, buf, job>>
    BY <1>1, ScanTypes DEF BackupInv, EndScan
  <2>2. \A f \in Files : \/ row'[f] = row[f]
                         \/ row'[f] = [row[f] EXCEPT !.st = "missing"]
                         \/ /\ row[f].st = "uploaded"
                            /\ row'[f] = [row[f] EXCEPT !.st = "cloud_only"]
    BY <1>1 DEF EndScan, Unseen
  <2>3. \A f \in Files : \/ row'[f].st \notin BucketBacked
                         \/ /\ row[f].st \in BucketBacked
                            /\ row'[f].up = row[f].up /\ row'[f].key = row[f].key
                            /\ row'[f].ver = row[f].ver
    <3> TAKE f \in Files
    <3>1. row[f] \in Rows
      BY DEF BackupInv, TypeInv, TypeOK
    <3> QED BY <2>2, <3>1 DEF Rows, BucketBacked
  <2> QED BY <2>1, <2>3, QuietStep, NoNewClaim
<1>2. CASE ScanFile
  <2> DEFINE f == Walk[run.pos]
  <2>1. UNCHANGED <<source, bucket, tmp>> /\ buf' = {} /\ job' = [g \in Groups |-> NoJob]
    BY <1>2 DEF ScanFile, BackupInv, NeverPaused, TypeInv, PhasesOK
  <2>2. /\ row' = row \/ /\ row' = [row EXCEPT ![f] = Upserted(f, src[f])]
                         /\ src[f] # 0
        /\ f \in Files
    <3>1. run.pos \in Nat \ {0} /\ run.pos <= Len(Walk)
      BY <1>2 DEF ScanFile, BackupInv, TypeInv, TypeOK, RunStates
    <3>2. f \in Files
      BY <3>1, SourceAssumption
    <3> QED BY <1>2, <3>2 DEF ScanFile
  <2>3. \A h \in Files : row'[h] = row[h] \/ (h = f /\ row'[h] = Upserted(f, src[f]))
    <3>1. row \in [Files -> Rows]
      BY DEF BackupInv, TypeInv, TypeOK
    <3>2. CASE row' = row
      BY <3>2
    <3>3. CASE row' = [row EXCEPT ![f] = Upserted(f, src[f])]
      <4> DEFINE new == Upserted(f, src[f])
      <4> HIDE DEF new, f
      <4>1. row' = [row EXCEPT ![f] = new] /\ f \in Files
        BY <2>2, <3>3 DEF new
      <4>2. \A h \in Files : row'[h] = row[h] \/ (h = f /\ row'[h] = new)
        BY <3>1, <4>1
      <4> QED BY <4>2 DEF new
    <3> QED BY <2>2, <3>2, <3>3
  <2>4. /\ Upserted(f, src[f]).ver <= born[f]
        /\ \/ Upserted(f, src[f]).st \notin BucketBacked
           \/ /\ row[f].st \in BucketBacked
              /\ Upserted(f, src[f]).up = row[f].up
              /\ Upserted(f, src[f]).key = row[f].key
              /\ Upserted(f, src[f]).ver = row[f].ver
    <3>1. row[f] \in Rows /\ row[f].ver <= born[f] /\ src[f] <= born[f]
      BY <2>2, Constants DEF BackupInv, TypeInv, TypeOK, VersionsOK
    <3> QED BY <3>1 DEF Upserted, Rows, NoRow, BucketBacked
  <2>5. VersionsOK'
    BY <2>1, <2>3, <2>4 DEF BackupInv, VersionsOK
  <2>6. UploadedIsBacked'
    BY <2>1, <2>3, <2>4, NoNewClaim
  <2>7. CopiesOK' /\ BufferOK' /\ StagedIsCurrent' /\ ZipsOK'
    BY <2>1 DEF BackupInv, CopiesOK, BufferOK, StagedIsCurrent, ZipsOK, NoJob
  <2>8. SidecarDescribesZip'
    BY <2>1 DEF BackupInv, SidecarDescribesZip, Describes, Sidecars, Orphans, ZipAt
  <2> QED BY <2>5, <2>6, <2>7, <2>8 DEF BucketInv
<1> QED BY <1>1, <1>2

(* A sidecar that lists a row's size lists its version, and its zip holds that
   version or a later one. *)
LEMMA ReconcileInv ==
  ASSUME BackupInv, SizesTellApart, Reconcile
  PROVE  BucketInv' /\ UploadedIsBacked'
<1> USE DEF source, bucket, FileTable
<1>1. PICK read \in SUBSET Sidecars :
        /\ row' = [f \in Files |-> Rebound(f, read)]
        /\ idx' = [g \in Groups |-> [n \in Slots |->
                     IF <<g, n>> \in read \cap Orphans THEN Empty ELSE idx[g][n]]]
  BY DEF Reconcile
<1>2. SameRows /\ UNCHANGED <<source, obj, zip, tmp, buf, job>>
  BY PlanTypes DEF BackupInv, Reconcile
<1>3. VersionsOK' /\ CopiesOK' /\ BufferOK' /\ StagedIsCurrent'
  BY <1>2 DEF BackupInv, VersionsOK, CopiesOK, BufferOK, StagedIsCurrent, SameRows, TypeInv,
              TypeOK
<1>4. ZipsOK'
  <2>1. job' = [g \in Groups |-> NoJob]
    BY <1>2 DEF BackupInv, TypeInv, PhasesOK, Reconcile
  <2> QED BY <2>1 DEF ZipsOK, NoJob
<1>5. SidecarDescribesZip'
  <2> SUFFICES ASSUME NEW g \in Groups, NEW n \in Slots, idx'[g][n] # Empty,
                      zip[g][n] # Empty
               PROVE  Describes(idx'[g][n], zip[g][n])
    BY <1>2 DEF SidecarDescribesZip, Sidecars, Orphans, ZipAt, Describes
  <2>1. idx'[g][n] = idx[g][n]
    BY <1>1
  <2>2. <<g, n>> \in Sidecars \ Orphans
    BY <2>1 DEF Sidecars, Orphans, ZipAt
  <2> QED BY <2>1, <2>2 DEF BackupInv, SidecarDescribesZip, ZipAt
<1>6. UploadedIsBacked'
  <2> SUFFICES ASSUME NEW f \in Files, row'[f].st \in BucketBacked
               PROVE  row'[f].up /\ StoredAt(f)' # 0 /\ StoredAt(f)' >= row'[f].ver
    BY DEF UploadedIsBacked
  <2>1. row[f] \in Rows /\ row'[f] = Rebound(f, read)
    BY <1>1 DEF BackupInv, TypeInv, TypeOK
  <2>2. CASE row'[f] = row[f]
    BY <1>2, <2>2 DEF BackupInv, UploadedIsBacked, StoredAt
  <2>3. CASE row'[f] # row[f]
    <3> DEFINE g == FolderOf[f]
    <3>1. PICK n \in Listing(f, read) :
            row'[f] = [row[f] EXCEPT !.st = "uploaded", !.up = TRUE, !.key = n]
      <4>1. TypeOK
        BY DEF BackupInv, TypeInv
      <4>2. \/ Rebound(f, read) = row[f]
            \/ \E n \in Listing(f, read) :
                 Rebound(f, read) = [row[f] EXCEPT !.st = "uploaded", !.up = TRUE, !.key = n]
        BY <4>1, ReboundRow
      <4> QED BY <2>1, <2>3, <4>2
    <3>2. row'[f].up /\ row'[f].key = n /\ row'[f].ver = row[f].ver
      BY <2>1, <3>1 DEF Rows
    <3>3. /\ n \in Slots /\ g \in Groups /\ <<g, n>> \in Sidecars \ Orphans
          /\ SameSize(f, idx[g][n][f], row[f].ver)
      BY Constants DEF Listing
    <3>4. idx[g][n][f] \in 0..MaxVer /\ row[f].ver \in 0..MaxVer
      BY <2>1, <3>3 DEF BackupInv, TypeInv, TypeOK, Versions, Rows
    <3>5. idx[g][n][f] = row[f].ver /\ row[f].ver # 0
      BY <3>3, <3>4, Constants DEF SameSize, SizesTellApart
    <3>6. Describes(idx[g][n], zip[g][n])
      BY <3>3 DEF BackupInv, SidecarDescribesZip, ZipAt
    <3>7. zip[g][n][f] # 0 /\ zip[g][n][f] >= row[f].ver
      BY <3>3, <3>5, <3>6 DEF Describes
    <3>8. StoredAt(f)' = zip[g][n][f]
      BY <1>2, <3>2, <3>3, Constants DEF StoredAt, Slots
    <3> QED BY <3>2, <3>7, <3>8
  <2> QED BY <2>2, <2>3
<1> QED BY <1>3, <1>4, <1>5, <1>6 DEF BucketInv

LEMMA PlanInv ==
  ASSUME BackupInv, Plan
  PROVE  BucketInv' /\ UploadedIsBacked'
<1> USE DEF source, bucket, FileTable
<1>1. UNCHANGED <<row, source, bucket, buf>>
  BY DEF Plan
<1>2. VersionsOK' /\ BufferOK' /\ UploadedIsBacked'
  BY <1>1 DEF BackupInv, VersionsOK, BufferOK, UploadedIsBacked, StoredAt
<1>3. CopiesOK'
  BY DEF BackupInv, TypeInv, TypeOK, CopiesOK, Plan
<1>4. SidecarDescribesZip'
  BY <1>1 DEF BackupInv, SidecarDescribesZip, Describes, Sidecars, Orphans, ZipAt
<1>5. \A g \in Groups : /\ job'[g].files \subseteq MembersOf(g)
                        /\ job'[g].got = [f \in Files |-> Nothing]
                        /\ job'[g].st \in {"none", "work"}
  <2> TAKE g \in Groups
  <2> DEFINE fs == ToUpload \cap MembersOf(g)
             zipped == Cardinality(fs) >= ZipThresh
  <2>1. job'[g] = IF fs = {} THEN NoJob
                  ELSE [NoJob EXCEPT !.st = "work", !.files = fs, !.zip = zipped]
    BY DEF Plan
  <2>2. fs \subseteq MembersOf(g)
    OBVIOUS
  <2> HIDE DEF fs, zipped
  <2> QED BY <2>1, <2>2 DEF NoJob
<1>6. StagedIsCurrent' /\ ZipsOK'
  BY <1>5 DEF StagedIsCurrent, ZipsOK
<1> QED BY <1>2, <1>3, <1>4, <1>6 DEF BucketInv

(* What a zip job has packed. *)
LEMMA PackedVersions ==
  ASSUME BackupInv, NEW g \in Groups, job[g].st \in {"zip", "indexed", "put"}
  PROVE  /\ job[g].slot \in Slots
         /\ \A f \in job[g].files :
              /\ f \in Files /\ FolderOf[f] = g /\ row[f].ver \in Nat \ {0}
              /\ Packed(g)[f] \in Nat /\ Packed(g)[f] >= row[f].ver
         /\ \A f \in Files \ job[g].files : Packed(g)[f] = 0
         /\ Packed(g) \in Versions /\ Listed(g) \in Versions
         /\ Describes(Listed(g), Packed(g))
<1>0. TypeOK /\ RowsExist /\ ZipsOK /\ StagedIsCurrent
  BY DEF BackupInv, TypeInv
<1>1. job[g] \in Jobs /\ job[g].got \in [Files -> Contents]
  BY <1>0 DEF TypeOK, Jobs
<1>2. job[g].slot \in Slots /\ \A f \in job[g].files : job[g].got[f] # Nothing
  BY <1>0 DEF ZipsOK
<1>3. ASSUME NEW f \in job[g].files
      PROVE  /\ f \in Files /\ FolderOf[f] = g /\ row[f].ver \in Nat \ {0}
             /\ job[g].got[f].ver \in Nat /\ job[g].got[f].ver >= row[f].ver
             /\ row[f].ver \in 0..MaxVer /\ job[g].got[f].ver \in 0..MaxVer
  <2>1. f \in Files /\ FolderOf[f] = g
    BY <1>0, <1>1 DEF ZipsOK, MembersOf, Jobs
  <2>2. row[f] \in Rows /\ row[f].ver # 0
    BY <1>0, <2>1 DEF TypeOK, RowsExist, RowExists
  <2>3. row[f].ver \in 0..MaxVer /\ job[g].got[f].ver \in 0..MaxVer
    BY <1>1, <2>1, <2>2 DEF Rows, Contents
  <2>4. job[g].got[f].ver >= row[f].ver
    BY <1>0, <1>2, <2>1 DEF StagedIsCurrent
  <2> QED BY <2>1, <2>2, <2>3, <2>4, Constants
<1>4. \A f \in Files : /\ Packed(g)[f] = IF f \in job[g].files THEN job[g].got[f].ver ELSE 0
                       /\ Listed(g)[f] = IF f \in job[g].files THEN row[f].ver ELSE 0
  BY DEF Packed, Listed
<1>5. Packed(g) \in Versions /\ Listed(g) \in Versions
  BY <1>3, Constants DEF Packed, Listed, Versions
<1>6. Describes(Listed(g), Packed(g))
  BY <1>3, <1>4 DEF Describes
<1> QED BY <1>2, <1>3, <1>4, <1>5, <1>6

(* A group's files are packed; nothing is sent yet. *)
LEMMA StageZipInv ==
  ASSUME BackupInv, NEW g \in Groups, StageZip(g)
  PROVE  BucketInv' /\ UploadedIsBacked'
<1> USE DEF source, bucket, FileTable
<1>0. TypeOK /\ VersionsOK /\ ZipsOK /\ StagedIsCurrent
  BY DEF BackupInv, TypeInv
<1>1. UNCHANGED <<row, source, bucket, tmp, buf>>
  BY DEF StageZip
<1>2. VersionsOK' /\ CopiesOK' /\ BufferOK' /\ UploadedIsBacked'
  BY <1>1 DEF BackupInv, VersionsOK, CopiesOK, BufferOK, UploadedIsBacked, StoredAt
<1>3. SidecarDescribesZip'
  BY <1>1 DEF BackupInv, SidecarDescribesZip, Describes, Sidecars, Orphans, ZipAt
<1>4. PICK n \in Slots :
        /\ NextSlot(g, n)
        /\ job' = [job EXCEPT ![g].st = "zip", ![g].slot = n,
             ![g].got = [f \in Files |-> IF f \in job[g].files
                           THEN [file |-> f, ver |-> src[f]] ELSE Nothing]]
  BY DEF StageZip
<1> DEFINE got == [f \in Files |-> IF f \in job[g].files
                     THEN [file |-> f, ver |-> src[f]] ELSE Nothing]
<1>5. /\ \A h \in Groups \ {g} : job'[h] = job[h]
      /\ job'[g].st = "zip" /\ job'[g].slot = n /\ job'[g].got = got
      /\ job'[g].files = job[g].files
  <2> HIDE DEF got
  <2>1. job' = [job EXCEPT ![g].st = "zip", ![g].slot = n, ![g].got = got]
    BY <1>4 DEF got
  <2> QED BY <1>0, <2>1 DEF TypeOK, Jobs
<1>6. zip[g][n] = Empty
  BY <1>4, Constants DEF NextSlot, Slots
<1>7. \A f \in Files : f \in job[g].files => got[f] = [file |-> f, ver |-> src[f]]
                                             /\ got[f] # Nothing
  BY Constants DEF Nothing
<1>8. StagedIsCurrent'
  <2> SUFFICES ASSUME NEW h \in Groups, NEW f \in Files, job'[h].got[f] # Nothing
               PROVE  job'[h].got[f].file = f /\ job'[h].got[f].ver >= row[f].ver
    BY <1>1 DEF StagedIsCurrent
  <2>1. CASE h # g
    BY <1>0, <1>5, <2>1 DEF StagedIsCurrent
  <2>2. CASE h = g
    <3>1. f \in job[g].files /\ got[f] = [file |-> f, ver |-> src[f]]
      BY <1>5, <1>7, <2>2
    <3>2. src[f] = born[f] /\ row[f].ver <= born[f] /\ row[f].ver \in Nat /\ born[f] \in Nat
      BY <1>0, <3>1, Constants DEF StageZip, VersionsOK, TypeOK, Rows
    <3> QED BY <1>5, <2>2, <3>1, <3>2
  <2> QED BY <2>1, <2>2
<1>9. ZipsOK'
  <2> SUFFICES ASSUME NEW h \in Groups
               PROVE  /\ job'[h].files \subseteq MembersOf(h)
                      /\ job'[h].st \in {"zip", "indexed", "put"} =>
                           job'[h].slot \in Slots /\ \A f \in job'[h].files : job'[h].got[f] # Nothing
                      /\ job'[h].st \in {"zip", "indexed"} => zip'[h][job'[h].slot] = Empty
                      /\ job'[h].st = "indexed" => Describes(idx'[h][job'[h].slot], Packed(h)')
                      /\ job'[h].st = "put" => zip'[h][job'[h].slot] = Packed(h)'
    BY DEF ZipsOK, MembersOf, Describes
  <2>1. CASE h # g
    BY <1>0, <1>1, <1>5, <2>1 DEF ZipsOK, Packed
  <2>2. CASE h = g
    BY <1>0, <1>1, <1>5, <1>6, <1>7, <2>2 DEF ZipsOK, MembersOf
  <2> QED BY <2>1, <2>2
<1> QED BY <1>2, <1>3, <1>8, <1>9 DEF BucketInv

(* A step of a group's zip job: whatever it does to the zip and the sidecar in
   the job's slot, no zip is replaced and a sidecar beside a zip describes it. *)
LEMMA ZipStep ==
  ASSUME BackupInv, NEW g \in Groups, NEW n, n = job[g].slot,
         UNCHANGED <<row, source, obj, tmp, buf>>,
         \A h \in Groups : /\ job'[h].files = job[h].files /\ job'[h].got = job[h].got
                           /\ job'[h].slot = job[h].slot
                           /\ h # g => job'[h].st = job[h].st,
         \A h \in Groups, k \in Slots :
           h # g \/ k # n => zip'[h][k] = zip[h][k] /\ idx'[h][k] = idx[h][k],
         job'[g].st \in {"zip", "indexed", "put"} => job[g].st \in {"zip", "indexed", "put"},
         job'[g].st \in {"zip", "indexed"} => zip'[g][n] = Empty,
         job'[g].st = "indexed" => Describes(idx'[g][n], Packed(g)),
         job'[g].st = "put" => zip'[g][n] = Packed(g),
         zip[g][n] # Empty => zip'[g][n] = zip[g][n],
         idx'[g][n] # Empty /\ zip'[g][n] # Empty => Describes(idx'[g][n], zip'[g][n])
  PROVE  BucketInv' /\ UploadedIsBacked'
<1> USE DEF source
<1>0. TypeOK /\ ZipsOK /\ StagedIsCurrent
  BY DEF BackupInv, TypeInv
<1>1. VersionsOK' /\ CopiesOK' /\ BufferOK'
  BY DEF BackupInv, VersionsOK, CopiesOK, BufferOK
<1>2. StagedIsCurrent'
  BY <1>0 DEF StagedIsCurrent
<1>3. ZipsOK'
  <2> SUFFICES ASSUME NEW h \in Groups
               PROVE  /\ job'[h].files \subseteq MembersOf(h)
                      /\ job'[h].st \in {"zip", "indexed", "put"} =>
                           job'[h].slot \in Slots /\ \A f \in job'[h].files : job'[h].got[f] # Nothing
                      /\ job'[h].st \in {"zip", "indexed"} => zip'[h][job'[h].slot] = Empty
                      /\ job'[h].st = "indexed" => Describes(idx'[h][job'[h].slot], Packed(h)')
                      /\ job'[h].st = "put" => zip'[h][job'[h].slot] = Packed(h)'
    BY DEF ZipsOK, MembersOf, Describes
  <2>1. Packed(h)' = Packed(h)
    BY DEF Packed
  <2>2. CASE h # g
    <3>1. job[h].st \in {"zip", "indexed", "put"} => job[h].slot \in Slots
      BY <1>0 DEF ZipsOK
    <3>2. job'[h].st \in {"zip", "indexed", "put"} =>
            /\ zip'[h][job'[h].slot] = zip[h][job[h].slot]
            /\ idx'[h][job'[h].slot] = idx[h][job[h].slot]
      BY <2>2, <3>1
    <3> QED BY <1>0, <2>1, <2>2, <3>2 DEF ZipsOK
  <2>3. CASE h = g
    BY <1>0, <2>1, <2>3 DEF ZipsOK
  <2> QED BY <2>2, <2>3
<1>4. SidecarDescribesZip'
  <2> SUFFICES ASSUME NEW h \in Groups, NEW k \in Slots, idx'[h][k] # Empty,
                      zip'[h][k] # Empty
               PROVE  Describes(idx'[h][k], zip'[h][k])
    BY DEF SidecarDescribesZip, Sidecars, Orphans, ZipAt, Describes
  <2>1. CASE h = g /\ k = n
    BY <2>1
  <2>2. CASE h # g \/ k # n
    <3>1. idx'[h][k] = idx[h][k] /\ zip'[h][k] = zip[h][k]
      BY <2>2
    <3>2. <<h, k>> \in Sidecars \ Orphans
      BY <3>1 DEF Sidecars, Orphans, ZipAt
    <3> QED BY <3>1, <3>2 DEF BackupInv, SidecarDescribesZip, ZipAt
  <2> QED BY <2>1, <2>2
<1>5. UploadedIsBacked'
  <2> SUFFICES ASSUME NEW f \in Files, row[f].st \in BucketBacked
               PROVE  row[f].up /\ StoredAt(f)' # 0 /\ StoredAt(f)' >= row[f].ver
    BY DEF UploadedIsBacked
  <2>1. row[f].up /\ StoredAt(f) # 0 /\ StoredAt(f) >= row[f].ver
    BY DEF BackupInv, UploadedIsBacked
  <2>2. row[f].key \in {0} \cup Slots /\ FolderOf[f] \in Groups
    BY <1>0, Constants DEF TypeOK, Rows
  <2>3. CASE row[f].key = 0
    BY <2>1, <2>3 DEF StoredAt
  <2>4. CASE row[f].key # 0
    <3>1. zip[FolderOf[f]][row[f].key] # Empty
      BY <2>1, <2>4 DEF StoredAt, Empty
    <3>2. zip'[FolderOf[f]][row[f].key] = zip[FolderOf[f]][row[f].key]
      BY <2>2, <2>4, <3>1
    <3> QED BY <2>1, <2>4, <3>2 DEF StoredAt
  <2> QED BY <2>3, <2>4
<1> QED BY <1>1, <1>2, <1>3, <1>4, <1>5 DEF BucketInv

(* A job's stage changes, its zip's contents and slot do not. *)
LEMMA JobMoves ==
  ASSUME BackupInv, NEW g \in Groups, NEW st, NEW own,
         \/ job' = [job EXCEPT ![g].st = st]
         \/ job' = [job EXCEPT ![g].st = st, ![g].own = own]
  PROVE  /\ job'[g].st = st
         /\ \A h \in Groups : /\ job'[h].files = job[h].files /\ job'[h].got = job[h].got
                              /\ job'[h].slot = job[h].slot
                              /\ h # g => job'[h].st = job[h].st
BY DEF BackupInv, TypeInv, TypeOK, Jobs

LEMMA DropInv ==
  ASSUME BackupInv, NEW g \in Groups, StageZipFail(g) \/ CommitZipFail(g) \/ Drop(g)
  PROVE  BucketInv' /\ UploadedIsBacked'
<1>1. /\ UNCHANGED <<row, source, bucket, tmp, buf>>
      /\ job' = [job EXCEPT ![g].st = "done"]
  BY DEF StageZipFail, CommitZipFail, Drop, FailJob, FileTable
<1>2. /\ job'[g].st = "done"
      /\ \A h \in Groups : /\ job'[h].files = job[h].files /\ job'[h].got = job[h].got
                           /\ job'[h].slot = job[h].slot
                           /\ h # g => job'[h].st = job[h].st
  BY <1>1, JobMoves
<1>3. VersionsOK' /\ CopiesOK' /\ BufferOK' /\ UploadedIsBacked'
  BY <1>1 DEF BackupInv, VersionsOK, CopiesOK, BufferOK, UploadedIsBacked, StoredAt,
              source, bucket
<1>4. SidecarDescribesZip'
  BY <1>1 DEF BackupInv, SidecarDescribesZip, Describes, Sidecars, Orphans, ZipAt, bucket
<1>5. StagedIsCurrent' /\ ZipsOK'
  BY <1>1, <1>2 DEF BackupInv, StagedIsCurrent, ZipsOK, Packed, Describes, MembersOf, bucket
<1> QED BY <1>3, <1>4, <1>5 DEF BucketInv

(* The sidecar in the slot is, or becomes, the one of the zip to come. *)
LEMMA PutIndexInv ==
  ASSUME BackupInv, SizesTellApart, NEW g \in Groups, PutIndex(g) \/ PutIndexFail(g)
  PROVE  BucketInv' /\ UploadedIsBacked'
<1> DEFINE n == job[g].slot
<1>0. job[g].st = "zip" /\ TypeOK /\ ZipsOK
  BY DEF PutIndex, PutIndexFail, BackupInv, TypeInv
<1>1. /\ n \in Slots /\ zip[g][n] = Empty
      /\ Listed(g) \in Versions /\ Describes(Listed(g), Packed(g))
  BY <1>0, PackedVersions DEF ZipsOK
<1>2. /\ UNCHANGED <<row, source, obj, zip, tmp, buf>>
      /\ idx' = idx \/ idx' = [idx EXCEPT ![g][n] = Listed(g)]
  BY DEF PutIndex, PutIndexFail, FileTable
<1>3. \A h \in Groups, k \in Slots : h # g \/ k # n => idx'[h][k] = idx[h][k]
  BY <1>0, <1>1, <1>2 DEF TypeOK
<1>4. CASE PutIndex(g)
  <2>1. PICK own \in BOOLEAN : job' = [job EXCEPT ![g].st = "indexed", ![g].own = own]
    BY <1>4 DEF PutIndex
  <2>2. /\ job'[g].st = "indexed"
        /\ \A h \in Groups : /\ job'[h].files = job[h].files /\ job'[h].got = job[h].got
                             /\ job'[h].slot = job[h].slot
                             /\ h # g => job'[h].st = job[h].st
    BY <2>1, JobMoves
  <2>3. idx'[g][n] = Listed(g)
    <3>1. CASE ~SameListing(idx[g][n], Listed(g))
      BY <1>0, <1>1, <1>4, <3>1 DEF PutIndex, TypeOK
    <3>2. CASE SameListing(idx[g][n], Listed(g))
      <4>1. idx' = idx /\ idx[g][n] \in Versions
        BY <1>0, <1>1, <1>4, <3>2 DEF PutIndex, TypeOK
      <4>2. \A f \in Files : idx[g][n][f] = Listed(g)[f]
        <5> SUFFICES ASSUME NEW f \in Files PROVE idx[g][n][f] = Listed(g)[f]
          OBVIOUS
        <5>1. idx[g][n][f] \in 0..MaxVer /\ Listed(g)[f] \in 0..MaxVer
          BY <1>1, <4>1 DEF Versions
        <5>2. idx[g][n][f] = Listed(g)[f] \/ SameSize(f, idx[g][n][f], Listed(g)[f])
          BY <3>2 DEF SameListing
        <5>3. ASSUME SameSize(f, idx[g][n][f], Listed(g)[f])
              PROVE  idx[g][n][f] = Listed(g)[f]
          BY <5>1, <5>3, Constants DEF SameSize, SizesTellApart
        <5> QED BY <5>2, <5>3
      <4> QED BY <1>1, <4>1, <4>2 DEF Versions
    <3> QED BY <3>1, <3>2
  <2> HIDE DEF n
  <2>4. n = job[g].slot
    BY DEF n
  <2> QED BY <1>0, <1>1, <1>2, <1>3, <2>2, <2>3, <2>4, ZipStep
<1>5. CASE PutIndexFail(g)
  <2>1. job' = [job EXCEPT ![g].st = "done"]
    BY <1>5 DEF PutIndexFail, FailJob
  <2>2. /\ job'[g].st = "done"
        /\ \A h \in Groups : /\ job'[h].files = job[h].files /\ job'[h].got = job[h].got
                             /\ job'[h].slot = job[h].slot
                             /\ h # g => job'[h].st = job[h].st
    BY <2>1, JobMoves
  <2> HIDE DEF n
  <2>3. n = job[g].slot
    BY DEF n
  <2> QED BY <1>1, <1>2, <1>3, <2>2, <2>3, ZipStep
<1> QED BY <1>4, <1>5
(* The zip is put once, into an empty slot, and may be there after an error. *)
LEMMA PutZipInv ==
  ASSUME BackupInv, NEW g \in Groups, PutZip(g) \/ PutZipFail(g) \/ PutZipTaken(g)
  PROVE  BucketInv' /\ UploadedIsBacked'
<1> DEFINE n == job[g].slot
<1>0. job[g].st = "indexed" /\ TypeOK /\ ZipsOK
  BY DEF PutZip, PutZipFail, PutZipTaken, BackupInv, TypeInv
<1>1. /\ n \in Slots /\ zip[g][n] = Empty /\ Packed(g) \in Versions
      /\ Describes(idx[g][n], Packed(g))
  BY <1>0, PackedVersions DEF ZipsOK
<1>2. /\ UNCHANGED <<row, source, obj, tmp, buf>>
      /\ zip' = zip \/ zip' = [zip EXCEPT ![g][n] = Packed(g)]
      /\ idx' = idx \/ idx' = [idx EXCEPT ![g][n] = Empty]
  BY DEF PutZip, PutZipFail, PutZipTaken, CleanUpIndex, FileTable
<1>3. \A h \in Groups, k \in Slots :
        h # g \/ k # n => zip'[h][k] = zip[h][k] /\ idx'[h][k] = idx[h][k]
  BY <1>0, <1>1, <1>2 DEF TypeOK
<1>4. PutZip(g) => zip'[g][n] = Packed(g)
  BY <1>0, <1>1 DEF PutZip, TypeOK
<1>5. /\ zip'[g][n] = Empty \/ zip'[g][n] = Packed(g)
      /\ idx'[g][n] = Empty \/ idx'[g][n] = idx[g][n]
  BY <1>0, <1>1, <1>2 DEF TypeOK
<1>6. idx'[g][n] # Empty /\ zip'[g][n] # Empty => Describes(idx'[g][n], zip'[g][n])
  BY <1>1, <1>5
<1>7. PICK st \in {"put", "work", "done"} :
        job' = [job EXCEPT ![g].st = st] /\ (st = "put" => PutZip(g))
  BY DEF PutZip, PutZipFail, PutZipTaken, FailJob
<1>8. n = job[g].slot /\ (st = "put" => zip'[g][n] = Packed(g))
  BY <1>4, <1>7
<1> HIDE DEF n
<1>9. /\ job'[g].st = st
      /\ \A h \in Groups : /\ job'[h].files = job[h].files /\ job'[h].got = job[h].got
                           /\ job'[h].slot = job[h].slot
                           /\ h # g => job'[h].st = job[h].st
  BY <1>7, JobMoves
<1> QED BY <1>0, <1>1, <1>2, <1>3, <1>6, <1>8, <1>9, ZipStep

(* The index is told of a zip that is there. *)
LEMMA CommitZipInv ==
  ASSUME BackupInv, NEW g \in Groups, CommitZip(g)
  PROVE  BucketInv' /\ UploadedIsBacked'
<1> USE DEF source, bucket
<1>0. job[g].st = "put" /\ TypeOK /\ ZipsOK /\ StagedIsCurrent
  BY DEF CommitZip, BackupInv, TypeInv
<1>1. /\ UNCHANGED <<source, obj, zip, idx, tmp, buf>>
      /\ row' = [f \in Files |-> IF f \in job[g].files
                   THEN [row[f] EXCEPT !.st = "uploaded", !.up = TRUE, !.key = job[g].slot]
                   ELSE row[f]]
      /\ job' = [job EXCEPT ![g].st = "done"]
  BY DEF CommitZip
<1>2. \A f \in Files :
        /\ row'[f].ver = row[f].ver
        /\ f \notin job[g].files => row'[f] = row[f]
        /\ f \in job[g].files => row'[f].up /\ row'[f].key = job[g].slot
  BY <1>0, <1>1 DEF TypeOK, Rows
<1>3. /\ job'[g].st = "done"
      /\ \A h \in Groups : /\ job'[h].files = job[h].files /\ job'[h].got = job[h].got
                           /\ job'[h].slot = job[h].slot
                           /\ h # g => job'[h].st = job[h].st
  BY <1>1, JobMoves
<1>4. VersionsOK' /\ CopiesOK' /\ BufferOK'
  BY <1>0, <1>1, <1>2 DEF BackupInv, VersionsOK, CopiesOK, BufferOK, TypeOK
<1>5. SidecarDescribesZip'
  BY <1>1 DEF BackupInv, SidecarDescribesZip, Describes, Sidecars, Orphans, ZipAt
<1>6. StagedIsCurrent'
  BY <1>0, <1>2, <1>3 DEF StagedIsCurrent
<1>7. ZipsOK'
  <2>1. UNCHANGED <<zip, idx>>
    BY <1>1
  <2> QED BY <1>0, <1>3, <2>1 DEF ZipsOK, Packed, Describes, MembersOf
<1>8. UploadedIsBacked'
  <2> SUFFICES ASSUME NEW f \in Files, row'[f].st \in BucketBacked
               PROVE  row'[f].up /\ StoredAt(f)' # 0 /\ StoredAt(f)' >= row'[f].ver
    BY DEF UploadedIsBacked
  <2>1. CASE f \notin job[g].files
    BY <1>1, <1>2, <2>1 DEF BackupInv, UploadedIsBacked, StoredAt
  <2>2. CASE f \in job[g].files
    <3>1. /\ job[g].slot \in Slots /\ FolderOf[f] = g /\ row[f].ver \in Nat \ {0}
          /\ Packed(g)[f] \in Nat /\ Packed(g)[f] >= row[f].ver
      BY <1>0, <2>2, PackedVersions
    <3>2. StoredAt(f)' = Packed(g)[f]
      <4>1. row'[f].key = job[g].slot /\ zip' = zip
        BY <1>1, <1>2, <2>2, Zenon
      <4>3. job[g].slot # 0
        BY <3>1, Constants DEF Slots
      <4>2. zip[g][job[g].slot] = Packed(g)
        BY <1>0 DEF ZipsOK
      <4> QED BY <3>1, <4>1, <4>2, <4>3 DEF StoredAt
    <3> QED BY <1>2, <2>2, <3>1, <3>2
  <2> QED BY <2>1, <2>2
<1> QED BY <1>4, <1>5, <1>6, <1>7, <1>8 DEF BucketInv

(* A file of an individual group leaves a stage, as a copy that is current or
   as none. *)
LEMMA StagedInv ==
  ASSUME BackupInv, NEW g \in Groups, NEW f \in Files, NEW c \in Contents,
         Staged(g, f, c), c = Nothing \/ (c.file = f /\ c.ver >= row[f].ver),
         \A h \in Files : row'[h].ver = row[h].ver, UNCHANGED <<zip, idx>>
  PROVE  StagedIsCurrent' /\ ZipsOK'
<1> DEFINE got  == [job[g].got EXCEPT ![f] = c]
           left == job[g].files \ {f}
           st   == IF left # {} THEN "work"
                   ELSE IF \E h \in Files : got[h] # Nothing THEN "ind" ELSE "done"
<1>0. TypeOK /\ ZipsOK /\ StagedIsCurrent
  BY DEF BackupInv, TypeInv
<1>1. job' = [job EXCEPT ![g].files = left, ![g].got = got, ![g].st = st]
  BY DEF Staged
<1>2. st \in {"work", "ind", "done"} /\ left \subseteq job[g].files
  OBVIOUS
<1>3. \A h \in Files : got[h] = IF h = f THEN c ELSE job[g].got[h]
  BY <1>0 DEF TypeOK, Jobs
<1> HIDE DEF got, left, st
<1>4. /\ \A h \in Groups \ {g} : job'[h] = job[h]
      /\ job'[g].files = left /\ job'[g].got = got /\ job'[g].st = st
  BY <1>0, <1>1 DEF TypeOK, Jobs
<1>5. StagedIsCurrent'
  <2> SUFFICES ASSUME NEW h \in Groups, NEW e \in Files, job'[h].got[e] # Nothing
               PROVE  job'[h].got[e].file = e /\ job'[h].got[e].ver >= row'[e].ver
    BY DEF StagedIsCurrent
  <2> QED BY <1>0, <1>3, <1>4 DEF StagedIsCurrent
<1>6. ZipsOK'
  <2> SUFFICES ASSUME NEW h \in Groups
               PROVE  /\ job'[h].files \subseteq MembersOf(h)
                      /\ job'[h].st \in {"zip", "indexed", "put"} =>
                           job'[h].slot \in Slots /\ \A e \in job'[h].files : job'[h].got[e] # Nothing
                      /\ job'[h].st \in {"zip", "indexed"} => zip'[h][job'[h].slot] = Empty
                      /\ job'[h].st = "indexed" => Describes(idx'[h][job'[h].slot], Packed(h)')
                      /\ job'[h].st = "put" => zip'[h][job'[h].slot] = Packed(h)'
    BY DEF ZipsOK, MembersOf, Describes
  <2>1. CASE h # g
    <3>1. job'[h] = job[h] /\ Packed(h)' = Packed(h)
      BY <1>4, <2>1 DEF Packed
    <3> QED BY <1>0, <3>1 DEF ZipsOK
  <2>2. CASE h = g
    BY <1>0, <1>2, <1>4, <2>2 DEF ZipsOK
  <2> QED BY <2>1, <2>2
<1> QED BY <1>5, <1>6

(* A copy is taken, or an earlier one stands in for it: sizes tell apart what
   it is a copy of. *)
LEMMA StageFileInv ==
  ASSUME BackupInv, SizesTellApart, NEW g \in Groups, NEW f \in Files, StageFile(g, f)
  PROVE  BucketInv' /\ UploadedIsBacked'
<1> USE DEF source, bucket
<1> DEFINE i == row[f].id
           copy == [file |-> f, ver |-> src[f]]
<1>0. TypeOK /\ VersionsOK /\ CopiesOK /\ RowsExist
  BY DEF BackupInv, TypeInv
<1>1. /\ f \in job[g].files /\ row[f] \in Rows /\ i \in Ids
      /\ row[f].ver \in 1..MaxVer
  BY <1>0, Constants DEF StageFile, TypeOK, RowsExist, RowExists, Rows
<1>2. UNCHANGED <<source, bucket, buf>>
  BY DEF StageFile
<1>3. SidecarDescribesZip'
  BY <1>2 DEF BackupInv, SidecarDescribesZip, Describes, Sidecars, Orphans, ZipAt
<1>4. CASE Reusable(f, tmp[i]) /\ Staged(g, f, tmp[i]) /\ UNCHANGED <<tmp, row>>
  <2>1. tmp[i] \in Contents /\ tmp[i].file \in Files /\ tmp[i].ver \in 1..MaxVer
    BY <1>0, <1>1, <1>4, Constants DEF TypeOK, CopiesOK, Reusable, Contents
  <2>2. tmp[i].file = f /\ tmp[i].ver = row[f].ver
    BY <1>1, <1>4, <2>1 DEF Reusable, SizesTellApart
  <2>3. StagedIsCurrent' /\ ZipsOK'
    BY <1>2, <1>4, <1>1, <2>1, <2>2, StagedInv
  <2>4. VersionsOK' /\ CopiesOK' /\ BufferOK' /\ UploadedIsBacked'
    BY <1>2, <1>4 DEF BackupInv, VersionsOK, CopiesOK, BufferOK, UploadedIsBacked, StoredAt
  <2> QED BY <1>3, <2>3, <2>4 DEF BucketInv
<1>5. CASE src[f] # 0 /\ Staged(g, f, copy) /\ tmp' = [tmp EXCEPT ![i] = copy]
           /\ UNCHANGED row
  <2>1. /\ copy \in Contents /\ copy.file = f /\ copy.ver # 0
        /\ src[f] >= row[f].ver
    BY <1>0, <1>1, <1>5, Constants DEF TypeOK, VersionsOK, Contents
  <2>2. StagedIsCurrent' /\ ZipsOK'
    BY <1>2, <1>5, <2>1, StagedInv
  <2>3. VersionsOK' /\ BufferOK' /\ UploadedIsBacked'
    BY <1>2, <1>5 DEF BackupInv, VersionsOK, BufferOK, UploadedIsBacked, StoredAt
  <2>4. CopiesOK'
    BY <1>0, <1>1, <1>5, <2>1 DEF CopiesOK, TypeOK
  <2> QED BY <1>3, <2>2, <2>3, <2>4 DEF BucketInv
<1>6. CASE Staged(g, f, Nothing) /\ tmp' = [tmp EXCEPT ![i] = Nothing]
           /\ MarkFailed(f)
  <2>1. /\ \A h \in Files : row'[h].ver = row[h].ver
        /\ \A h \in Files : row'[h] = row[h] \/ row'[h].st = "failed"
    <3>1. row' = row \/ row' = [row EXCEPT ![f].st = "failed"]
      BY <1>6 DEF MarkFailed
    <3>2. row \in [Files -> Rows]
      BY <1>0 DEF TypeOK
    <3> QED BY <1>1, <3>1, <3>2 DEF Rows
  <2>2. StagedIsCurrent' /\ ZipsOK'
    BY <1>2, <1>6, <2>1, Members, StagedInv
  <2>3. VersionsOK' /\ BufferOK'
    BY <1>0, <1>2, <2>1 DEF BackupInv, VersionsOK, BufferOK, TypeOK
  <2>4. CopiesOK'
    BY <1>0, <1>1, <1>6 DEF CopiesOK, TypeOK
  <2>5. UploadedIsBacked'
    BY <1>2, <2>1, NoNewClaim DEF BucketBacked
  <2> QED BY <1>3, <2>2, <2>3, <2>4, <2>5 DEF BucketInv
<1> QED BY <1>4, <1>5, <1>6 DEF StageFile

(* A staged copy replaces the object, never by an older content than the row's. *)
LEMMA UploadFileInv ==
  ASSUME BackupInv, NEW g \in Groups, NEW f \in Files,
         UploadFile(g, f) \/ UploadFileFail(g, f)
  PROVE  BucketInv' /\ UploadedIsBacked'
<1> USE DEF source, bucket
<1> DEFINE c == job[g].got[f]
<1>0. TypeOK /\ VersionsOK /\ CopiesOK /\ RowsExist /\ BufferOK /\ StagedIsCurrent
  BY DEF BackupInv, TypeInv
<1>1. c # Nothing /\ c.file = f /\ c.ver >= row[f].ver
  BY <1>0 DEF UploadFile, UploadFileFail, StagedIsCurrent
<1>2. /\ row \in [Files -> Rows] /\ row[f].ver \in Nat \ {0} /\ row[f].id \in Ids
      /\ c \in Contents /\ c.ver \in Nat /\ c.ver # 0
  BY <1>0, <1>1, Constants DEF TypeOK, RowsExist, RowExists, Rows, Jobs, Contents
<1> HIDE DEF c
<1>3. /\ UNCHANGED <<source, zip, idx>>
      /\ obj' = obj \/ obj' = [obj EXCEPT ![f] = c]
      /\ row' = row \/ row' = [row EXCEPT ![f].st = "failed"]
      /\ buf' = buf \/ (obj' = [obj EXCEPT ![f] = c] /\ buf' = buf \cup {f})
      /\ tmp' = tmp \/ tmp' = [tmp EXCEPT ![row[f].id] = Nothing]
  BY DEF UploadFile, UploadFileFail, MarkFailed, FileTable, c
<1>4. \A h \in Files :
        /\ row'[h].ver = row[h].ver
        /\ row'[h] = row[h] \/ row'[h].st = "failed"
        /\ obj'[h] = obj[h] \/ (h = f /\ obj'[h] = c)
  BY <1>0, <1>2, <1>3 DEF TypeOK, Rows
<1>5. VersionsOK' /\ CopiesOK'
  BY <1>0, <1>2, <1>3, <1>4 DEF VersionsOK, CopiesOK, TypeOK
<1>6. BufferOK'
  <2> SUFFICES ASSUME NEW h \in buf'
               PROVE  obj'[h].file = h /\ obj'[h].ver # 0 /\ obj'[h].ver >= row'[h].ver
    BY DEF BufferOK
  <2>1. CASE h \in buf
    BY <1>0, <1>1, <1>2, <1>4, <2>1 DEF BufferOK, TypeOK
  <2>2. CASE h \notin buf
    <3>1. h = f /\ obj'[h] = c
      BY <1>0, <1>3, <2>2 DEF TypeOK
    <3> QED BY <1>1, <1>2, <1>4, <3>1
  <2> QED BY <2>1, <2>2
<1>7. SidecarDescribesZip'
  BY <1>3 DEF BackupInv, SidecarDescribesZip, Describes, Sidecars, Orphans, ZipAt
<1>8. UploadedIsBacked'
  <2> SUFFICES ASSUME NEW h \in Files, row'[h].st \in BucketBacked
               PROVE  row'[h].up /\ StoredAt(h)' # 0 /\ StoredAt(h)' >= row'[h].ver
    BY DEF UploadedIsBacked
  <2>1. row'[h] = row[h]
    BY <1>4 DEF BucketBacked
  <2>2. row[h].up /\ StoredAt(h) # 0 /\ StoredAt(h) >= row[h].ver
    BY <2>1 DEF BackupInv, UploadedIsBacked
  <2>3. CASE row[h].key = 0 /\ h = f /\ obj'[h] = c
    BY <1>1, <1>2, <2>1, <2>2, <2>3 DEF StoredAt
  <2>4. CASE row[h].key # 0 \/ obj'[h] = obj[h]
    BY <1>3, <2>1, <2>2, <2>4 DEF StoredAt
  <2> QED BY <1>4, <2>3, <2>4
<1>9. StagedIsCurrent' /\ ZipsOK'
  <2>1. CASE UploadFile(g, f)
    <3>1. Staged(g, f, Nothing)
      BY <2>1 DEF UploadFile
    <3> QED BY <1>3, <1>4, <3>1, Members, StagedInv
  <2>2. CASE UploadFileFail(g, f)
    <3>1. job' = [job EXCEPT ![g].st = "done"]
      BY <2>2 DEF UploadFileFail, FailJob
    <3>2. /\ job'[g].st = "done"
          /\ \A h \in Groups : /\ job'[h].files = job[h].files /\ job'[h].got = job[h].got
                               /\ job'[h].slot = job[h].slot
                               /\ h # g => job'[h].st = job[h].st
      BY <3>1, JobMoves
    <3>3. StagedIsCurrent'
      BY <1>0, <1>4, <3>2 DEF StagedIsCurrent
    <3>4. ZipsOK'
      BY <1>3, <3>2 DEF BackupInv, ZipsOK, Packed, Describes, MembersOf
    <3> QED BY <3>3, <3>4
  <2> QED BY <2>1, <2>2
<1> QED BY <1>5, <1>6, <1>7, <1>8, <1>9 DEF BucketInv

(* Without a batch limit a scan always reaches the end of its walk. *)
LEMMA NeverPausedInv ==
  ASSUME ~ScanPauses, BackupInv, Next
  PROVE  NeverPaused'
<1>0. /\ run \in RunStates /\ run.stop = Root /\ ~run.paused
      /\ run.pc = "scan" => buf = {}
      /\ run.pc = "idle" => buf = {}
  BY DEF BackupInv, TypeInv, TypeOK, PhasesOK, NeverPaused
<1>1. CASE run' = run /\ (buf' \subseteq buf \/ run.pc = "upload")
  BY <1>0, <1>1 DEF NeverPaused
<1>2. CASE ScanFile
  <2>1. buf' = buf /\ run'.stop = Root /\ run'.paused = run.paused
    BY <1>0, <1>2 DEF ScanFile, RunStates
  <2> QED BY <1>0, <1>2, <2>1 DEF NeverPaused, ScanFile
<1>3. CASE EndScan
  <2>1. ~(run.pos <= Len(Walk) /\ Halts(Walk[run.pos]))
    BY <1>0 DEF Halts
  <2>2. run.pos > Len(Walk) /\ run.pos \in Nat /\ Len(Walk) \in Nat
    BY <1>0, <1>3, <2>1, SourceAssumption DEF EndScan, RunStates
  <2>3. ~(run.pos <= Len(Walk))
    BY <2>2
  <2>4. run'.stop = Root /\ run'.paused = FALSE /\ run'.pc # "scan"
    <3> DEFINE pc == IF run.mode = "scan" THEN "close" ELSE "reconcile"
               paused == run.pos <= Len(Walk)
    <3>1. run' = [Fresh(run.mode) EXCEPT !.pc = pc, !.paused = paused, !.fin = Finished]
      BY <1>3 DEF EndScan
    <3>2. pc # "scan" /\ paused = FALSE
      BY <2>3
    <3> HIDE DEF pc, paused
    <3> QED BY <3>1, <3>2 DEF Fresh
  <2> QED BY <2>4 DEF NeverPaused
<1>4. CASE \E m \in Modes : StartRun(m)
  BY <1>0, <1>4 DEF StartRun, Fresh, NeverPaused
<1>5. CASE \/ \E how \in Terminal : Abort(how) \/ Halt(how)
           \/ NothingToUpload \/ Reconcile \/ Plan \/ PipeDone \/ Resume \/ ResumeFail
           \/ CommitFolders \/ Close \/ CloseFail \/ Crash
  <2>1. run'.stop = Root /\ ~run'.paused /\ run'.pc # "scan"
    <3>1. CASE Close \/ CloseFail \/ Crash
      <4>1. run' = Resting
        BY <3>1 DEF Close, CloseFail, Crash
      <4> QED BY <4>1 DEF Resting, Fresh
    <3>2. CASE ~ (Close \/ CloseFail \/ Crash)
      BY <1>0, <1>5, <3>2 DEF Abort, Halt, NothingToUpload, Reconcile, Plan, PipeDone, Resume,
         ResumeFail, CommitFolders, AfterUpload, RunStates
    <3> QED BY <3>1, <3>2
  <2> QED BY <1>0, <2>1 DEF NeverPaused
<1>6. CASE \E g \in Groups : GroupStep(g)
  <2>1. run.pc = "upload" /\ (run' = run \/ \E g \in Groups : FailJob(g))
    <3> PICK g \in Groups : GroupStep(g)
      BY <1>6
    <3>1. CASE StageZipFail(g) \/ PutIndexFail(g) \/ PutZipFail(g) \/ CommitZipFail(g)
      BY <3>1, Zenon DEF StageZipFail, PutIndexFail, PutZipFail, CommitZipFail, Staging
    <3>2. CASE StageZip(g) \/ PutIndex(g) \/ PutZip(g) \/ PutZipTaken(g)
              \/ CommitZip(g) \/ Drop(g)
      BY <3>2, Zenon DEF StageZip, PutIndex, PutZip, PutZipTaken, CommitZip, Drop, Staging,
                         Sending
    <3>3. ASSUME NEW f \in Files, StageFile(g, f) \/ UploadFile(g, f) \/ UploadFileFail(g, f)
          PROVE  run.pc = "upload" /\ (run' = run \/ FailJob(g))
      BY <3>3, Zenon DEF StageFile, UploadFile, UploadFileFail, Staging, Sending
    <3> QED BY <3>1, <3>2, <3>3, Zenon DEF GroupStep
  <2>2. run'.stop = run.stop /\ run'.paused = run.paused /\ run'.pc = run.pc
    BY <1>0, <2>1 DEF FailJob, RunStates
  <2> QED BY <1>0, <2>1, <2>2 DEF NeverPaused
<1>7. CASE \/ \E f \in Files : \/ ModifyFile(f) \/ DeleteFile(f) \/ BringBackFile(f)
                               \/ RetryFile(f)
           \/ LoseIndex \/ ClearScanCache \/ Flush \/ Idle
  <2>1. run' = run /\ buf' \subseteq buf
    BY <1>7 DEF ModifyFile, DeleteFile, BringBackFile, RetryFile, LoseIndex, ClearScanCache,
       Flush, FlushAll, Idle, vars
  <2> QED BY <1>1, <2>1
<1> QED BY <1>2, <1>3, <1>4, <1>5, <1>6, <1>7 DEF Next, EngineStep

LEMMA GroupInv ==
  ASSUME BackupInv, SizesTellApart, NEW g \in Groups, GroupStep(g)
  PROVE  BucketInv' /\ UploadedIsBacked'
BY StageZipInv, DropInv, PutIndexInv, PutZipInv, CommitZipInv, StageFileInv, UploadFileInv
   DEF GroupStep

(* The invariant is inductive. *)
LEMMA StepInv ==
  ASSUME ~ScanPauses, SizesTellApart, BackupInv, [Next]_vars
  PROVE  BackupInv'
<1>1. TypeInv'
  BY StepTypes DEF BackupInv
<1>2. CASE Next
  <2>1. NeverPaused'
    BY <1>2, NeverPausedInv
  <2>2. BucketInv' /\ UploadedIsBacked'
    BY <1>2, EnvironmentInv, PhaseInv, FlushInv, ScanInv, ReconcileInv, PlanInv, GroupInv
       DEF Next, EngineStep
  <2> QED BY <1>1, <2>1, <2>2 DEF BackupInv, BucketInv
<1>3. CASE UNCHANGED vars
  <2>1. Idle \/ run.pc # "idle"
    BY <1>3 DEF Idle
  <2>2. SameRows /\ UNCHANGED <<row, source, bucket, tmp, buf, job, run>>
    BY <1>3 DEF vars, SameRows, source, bucket
  <2>3. BucketInv' /\ UploadedIsBacked'
    BY <2>2, QuietStep, NoNewClaim DEF bucket
  <2>4. NeverPaused'
    BY <2>2 DEF BackupInv, NeverPaused
  <2> QED BY <1>1, <2>3, <2>4 DEF BackupInv, BucketInv
<1> QED BY <1>2, <1>3

LEMMA BackupInvariance ==
  ASSUME ~ScanPauses, SizesTellApart
  PROVE  Spec => []BackupInv
<1>1. BackupInv /\ [Next]_vars => BackupInv'
  BY StepInv
<1> QED BY <1>1, InitInv, PTL DEF Spec

(* Without a batch limit, and for contents that sizes tell apart: no failure,
   crash, retry, cancellation or loss of the index makes a row claim what the
   bucket does not hold, at the row's version or a later one. *)
THEOREM UploadedFilesAreBacked ==
  ASSUME ~ScanPauses, SizesTellApart
  PROVE  Spec => []UploadedIsBacked
<1>1. BackupInv => UploadedIsBacked
  BY DEF BackupInv
<1> QED BY <1>1, BackupInvariance, PTL

(* Under the same assumptions, a file is never uploaded from another file's
   temporary copy, nor from a copy older than its row. *)
THEOREM StagedCopiesAreCurrent ==
  ASSUME ~ScanPauses, SizesTellApart
  PROVE  Spec => []StagedIsCurrent
<1>1. BackupInv => StagedIsCurrent
  BY DEF BackupInv
<1> QED BY <1>1, BackupInvariance, PTL

(* Under the same assumptions, a sidecar beside a zip lists its members, so
   that reconciling from it binds rows to what is there. *)
THEOREM SidecarsDescribeZips ==
  ASSUME ~ScanPauses, SizesTellApart
  PROVE  Spec => []SidecarDescribesZip
<1>1. BackupInv => SidecarDescribesZip
  BY DEF BackupInv
<1> QED BY <1>1, BackupInvariance, PTL
-----------------------------------------------------------------------------
(* The refinement of BackupPromise: what is stored never gets older. *)

(* Of numbers up to a bound, one is the greatest. *)
LEMMA GreatestVersion ==
  ASSUME NEW S, S \subseteq 0..MaxVer, S # {}
  PROVE  \E v \in S : \A w \in S : w <= v
<1> DEFINE D == {n \in 0..MaxVer : \E v \in S : n = MaxVer - v}
<1>1. D \subseteq Nat /\ D # {}
  <2>1. PICK v \in S : TRUE
    OBVIOUS
  <2>2. MaxVer - v \in 0..MaxVer
    BY Constants
  <2> QED BY <2>2
<1>2. PICK n \in D : \A k \in D : n <= k
  BY <1>1, LeastNumber
<1>3. PICK v \in S : n = MaxVer - v
  OBVIOUS
<1>4. ASSUME NEW w \in S PROVE w <= v
  <2>1. MaxVer - w \in D /\ v \in 0..MaxVer /\ w \in 0..MaxVer
    BY Constants
  <2>2. n <= MaxVer - w
    BY <1>2, <2>1
  <2> QED BY <1>3, <2>1, <2>2, Constants
<1> QED BY <1>4

(* Safe is the newest of the stored versions. *)
LEMMA SafeIsNewest ==
  ASSUME TypeOK, NEW f \in Files
  PROVE  /\ Safe[f] \in StoredVersions(f) /\ StoredVersions(f) \subseteq 0..MaxVer
         /\ \A v \in StoredVersions(f) : v <= Safe[f]
<1> DEFINE S == StoredVersions(f)
<1>0. /\ obj[f].ver \in 0..MaxVer /\ FolderOf[f] \in Groups
      /\ \A n \in Slots : zip[FolderOf[f]][n][f] \in 0..MaxVer
  BY Constants DEF TypeOK, Contents, Versions
<1>1. S \subseteq 0..MaxVer /\ S # {}
  BY <1>0, Constants DEF StoredVersions
<1>2. \E v \in S : \A w \in S : w <= v
  BY <1>1, GreatestVersion
<1>3. Safe[f] = CHOOSE v \in S : \A w \in S : w <= v
  BY DEF Safe
<1> HIDE DEF S
<1>4. Safe[f] \in S /\ \A w \in S : w <= Safe[f]
  BY <1>2, <1>3
<1> QED BY <1>1, <1>4 DEF S

LEMMA SafeIsNewestNext ==
  ASSUME TypeOK', NEW f \in Files
  PROVE  /\ Safe'[f] \in StoredVersions(f)' /\ StoredVersions(f)' \subseteq 0..MaxVer
         /\ \A v \in StoredVersions(f)' : v <= Safe'[f]
<1> DEFINE S == StoredVersions(f)'
<1>0. /\ obj'[f].ver \in 0..MaxVer /\ FolderOf[f] \in Groups
      /\ \A n \in Slots : zip'[FolderOf[f]][n][f] \in 0..MaxVer
  BY Constants DEF TypeOK, Contents, Versions
<1>1. S \subseteq 0..MaxVer /\ S # {}
  BY <1>0, Constants DEF StoredVersions
<1>2. \E v \in S : \A w \in S : w <= v
  BY <1>1, GreatestVersion
<1>3. Safe'[f] = CHOOSE v \in S : \A w \in S : w <= v
  BY DEF Safe
<1> HIDE DEF S
<1>4. Safe'[f] \in S /\ \A w \in S : w <= Safe'[f]
  BY <1>2, <1>3
<1> QED BY <1>1, <1>4 DEF S

(* A step without uploads claims only what is stored. *)
LEMMA ClaimStep ==
  ASSUME BackupInv, BackupInv', UNCHANGED <<obj, zip>>
  PROVE  Promise!Claim
<1>0. TypeOK /\ TypeOK' /\ UploadedIsBacked'
  BY DEF BackupInv, TypeInv
<1>1. \A f \in Files : StoredVersions(f)' = StoredVersions(f)
  BY DEF StoredVersions
<1>2. Safe' = Safe
  BY <1>1 DEF Safe
<1>3. \A f \in Files : Claimed'[f] = IF row'[f].st \in BucketBacked THEN row'[f].ver ELSE 0
  BY DEF Claimed
<1>4. ASSUME NEW f \in Files
      PROVE  Claimed'[f] \in Nat /\ Claimed'[f] <= Safe[f]
  <2>1. Safe[f] \in StoredVersions(f) /\ StoredVersions(f) \subseteq 0..MaxVer
        /\ \A v \in StoredVersions(f) : v <= Safe[f]
    BY <1>0, SafeIsNewest
  <2>2. row'[f].ver \in 0..MaxVer /\ row'[f].key \in {0} \cup Slots
    BY <1>0 DEF TypeOK, Rows
  <2>3. CASE row'[f].st \notin BucketBacked
    BY <1>3, <2>1, <2>3, Constants
  <2>4. CASE row'[f].st \in BucketBacked
    <3>1. StoredAt(f)' # 0 /\ StoredAt(f)' >= row'[f].ver
      BY <1>0, <2>4 DEF UploadedIsBacked
    <3>2. StoredAt(f)' \in StoredVersions(f)
      BY <1>1, <2>2 DEF StoredAt, StoredVersions
    <3>3. StoredAt(f)' \in 0..MaxVer /\ StoredAt(f)' <= Safe[f] /\ Safe[f] \in 0..MaxVer
      BY <2>1, <3>2
    <3> QED BY <1>3, <2>2, <2>4, <3>1, <3>3, Constants
  <2> QED BY <2>3, <2>4
<1>5. Claimed' \in [Files -> Nat]
  BY <1>3, <1>4 DEF Claimed
<1> QED BY <1>2, <1>4, <1>5 DEF Promise!Claim

(* An upload claims nothing yet, and every stored version stays or is replaced
   by a later one. *)
LEMMA StoreStep ==
  ASSUME TypeOK, TypeOK',
         \A f \in Files : row'[f].ver = row[f].ver
                          /\ (row'[f].st \in BucketBacked <=> row[f].st \in BucketBacked),
         \A f \in Files : \A v \in StoredVersions(f) : \E w \in StoredVersions(f)' : v <= w
  PROVE  Promise!Store
<1>1. Claimed' = Claimed
  BY DEF Claimed
<1>2. ASSUME NEW f \in Files PROVE Safe'[f] \in Nat /\ Safe'[f] >= Safe[f]
  <2>1. Safe[f] \in StoredVersions(f) /\ StoredVersions(f) \subseteq 0..MaxVer
    BY SafeIsNewest
  <2>2. /\ Safe'[f] \in StoredVersions(f)' /\ StoredVersions(f)' \subseteq 0..MaxVer
        /\ \A v \in StoredVersions(f)' : v <= Safe'[f]
    BY SafeIsNewestNext
  <2>3. PICK w \in StoredVersions(f)' : Safe[f] <= w
    BY <2>1
  <2>4. w \in 0..MaxVer /\ w <= Safe'[f] /\ Safe'[f] \in 0..MaxVer /\ Safe[f] \in 0..MaxVer
    BY <2>1, <2>2, <2>3
  <2> QED BY <2>3, <2>4, Constants
<1>3. Safe' \in [Files -> Nat]
  BY <1>2 DEF Safe
<1> QED BY <1>1, <1>2, <1>3 DEF Promise!Store

(* The jobs keep what they upload, end or are over. *)
SameUploads ==
  \A g \in Groups :
    /\ job'[g].zip = job[g].zip /\ job'[g].files = job[g].files
    /\ ~job[g].zip => job'[g].got = job[g].got
    /\ job'[g].st = "ind" => job[g].st = "ind"
    /\ job[g].st = "done" => job'[g].st = "done"

(* The index learns of uploads that are over. *)
NoEarlyClaim ==
  \A f \in Files : row'[f].st \in BucketBacked =>
    \/ row[f].st \in BucketBacked \/ f \in buf
    \/ \E g \in Groups : f \in job[g].files /\ job'[g].st = "done"

NoJobs == job = [g \in Groups |-> NoJob]

(* What a step has to keep besides BackupInv. *)
NewestOK ==
  /\ \A f \in Files : Unsurpassed(f, born[f])
  /\ CopiesFresh /\ InHandFresh /\ Waiting

LEMMA InitNewest == Init => NewestInv
<1> SUFFICES ASSUME Init PROVE NewestInv
  OBVIOUS
<1>1. BackupInv
  BY InitInv
<1>2. BufferQuiet /\ CopiesFresh /\ \A f \in Files : Unsurpassed(f, born[f])
  BY Constants DEF Init, Resting, Fresh, BufferQuiet, CopiesFresh, Unsurpassed, NoRow, Nothing
<1>3. InHandFresh /\ Waiting
  BY DEF Init, InHandFresh, Waiting, NoJob
<1> QED BY <1>1, <1>2, <1>3 DEF NewestInv

(* A step without uploads to the files' own keys. *)
LEMMA KeptNewest ==
  ASSUME NewestInv, SameRows, obj' = obj, buf' \subseteq buf,
         \A f \in Files : born'[f] \in Nat /\ born'[f] >= born[f],
         \A i \in Ids : tmp'[i] = tmp[i] \/ tmp'[i] = Nothing,
         NoJobs' \/ (SameUploads /\ NoEarlyClaim)
  PROVE  NewestOK'
<1>0. /\ TypeOK /\ RowsExist /\ ZipsOK /\ CopiesFresh /\ InHandFresh /\ Waiting
      /\ \A f \in Files : Unsurpassed(f, born[f])
  BY DEF NewestInv, BackupInv, TypeInv
<1>1. \A f \in Files : obj[f].ver \in Nat /\ born[f] \in Nat
  BY <1>0, Constants DEF TypeOK, Contents
<1>2. \A f \in Files : Unsurpassed(f, born[f])'
  BY <1>0, <1>1 DEF Unsurpassed
<1>3. Nothing.file \notin Files
  BY Constants DEF Nothing
<1>4. CopiesFresh'
  <2> SUFFICES ASSUME NEW f \in Files, row'[f].st # "absent",
                      tmp'[row'[f].id] = [file |-> f, ver |-> row'[f].ver]
               PROVE  obj[f].file = f => obj[f].ver <= row'[f].ver
    BY DEF CopiesFresh, Unsurpassed
  <2>1. row[f].st # "absent" /\ row'[f].id = row[f].id /\ row'[f].ver = row[f].ver
    BY DEF SameRows
  <2>2. row[f].id \in Ids
    BY <1>0, <2>1 DEF RowsExist, RowExists
  <2>3. tmp[row[f].id] = [file |-> f, ver |-> row[f].ver]
    BY <1>3, <2>1, <2>2
  <2> QED BY <1>0, <2>1, <2>3 DEF CopiesFresh, Unsurpassed
<1>5. CASE NoJobs'
  <2>1. \A g \in Groups : job'[g] = NoJob
    BY <1>5 DEF NoJobs
  <2>2. InHandFresh' /\ Waiting'
    BY <2>1 DEF InHandFresh, Waiting, NoJob
  <2> QED BY <1>2, <1>4, <2>2 DEF NewestOK
<1>6. CASE SameUploads /\ NoEarlyClaim
  <2>1. InHandFresh'
    <3> SUFFICES ASSUME NEW g \in Groups, NEW f \in Files, job'[g].got[f] # Nothing,
                        ~job'[g].zip
                 PROVE  /\ f \in MembersOf(g) \ job'[g].files
                        /\ job'[g].got[f].ver <= born'[f]
                        /\ obj[f].file = f => obj[f].ver <= job'[g].got[f].ver
                        /\ tmp'[row'[f].id].file = f
                             => tmp'[row'[f].id].ver >= job'[g].got[f].ver
      BY DEF InHandFresh, MembersOf, Unsurpassed
    <3>1. /\ ~job[g].zip /\ job'[g].got = job[g].got /\ job'[g].files = job[g].files
          /\ row'[f].id = row[f].id
      BY <1>6 DEF SameUploads, SameRows
    <3>2. /\ f \in MembersOf(g) \ job[g].files
          /\ job[g].got[f].ver <= born[f]
          /\ obj[f].file = f => obj[f].ver <= job[g].got[f].ver
          /\ tmp[row[f].id].file = f => tmp[row[f].id].ver >= job[g].got[f].ver
      BY <1>0, <3>1 DEF InHandFresh, Unsurpassed
    <3>3. job[g].got[f].ver \in Nat /\ row[f].id \in Ids
      BY <1>0, <3>1, Constants DEF TypeOK, Jobs, Contents, RowsExist, RowExists
    <3>4. job'[g].got[f].ver <= born'[f]
      BY <1>1, <3>1, <3>2, <3>3
    <3> QED BY <1>3, <3>1, <3>2, <3>3, <3>4
  <2>2. Waiting'
    <3>1. ASSUME NEW g \in Groups, NEW f \in Files, job'[g].st # "done",
                 f \in job'[g].files \/ (~job'[g].zip /\ job'[g].got[f] # Nothing)
          PROVE  row'[f].st \notin BucketBacked /\ f \notin buf'
      <4>1. /\ job[g].st # "done"
            /\ f \in job[g].files \/ (~job[g].zip /\ job[g].got[f] # Nothing)
        BY <1>6, <3>1 DEF SameUploads
      <4>2. row[f].st \notin BucketBacked /\ f \notin buf
        BY <1>0, <4>1 DEF Waiting
      <4>3. FolderOf[f] = g
        BY <1>0, <4>1 DEF ZipsOK, InHandFresh, MembersOf
      <4>4. ASSUME NEW h \in Groups, f \in job[h].files PROVE h = g
        BY <1>0, <4>3, <4>4 DEF ZipsOK, MembersOf
      <4> QED BY <1>6, <3>1, <4>2, <4>4 DEF NoEarlyClaim
    <3>2. \A g \in Groups : job'[g].st = "ind" => ~job'[g].zip
      BY <1>0, <1>6 DEF SameUploads, Waiting
    <3> QED BY <3>1, <3>2 DEF Waiting
  <2> QED BY <1>2, <1>4, <2>1, <2>2 DEF NewestOK
<1> QED BY <1>5, <1>6

LEMMA EnvironmentNewest ==
  ASSUME NewestInv, TypeOK',
         \/ \E f \in Files : \/ ModifyFile(f) \/ DeleteFile(f) \/ BringBackFile(f)
                             \/ RetryFile(f)
         \/ LoseIndex \/ Crash \/ ClearScanCache
  PROVE  NewestOK'
<1> USE DEF source, bucket
<1>0. TypeOK /\ TypeInv /\ PhasesOK
  BY DEF NewestInv, BackupInv, TypeInv
<1>1. \A f \in Files : born'[f] \in Nat /\ born'[f] >= born[f]
  <2>1. \A f \in Files : born'[f] = born[f] \/ born'[f] = born[f] + 1
    BY <1>0 DEF TypeOK, ModifyFile, DeleteFile, BringBackFile, RetryFile, LoseIndex, Crash,
                ClearScanCache
  <2>2. \A f \in Files : born[f] \in Nat
    BY <1>0, Constants DEF TypeOK
  <2> QED BY <2>1, <2>2
<1>2. CASE LoseIndex
  <2>1. UNCHANGED <<born, obj>> /\ NoJobs' /\ \A f \in Files : row'[f].st = "absent"
    BY <1>0, <1>2 DEF LoseIndex, PhasesOK, NoJobs, NoRow
  <2>2. \A f \in Files : Unsurpassed(f, born[f])'
    BY <2>1 DEF NewestInv, Unsurpassed
  <2>3. CopiesFresh'
    BY <2>1 DEF CopiesFresh
  <2>4. \A g \in Groups : job'[g] = NoJob
    BY <2>1 DEF NoJobs
  <2>5. InHandFresh' /\ Waiting'
    BY <2>4 DEF InHandFresh, Waiting, NoJob
  <2> QED BY <2>2, <2>3, <2>5 DEF NewestOK
<1>3. CASE ~LoseIndex
  <2>1. SameRows
    BY <1>0, <1>3, EnvironmentTypes
  <2>2. UNCHANGED <<obj, tmp>> /\ buf' \subseteq buf /\ (NoJobs' \/ job' = job)
    BY <1>3 DEF ModifyFile, DeleteFile, BringBackFile, RetryFile, Crash, ClearScanCache, NoJobs
  <2>3. NoJobs' \/ SameUploads
    BY <2>2 DEF SameUploads
  <2>4. \A f \in Files : row'[f] = row[f] \/ row'[f].st = "pending"
    <3>1. row' = row \/ \E f \in Files : RetryFile(f)
      BY <1>3 DEF ModifyFile, DeleteFile, BringBackFile, Crash, ClearScanCache
    <3>2. ASSUME NEW f \in Files, RetryFile(f), NEW h \in Files
          PROVE  row'[h] = row[h] \/ row'[h].st = "pending"
      BY <1>0, <3>2 DEF RetryFile, TypeOK, Rows
    <3> QED BY <3>1, <3>2
  <2>5. NoEarlyClaim
    BY <2>4 DEF NoEarlyClaim, BucketBacked
  <2> QED BY <1>1, <2>1, <2>2, <2>3, <2>5, KeptNewest
<1> QED BY <1>2, <1>3

(* The phases around the uploads. *)
LEMMA PhaseNewest ==
  ASSUME NewestInv, TypeInv',
         \/ \E m \in Modes : StartRun(m)
         \/ \E how \in Terminal : Abort(how) \/ Halt(how)
         \/ EndScan \/ Reconcile \/ NothingToUpload \/ PipeDone \/ CommitFolders
         \/ Resume \/ ResumeFail \/ Flush \/ Close \/ CloseFail \/ UNCHANGED vars
  PROVE  NewestOK'
<1> USE DEF source, bucket, FileTable
<1>0. TypeOK /\ TypeInv /\ PhasesOK
  BY DEF NewestInv, BackupInv, TypeInv
<1>1. SameRows
  BY <1>0, ScanTypes, PlanTypes, EndTypes
     DEF SameRows, StartRun, Abort, Halt, CommitFolders, NothingToUpload, vars
<1>2. UNCHANGED <<born, obj, tmp>> /\ buf' \subseteq buf /\ (NoJobs' \/ job' = job)
  BY DEF StartRun, Abort, Halt, EndScan, Reconcile, NothingToUpload, PipeDone,
         CommitFolders, Resume, ResumeFail, Flush, Close, CloseFail, FlushAll, vars, NoJobs
<1>3. \A f \in Files : born'[f] \in Nat /\ born'[f] >= born[f]
  BY <1>0, <1>2, Constants DEF TypeOK
<1>4. CASE NoJobs'
  BY <1>1, <1>2, <1>3, <1>4, KeptNewest
<1>5. CASE job' = job /\ ~NoJobs'
  <2>1. run.pc = "upload"
    BY <1>0, <1>5 DEF PhasesOK, NoJobs
  <2>2. SameUploads
    BY <1>5 DEF SameUploads
  <2>3. row' = row \/ FlushAll
    BY <2>1 DEF StartRun, Abort, Halt, EndScan, Reconcile, NothingToUpload, PipeDone,
         CommitFolders, Resume, ResumeFail, Flush, Close, CloseFail, vars
  <2>4. \A f \in Files : row'[f] = row[f] \/ f \in buf
    BY <2>3 DEF FlushAll, Flushed
  <2>5. NoEarlyClaim
    BY <2>4 DEF NoEarlyClaim
  <2> QED BY <1>1, <1>2, <1>3, <2>2, <2>5, KeptNewest
<1> QED BY <1>2, <1>4, <1>5

(* A scan gives a row the newest version there has been. *)
LEMMA ScanNewest ==
  ASSUME NewestInv, ScanFile
  PROVE  NewestOK'
<1> USE DEF source, bucket, FileTable
<1> DEFINE f == Walk[run.pos]
<1>0. /\ TypeOK /\ TypeInv /\ PhasesOK /\ VersionsOK /\ CopiesFresh
      /\ \A h \in Files : Unsurpassed(h, born[h])
  BY DEF NewestInv, BackupInv, TypeInv
<1>1. UNCHANGED <<src, born, obj, tmp, buf>> /\ NoJobs'
  BY <1>0 DEF ScanFile, PhasesOK, NoJobs
<1>2. f \in Files
  <2>1. run.pos \in Nat \ {0} /\ run.pos <= Len(Walk)
    BY <1>0 DEF ScanFile, TypeOK, RunStates
  <2> QED BY <2>1, SourceAssumption
<1> DEFINE new == Upserted(f, src[f])
<1>3. row' = row \/ (row' = [row EXCEPT ![f] = new] /\ src[f] # 0)
  BY DEF ScanFile
<1>4. src[f] # 0 => new.ver = born[f]
  <2>1. row[f] \in Rows /\ (src[f] # 0 => src[f] = born[f])
    BY <1>0, <1>2 DEF TypeOK, VersionsOK
  <2> QED BY <2>1 DEF Upserted, Rows, NoRow
<1> HIDE DEF new, f
<1>5. \A h \in Files : row'[h] = row[h] \/ (h = f /\ row'[h].ver = born[h])
  BY <1>0, <1>2, <1>3, <1>4 DEF TypeOK
<1>6. \A h \in Files : Unsurpassed(h, born[h])'
  BY <1>0, <1>1 DEF Unsurpassed
<1>7. CopiesFresh'
  BY <1>0, <1>1, <1>5 DEF CopiesFresh, Unsurpassed
<1>8. \A g \in Groups : job'[g] = NoJob
  BY <1>1 DEF NoJobs
<1>9. InHandFresh' /\ Waiting'
  BY <1>8 DEF InHandFresh, Waiting, NoJob
<1> QED BY <1>6, <1>7, <1>9 DEF NewestOK

(* A plan takes what waits, and nothing is buffered then. *)
LEMMA PlanNewest ==
  ASSUME NewestInv, Plan
  PROVE  NewestOK'
<1> USE DEF source, bucket, FileTable
<1>0. TypeOK /\ CopiesFresh /\ RowsExist /\ buf = {} /\ \A f \in Files : Unsurpassed(f, born[f])
  BY DEF NewestInv, BackupInv, TypeInv, BufferQuiet, Plan
<1>1. UNCHANGED <<row, born, obj, buf>>
  BY DEF Plan
<1>2. \A i \in Ids : tmp'[i] = tmp[i] \/ tmp'[i] = Nothing
  BY DEF Plan
<1>3. \A f \in Files : Unsurpassed(f, born[f])'
  BY <1>0, <1>1 DEF Unsurpassed
<1>4. CopiesFresh'
  <2> SUFFICES ASSUME NEW f \in Files, row[f].st # "absent",
                      tmp'[row[f].id] = [file |-> f, ver |-> row[f].ver]
               PROVE  obj[f].file = f => obj[f].ver <= row[f].ver
    BY <1>1 DEF CopiesFresh, Unsurpassed
  <2>1. row[f].id \in Ids /\ Nothing.file # f
    BY <1>0, Constants DEF RowsExist, RowExists, Nothing
  <2>2. tmp[row[f].id] = [file |-> f, ver |-> row[f].ver]
    BY <1>2, <2>1
  <2> QED BY <1>0, <2>2 DEF CopiesFresh, Unsurpassed
<1>5. \A g \in Groups : /\ job'[g].files \subseteq ToUpload
                        /\ job'[g].got = [f \in Files |-> Nothing]
                        /\ job'[g].st \in {"none", "work"}
  <2> TAKE g \in Groups
  <2> DEFINE fs == ToUpload \cap MembersOf(g)
             zipped == Cardinality(fs) >= ZipThresh
  <2>1. job'[g] = IF fs = {} THEN NoJob
                  ELSE [NoJob EXCEPT !.st = "work", !.files = fs, !.zip = zipped]
    BY DEF Plan
  <2>2. fs \subseteq ToUpload
    OBVIOUS
  <2> HIDE DEF fs, zipped
  <2> QED BY <2>1, <2>2 DEF NoJob
<1>6. \A f \in ToUpload : row[f].st \notin BucketBacked
  BY DEF ToUpload, BucketBacked
<1>7. InHandFresh'
  BY <1>5 DEF InHandFresh
<1>8. Waiting'
  BY <1>0, <1>1, <1>5, <1>6 DEF Waiting
<1> QED BY <1>3, <1>4, <1>7, <1>8 DEF NewestOK

(* A group's zip, from the copies to the index. *)
LEMMA ZipNewest ==
  ASSUME NewestInv, TypeOK', NEW g \in Groups,
         \/ StageZip(g) \/ StageZipFail(g) \/ PutIndex(g) \/ PutIndexFail(g)
         \/ PutZip(g) \/ PutZipFail(g) \/ PutZipTaken(g)
         \/ CommitZip(g) \/ CommitZipFail(g) \/ Drop(g)
  PROVE  NewestOK'
<1> USE DEF source, bucket, FileTable
<1>0. TypeOK /\ TypeInv /\ ZipsOK /\ Waiting /\ job[g] \in Jobs
  BY DEF NewestInv, BackupInv, TypeInv, TypeOK
<1>1. SameRows
  BY <1>0, ZipTypes
<1>2. UNCHANGED <<born, obj, tmp, buf>>
  BY DEF StageZip, StageZipFail, PutIndex, PutIndexFail, PutZip, PutZipFail, PutZipTaken,
         CommitZip, CommitZipFail, Drop
<1>3. \A f \in Files : born'[f] \in Nat /\ born'[f] >= born[f]
  BY <1>0, <1>2, Constants DEF TypeOK
<1>4. CASE StageZip(g)
  <2> DEFINE got == [f \in Files |-> IF f \in job[g].files
                       THEN [file |-> f, ver |-> src[f]] ELSE Nothing]
  <2>0. job[g].zip /\ job[g].st = "work"
    BY <1>4 DEF StageZip, Staging
  <2>1. PICK n \in Slots :
          job' = [job EXCEPT ![g].st = "zip", ![g].slot = n, ![g].got = got]
    BY <1>4 DEF StageZip
  <2> HIDE DEF got
  <2>2. /\ \A h \in Groups \ {g} : job'[h] = job[h]
        /\ job'[g].st = "zip" /\ job'[g].files = job[g].files /\ job'[g].zip = job[g].zip
    BY <1>0, <2>1 DEF TypeOK, Jobs
  <2>3. SameUploads
    BY <2>0, <2>2 DEF SameUploads
  <2>4. NoEarlyClaim
    BY <1>4 DEF NoEarlyClaim, StageZip
  <2> QED BY <1>1, <1>2, <1>3, <2>3, <2>4, KeptNewest
<1>5. CASE ~StageZip(g)
  <2>1. PICK st \in {"work", "indexed", "put", "done"} :
          /\ \/ job' = [job EXCEPT ![g].st = st]
             \/ \E own \in BOOLEAN : job' = [job EXCEPT ![g].st = st, ![g].own = own]
          /\ CommitZip(g) => st = "done"
          /\ job[g].st = "done" => st = "done"
    <3>1. CASE PutIndex(g)
      BY <3>1 DEF PutIndex, CommitZip
    <3>2. CASE PutZip(g) \/ PutZipFail(g) \/ PutZipTaken(g)
      BY <3>2 DEF PutZip, PutZipFail, PutZipTaken, FailJob, CommitZip
    <3>3. CASE StageZipFail(g) \/ PutIndexFail(g) \/ CommitZip(g) \/ CommitZipFail(g) \/ Drop(g)
      BY <3>3 DEF StageZipFail, PutIndexFail, CommitZip, CommitZipFail, Drop, FailJob
    <3> QED BY <1>5, <3>1, <3>2, <3>3
  <2>2. /\ job'[g].st = st
        /\ \A h \in Groups : /\ job'[h].files = job[h].files /\ job'[h].got = job[h].got
                             /\ job'[h].zip = job[h].zip
                             /\ h # g => job'[h].st = job[h].st
    BY <1>0, <2>1 DEF TypeOK, Jobs
  <2>3. SameUploads
    BY <2>1, <2>2 DEF SameUploads
  <2>4. CASE CommitZip(g)
    <3>1. \A f \in Files : row'[f] = row[f] \/ f \in job[g].files
      BY <2>4 DEF CommitZip
    <3>2. NoEarlyClaim
      BY <2>1, <2>2, <2>4, <3>1 DEF NoEarlyClaim
    <3> QED BY <1>1, <1>2, <1>3, <2>3, <3>2, KeptNewest
  <2>5. CASE ~CommitZip(g)
    <3>1. row' = row
      BY <1>5, <2>5 DEF StageZipFail, PutIndex, PutIndexFail, PutZip, PutZipFail, PutZipTaken,
                        CommitZipFail, Drop
    <3>2. NoEarlyClaim
      BY <3>1 DEF NoEarlyClaim
    <3> QED BY <1>1, <1>2, <1>3, <2>3, <3>2, KeptNewest
  <2> QED BY <2>4, <2>5
<1> QED BY <1>4, <1>5

(* One file of an individual group gets a copy, or none, or is sent. *)
LEMMA StagedJob ==
  ASSUME TypeOK, NEW g \in Groups, NEW f \in Files, NEW c, Staged(g, f, c)
  PROVE  /\ \A h \in Groups \ {g} : job'[h] = job[h]
         /\ job'[g].zip = job[g].zip /\ job'[g].files = job[g].files \ {f}
         /\ \A h \in Files : job'[g].got[h] = IF h = f THEN c ELSE job[g].got[h]
<1> DEFINE got  == [job[g].got EXCEPT ![f] = c]
           left == job[g].files \ {f}
           st   == IF left # {} THEN "work"
                   ELSE IF \E h \in Files : got[h] # Nothing THEN "ind" ELSE "done"
<1>1. job' = [job EXCEPT ![g].files = left, ![g].got = got, ![g].st = st]
  BY DEF Staged
<1>2. \A h \in Files : got[h] = IF h = f THEN c ELSE job[g].got[h]
  BY DEF TypeOK, Jobs
<1> HIDE DEF got, left, st
<1>3. /\ \A h \in Groups \ {g} : job'[h] = job[h]
      /\ job'[g].zip = job[g].zip /\ job'[g].files = left /\ job'[g].got = got
  BY <1>1 DEF TypeOK, Jobs
<1> QED BY <1>2, <1>3 DEF left

(* No file is in two groups' jobs. *)
LEMMA OneGroup ==
  ASSUME NewestInv, NEW g \in Groups, NEW f \in Files,
         f \in job[g].files \/ (~job[g].zip /\ job[g].got[f] # Nothing)
  PROVE  FolderOf[f] = g
BY DEF NewestInv, BackupInv, ZipsOK, InHandFresh, MembersOf

(* A copy that is to be uploaded is not older than the object. *)
LEMMA StageFileNewest ==
  ASSUME NewestInv, SizesTellApart, NEW g \in Groups, NEW f \in Files, StageFile(g, f)
  PROVE  NewestOK'
<1> USE DEF source, bucket
<1> DEFINE i == row[f].id
           copy == [file |-> f, ver |-> src[f]]
<1>0. /\ TypeOK /\ TypeInv /\ VersionsOK /\ CopiesOK /\ RowsExist /\ ZipsOK
      /\ CopiesFresh /\ InHandFresh /\ Waiting /\ \A h \in Files : Unsurpassed(h, born[h])
  BY DEF NewestInv, BackupInv, TypeInv
<1>1. /\ f \in job[g].files /\ ~job[g].zip /\ job[g].st = "work" /\ FolderOf[f] = g
      /\ row[f] \in Rows /\ i \in Ids /\ row[f].ver \in 1..MaxVer /\ row[f].st # "absent"
  BY <1>0, Constants DEF StageFile, Staging, TypeOK, RowsExist, RowExists, Rows, ZipsOK,
                         MembersOf
<1>2. UNCHANGED <<src, born, obj, buf>> /\ SameRows
  BY <1>0, FileTypes DEF StageFile
<1>3. PICK c : /\ Staged(g, f, c)
               /\ c # Nothing => /\ c.file = f /\ c.ver \in Nat /\ c.ver <= born[f]
                                 /\ Unsurpassed(f, c.ver) /\ tmp'[i] = c
               /\ \A k \in Ids : \/ tmp'[k] = tmp[k] \/ tmp'[k] = Nothing
                                 \/ tmp'[k] = [file |-> f, ver |-> born[f]]
               /\ \A h \in Files : row'[h] = row[h] \/ row'[h].st = "failed"
  <2>1. CASE Reusable(f, tmp[i]) /\ Staged(g, f, tmp[i]) /\ UNCHANGED <<tmp, row>>
    <3>1. tmp[i] \in Contents /\ tmp[i].file \in Files /\ tmp[i].ver \in 1..MaxVer
      BY <1>0, <1>1, <2>1, Constants DEF TypeOK, CopiesOK, Reusable, Contents
    <3>2. tmp[i].file = f /\ tmp[i].ver = row[f].ver
      BY <1>1, <2>1, <3>1 DEF Reusable, SizesTellApart
    <3>3. tmp[i] = [file |-> f, ver |-> row[f].ver]
      BY <3>1, <3>2 DEF Contents
    <3>4. Unsurpassed(f, tmp[i].ver) /\ tmp[i].ver <= born[f]
      BY <1>0, <1>1, <3>2, <3>3 DEF CopiesFresh, VersionsOK
    <3> QED BY <2>1, <3>1, <3>2, <3>4
  <2>2. CASE src[f] # 0 /\ Staged(g, f, copy) /\ tmp' = [tmp EXCEPT ![i] = copy]
             /\ UNCHANGED row
    <3>1. src[f] = born[f] /\ born[f] \in Nat
      BY <1>0, <2>2, Constants DEF TypeOK, VersionsOK
    <3>2. copy.file = f /\ copy.ver \in Nat /\ copy.ver <= born[f] /\ Unsurpassed(f, copy.ver)
      BY <1>0, <3>1
    <3>3. copy = [file |-> f, ver |-> born[f]]
      BY <3>1
    <3> HIDE DEF copy
    <3>4. tmp'[i] = copy /\ \A k \in Ids : tmp'[k] = tmp[k] \/ tmp'[k] = copy
      BY <1>0, <1>1, <2>2 DEF TypeOK
    <3> QED BY <2>2, <3>2, <3>3, <3>4
  <2>3. CASE Staged(g, f, Nothing) /\ tmp' = [tmp EXCEPT ![i] = Nothing] /\ MarkFailed(f)
    <3>1. \A k \in Ids : tmp'[k] = tmp[k] \/ tmp'[k] = Nothing
      BY <1>0, <1>1, <2>3 DEF TypeOK
    <3>2. \A h \in Files : row'[h] = row[h] \/ row'[h].st = "failed"
      BY <1>0, <1>1, <2>3 DEF TypeOK, Rows, MarkFailed
    <3> QED BY <2>3, <3>1, <3>2
  <2> QED BY <2>1, <2>2, <2>3 DEF StageFile
<1>4. /\ \A h \in Groups \ {g} : job'[h] = job[h]
      /\ job'[g].zip = job[g].zip /\ job'[g].files = job[g].files \ {f}
      /\ \A h \in Files : job'[g].got[h] = IF h = f THEN c ELSE job[g].got[h]
  BY <1>0, <1>3, StagedJob
<1>5. \A h \in Files : Unsurpassed(h, born[h])'
  BY <1>0, <1>2 DEF Unsurpassed
<1>6. Nothing.file \notin Files
  BY Constants DEF Nothing
<1>7. \A h \in Files : tmp'[row[h].id].file = h /\ row[h].id \in Ids
                       /\ tmp'[row[h].id] # tmp[row[h].id]
                         => h = f /\ tmp'[row[h].id] = [file |-> f, ver |-> born[f]]
  BY <1>3, <1>6
<1>8. CopiesFresh'
  <2> SUFFICES ASSUME NEW h \in Files, row'[h].st # "absent",
                      tmp'[row'[h].id] = [file |-> h, ver |-> row'[h].ver]
               PROVE  obj[h].file = h => obj[h].ver <= row'[h].ver
    BY <1>2 DEF CopiesFresh, Unsurpassed
  <2>1. /\ row'[h].id = row[h].id /\ row'[h].ver = row[h].ver /\ row[h].st # "absent"
        /\ row[h].id \in Ids
    BY <1>0, <1>2 DEF SameRows, RowsExist, RowExists
  <2>2. CASE tmp'[row[h].id] = tmp[row[h].id]
    BY <1>0, <2>1, <2>2 DEF CopiesFresh, Unsurpassed
  <2>3. CASE tmp'[row[h].id] # tmp[row[h].id]
    <3>1. h = f /\ row[h].ver = born[f]
      BY <1>7, <2>1, <2>3
    <3> QED BY <1>0, <2>1, <3>1 DEF Unsurpassed
  <2> QED BY <2>2, <2>3
<1>9. InHandFresh'
  <2> SUFFICES ASSUME NEW k \in Groups, NEW h \in Files, job'[k].got[h] # Nothing,
                      ~job'[k].zip
               PROVE  /\ h \in MembersOf(k) \ job'[k].files
                      /\ job'[k].got[h].ver <= born[h]
                      /\ obj[h].file = h => obj[h].ver <= job'[k].got[h].ver
                      /\ tmp'[row[h].id].file = h
                           => tmp'[row[h].id].ver >= job'[k].got[h].ver
    BY <1>2 DEF InHandFresh, MembersOf, Unsurpassed, SameRows
  <2>1. CASE k = g /\ h = f
    <3>1. job'[k].got[h] = c /\ c # Nothing /\ c.file = f /\ c.ver \in Nat
      BY <1>3, <1>4, <2>1
    <3> QED BY <1>1, <1>3, <1>4, <2>1, <3>1 DEF MembersOf, Unsurpassed
  <2>2. CASE ~(k = g /\ h = f)
    <3>1. /\ job'[k].got[h] = job[k].got[h] /\ ~job[k].zip
          /\ job'[k].files \subseteq job[k].files
      BY <1>4, <2>2
    <3>2. /\ h \in MembersOf(k) \ job[k].files
          /\ job[k].got[h].ver <= born[h]
          /\ obj[h].file = h => obj[h].ver <= job[k].got[h].ver
          /\ tmp[row[h].id].file = h => tmp[row[h].id].ver >= job[k].got[h].ver
      BY <1>0, <3>1 DEF InHandFresh, Unsurpassed
    <3>3. h # f /\ row[h].id \in Ids
      BY <1>0, <1>1, <2>2, <3>1, <3>2 DEF MembersOf, RowsExist, RowExists
    <3> QED BY <1>7, <3>1, <3>2, <3>3
  <2> QED BY <2>1, <2>2
<1>10. Waiting'
  <2>1. ASSUME NEW k \in Groups, NEW h \in Files, job'[k].st # "done",
               h \in job'[k].files \/ (~job'[k].zip /\ job'[k].got[h] # Nothing)
        PROVE  row'[h].st \notin BucketBacked /\ h \notin buf
    <3>1. CASE k = g /\ h = f
      BY <1>0, <1>1, <1>3, <3>1 DEF Waiting, BucketBacked
    <3>2. CASE ~(k = g /\ h = f)
      <4>1. h \in job[k].files \/ (~job[k].zip /\ job[k].got[h] # Nothing)
        BY <1>4, <2>1, <3>2
      <4>2. job[k].st # "done"
        BY <1>1, <1>4, <2>1
      <4> QED BY <1>0, <1>3, <4>1, <4>2 DEF Waiting, BucketBacked
    <3> QED BY <3>1, <3>2
  <2>2. \A k \in Groups : job'[k].st = "ind" => ~job'[k].zip
    BY <1>0, <1>1, <1>4 DEF Waiting
  <2> QED BY <1>2, <2>1, <2>2 DEF Waiting
<1> QED BY <1>5, <1>8, <1>9, <1>10 DEF NewestOK

(* A staged copy replaces an older object, and is then the newest one. *)
LEMMA UploadFileNewest ==
  ASSUME NewestInv, NEW g \in Groups, NEW f \in Files,
         UploadFile(g, f) \/ UploadFileFail(g, f)
  PROVE  /\ NewestOK'
         /\ UNCHANGED zip /\ \A h \in Files : row'[h].st \in BucketBacked
                                                <=> row[h].st \in BucketBacked
         /\ \A h \in Files : obj'[h] = obj[h] \/ (obj[h].file = h =>
              obj'[h].file = h /\ obj'[h].ver >= obj[h].ver)
<1> USE DEF source, bucket
<1> DEFINE c == job[g].got[f]
<1>0. /\ TypeOK /\ TypeInv /\ RowsExist /\ StagedIsCurrent
      /\ CopiesFresh /\ InHandFresh /\ Waiting /\ \A h \in Files : Unsurpassed(h, born[h])
  BY DEF NewestInv, BackupInv, TypeInv
<1>1. /\ c # Nothing /\ c.file = f /\ c.ver \in Nat /\ job[g].st = "ind" /\ ~job[g].zip
      /\ row[f].id \in Ids /\ FolderOf[f] = g /\ f \notin job[g].files
      /\ c.ver <= born[f] /\ Unsurpassed(f, c.ver)
      /\ tmp[row[f].id].file = f => tmp[row[f].id].ver >= c.ver
      /\ row[f].st \notin BucketBacked
  <2>1. c # Nothing /\ job[g].st = "ind" /\ ~job[g].zip
    BY <1>0 DEF UploadFile, UploadFileFail, Waiting
  <2>2. c.file = f /\ c.ver \in Nat /\ row[f].id \in Ids
    BY <1>0, <2>1, Constants DEF TypeOK, Jobs, Contents, StagedIsCurrent, RowsExist, RowExists
  <2> QED BY <1>0, <2>1, <2>2 DEF InHandFresh, Waiting, MembersOf
<1>2. SameRows
  BY <1>0, FileTypes
<1>3. /\ UNCHANGED <<src, born, zip>>
      /\ obj' = obj \/ obj' = [obj EXCEPT ![f] = c]
      /\ row' = row \/ row' = [row EXCEPT ![f].st = "failed"]
      /\ tmp' = tmp \/ tmp' = [tmp EXCEPT ![row[f].id] = Nothing]
      /\ \/ buf' = buf \cup {f} /\ Staged(g, f, Nothing)
         \/ buf' = buf /\ job' = [job EXCEPT ![g].st = "done"]
  <2>1. CASE UploadFile(g, f)
    BY <2>1 DEF UploadFile, FileTable
  <2>2. CASE UploadFileFail(g, f)
    BY <2>2 DEF UploadFileFail, MarkFailed, FailJob
  <2> QED BY <2>1, <2>2
<1>4. /\ \A k \in Groups \ {g} : job'[k] = job[k]
      /\ job'[g].zip = job[g].zip /\ job'[g].files = job[g].files
      /\ \A h \in Files : \/ job'[g].got[h] = job[g].got[h]
                          \/ h = f /\ job'[g].got[h] = Nothing
      /\ \/ job'[g].st = "done" /\ buf' = buf
         \/ job'[g].got[f] = Nothing /\ buf' = buf \cup {f}
  <2>1. CASE buf' = buf \cup {f} /\ Staged(g, f, Nothing)
    <3>1. /\ \A k \in Groups \ {g} : job'[k] = job[k]
          /\ job'[g].zip = job[g].zip /\ job'[g].files = job[g].files \ {f}
          /\ \A h \in Files : job'[g].got[h] = IF h = f THEN Nothing ELSE job[g].got[h]
      BY <1>0, <2>1, StagedJob
    <3>2. job[g].files \ {f} = job[g].files
      BY <1>1
    <3> QED BY <2>1, <3>1, <3>2
  <2>2. CASE buf' = buf /\ job' = [job EXCEPT ![g].st = "done"]
    BY <1>0, <2>2 DEF TypeOK, Jobs
  <2> QED BY <1>3, <2>1, <2>2
<1> HIDE DEF c
<1>5. \A h \in Files : obj'[h] = obj[h] \/ (h = f /\ obj'[h] = c)
  BY <1>0, <1>3 DEF TypeOK
<1>6. \A h \in Files : row'[h] = row[h] \/ (h = f /\ row'[h].st = "failed")
  BY <1>0, <1>3 DEF TypeOK, Rows
<1>7. \A i \in Ids : tmp'[i] = tmp[i] \/ tmp'[i] = Nothing
  BY <1>0, <1>1, <1>3 DEF TypeOK
<1>8. Nothing.file \notin Files
  BY Constants DEF Nothing
<1>9. \A h \in Files : row'[h].st \in BucketBacked <=> row[h].st \in BucketBacked
  BY <1>1, <1>6 DEF BucketBacked
<1>10. \A h \in Files : obj'[h] = obj[h] \/ (obj[h].file = h =>
              obj'[h].file = h /\ obj'[h].ver >= obj[h].ver)
  <2>1. \A h \in Files : obj[h].ver \in Nat
    BY <1>0, Constants DEF TypeOK, Contents
  <2> QED BY <1>1, <1>5, <2>1 DEF Unsurpassed
<1>11. \A h \in Files : Unsurpassed(h, born[h])'
  BY <1>0, <1>1, <1>3, <1>5 DEF Unsurpassed
<1>12. CopiesFresh'
  <2> SUFFICES ASSUME NEW h \in Files, row'[h].st # "absent",
                      tmp'[row'[h].id] = [file |-> h, ver |-> row'[h].ver]
               PROVE  obj'[h].file = h => obj'[h].ver <= row'[h].ver
    BY DEF CopiesFresh, Unsurpassed
  <2>1. /\ row'[h].id = row[h].id /\ row'[h].ver = row[h].ver /\ row[h].st # "absent"
        /\ row[h].id \in Ids
    BY <1>0, <1>2 DEF SameRows, RowsExist, RowExists
  <2>2. tmp[row[h].id] = [file |-> h, ver |-> row[h].ver]
    BY <1>7, <1>8, <2>1
  <2>3. CASE obj'[h] = obj[h]
    BY <1>0, <2>1, <2>2, <2>3 DEF CopiesFresh, Unsurpassed
  <2>4. CASE h = f /\ obj'[h] = c
    BY <1>1, <2>1, <2>2, <2>4
  <2> QED BY <1>5, <2>3, <2>4
<1>13. InHandFresh'
  <2> SUFFICES ASSUME NEW k \in Groups, NEW h \in Files, job'[k].got[h] # Nothing,
                      ~job'[k].zip
               PROVE  /\ h \in MembersOf(k) \ job'[k].files
                      /\ job'[k].got[h].ver <= born[h]
                      /\ obj'[h].file = h => obj'[h].ver <= job'[k].got[h].ver
                      /\ tmp'[row[h].id].file = h
                           => tmp'[row[h].id].ver >= job'[k].got[h].ver
    BY <1>2, <1>3 DEF InHandFresh, MembersOf, Unsurpassed, SameRows
  <2>1. job'[k].got[h] = job[k].got[h] /\ ~job[k].zip /\ job'[k].files = job[k].files
    BY <1>4
  <2>2. /\ h \in MembersOf(k) \ job[k].files
        /\ job[k].got[h].ver <= born[h]
        /\ obj[h].file = h => obj[h].ver <= job[k].got[h].ver
        /\ tmp[row[h].id].file = h => tmp[row[h].id].ver >= job[k].got[h].ver
        /\ row[h].id \in Ids
    BY <1>0, <2>1 DEF InHandFresh, Unsurpassed, RowsExist, RowExists
  <2>3. h = f => k = g
    BY <1>1, <2>2 DEF MembersOf
  <2>4. obj'[h].file = h => obj'[h].ver <= job[k].got[h].ver
    <3>1. CASE obj'[h] = obj[h]
      BY <2>2, <3>1
    <3>2. CASE h = f /\ obj'[h] = c
      BY <1>1, <2>3, <3>2 DEF c
    <3> QED BY <1>5, <3>1, <3>2
  <2> QED BY <1>7, <1>8, <2>1, <2>2, <2>4
<1>14. Waiting'
  <2>1. ASSUME NEW k \in Groups, NEW h \in Files, job'[k].st # "done",
               h \in job'[k].files \/ (~job'[k].zip /\ job'[k].got[h] # Nothing)
        PROVE  row'[h].st \notin BucketBacked /\ h \notin buf'
    <3>1. /\ h \in job[k].files \/ (~job[k].zip /\ job[k].got[h] # Nothing)
          /\ job[k].st # "done"
      BY <1>1, <1>4, <2>1
    <3>2. row[h].st \notin BucketBacked /\ h \notin buf /\ FolderOf[h] = k
      BY <1>0, <3>1, OneGroup DEF Waiting
    <3>3. CASE k = g /\ h = f
      BY <1>1, <1>4, <2>1, <3>2, <3>3, <1>9
    <3>4. CASE ~(k = g /\ h = f)
      <4>1. h # f
        BY <1>1, <3>2, <3>4
      <4> QED BY <1>4, <1>9, <3>2, <4>1
    <3> QED BY <3>3, <3>4
  <2>2. \A k \in Groups : job'[k].st = "ind" => ~job'[k].zip
    BY <1>0, <1>1, <1>4 DEF Waiting
  <2> QED BY <2>1, <2>2 DEF Waiting
<1>15. NewestOK'
  BY <1>11, <1>12, <1>13, <1>14 DEF NewestOK
<1> QED BY <1>3, <1>9, <1>10, <1>15

(* Uploads wait for their commit in the upload phase and after it only. *)
LEMMA BufferQuietNext ==
  ASSUME NewestInv, BackupInv', Next
  PROVE  BufferQuiet'
<1>0. /\ run \in RunStates /\ ~run.paused /\ BufferQuiet
      /\ run.pc = "idle" => buf = {}
  BY DEF NewestInv, BackupInv, TypeInv, TypeOK, PhasesOK, NeverPaused
<1>1. CASE \E g \in Groups : GroupStep(g)
  <2>1. run'.pc = "upload"
    BY <1>0, <1>1, ZipTypes, FileTypes DEF GroupStep, NewestInv, BackupInv
  <2> QED BY <2>1 DEF BufferQuiet
<1>2. CASE \/ ScanFile \/ \E f \in Files : \/ ModifyFile(f) \/ DeleteFile(f)
                                           \/ BringBackFile(f) \/ RetryFile(f)
           \/ LoseIndex \/ ClearScanCache \/ Flush \/ Idle
  <2>1. buf' \subseteq buf /\ run'.pc = run.pc
    BY <1>0, <1>2 DEF ScanFile, ModifyFile, DeleteFile, BringBackFile, RetryFile, LoseIndex,
                      ClearScanCache, Flush, FlushAll, Idle, vars, RunStates
  <2> QED BY <1>0, <2>1 DEF BufferQuiet
<1>3. CASE \E m \in Modes : StartRun(m)
  BY <1>0, <1>3 DEF StartRun, BufferQuiet
<1>4. CASE EndScan
  BY <1>0, <1>4 DEF EndScan, BufferQuiet
<1>5. CASE Close \/ CloseFail \/ Crash
  <2>1. run'.pc = "idle"
    BY <1>5, Members DEF Close, CloseFail, Crash
  <2> QED BY <2>1 DEF BufferQuiet
<1>6. CASE \/ \E how \in Terminal : Abort(how) \/ Halt(how)
           \/ NothingToUpload \/ Reconcile \/ Plan \/ PipeDone \/ Resume \/ ResumeFail
           \/ CommitFolders
  BY <1>0, <1>6 DEF Abort, Halt, NothingToUpload, Reconcile, Plan, PipeDone, Resume,
     ResumeFail, CommitFolders, AfterUpload, FlushAll, RunStates, BufferQuiet
<1> QED BY <1>1, <1>2, <1>3, <1>4, <1>5, <1>6 DEF Next, EngineStep

LEMMA StepNewest ==
  ASSUME ~ScanPauses, SizesTellApart, NewestInv, [Next]_vars
  PROVE  NewestInv'
<1>1. BackupInv'
  BY StepInv DEF NewestInv
<1>2. TypeInv' /\ TypeOK'
  BY <1>1 DEF BackupInv, TypeInv
<1>3. CASE UNCHANGED vars
  <2>1. NewestOK'
    BY <1>2, <1>3, PhaseNewest
  <2>2. BufferQuiet'
    BY <1>3 DEF NewestInv, BufferQuiet, vars
  <2> QED BY <1>1, <2>1, <2>2 DEF NewestInv, NewestOK
<1>4. CASE Next
  <2>1. ASSUME \E g \in Groups : GroupStep(g) PROVE NewestOK'
    BY <1>2, <2>1, ZipNewest, StageFileNewest, UploadFileNewest DEF GroupStep
  <2>2. ASSUME ~ \E g \in Groups : GroupStep(g) PROVE NewestOK'
    <3>1. CASE ScanFile \/ Plan
      BY <3>1, ScanNewest, PlanNewest
    <3>2. CASE ~ (ScanFile \/ Plan)
      <4>1. Idle => UNCHANGED vars
        BY DEF Idle
      <4> QED BY <1>2, <1>4, <2>2, <3>2, <4>1, EnvironmentNewest, PhaseNewest
              DEF Next, EngineStep
    <3> QED BY <3>1, <3>2
  <2>3. BufferQuiet'
    BY <1>1, <1>4, BufferQuietNext
  <2> QED BY <1>1, <2>1, <2>2, <2>3 DEF NewestInv, NewestOK
<1> QED BY <1>3, <1>4

LEMMA NewestInvariance ==
  ASSUME ~ScanPauses, SizesTellApart
  PROVE  Spec => []NewestInv
<1>1. NewestInv /\ [Next]_vars => NewestInv'
  BY StepNewest
<1> QED BY <1>1, InitNewest, PTL DEF Spec

(* Only these steps change what the bucket holds. *)
LEMMA BucketSteps ==
  ASSUME [Next]_vars
  PROVE  \/ UNCHANGED <<obj, zip>>
         \/ \E g \in Groups : \/ PutZip(g) \/ PutZipFail(g) \/ PutZipTaken(g)
              \/ \E f \in Files : UploadFile(g, f) \/ UploadFileFail(g, f)
<1> USE DEF bucket
<1>1. CASE UNCHANGED vars
  BY <1>1 DEF vars
<1>2. CASE \E g \in Groups : GroupStep(g)
  <2>1. PICK g \in Groups : GroupStep(g)
    BY <1>2
  <2>2. StageZip(g) \/ StageZipFail(g) \/ PutIndex(g) \/ PutIndexFail(g)
          => UNCHANGED <<obj, zip>>
    BY DEF StageZip, StageZipFail, PutIndex, PutIndexFail
  <2>3. CommitZip(g) \/ CommitZipFail(g) \/ Drop(g) => UNCHANGED <<obj, zip>>
    BY DEF CommitZip, CommitZipFail, Drop
  <2>4. \A f \in Files : StageFile(g, f) => UNCHANGED <<obj, zip>>
    BY DEF StageFile
  <2> QED BY <2>1, <2>2, <2>3, <2>4, Zenon DEF GroupStep
<1>3. CASE ScanFile \/ EndScan \/ Reconcile \/ NothingToUpload \/ Plan \/ PipeDone
           \/ CommitFolders \/ Close
  BY <1>3 DEF ScanFile, EndScan, Reconcile, NothingToUpload, Plan, PipeDone, CommitFolders,
              Close
<1>4. CASE \/ Flush \/ Resume \/ ResumeFail \/ CloseFail \/ Idle
           \/ \E m \in Modes : StartRun(m)
           \/ \E how \in Terminal : Abort(how) \/ Halt(how)
  BY <1>4 DEF Flush, Resume, ResumeFail, CloseFail, Idle, vars, StartRun, Abort, Halt
<1>5. CASE \/ \E f \in Files : ModifyFile(f) \/ DeleteFile(f) \/ BringBackFile(f)
                               \/ RetryFile(f)
           \/ LoseIndex \/ ClearScanCache \/ Crash
  BY <1>5 DEF ModifyFile, DeleteFile, BringBackFile, RetryFile, LoseIndex, ClearScanCache,
              Crash
<1> QED BY <1>1, <1>2, <1>3, <1>4, <1>5 DEF Next, EngineStep

(* A zip goes into an empty slot, so no stored version is lost. *)
LEMMA PutZipStores ==
  ASSUME BackupInv, TypeOK', NEW g \in Groups, PutZip(g) \/ PutZipFail(g) \/ PutZipTaken(g)
  PROVE  Promise!Store
<1> DEFINE n == job[g].slot
<1>0. job[g].st = "indexed" /\ TypeOK /\ ZipsOK
  BY DEF PutZip, PutZipFail, PutZipTaken, BackupInv, TypeInv
<1>1. /\ UNCHANGED <<row, obj>>
      /\ zip' = zip \/ zip' = [zip EXCEPT ![g][n] = Packed(g)]
  BY DEF PutZip, PutZipFail, PutZipTaken, FileTable
<1>2. zip[g][n] = Empty /\ n \in Slots
  BY <1>0 DEF ZipsOK
<1>3. ASSUME NEW f \in Files, NEW v \in StoredVersions(f)
      PROVE  \E w \in StoredVersions(f)' : v <= w
  <2>1. StoredVersions(f) \subseteq 0..MaxVer /\ StoredVersions(f)' \subseteq 0..MaxVer
    BY <1>0, SafeIsNewest, SafeIsNewestNext
  <2>2. CASE v = IF obj[f].file = f THEN obj[f].ver ELSE 0
    <3>1. v \in StoredVersions(f)'
      BY <1>1, <2>2 DEF StoredVersions
    <3> QED BY <2>1, <3>1, Constants
  <2>3. CASE \E k \in Slots : v = zip[FolderOf[f]][k][f]
    <3>1. PICK k \in Slots : v = zip[FolderOf[f]][k][f]
      BY <2>3
    <3>2. zip'[FolderOf[f]][k][f] \in StoredVersions(f)'
      BY DEF StoredVersions
    <3>3. CASE FolderOf[f] = g /\ k = n
      <4>1. v = 0
        BY <1>2, <3>1, <3>3 DEF Empty
      <4> QED BY <2>1, <3>2, <4>1, Constants
    <3>4. CASE ~(FolderOf[f] = g /\ k = n)
      <4>1. zip'[FolderOf[f]][k] = zip[FolderOf[f]][k]
        <5> HIDE DEF n
        <5>1. FolderOf[f] \in Groups /\ zip \in [Groups -> [Slots -> Versions]]
          BY <1>0, Constants DEF TypeOK
        <5> QED BY <1>1, <1>2, <3>4, <5>1
      <4> QED BY <2>1, <3>1, <3>2, <4>1, Constants
    <3> QED BY <3>3, <3>4
  <2> QED BY <2>2, <2>3 DEF StoredVersions
<1> QED BY <1>0, <1>1, <1>3, StoreStep

(* A file's object is replaced by a later version. *)
LEMMA UploadStores ==
  ASSUME NewestInv, TypeOK', NEW g \in Groups, NEW f \in Files,
         UploadFile(g, f) \/ UploadFileFail(g, f)
  PROVE  Promise!Store
<1>0. TypeOK /\ TypeInv
  BY DEF NewestInv, BackupInv, TypeInv
<1>1. \A h \in Files : row'[h].ver = row[h].ver
  BY <1>0, FileTypes DEF SameRows
<1>2. /\ UNCHANGED zip
      /\ \A h \in Files : row'[h].st \in BucketBacked <=> row[h].st \in BucketBacked
      /\ \A h \in Files : obj'[h] = obj[h] \/ (obj[h].file = h =>
           obj'[h].file = h /\ obj'[h].ver >= obj[h].ver)
  BY UploadFileNewest
<1>3. ASSUME NEW h \in Files, NEW v \in StoredVersions(h)
      PROVE  \E w \in StoredVersions(h)' : v <= w
  <2> DEFINE own == (IF obj[h].file = h THEN obj[h].ver ELSE 0)'
  <2>1. StoredVersions(h) \subseteq 0..MaxVer /\ StoredVersions(h)' \subseteq 0..MaxVer
    BY <1>0, SafeIsNewest, SafeIsNewestNext
  <2>2. own \in StoredVersions(h)'
    BY DEF StoredVersions
  <2>3. CASE v = IF obj[h].file = h THEN obj[h].ver ELSE 0
    <3>1. v <= own
      BY <1>2, <2>1, <2>2, <2>3, Constants
    <3> QED BY <2>2, <3>1
  <2>4. CASE \E k \in Slots : v = zip[FolderOf[h]][k][h]
    <3>1. v \in StoredVersions(h)'
      BY <1>2, <2>4 DEF StoredVersions
    <3> QED BY <2>1, <3>1, Constants
  <2> QED BY <2>3, <2>4 DEF StoredVersions
<1> QED BY <1>0, <1>1, <1>2, <1>3, StoreStep

(* The engine implements BackupPromise.  Without a batch limit, and for
   contents that sizes tell apart: whatever the scans, zips, buffers, failures,
   crashes and retries do, each step either claims only what is stored, or
   makes stored versions newer; none makes the newest stored version of a file
   older. *)
THEOREM BackupsKeepTheirPromise ==
  ASSUME ~ScanPauses, SizesTellApart
  PROVE  Spec => KeepsPromise
<1>1. Init => Promise!Init
  <2> SUFFICES ASSUME Init PROVE Promise!Init
    OBVIOUS
  <2>1. TypeOK
    BY InitTypes DEF TypeInv
  <2>2. \A f \in Files : StoredVersions(f) \subseteq {0}
    BY Constants DEF Init, StoredVersions, Nothing, Empty
  <2>3. \A f \in Files : Safe[f] = 0
    BY <2>1, <2>2, SafeIsNewest
  <2>4. Safe = [f \in Files |-> 0]
    BY <2>3 DEF Safe
  <2>5. Claimed = [f \in Files |-> 0]
    BY DEF Init, Claimed, NoRow, BucketBacked
  <2> QED BY <2>4, <2>5 DEF Promise!Init
<1>2. ASSUME NewestInv, [Next]_vars PROVE Promise!Next
  <2>1. BackupInv /\ BackupInv' /\ TypeOK'
    BY <1>2, StepInv DEF NewestInv, BackupInv, TypeInv
  <2>2. CASE UNCHANGED <<obj, zip>>
    BY <2>1, <2>2, ClaimStep DEF Promise!Next
  <2>3. CASE \E g \in Groups : PutZip(g) \/ PutZipFail(g) \/ PutZipTaken(g)
    BY <2>1, <2>3, PutZipStores DEF Promise!Next
  <2>4. CASE \E g \in Groups, f \in Files : UploadFile(g, f) \/ UploadFileFail(g, f)
    BY <1>2, <2>1, <2>4, UploadStores DEF Promise!Next
  <2> QED BY <1>2, <2>2, <2>3, <2>4, BucketSteps
<1>3. NewestInv /\ [Next]_vars => [Promise!Next]_<<Claimed, Safe>>
  BY <1>2
<1> QED BY <1>1, <1>3, NewestInvariance, PTL DEF Spec, KeepsPromise, Promise!Spec
=============================================================================
