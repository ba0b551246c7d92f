-------------------------------- MODULE Download --------------------------------
(***************************************************************************)
(* The two jobs that bring files back to disk: the mirror download         *)
(* (engine.DownloadMirrorToDir, ScanDownloadMirror) and the restore        *)
(* download (engine.RestoreToDir).  Each is single-flight, but the two may *)
(* run side by side, share one directory of cache files in tmp_dir, and    *)
(* may write into the same target.  Backup runs change rows and objects    *)
(* under them; a job may be cancelled or killed between any two steps.     *)
(***************************************************************************)
EXTENDS Naturals, FiniteSets

CONSTANTS
  Files, Zips,  \* a file's own key is the file itself
  Dirs,         \* directories a job may be pointed at
  None,
  Large,        \* the versions <<file, version>> that are not zipped
  SameSize,     \* the files whose two versions have one size
  MaxRestores, MaxChanges,
  MaxDisturbances  \* failures, kills, cancels and moves of download_dir

ASSUME KeyAssumption == Files \cap Zips = {} /\ None \notin Files \cup Zips \cup Dirs
                      /\ Large \subseteq Files \X {1, 2} /\ SameSize \subseteq Files
                      /\ Zips # {} /\ Dirs # {}

ASSUME BoundAssumption ==
  {MaxRestores, MaxChanges, MaxDisturbances} \subseteq Nat

VARIABLES
  row,    \* the files table
  obj,    \* the bucket: what each object holds of each file
  dir,    \* what each directory holds of each file
  snap,   \* the directories with a mirror snapshot
  conf,   \* backup.download_dir
  cache,  \* the cache files of restoreCachePath
  zips,   \* the archives of mirrorZipCachePath
  job,    \* currentDownload, currentRestoreDownload and their goroutines
  hand,   \* the cancel handler
  asked,  \* downloadCancelReq
  last,   \* lastDownload.Status
  used    \* how much of each bound is used up

vars == <<row, obj, dir, snap, conf, cache, zips, job, hand, asked, last, used>>
disk == <<dir, cache, zips>>
-----------------------------------------------------------------------------
Keys == Files \cup Zips
Jobs == {"mirror", "restore"}
Other(j) == IF j = "mirror" THEN "restore" ELSE "mirror"

(* What a file on disk or in an archive holds: nothing, one of the versions,
   or neither (cut short, or overwritten half way). *)
Nothing  == 0
Partial  == 3
Contents == 0..3
NoZip    == [f \in Files |-> Nothing]

Caches == {"standalone", "member"} \X Files

Rows == [st : {"pending", "uploaded", "missing"}, ver : {1, 2}, key : Keys,
         zip : Zips \cup {None}, present : BOOLEAN]

(* A job: its listing and what is left of it, the open archive, and the file
   in hand (the version its stream yields, whether its cache file still has
   its name, and whether the other job has had that file open too). *)
Idle == [step |-> "idle", dir |-> None, check |-> TRUE, after |-> FALSE,
         rows |-> [f \in {} |-> None], todo |-> {}, seen |-> {},
         zip |-> None, data |-> NoZip,
         cur |-> None, got |-> Nothing, named |-> FALSE, shared |-> FALSE,
         done |-> {}, errs |-> FALSE, stop |-> FALSE]

First(k, K) == K # {} /\ k = CHOOSE l \in K : TRUE

Use(what, bound) ==
  /\ used[what] < bound
  /\ used' = [used EXCEPT ![what] = @ + 1]
Disturb == Use("disturbance", MaxDisturbances)

FirstZip == CHOOSE z \in Zips : TRUE

Init ==
  /\ row = [f \in Files |->
       [st |-> "uploaded", ver |-> 1, present |-> FALSE,
        key |-> IF <<f, 1>> \in Large THEN f ELSE FirstZip,
        zip |-> IF <<f, 1>> \in Large THEN None ELSE FirstZip]]
  /\ obj = [k \in Keys |-> [f \in Files |-> IF row[f].key = k THEN 1 ELSE Nothing]]
  /\ dir = [d \in Dirs |-> NoZip]
  /\ snap = {} /\ conf = (CHOOSE d \in Dirs : TRUE)
  /\ cache = [c \in Caches |-> Nothing]
  /\ zips = [k \in Keys |-> NoZip]
  /\ job = [j \in Jobs |-> Idle]
  /\ hand = [at |-> "none", live |-> FALSE]
  /\ asked = FALSE /\ last = "none"
  /\ used = [restore |-> 0, change |-> 0, disturbance |-> 0]
-----------------------------------------------------------------------------
(* Backup runs: they may start right after a job's handler has looked.  No
   write of theirs touches download_present. *)
Change(f) ==
  /\ row[f].ver = 1 /\ row[f].st = "uploaded"
  /\ Use("change", MaxChanges)
  /\ row' = [row EXCEPT ![f].ver = 2, ![f].st = "pending"]
  /\ UNCHANGED <<obj, disk, snap, conf, job, hand, asked, last>>

(* MarkUploadedMany does not touch zip_name. *)
UploadOwn(f) ==
  /\ row[f].st = "pending" /\ <<f, row[f].ver>> \in Large
  /\ obj' = [obj EXCEPT ![f][f] = row[f].ver]
  /\ row' = [row EXCEPT ![f].st = "uploaded", ![f].key = f]
  /\ UNCHANGED <<disk, snap, conf, job, hand, asked, last, used>>

UploadZip(F, z) ==
  /\ \A f \in F : row[f].st = "pending" /\ <<f, row[f].ver>> \notin Large
  /\ obj[z] = NoZip
  /\ obj' = [obj EXCEPT ![z] = [f \in Files |->
               IF f \in F THEN row[f].ver ELSE Nothing]]
  /\ row' = [f \in Files |-> IF f \notin F THEN row[f]
               ELSE [row[f] EXCEPT !.st = "uploaded", !.key = z, !.zip = z]]
  /\ UNCHANGED <<disk, snap, conf, job, hand, asked, last, used>>

(* The operator deletes an archive: the files indexed by it (by the first
   archive that has them) are missing.  Its name is free again. *)
Backing(f) == CHOOSE z \in {y \in Zips : obj[y][f] # Nothing} : TRUE
Indexed(z) == {f \in Files : obj[z][f] # Nothing /\ Backing(f) = z}

DeleteZip(z) ==
  /\ Indexed(z) # {} /\ Use("change", MaxChanges)
  /\ obj' = [obj EXCEPT ![z] = NoZip]
  /\ row' = [f \in Files |-> IF f \notin Indexed(z) THEN row[f]
               ELSE [row[f] EXCEPT !.st = "missing"]]
  /\ UNCHANGED <<disk, snap, conf, job, hand, asked, last>>

(* The next scan finds the file still on disk. *)
SeenAgain(f) ==
  /\ row[f].st = "missing"
  /\ row' = [row EXCEPT ![f].st = "pending"]
  /\ UNCHANGED <<obj, disk, snap, conf, job, hand, asked, last, used>>

(* Settings: another download_dir. *)
Move(d) ==
  /\ d # conf /\ Disturb
  /\ conf' = d
  /\ UNCHANGED <<row, obj, disk, snap, job, hand, asked, last>>
-----------------------------------------------------------------------------
(* Starting and ending a job. *)
StartMirror(step, after) ==
  /\ job["mirror"].step = "idle"
  /\ job' = [job EXCEPT !["mirror"] =
       [Idle EXCEPT !.step = step, !.after = after, !.dir = conf,
                    !.todo = IF step = "scan" THEN Files ELSE {}]]
  /\ asked' = FALSE
  /\ UNCHANGED <<row, obj, disk, snap, conf, hand, last, used>>

StartFull   == StartMirror(IF conf \in snap THEN "list" ELSE "scan", TRUE)
StartRescan == StartMirror("scan", FALSE)

(* F: the selected rows that are marked restored (see Restore). *)
StartRestore(F, d, check) ==
  /\ job["restore"].step = "idle" /\ Use("restore", MaxRestores)
  /\ job' = [job EXCEPT !["restore"] =
       [Idle EXCEPT !.step = "next", !.dir = d, !.check = check, !.todo = F,
                    !.rows = [f \in F |-> row[f]]]]
  /\ UNCHANGED <<row, obj, disk, snap, conf, hand, asked, last>>

(* The goroutine's end: a job that returns an error is "cancelled" if a cancel
   was asked for, else "failed". *)
End(j, failed) ==
  /\ job' = [job EXCEPT ![j] = Idle]
  /\ IF j = "restore" THEN UNCHANGED <<hand, asked, last>>
     ELSE /\ last' = IF ~failed THEN "completed"
                     ELSE IF asked THEN "cancelled" ELSE "failed"
          /\ asked' = FALSE
          /\ hand' = [hand EXCEPT !.live = FALSE]
quiet == <<hand, asked, last>>

(* Mutant of CancelAct: the context is cancelled first. *)
CancelActFirst ==
  /\ hand.at # "none"
  /\ hand' = [hand EXCEPT !.at = IF hand.at = "look" THEN "flag" ELSE "none"]
  /\ IF hand.at = "flag" THEN asked' = TRUE /\ UNCHANGED job
     ELSE /\ job' = IF hand.live THEN [job EXCEPT !["mirror"].stop = TRUE] ELSE job
          /\ UNCHANGED asked
  /\ UNCHANGED <<row, obj, disk, snap, conf, last, used>>

(* handleDownloadCancel: the job is read under the lock, the flag and the
   context are set after it. *)
CancelLook ==
  /\ hand.at = "none" /\ job["mirror"].step # "idle" /\ Disturb
  /\ hand' = [at |-> "look", live |-> TRUE]
  /\ UNCHANGED <<row, obj, disk, snap, conf, job, asked, last>>
CancelAct ==
  /\ hand.at # "none"
  /\ hand' = [hand EXCEPT !.at = IF hand.at = "look" THEN "flag" ELSE "none"]
  /\ IF hand.at = "look" THEN asked' = TRUE /\ UNCHANGED job
     ELSE /\ job' = IF hand.live THEN [job EXCEPT !["mirror"].stop = TRUE] ELSE job
          /\ UNCHANGED asked
  /\ UNCHANGED <<row, obj, disk, snap, conf, last, used>>
-----------------------------------------------------------------------------
(* scanDownloadMirror: one page of rows is compared with the directory, by
   size, and its flags are written; then the directory has a snapshot. *)
Size(f, v)    == IF f \in SameSize THEN 1 ELSE v
(* Mutant of Present: any file of that name will do. *)
PresentAnySize(d, f) == dir[d][f] # Nothing
Present(d, f) == dir[d][f] \in {1, 2} /\ Size(f, dir[d][f]) = Size(f, row[f].ver)

Mirror == job["mirror"]

Stat(f) ==
  /\ Mirror.step = "scan" /\ First(f, Mirror.todo)
  /\ job' = [job EXCEPT !["mirror"].todo = @ \ {f},
               !["mirror"].seen = IF Present(Mirror.dir, f) THEN @ \cup {f} ELSE @]
  /\ UNCHANGED <<row, obj, disk, snap, conf, quiet, used>>

ScanMark ==
  /\ Mirror.step = "scan" /\ Mirror.todo = {}
  /\ \/ /\ ~Mirror.stop
        /\ row' = [f \in Files |-> [row[f] EXCEPT !.present = f \in Mirror.seen]]
        /\ job' = [job EXCEPT !["mirror"].step = "save", !["mirror"].seen = {}]
        /\ UNCHANGED <<quiet, used>>
     \/ /\ IF Mirror.stop THEN UNCHANGED used ELSE Disturb
        /\ End("mirror", TRUE) /\ UNCHANGED row
  /\ UNCHANGED <<obj, disk, snap, conf>>

ScanSave ==
  /\ Mirror.step = "save"
  /\ \/ /\ ~Mirror.stop
        /\ snap' = snap \cup {Mirror.dir}
        /\ IF Mirror.after
             THEN /\ job' = [job EXCEPT !["mirror"].step = "list"]
                  /\ UNCHANGED quiet
             ELSE End("mirror", FALSE)
        /\ UNCHANGED used
     \/ /\ IF Mirror.stop THEN UNCHANGED used ELSE Disturb
        /\ End("mirror", TRUE) /\ UNCHANGED snap
  /\ UNCHANGED <<row, obj, disk, conf>>

(* ListDownloadMirrorMissing. *)
Missing == {f \in Files : ~row[f].present /\ row[f].st = "uploaded"}

ListMissing ==
  /\ Mirror.step = "list"
  /\ IF Mirror.stop THEN End("mirror", TRUE)
     ELSE /\ job' = [job EXCEPT !["mirror"].step = "next", !["mirror"].todo = Missing,
                       !["mirror"].rows = [f \in Missing |-> row[f]]]
          /\ UNCHANGED quiet
  /\ UNCHANGED <<row, obj, disk, snap, conf, used>>
-----------------------------------------------------------------------------
(* Both jobs: files of their own first, then archive by archive.  The mirror
   groups rows with a zip_name by their s3_key, the restore by the name. *)
Alone(j)      == {f \in job[j].todo : job[j].rows[f].zip = None}
ZipKey(j, f)  == IF j = "mirror" THEN job[j].rows[f].key ELSE job[j].rows[f].zip
Members(j, k) == {f \in job[j].todo \ Alone(j) : ZipKey(j, f) = k}
Groups(j)     == {ZipKey(j, f) : f \in job[j].todo \ Alone(j)}

Ready(j) == job[j].step = "next"

(* Mutant of Done: the file in hand is kept. *)
DoneKeepsFile(j, F, errs) ==
  [job[j] EXCEPT !.step = "next", !.todo = @ \ F, !.errs = @ \/ errs]
Done(j, F, errs) ==
  [job[j] EXCEPT !.step = "next", !.todo = @ \ F, !.errs = @ \/ errs,
                 !.cur = None, !.got = Nothing, !.named = FALSE, !.shared = FALSE]
(* Mutant of Failed: the error is dropped. *)
FailedSilently(j, F) == job' = [job EXCEPT ![j] = Done(j, F, FALSE)]
Failed(j, F) == job' = [job EXCEPT ![j] = Done(j, F, TRUE)]

Cache(j, f) == <<IF job[j].zip = None THEN "standalone" ELSE "member", f>>
MyCache(j)  == Cache(j, job[j].cur)
Uses(j, c)  == job[j].cur # None /\ MyCache(j) = c

(* os.Create of the cache file cuts it, also when the other job has it. *)
Create(j, f, v) ==
  LET c == Cache(j, f)  both == Uses(Other(j), c)
  IN /\ cache' = [cache EXCEPT ![c] = Partial]
     /\ job' = [job EXCEPT
          ![j] = [@ EXCEPT !.step = "fill", !.cur = f, !.got = v,
                           !.named = TRUE, !.shared = both],
          ![Other(j)].shared = @ \/ both]

(* os.Remove: a file that is still being written keeps no name. *)
Unnamed(j, c) == [job EXCEPT ![Other(j)].named = @ /\ ~Uses(Other(j), c)]

Open(j, f) ==
  /\ Ready(j) /\ job[j].zip = None /\ ~job[j].stop /\ First(f, Alone(j))
  /\ LET v == obj[job[j].rows[f].key][f]
     IN \/ v # Nothing /\ Create(j, f, v) /\ UNCHANGED used
        \/ v = Nothing /\ Failed(j, {f}) /\ UNCHANGED <<cache, used>>
        \/ Disturb /\ Failed(j, {f}) /\ UNCHANGED cache
  /\ UNCHANGED <<row, obj, dir, snap, conf, zips, quiet>>

(* The archive: the mirror keeps it for the next time, the restore downloads
   it to a temporary file.  An object that is no archive does not open. *)
Archive(j, k, a) ==
  IF k \in Zips THEN job' = [job EXCEPT ![j].zip = k, ![j].data = a]
                ELSE Failed(j, Members(j, k))

OpenZip(j, k) ==
  /\ Ready(j) /\ job[j].zip = None /\ ~job[j].stop
  /\ Alone(j) = {} /\ First(k, Groups(j))
  /\ \/ /\ j = "mirror" /\ zips[k] # NoZip
        /\ Archive(j, k, zips[k]) /\ UNCHANGED <<zips, used>>
     \/ /\ j = "restore" \/ zips[k] = NoZip
        /\ obj[k] # NoZip
        /\ Archive(j, k, obj[k]) /\ UNCHANGED used
        /\ zips' = IF j = "mirror" /\ k \in Zips THEN [zips EXCEPT ![k] = obj[k]]
                   ELSE zips
     \/ /\ j = "restore" \/ zips[k] = NoZip
        /\ IF obj[k] = NoZip THEN UNCHANGED used ELSE Disturb
        /\ Failed(j, Members(j, k)) /\ UNCHANGED zips
  /\ UNCHANGED <<row, obj, dir, snap, conf, cache, quiet>>

OpenMember(j, f) ==
  /\ Ready(j) /\ job[j].zip # None /\ ~job[j].stop
  /\ First(f, Members(j, job[j].zip))
  /\ LET v == job[j].data[f]
     IN \/ v # Nothing /\ Create(j, f, v)
        \/ v = Nothing /\ Failed(j, {f}) /\ UNCHANGED cache
  /\ UNCHANGED <<row, obj, dir, snap, conf, zips, quiet, used>>

CloseZip(j) ==
  /\ Ready(j) /\ job[j].zip # None
  /\ \/ /\ Members(j, job[j].zip) = {}
        /\ job' = [job EXCEPT ![j].zip = None, ![j].data = NoZip]
     \/ /\ job[j].stop /\ Members(j, job[j].zip) # {}
        /\ job' = [job EXCEPT ![j] = [Done(j, Members(j, job[j].zip), TRUE)
                                        EXCEPT !.zip = None, !.data = NoZip]]
  /\ UNCHANGED <<row, obj, disk, snap, conf, quiet, used>>
-----------------------------------------------------------------------------
(* writeFromReader: the stream is hashed, not the file; a file that fails the
   check is left in place, one whose stream breaks is removed. *)
Written(j) ==
  LET c == MyCache(j)  v == job[j].got
  IN IF ~job[j].named THEN {cache[c]}
     ELSE IF \/ Uses(Other(j), c) /\ job[Other(j)].named /\ job[Other(j)].step = "fill"
             \/ cache[c] \notin {Partial, v}
          THEN {v, Partial} ELSE {v}

(* Mutant of Verified: members of archives are not checked. *)
VerifiedAlone(j) ==
  job[j].check /\ job[j].zip = None
    => job[j].got = job[j].rows[job[j].cur].ver
Verified(j) == job[j].check => job[j].got = job[j].rows[job[j].cur].ver

Fill(j) ==
  LET c == MyCache(j)
  IN /\ job[j].step = "fill"
     /\ \/ /\ \E v \in Written(j) : cache' = [cache EXCEPT ![c] = v]
           /\ IF Verified(j) THEN job' = [job EXCEPT ![j].step = "stage"]
              ELSE Failed(j, {job[j].cur})
           /\ UNCHANGED used
        \/ /\ IF job[j].stop THEN UNCHANGED used ELSE Disturb
           /\ cache' = [cache EXCEPT ![c] = Nothing]
           /\ job' = [Unnamed(j, c) EXCEPT ![j] = Done(j, {job[j].cur}, TRUE)]
     /\ UNCHANGED <<row, obj, dir, snap, conf, zips, quiet>>

(* promoteCachedFile: a copy beside the target, the target removed, the copy
   renamed to it, the cache file removed. *)
Stage(j) ==
  LET v == cache[MyCache(j)]
  IN /\ job[j].step = "stage"
     /\ IF v = Nothing THEN Failed(j, {job[j].cur}) /\ UNCHANGED dir
        ELSE /\ job' = [job EXCEPT ![j].step = "place", ![j].got = v]
             /\ dir' = [dir EXCEPT ![job[j].dir][job[j].cur] = Nothing]
     /\ UNCHANGED <<row, obj, snap, conf, cache, zips, quiet, used>>

Place(j) ==
  LET c == MyCache(j)  f == job[j].cur  unnamed == Unnamed(j, c)
  IN /\ job[j].step = "place"
     /\ \/ /\ dir' = [dir EXCEPT ![job[j].dir][f] = job[j].got]
           /\ cache' = [cache EXCEPT ![c] = Nothing]
           /\ job' = [unnamed EXCEPT ![j] =
                IF j = "mirror" THEN [@ EXCEPT !.step = "mark"]
                ELSE [Done(j, {f}, FALSE) EXCEPT !.done = @ \cup {f}]]
           /\ UNCHANGED used
        \/ Disturb /\ Failed(j, {f}) /\ UNCHANGED <<dir, cache>>
     /\ UNCHANGED <<row, obj, snap, conf, zips, quiet>>

(* The row, whatever it says by now, is in the mirror.  An error here ends
   the job, unless the file is from an archive. *)
Mark ==
  /\ Mirror.step = "mark"
  /\ \/ /\ ~Mirror.stop
        /\ row' = [row EXCEPT ![Mirror.cur].present = TRUE]
        /\ job' = [job EXCEPT !["mirror"] = [Done("mirror", {Mirror.cur}, FALSE)
                                               EXCEPT !.done = @ \cup {Mirror.cur}]]
        /\ UNCHANGED <<quiet, used>>
     \/ /\ IF Mirror.stop THEN UNCHANGED used ELSE Disturb
        /\ IF Mirror.zip = None THEN End("mirror", TRUE)
           ELSE Failed("mirror", {Mirror.cur}) /\ UNCHANGED quiet
        /\ UNCHANGED row
  /\ UNCHANGED <<obj, disk, snap, conf>>

(* A cancel is seen before each file of its own and before each archive. *)
Finish(j) ==
  /\ Ready(j) /\ job[j].zip = None
  /\ \/ job[j].todo = {} /\ End(j, FALSE)
     \/ job[j].todo # {} /\ job[j].stop /\ End(j, TRUE)
  /\ UNCHANGED <<row, obj, disk, snap, conf, used>>
-----------------------------------------------------------------------------
(* The process ends between any two steps. *)
Exit ==
  /\ Disturb
  /\ job' = [j \in Jobs |-> Idle]
  /\ hand' = [at |-> "none", live |-> FALSE] /\ asked' = FALSE /\ last' = "none"
  /\ UNCHANGED <<row, obj, disk, snap, conf>>
-----------------------------------------------------------------------------
Work(j) == \/ \E f \in Files : Open(j, f) \/ OpenMember(j, f)
           \/ \E k \in Keys : OpenZip(j, k)
           \/ CloseZip(j) \/ Fill(j) \/ Stage(j) \/ Place(j) \/ Finish(j)
Walk    == (\E f \in Files : Stat(f)) \/ ScanMark \/ ScanSave \/ ListMissing \/ Mark

Next ==
  \/ \E f \in Files : Change(f) \/ UploadOwn(f) \/ SeenAgain(f)
  \/ \E F \in SUBSET Files \ {{}}, z \in Zips : UploadZip(F, z)
  \/ \E z \in Zips : DeleteZip(z)
  \/ \E d \in Dirs : Move(d)
  \/ StartFull \/ StartRescan
  \/ \E F \in SUBSET Files, d \in Dirs, check \in BOOLEAN : StartRestore(F, d, check)
  \/ CancelLook \/ CancelAct
  \/ Walk \/ \E j \in Jobs : Work(j)
  \/ Exit

Spec == Init /\ [][Next]_vars

(* Goroutines go on, and the operator starts both mirror jobs again and
   again. *)
FairSpec ==
  /\ Spec
  /\ WF_vars(Walk \/ Work("mirror")) /\ WF_vars(Work("restore"))
  /\ SF_vars(StartFull) /\ SF_vars(StartRescan)
-----------------------------------------------------------------------------
(* Rows, disks and jobs have their types; a job has a file in hand exactly in
   the steps that write one. *)
TypeOK ==
  /\ row \in [Files -> Rows]
  /\ obj \in [Keys -> [Files -> Contents]]
  /\ dir \in [Dirs -> [Files -> Contents]]
  /\ snap \subseteq Dirs /\ conf \in Dirs
  /\ cache \in [Caches -> Contents] /\ zips \in [Keys -> [Files -> Contents]]
  /\ \A j \in Jobs :
       /\ job[j].todo \subseteq Files /\ job[j].seen \subseteq Files
       /\ job[j].step \in {"idle", "scan", "save", "list", "next", "fill",
                           "stage", "place", "mark"}
       /\ job[j].cur # None <=> job[j].step \in {"fill", "stage", "place", "mark"}
  /\ asked \in BOOLEAN /\ last \in {"none", "completed", "cancelled", "failed"}

(* What a job puts in place of the target is the version its row recorded,
   unless the other job had the cache file open as well. *)
AloneWritesWhatItChecked ==
  \A j \in Jobs :
    /\ job[j].step = "place" /\ job[j].check /\ ~job[j].shared
    => job[j].got = job[j].rows[job[j].cur].ver

(* A job that completes without an error has written every file it listed. *)
CleanMeansAll ==
  [][\A j \in Jobs :
       /\ job[j].step = "next" /\ job'[j].step = "idle"
       /\ job[j].todo = {} /\ ~job[j].errs
       => job[j].done = DOMAIN job[j].rows]_vars

(* A job that sees its cancel does not count as a failure. *)
CancelIsNoFailure ==
  [][/\ Mirror.stop /\ last' # last => last' # "failed"]_vars

(* What no further job brings into the mirror: a file that is not uploaded;
   one that was once in an archive and is its own object now; one whose old
   version has the new one's size; one whose archive has an older namesake in
   the zip cache. *)
Blocked(f) ==
  \/ row[f].st # "uploaded"
  \/ row[f].zip \notin {None, row[f].key}
  \/ f \in SameSize
  \/ row[f].zip # None /\ zips[row[f].zip] # NoZip /\ zips[row[f].zip][f] # row[f].ver

(* However often the directory was moved, a job cancelled, killed or
   outdated by a backup run: rescans and downloads bring every other file
   into the mirror. *)
MirrorCatchesUp ==
  \A f \in Files : <>[](dir[conf][f] = row[f].ver \/ Blocked(f))
=================================================================================
