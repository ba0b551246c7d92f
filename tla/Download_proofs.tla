----------------------------- MODULE Download_proofs -----------------------------
(* Theorems of Download, for every value of its constants: the types, that a
   job alone with its cache files writes what it has checked, that a clean
   completion has written all, and that a cancel is no failure. *)
EXTENDS Download, TLAPS
-----------------------------------------------------------------------------
(* A job's listing: rows of the files table, as they were. *)
RowSets == UNION {[F -> Rows] : F \in SUBSET Files}

InHand  == {"fill", "stage", "place", "mark"}
Working == {"next"} \cup InHand

JobRecords ==
  [step : {"idle", "scan", "save", "list"} \cup Working, dir : Dirs \cup {None},
   check : BOOLEAN, after : BOOLEAN, rows : RowSets, todo : SUBSET Files,
   seen : SUBSET Files, zip : Zips \cup {None}, data : [Files -> Contents],
   cur : Files \cup {None}, got : Contents, named : BOOLEAN, shared : BOOLEAN,
   done : SUBSET Files, errs : BOOLEAN, stop : BOOLEAN]

(* What a job has listed is written, still to do, or has left an error; the
   file in hand is still to do. *)
Accounted(q) ==
  /\ q.step \notin Working => q.done = {} /\ ~q.errs
  /\ q.step \in Working => /\ q.todo \cup q.done \subseteq DOMAIN q.rows
                           /\ q.errs \/ q.todo \cup q.done = DOMAIN q.rows
  /\ q.cur # None => q.cur \in q.todo

JobOK(q) ==
  /\ q \in JobRecords /\ Accounted(q)
  /\ q.cur # None <=> q.step \in InHand
  /\ q.step # "idle" => q.dir # None

JobsOK == job \in [Jobs -> JobRecords] /\ \A j \in Jobs : JobOK(job[j])

(* A cancel marks a job that is at work, first by the flag, then its context. *)
CancelOK ==
  /\ hand \in [at : {"none", "look", "flag"}, live : BOOLEAN]
  /\ hand.live => Mirror.step # "idle"
  /\ hand.live /\ hand.at = "flag" => asked
  /\ Mirror.stop => asked
-----------------------------------------------------------------------------
(* Names, listings, and what is made of a row or a job. *)
LEMMA Names ==
  /\ Files \subseteq Keys /\ Zips \subseteq Keys /\ FirstZip \in Zips
  /\ None \notin Files /\ None \notin Zips /\ None \notin Dirs
  /\ \A z \in Zips : z \notin Files
  /\ "mirror" \in Jobs /\ "restore" \in Jobs
  /\ \A j \in Jobs : /\ Other(j) \in Jobs /\ Other(j) # j /\ Other(Other(j)) = j
                     /\ \A i \in Jobs : i \in {j, Other(j)}
BY KeyAssumption DEF Keys, FirstZip, Jobs, Other

LEMMA Listed ==
  ASSUME NEW r \in RowSets
  PROVE  DOMAIN r \subseteq Files /\ \A f \in DOMAIN r : r[f] \in Rows
BY DEF RowSets

LEMMA Listing ==
  ASSUME row \in [Files -> Rows], NEW F \in SUBSET Files
  PROVE  [f \in F |-> row[f]] \in RowSets /\ DOMAIN [f \in F |-> row[f]] = F
BY DEF RowSets

LEMMA ContentsAre ==
  /\ 0 \in Contents /\ 1 \in Contents /\ 2 \in Contents /\ Nothing \in Contents
  /\ Partial \in Contents /\ NoZip \in [Files -> Contents]
BY DEF Contents, Nothing, Partial, NoZip

LEMMA IdleOK == JobOK(Idle) /\ Idle.step = "idle" /\ ~Idle.stop
<1>1. [f \in {} |-> None] \in RowSets
  BY DEF RowSets
<1>2. Idle \in JobRecords
  BY <1>1, ContentsAre DEF Idle, JobRecords
<1> QED BY <1>2 DEF Idle, JobOK, Accounted, Working, InHand

LEMMA RowUpdates ==
  ASSUME NEW r \in Rows
  PROVE  /\ [r EXCEPT !.ver = 2, !.st = "pending"] \in Rows
         /\ [r EXCEPT !.st = "pending"] \in Rows
         /\ [r EXCEPT !.st = "missing"] \in Rows
         /\ \A b \in BOOLEAN : [r EXCEPT !.present = b] \in Rows
         /\ \A k \in Keys : [r EXCEPT !.st = "uploaded", !.key = k] \in Rows
         /\ \A z \in Zips : [r EXCEPT !.st = "uploaded", !.key = z, !.zip = z] \in Rows
<1>1. [r EXCEPT !.ver = 2, !.st = "pending"] \in Rows
  BY DEF Rows
<1>2. [r EXCEPT !.st = "pending"] \in Rows /\ [r EXCEPT !.st = "missing"] \in Rows
  BY DEF Rows
<1>3. \A b \in BOOLEAN : [r EXCEPT !.present = b] \in Rows
  BY DEF Rows
<1>4. \A k \in Keys : [r EXCEPT !.st = "uploaded", !.key = k] \in Rows
  BY DEF Rows
<1>5. ASSUME NEW z \in Zips
      PROVE  [r EXCEPT !.st = "uploaded", !.key = z, !.zip = z] \in Rows
  <2> DEFINE s == [r EXCEPT !.st = "uploaded", !.key = z]
  <2>1. s \in Rows
    BY <1>4, Names
  <2>2. [s EXCEPT !.zip = z] \in Rows
    BY <2>1 DEF Rows
  <2>3. [s EXCEPT !.zip = z] = [r EXCEPT !.st = "uploaded", !.key = z, !.zip = z]
    OBVIOUS
  <2> QED BY <2>2, <2>3
<1> QED BY <1>1, <1>2, <1>3, <1>4, <1>5

(* The fields of a job that is all right. *)
LEMMA JobFields ==
  ASSUME NEW q, JobOK(q)
  PROVE  /\ q \in JobRecords /\ q.rows \in RowSets /\ q.dir \in Dirs \cup {None}
         /\ q.todo \subseteq Files /\ q.seen \subseteq Files /\ q.done \subseteq Files
         /\ q.zip \in Zips \cup {None} /\ q.data \in [Files -> Contents]
         /\ q.cur \in Files \cup {None} /\ q.got \in Contents
         /\ q.named \in BOOLEAN /\ q.shared \in BOOLEAN /\ q.errs \in BOOLEAN
         /\ q.stop \in BOOLEAN /\ q.check \in BOOLEAN /\ q.after \in BOOLEAN
         /\ q.step \in {"idle", "scan", "save", "list"} \cup Working
BY DEF JobOK, JobRecords

(* Flags of the other job and a cancel do not matter to that. *)
LEMMA FlagsOK ==
  ASSUME NEW q, JobOK(q), NEW b \in BOOLEAN
  PROVE  /\ JobOK([q EXCEPT !.shared = b]) /\ JobOK([q EXCEPT !.named = b])
         /\ JobOK([q EXCEPT !.stop = b])
<1>1. JobOK([q EXCEPT !.shared = b])
  BY DEF JobOK, JobRecords, Accounted
<1>2. JobOK([q EXCEPT !.named = b])
  BY DEF JobOK, JobRecords, Accounted
<1>3. JobOK([q EXCEPT !.stop = b])
  BY DEF JobOK, JobRecords, Accounted
<1> QED BY <1>1, <1>2, <1>3

(* A job that is done with some files, with errors or with the file in hand. *)
LEMMA DoneOK ==
  ASSUME NEW j \in Jobs, JobOK(job[j]), job[j].step \in Working, NEW F \in SUBSET Files
  PROVE  JobOK(Done(j, F, TRUE))
<1>1. Done(j, F, TRUE) \in JobRecords
  BY ContentsAre DEF Done, JobOK, JobRecords, Working
<1>2. /\ Done(j, F, TRUE).step = "next" /\ Done(j, F, TRUE).cur = None
      /\ Done(j, F, TRUE).todo = job[j].todo \ F /\ Done(j, F, TRUE).errs
      /\ Done(j, F, TRUE).done = job[j].done /\ Done(j, F, TRUE).rows = job[j].rows
      /\ Done(j, F, TRUE).dir = job[j].dir
  BY DEF Done, JobOK, JobRecords
<1> QED BY <1>1, <1>2 DEF JobOK, Accounted, Working, InHand

LEMMA WrittenOK ==
  ASSUME NEW j \in Jobs, JobOK(job[j]), job[j].step \in InHand
  PROVE  JobOK([Done(j, {job[j].cur}, FALSE) EXCEPT !.done = @ \cup {job[j].cur}])
<1> DEFINE f == job[j].cur
           d == Done(j, {f}, FALSE)
           q == [d EXCEPT !.done = @ \cup {f}]
<1>1. f \in Files /\ f \in job[j].todo
  BY DEF JobOK, Accounted, JobRecords
<1>2. d \in JobRecords
  <2>1. job[j] \in JobRecords
    BY DEF JobOK
  <2>2. (job[j].errs \/ FALSE) \in BOOLEAN
    OBVIOUS
  <2>3. \A e \in BOOLEAN :
          [job[j] EXCEPT !.step = "next", !.todo = @ \ {f}, !.errs = e,
                 !.cur = None, !.got = Nothing, !.named = FALSE, !.shared = FALSE] \in JobRecords
    BY <2>1, ContentsAre DEF JobRecords, Working
  <2> QED BY <2>2, <2>3 DEF Done
<1>3. /\ d.step = "next" /\ d.cur = None /\ d.todo = job[j].todo \ {f}
      /\ d.errs = job[j].errs /\ d.rows = job[j].rows /\ d.done = job[j].done
      /\ d.dir = job[j].dir
  BY DEF Done, JobOK, JobRecords
<1>4. q \in JobRecords
  <2> HIDE DEF d
  <2> QED BY <1>1, <1>2 DEF JobRecords
<1>5. /\ q.step = "next" /\ q.cur = None /\ q.todo = job[j].todo \ {f}
      /\ q.errs = job[j].errs /\ q.rows = job[j].rows /\ q.done = job[j].done \cup {f}
      /\ q.dir = job[j].dir
  <2> HIDE DEF d
  <2> QED BY <1>2, <1>3 DEF JobRecords
<1>6. JobOK(q)
  <2> HIDE DEF q
  <2> QED BY <1>1, <1>4, <1>5 DEF JobOK, Accounted, Working, InHand
<1> QED BY <1>6

(* The jobs after a step of one, and after one that touches the other's flags. *)
LEMMA OneJob ==
  ASSUME JobsOK, NEW j \in Jobs, NEW q, JobOK(q), job' = [job EXCEPT ![j] = q]
  PROVE  JobsOK'
<1>1. q \in JobRecords
  BY DEF JobOK
<1>2. job' \in [Jobs -> JobRecords]
  BY <1>1 DEF JobsOK
<1>3. \A i \in Jobs : job'[i] = q \/ job'[i] = job[i]
  BY DEF JobsOK
<1>4. \A i \in Jobs : JobOK(job'[i])
  BY <1>3 DEF JobsOK
<1> QED BY <1>2, <1>4 DEF JobsOK, JobOK, Accounted

LEMMA BothJobs ==
  ASSUME JobsOK, NEW j \in Jobs, NEW q, NEW o, JobOK(q), JobOK(o),
         job' = [job EXCEPT ![j] = q, ![Other(j)] = o]
  PROVE  JobsOK'
<1>1. q \in JobRecords /\ o \in JobRecords
  BY DEF JobOK
<1>2. job' \in [Jobs -> JobRecords]
  BY <1>1 DEF JobsOK
<1>3. \A i \in Jobs : job'[i] \in {q, o, job[i]}
  BY DEF JobsOK
<1>4. \A i \in Jobs : JobOK(job'[i])
  BY <1>3 DEF JobsOK
<1> QED BY <1>2, <1>4 DEF JobsOK, JobOK, Accounted
-----------------------------------------------------------------------------
(* The types, action by action. *)
LEMMA TypeIs ==
  ASSUME TypeOK
  PROVE  /\ row \in [Files -> Rows] /\ obj \in [Keys -> [Files -> Contents]]
         /\ dir \in [Dirs -> [Files -> Contents]] /\ snap \subseteq Dirs /\ conf \in Dirs
         /\ cache \in [Caches -> Contents] /\ zips \in [Keys -> [Files -> Contents]]
         /\ asked \in BOOLEAN /\ last \in {"none", "completed", "cancelled", "failed"}
BY DEF TypeOK

LEMMA TypeAfter ==
  ASSUME row' \in [Files -> Rows], obj' \in [Keys -> [Files -> Contents]],
         dir' \in [Dirs -> [Files -> Contents]], snap' \subseteq Dirs, conf' \in Dirs,
         cache' \in [Caches -> Contents], zips' \in [Keys -> [Files -> Contents]],
         JobsOK', asked' \in BOOLEAN,
         last' \in {"none", "completed", "cancelled", "failed"}
  PROVE  TypeOK'
<1>1. ASSUME NEW j \in Jobs
      PROVE  /\ job'[j].todo \subseteq Files /\ job'[j].seen \subseteq Files
             /\ job'[j].step \in {"idle", "scan", "save", "list", "next", "fill",
                                  "stage", "place", "mark"}
             /\ job'[j].cur # None <=> job'[j].step \in {"fill", "stage", "place", "mark"}
  BY DEF JobsOK, JobOK, JobRecords, Working, InHand
<1> QED BY <1>1 DEF TypeOK

TypesOK == TypeOK /\ JobsOK

LEMMA SameJobs == ASSUME JobsOK, job' = job PROVE JobsOK'
BY DEF JobsOK, JobOK, Accounted

LEMMA InitType == Init => TypesOK
<1> SUFFICES ASSUME Init PROVE TypesOK
  OBVIOUS
<1>1. row \in [Files -> Rows]
  BY Names DEF Init, Rows
<1>2. obj \in [Keys -> [Files -> Contents]]
  BY ContentsAre DEF Init
<1>3. dir \in [Dirs -> [Files -> Contents]] /\ snap \subseteq Dirs /\ conf \in Dirs
  BY ContentsAre, KeyAssumption DEF Init
<1>4. cache \in [Caches -> Contents] /\ zips \in [Keys -> [Files -> Contents]]
  BY ContentsAre DEF Init
<1>5. JobsOK
  BY IdleOK DEF Init, JobsOK, JobOK
<1>6. TypeOK
  <2>1. ASSUME NEW j \in Jobs
        PROVE  /\ job[j].todo \subseteq Files /\ job[j].seen \subseteq Files
               /\ job[j].step \in {"idle", "scan", "save", "list", "next", "fill",
                                   "stage", "place", "mark"}
               /\ job[j].cur # None <=> job[j].step \in {"fill", "stage", "place", "mark"}
    BY <1>5 DEF JobsOK, JobOK, JobRecords, Working, InHand
  <2> QED BY <1>1, <1>2, <1>3, <1>4, <2>1 DEF Init, TypeOK
<1> QED BY <1>5, <1>6 DEF TypesOK

LEMMA BackupType ==
  ASSUME TypesOK
  PROVE  /\ \A f \in Files : Change(f) \/ UploadOwn(f) \/ SeenAgain(f) => TypesOK'
         /\ \A F \in SUBSET Files, z \in Zips : UploadZip(F, z) => TypesOK'
         /\ \A z \in Zips : DeleteZip(z) => TypesOK'
         /\ \A d \in Dirs : Move(d) => TypesOK'
<1> USE DEF TypesOK, disk, quiet
<1>1. ASSUME NEW f \in Files, Change(f) PROVE TypesOK'
  <2>1. row' = [row EXCEPT ![f] = [row[f] EXCEPT !.ver = 2, !.st = "pending"]]
    BY <1>1 DEF Change
  <2>2. row' \in [Files -> Rows]
    BY <2>1, RowUpdates, TypeIs
  <2> QED BY <1>1, <2>2, SameJobs, TypeIs, TypeAfter DEF Change
<1>2. ASSUME NEW f \in Files, UploadOwn(f) PROVE TypesOK'
  <2>1. row' = [row EXCEPT ![f] = [row[f] EXCEPT !.st = "uploaded", !.key = f]]
    BY <1>2 DEF UploadOwn
  <2>2. row' \in [Files -> Rows]
    BY <2>1, RowUpdates, TypeIs, Names
  <2>3. row[f].ver \in Contents
    BY TypeIs, ContentsAre DEF Rows
  <2>4. obj' \in [Keys -> [Files -> Contents]]
    BY <1>2, <2>3, TypeIs DEF UploadOwn
  <2> QED BY <1>2, <2>2, <2>4, SameJobs, TypeIs, TypeAfter DEF UploadOwn
<1>3. ASSUME NEW f \in Files, SeenAgain(f) PROVE TypesOK'
  <2>1. row' = [row EXCEPT ![f] = [row[f] EXCEPT !.st = "pending"]]
    BY <1>3 DEF SeenAgain
  <2>2. row' \in [Files -> Rows]
    BY <2>1, RowUpdates, TypeIs
  <2> QED BY <1>3, <2>2, SameJobs, TypeIs, TypeAfter DEF SeenAgain
<1>4. ASSUME NEW F \in SUBSET Files, NEW z \in Zips, UploadZip(F, z) PROVE TypesOK'
  <2>1. \A f \in Files : [row[f] EXCEPT !.st = "uploaded", !.key = z, !.zip = z] \in Rows
    BY RowUpdates, TypeIs
  <2>2. row' \in [Files -> Rows]
    BY <1>4, <2>1, TypeIs DEF UploadZip
  <2>3. \A f \in Files : row[f].ver \in Contents
    BY TypeIs, ContentsAre DEF Rows
  <2>4. [f \in Files |-> IF f \in F THEN row[f].ver ELSE Nothing] \in [Files -> Contents]
    BY <2>3, ContentsAre
  <2>5. obj' \in [Keys -> [Files -> Contents]]
    BY <1>4, <2>4, TypeIs DEF UploadZip
  <2> QED BY <1>4, <2>2, <2>5, SameJobs, TypeIs, TypeAfter DEF UploadZip
<1>5. ASSUME NEW z \in Zips, DeleteZip(z) PROVE TypesOK'
  <2>1. \A f \in Files : [row[f] EXCEPT !.st = "missing"] \in Rows
    BY RowUpdates, TypeIs
  <2>2. row' \in [Files -> Rows]
    BY <1>5, <2>1, TypeIs DEF DeleteZip
  <2>3. obj' \in [Keys -> [Files -> Contents]]
    BY <1>5, ContentsAre, TypeIs DEF DeleteZip
  <2> QED BY <1>5, <2>2, <2>3, SameJobs, TypeIs, TypeAfter DEF DeleteZip
<1>6. ASSUME NEW d \in Dirs, Move(d) PROVE TypesOK'
  BY <1>6, SameJobs, TypeIs, TypeAfter DEF Move
<1> QED BY <1>1, <1>2, <1>3, <1>4, <1>5, <1>6

(* A job that starts, the mirror's walk, cancels and the end. *)
LEMMA StartedMirror ==
  ASSUME NEW s \in {"scan", "list"}, NEW a \in BOOLEAN, NEW d \in Dirs,
         NEW F \in SUBSET Files
  PROVE  JobOK([Idle EXCEPT !.step = s, !.after = a, !.dir = d, !.todo = F])
<1> DEFINE q == [Idle EXCEPT !.step = s, !.after = a, !.dir = d, !.todo = F]
<1>1. q \in JobRecords
  BY IdleOK DEF JobOK, JobRecords, Working
<1>2. q.step = s /\ q.dir = d /\ q.done = {} /\ q.cur = None /\ ~q.errs
  BY DEF Idle
<1> QED BY <1>1, <1>2, Names DEF JobOK, Accounted, Working, InHand

LEMMA StartedRestore ==
  ASSUME NEW d \in Dirs, NEW c \in BOOLEAN, NEW F \in SUBSET Files,
         NEW r \in RowSets, DOMAIN r = F
  PROVE  JobOK([Idle EXCEPT !.step = "next", !.dir = d, !.check = c, !.todo = F,
                            !.rows = r])
<1> DEFINE q == [Idle EXCEPT !.step = "next", !.dir = d, !.check = c, !.todo = F,
                             !.rows = r]
<1>1. q \in JobRecords
  BY IdleOK DEF JobOK, JobRecords, Working
<1>2. /\ q.step = "next" /\ q.todo = F /\ q.rows = r /\ q.done = {} /\ q.cur = None
      /\ ~q.errs /\ q.dir = d
  BY DEF Idle
<1> QED BY <1>1, <1>2, Names DEF JobOK, Accounted, Working, InHand

LEMMA StartType ==
  ASSUME TypesOK
  PROVE  /\ StartFull \/ StartRescan => TypesOK'
         /\ \A F \in SUBSET Files, d \in Dirs, check \in BOOLEAN :
              StartRestore(F, d, check) => TypesOK'
<1> USE DEF TypesOK, disk, quiet
<1>1. ASSUME NEW s \in {"scan", "list"}, NEW a \in BOOLEAN, StartMirror(s, a)
      PROVE  TypesOK'
  <2> DEFINE F == IF s = "scan" THEN Files ELSE {}
             q == [Idle EXCEPT !.step = s, !.after = a, !.dir = conf, !.todo = F]
  <2>1. F \in SUBSET Files
    OBVIOUS
  <2>2. JobOK(q)
    <3> HIDE DEF F
    <3> QED BY <2>1, StartedMirror, TypeIs
  <2>3. job' = [job EXCEPT !["mirror"] = q]
    BY <1>1 DEF StartMirror
  <2>4. JobsOK'
    <3> HIDE DEF q
    <3> QED BY <2>2, <2>3, OneJob, Names
  <2> QED BY <1>1, <2>4, TypeIs, TypeAfter DEF StartMirror
<1>2. ASSUME NEW F \in SUBSET Files, NEW d \in Dirs, NEW check \in BOOLEAN,
             StartRestore(F, d, check)
      PROVE  TypesOK'
  <2> DEFINE r == [f \in F |-> row[f]]
             q == [Idle EXCEPT !.step = "next", !.dir = d, !.check = check, !.todo = F,
                               !.rows = r]
  <2>1. r \in RowSets /\ DOMAIN r = F
    BY Listing, TypeIs
  <2>2. JobOK(q)
    <3> HIDE DEF r
    <3> QED BY <2>1, StartedRestore
  <2>3. job' = [job EXCEPT !["restore"] = q]
    BY <1>2 DEF StartRestore
  <2>4. JobsOK'
    <3> HIDE DEF q
    <3> QED BY <2>2, <2>3, OneJob, Names
  <2> QED BY <1>2, <2>4, TypeIs, TypeAfter DEF StartRestore
<1> QED BY <1>1, <1>2 DEF StartFull, StartRescan

(* A job that ends, well or not. *)
LEMMA EndType ==
  ASSUME TypesOK, NEW j \in Jobs, NEW e \in BOOLEAN, End(j, e)
  PROVE  /\ JobsOK' /\ asked' \in BOOLEAN
         /\ last' \in {"none", "completed", "cancelled", "failed"}
<1>1. JobsOK'
  BY IdleOK, OneJob DEF End, TypesOK
<1> QED BY <1>1, TypeIs DEF End, TypesOK

LEMMA CancelType ==
  ASSUME TypesOK
  PROVE  CancelLook \/ CancelAct => TypesOK'
<1> USE DEF TypesOK, disk, quiet
<1>1. ASSUME CancelLook PROVE TypesOK'
  BY <1>1, SameJobs, TypeIs, TypeAfter DEF CancelLook
<1>2. ASSUME CancelAct PROVE TypesOK'
  <2>1. JobsOK'
    <3>1. CASE UNCHANGED job
      BY <3>1, SameJobs
    <3>2. CASE job' = [job EXCEPT !["mirror"].stop = TRUE]
      <4> DEFINE q == [job["mirror"] EXCEPT !.stop = TRUE]
      <4>1. JobOK(q)
        BY FlagsOK, Names DEF JobsOK
      <4>2. job' = [job EXCEPT !["mirror"] = q]
        BY <3>2
      <4> HIDE DEF q
      <4> QED BY <4>1, <4>2, OneJob, Names
    <3> QED BY <1>2, <3>1, <3>2 DEF CancelAct
  <2>2. asked' \in BOOLEAN
    BY <1>2, TypeIs DEF CancelAct
  <2> QED BY <1>2, <2>1, <2>2, TypeIs, TypeAfter DEF CancelAct
<1> QED BY <1>1, <1>2

(* A job that fails with some of its files. *)
LEMMA FailedType ==
  ASSUME JobsOK, NEW j \in Jobs, job[j].step \in Working, NEW F \in SUBSET Files,
         Failed(j, F)
  PROVE  JobsOK'
<1>1. JobOK(Done(j, F, TRUE))
  BY DoneOK DEF JobsOK
<1> QED BY <1>1, OneJob DEF Failed

(* The file in hand. *)
LEMMA HandOK ==
  ASSUME JobsOK, NEW j \in Jobs
  PROVE  /\ job[j].step \in InHand => /\ job[j].cur \in Files
                                      /\ job[j].cur \in job[j].todo
                                      /\ job[j].cur \in DOMAIN job[j].rows
                                      /\ MyCache(j) \in Caches
                                      /\ \A i \in Jobs : job[i].cur # None => job[i].step \in InHand
         /\ \A f \in Files : Cache(j, f) \in Caches
         /\ job[j].todo \subseteq Files
         /\ job[j].step \in Working => job[j].todo \subseteq DOMAIN job[j].rows
<1>1. \A f \in Files : Cache(j, f) \in Caches
  BY DEF Cache, Caches
<1>2. JobOK(job[j])
  BY DEF JobsOK
<1>3. job[j].step \in InHand => job[j].cur \in Files /\ job[j].cur \in job[j].todo
  BY <1>2 DEF JobOK, JobRecords, Accounted
<1>4. job[j].step \in Working => job[j].todo \subseteq DOMAIN job[j].rows
  BY <1>2 DEF JobOK, Accounted
<1>5. job[j].todo \subseteq Files
  BY <1>2, JobFields
<1> QED BY <1>1, <1>3, <1>4, <1>5 DEF MyCache, Working, JobsOK, JobOK

LEMMA WalkType ==
  ASSUME TypesOK
  PROVE  /\ \A f \in Files : Stat(f) => TypesOK'
         /\ ScanMark \/ ScanSave \/ ListMissing \/ Mark => TypesOK'
<1> USE DEF TypesOK, disk, quiet
<1> DEFINE m == job["mirror"]
<1>m. "mirror" \in Jobs /\ JobOK(m) /\ Mirror = m
  BY Names DEF JobsOK, Mirror
<1>f. m \in JobRecords
  BY <1>m DEF JobOK
<1> HIDE DEF m
<1>1. ASSUME NEW f \in Files, Stat(f) PROVE TypesOK'
  <2> DEFINE S == IF Present(m.dir, f) THEN m.seen \cup {f} ELSE m.seen
             q == [m EXCEPT !.todo = m.todo \ {f}, !.seen = S]
  <2>1. m.step = "scan"
    BY <1>1, <1>m DEF Stat
  <2>2. S \in SUBSET Files
    BY <1>m, JobFields
  <2> HIDE DEF S
  <2>3. JobOK(q)
    BY <1>m, <2>1, <2>2 DEF JobOK, JobRecords, Accounted, Working, InHand
  <2>4. job' = [job EXCEPT !["mirror"] = q]
    BY <1>1, <1>m DEF Stat, S, m
  <2>5. JobsOK'
    <3> HIDE DEF q
    <3> QED BY <1>m, <2>3, <2>4, OneJob
  <2> QED BY <1>1, <2>5, TypeIs, TypeAfter DEF Stat
<1>2. ASSUME ScanMark PROVE TypesOK'
  <2>1. CASE End("mirror", TRUE) /\ UNCHANGED row
    BY <1>2, <1>m, <2>1, EndType, TypeIs, TypeAfter DEF ScanMark
  <2>2. CASE /\ row' = [f \in Files |-> [row[f] EXCEPT !.present = f \in Mirror.seen]]
             /\ job' = [job EXCEPT !["mirror"].step = "save", !["mirror"].seen = {}]
             /\ UNCHANGED quiet
    <3> DEFINE q == [m EXCEPT !.step = "save", !.seen = {}]
    <3>1. ASSUME NEW f \in Files
          PROVE  [row[f] EXCEPT !.present = f \in Mirror.seen] \in Rows
      <4> DEFINE b == f \in Mirror.seen
      <4>1. b \in BOOLEAN
        OBVIOUS
      <4> HIDE DEF b
      <4>2. [row[f] EXCEPT !.present = b] \in Rows
        BY <4>1, RowUpdates, TypeIs
      <4> QED BY <4>2 DEF b
    <3>2. row' \in [Files -> Rows]
      BY <2>2, <3>1
    <3>3. m.step = "scan"
      BY <1>2, <1>m DEF ScanMark
    <3>4. JobOK(q)
      BY <1>m, <3>3 DEF JobOK, JobRecords, Accounted, Working, InHand
    <3>5. job' = [job EXCEPT !["mirror"] = q]
      BY <2>2 DEF m
    <3>6. JobsOK'
      <4> HIDE DEF q
      <4> QED BY <1>m, <3>4, <3>5, OneJob
    <3> QED BY <1>2, <2>2, <3>2, <3>6, TypeIs, TypeAfter DEF ScanMark
  <2> QED BY <1>2, <2>1, <2>2 DEF ScanMark
<1>3. ASSUME ScanSave PROVE TypesOK'
  <2>0. m.step = "save" /\ m.dir \in Dirs
    BY <1>3, <1>m, <1>f DEF ScanSave, JobOK, JobRecords
  <2>1. snap' = snap \/ snap' = snap \cup {m.dir}
    BY <1>3, <1>m DEF ScanSave
  <2>2. CASE \E e \in BOOLEAN : End("mirror", e)
    <3>1. PICK e \in BOOLEAN : End("mirror", e)
      BY <2>2
    <3> QED BY <1>3, <1>m, <3>1, EndType, TypeIs, TypeAfter, <2>0, <2>1 DEF ScanSave
  <2>3. CASE job' = [job EXCEPT !["mirror"].step = "list"] /\ UNCHANGED quiet
    <3> DEFINE q == [m EXCEPT !.step = "list"]
    <3>1. JobOK(q)
      BY <1>m, <2>0 DEF JobOK, JobRecords, Accounted, Working, InHand
    <3>2. job' = [job EXCEPT !["mirror"] = q]
      BY <2>3 DEF m
    <3>3. JobsOK'
      <4> HIDE DEF q
      <4> QED BY <1>m, <3>1, <3>2, OneJob
    <3> QED BY <1>3, <2>3, <3>3, TypeIs, TypeAfter, <2>0, <2>1 DEF ScanSave
  <2> QED BY <1>3, <2>2, <2>3 DEF ScanSave
<1>4. ASSUME ListMissing PROVE TypesOK'
  <2>1. CASE End("mirror", TRUE)
    BY <1>4, <1>m, <2>1, EndType, TypeIs, TypeAfter DEF ListMissing
  <2>2. CASE /\ job' = [job EXCEPT !["mirror"].step = "next", !["mirror"].todo = Missing,
                                   !["mirror"].rows = [f \in Missing |-> row[f]]]
             /\ UNCHANGED quiet
    <3> DEFINE r == [f \in Missing |-> row[f]]
               q == [m EXCEPT !.step = "next", !.todo = Missing, !.rows = r]
    <3>1. Missing \in SUBSET Files
      BY DEF Missing
    <3>2. r \in RowSets /\ DOMAIN r = Missing
      BY <3>1, Listing, TypeIs
    <3>3. m.step = "list"
      BY <1>4, <1>m DEF ListMissing
    <3>4. JobOK(q)
      <4> HIDE DEF r
      <4> QED BY <1>m, <3>1, <3>2, <3>3 DEF JobOK, JobRecords, Accounted, Working, InHand
    <3>5. job' = [job EXCEPT !["mirror"] = q]
      BY <2>2 DEF m
    <3>6. JobsOK'
      <4> HIDE DEF q
      <4> QED BY <1>m, <3>4, <3>5, OneJob
    <3> QED BY <1>4, <2>2, <3>6, TypeIs, TypeAfter DEF ListMissing
  <2> QED BY <1>4, <2>1, <2>2 DEF ListMissing
<1>5. ASSUME Mark PROVE TypesOK'
  <2>1. m.step = "mark" /\ m.step \in InHand /\ m.step \in Working
    BY <1>5, <1>m DEF Mark, InHand, Working
  <2>2. m.cur \in Files
    BY <1>m, <2>1, HandOK DEF m
  <2>3. CASE /\ row' = [row EXCEPT ![Mirror.cur].present = TRUE]
             /\ job' = [job EXCEPT !["mirror"] = [Done("mirror", {Mirror.cur}, FALSE)
                                                    EXCEPT !.done = @ \cup {Mirror.cur}]]
             /\ UNCHANGED quiet
    <3>1. row' = [row EXCEPT ![m.cur] = [row[m.cur] EXCEPT !.present = TRUE]]
      BY <2>3, <1>m
    <3>2. row' \in [Files -> Rows]
      BY <3>1, <2>2, RowUpdates, TypeIs
    <3>3. JobOK([Done("mirror", {job["mirror"].cur}, FALSE)
                   EXCEPT !.done = @ \cup {job["mirror"].cur}])
      BY <1>m, <2>1, WrittenOK DEF m
    <3>4. JobsOK'
      BY <1>m, <2>3, <3>3, OneJob DEF m
    <3> QED BY <1>5, <2>3, <3>2, <3>4, TypeIs, TypeAfter DEF Mark
  <2>4. CASE End("mirror", TRUE) /\ UNCHANGED row
    BY <1>5, <1>m, <2>4, EndType, TypeIs, TypeAfter DEF Mark
  <2>5. CASE Failed("mirror", {Mirror.cur}) /\ UNCHANGED quiet /\ UNCHANGED row
    <3>1. JobsOK'
      BY <1>m, <2>1, <2>2, <2>5, FailedType DEF m
    <3> QED BY <1>5, <2>5, <3>1, TypeIs, TypeAfter DEF Mark
  <2> QED BY <1>5, <2>3, <2>4, <2>5 DEF Mark
<1> QED BY <1>1, <1>2, <1>3, <1>4, <1>5

-----------------------------------------------------------------------------
(* What the jobs' steps make of the jobs. *)
LEMMA CreateJobs ==
  ASSUME JobsOK, NEW j \in Jobs, NEW f, NEW v, Create(j, f, v)
  PROVE  job' = [job EXCEPT
                  ![j] = [job[j] EXCEPT !.step = "fill", !.cur = f, !.got = v, !.named = TRUE,
                                        !.shared = Uses(Other(j), Cache(j, f))],
                  ![Other(j)] = [job[Other(j)] EXCEPT
                      !.shared = job[Other(j)].shared \/ Uses(Other(j), Cache(j, f))]]
<1>1. Other(j) \in Jobs /\ Other(j) # j
  BY Names
<1> QED BY <1>1 DEF Create, JobsOK

LEMMA UnnamedJobs ==
  ASSUME JobsOK, NEW j \in Jobs, NEW c, NEW q, job' = [Unnamed(j, c) EXCEPT ![j] = q]
  PROVE  job' = [job EXCEPT
                  ![j] = q,
                  ![Other(j)] = [job[Other(j)] EXCEPT
                      !.named = job[Other(j)].named /\ ~Uses(Other(j), c)]]
<1>1. Other(j) \in Jobs /\ Other(j) # j
  BY Names
<1> QED BY <1>1 DEF Unnamed, JobsOK

LEMMA CreateType ==
  ASSUME TypesOK, NEW j \in Jobs, job[j].step = "next", NEW f \in job[j].todo,
         NEW v \in Contents, Create(j, f, v)
  PROVE  JobsOK' /\ cache' \in [Caches -> Contents]
<1> DEFINE b == Uses(Other(j), Cache(j, f))
           e == job[Other(j)].shared \/ b
           q == [job[j] EXCEPT !.step = "fill", !.cur = f, !.got = v, !.named = TRUE,
                               !.shared = b]
           o == [job[Other(j)] EXCEPT !.shared = e]
<1>1. JobOK(job[j]) /\ JobOK(job[Other(j)]) /\ Other(j) \in Jobs /\ f \in Files
  BY Names, JobFields DEF TypesOK, JobsOK
<1>2. b \in BOOLEAN
  BY DEF Uses
<1>3. e \in BOOLEAN
  OBVIOUS
<1> HIDE DEF b, e
<1>4. JobOK(q)
  <2>1. q \in JobRecords
    BY <1>1, <1>2 DEF JobOK, JobRecords, Working, InHand
  <2>2. /\ q.step = "fill" /\ q.cur = f /\ q.todo = job[j].todo /\ q.done = job[j].done
        /\ q.rows = job[j].rows /\ q.errs = job[j].errs /\ q.dir = job[j].dir
    BY <1>1 DEF JobOK, JobRecords
  <2> QED BY <1>1, <2>1, <2>2, Names DEF JobOK, Accounted, Working, InHand
<1>5. JobOK(o)
  BY <1>1, <1>3, FlagsOK
<1>6. job' = [job EXCEPT ![j] = q, ![Other(j)] = o]
  BY CreateJobs DEF TypesOK, b, e
<1>7. JobsOK'
  <2> HIDE DEF q, o
  <2> QED BY <1>4, <1>5, <1>6, BothJobs DEF TypesOK
<1> QED BY <1>7, TypeIs, ContentsAre DEF Create, TypesOK

LEMMA UnnamedType ==
  ASSUME JobsOK, NEW j \in Jobs, NEW c, NEW q, JobOK(q),
         job' = [Unnamed(j, c) EXCEPT ![j] = q]
  PROVE  JobsOK'
<1> DEFINE b == job[Other(j)].named /\ ~Uses(Other(j), c)
           o == [job[Other(j)] EXCEPT !.named = b]
<1>1. b \in BOOLEAN
  OBVIOUS
<1> HIDE DEF b
<1>2. JobOK(o)
  BY <1>1, FlagsOK, Names DEF JobsOK
<1>3. job' = [job EXCEPT ![j] = q, ![Other(j)] = o]
  BY UnnamedJobs DEF b
<1> HIDE DEF o
<1> QED BY <1>2, <1>3, BothJobs

LEMMA OpenType ==
  ASSUME TypesOK, NEW j \in Jobs, NEW f \in Files
  PROVE  Open(j, f) \/ OpenMember(j, f) => TypesOK'
<1> USE DEF TypesOK, disk, quiet
<1>1. ASSUME Open(j, f) PROVE TypesOK'
  <2> DEFINE v == obj[job[j].rows[f].key][f]
  <2>1. job[j].step = "next" /\ job[j].step \in Working /\ f \in job[j].todo
    BY <1>1 DEF Open, Ready, First, Alone, Working
  <2>2. v \in Contents
    <3>1. f \in DOMAIN job[j].rows
      BY <2>1, HandOK
    <3>2. job[j].rows \in RowSets
      BY JobFields DEF JobsOK
    <3>3. job[j].rows[f].key \in Keys
      BY <3>1, <3>2, Listed DEF Rows
    <3> QED BY <3>3, TypeIs
  <2> HIDE DEF v
  <2>3. CASE Create(j, f, v)
    BY <1>1, <2>1, <2>2, <2>3, CreateType, TypeIs, TypeAfter DEF Open
  <2>4. CASE Failed(j, {f}) /\ UNCHANGED cache
    BY <1>1, <2>1, <2>4, FailedType, TypeIs, TypeAfter DEF Open
  <2> QED BY <1>1, <2>3, <2>4 DEF Open, v
<1>2. ASSUME OpenMember(j, f) PROVE TypesOK'
  <2> DEFINE v == job[j].data[f]
  <2>1. job[j].step = "next" /\ job[j].step \in Working /\ f \in job[j].todo
    BY <1>2 DEF OpenMember, Ready, First, Members, Working
  <2>2. v \in Contents
    BY JobFields DEF JobsOK
  <2> HIDE DEF v
  <2>3. CASE Create(j, f, v)
    BY <1>2, <2>1, <2>2, <2>3, CreateType, TypeIs, TypeAfter DEF OpenMember
  <2>4. CASE Failed(j, {f}) /\ UNCHANGED cache
    BY <1>2, <2>1, <2>4, FailedType, TypeIs, TypeAfter DEF OpenMember
  <2> QED BY <1>2, <2>3, <2>4 DEF OpenMember, v
<1> QED BY <1>1, <1>2

LEMMA MembersAre ==
  ASSUME JobsOK, NEW j \in Jobs, NEW k
  PROVE  Members(j, k) \in SUBSET Files
BY HandOK DEF Members

LEMMA OpenZipType ==
  ASSUME TypesOK, NEW j \in Jobs, NEW k \in Keys, OpenZip(j, k)
  PROVE  TypesOK'
<1> USE DEF TypesOK, disk, quiet
<1>1. job[j].step = "next" /\ job[j].step \in Working
  BY DEF OpenZip, Ready, Working
<1>2. ASSUME Failed(j, Members(j, k)) PROVE JobsOK'
  BY <1>1, <1>2, MembersAre, FailedType
<1>3. ASSUME NEW a \in [Files -> Contents], Archive(j, k, a) PROVE JobsOK'
  <2>1. CASE k \in Zips
    <3> DEFINE q == [job[j] EXCEPT !.zip = k, !.data = a]
    <3>0. job[j] \in JobRecords
      BY DEF JobsOK, JobOK
    <3>1. q \in JobRecords
      BY <2>1, <3>0 DEF JobRecords
    <3>2. /\ q.step = job[j].step /\ q.cur = job[j].cur /\ q.todo = job[j].todo
          /\ q.done = job[j].done /\ q.rows = job[j].rows /\ q.errs = job[j].errs
          /\ q.dir = job[j].dir
      BY <3>0 DEF JobRecords
    <3>3. JobOK(q)
      BY <3>1, <3>2 DEF JobsOK, JobOK, Accounted
    <3>4. job' = [job EXCEPT ![j] = q]
      BY <1>3, <2>1 DEF Archive
    <3> HIDE DEF q
    <3> QED BY <3>3, <3>4, OneJob
  <2>2. CASE k \notin Zips
    BY <1>2, <1>3, <2>2 DEF Archive
  <2> QED BY <2>1, <2>2
<1>4. obj[k] \in [Files -> Contents] /\ zips[k] \in [Files -> Contents]
  BY TypeIs
<1>5. JobsOK'
  BY <1>2, <1>3, <1>4 DEF OpenZip
<1>6. zips' \in [Keys -> [Files -> Contents]]
  BY <1>4, TypeIs DEF OpenZip
<1> QED BY <1>5, <1>6, TypeIs, TypeAfter DEF OpenZip

LEMMA CloseZipType ==
  ASSUME TypesOK, NEW j \in Jobs, CloseZip(j)
  PROVE  TypesOK'
<1> USE DEF TypesOK, disk, quiet
<1>1. job[j].step = "next" /\ job[j].step \in Working
  BY DEF CloseZip, Ready, Working
<1>2. ASSUME NEW r, JobOK(r), job' = [job EXCEPT ![j] = [r EXCEPT !.zip = None, !.data = NoZip]]
      PROVE  JobsOK'
  <2> DEFINE q == [r EXCEPT !.zip = None, !.data = NoZip]
  <2>1. q \in JobRecords
    BY <1>2, ContentsAre DEF JobOK, JobRecords
  <2>2. /\ q.step = r.step /\ q.cur = r.cur /\ q.todo = r.todo /\ q.done = r.done
        /\ q.rows = r.rows /\ q.errs = r.errs /\ q.dir = r.dir
    BY <1>2 DEF JobOK, JobRecords
  <2>3. JobOK(q)
    BY <1>2, <2>1, <2>2 DEF JobOK, Accounted
  <2> HIDE DEF q
  <2> QED BY <1>2, <2>3, OneJob DEF q
<1>3. CASE job' = [job EXCEPT ![j].zip = None, ![j].data = NoZip]
  <2>1. job' = [job EXCEPT ![j] = [job[j] EXCEPT !.zip = None, !.data = NoZip]]
    BY <1>3
  <2>2. JobsOK'
    BY <1>2, <2>1 DEF JobsOK
  <2> QED BY <2>2, TypeIs, TypeAfter DEF CloseZip
<1>4. CASE job' = [job EXCEPT ![j] = [Done(j, Members(j, job[j].zip), TRUE)
                                        EXCEPT !.zip = None, !.data = NoZip]]
  <2>1. JobOK(Done(j, Members(j, job[j].zip), TRUE))
    BY <1>1, MembersAre, DoneOK DEF JobsOK
  <2>2. JobsOK'
    BY <1>2, <1>4, <2>1
  <2> QED BY <2>2, TypeIs, TypeAfter DEF CloseZip
<1> QED BY <1>3, <1>4 DEF CloseZip

LEMMA FillType ==
  ASSUME TypesOK, NEW j \in Jobs, Fill(j)
  PROVE  TypesOK'
<1> USE DEF TypesOK, disk, quiet
<1>1. /\ job[j].step = "fill" /\ job[j].step \in Working /\ job[j].step \in InHand
      /\ MyCache(j) \in Caches /\ job[j].cur \in Files /\ JobOK(job[j])
  BY HandOK DEF Fill, Working, InHand, JobsOK
<1>2. CASE /\ \E v \in Written(j) : cache' = [cache EXCEPT ![MyCache(j)] = v]
           /\ IF Verified(j) THEN job' = [job EXCEPT ![j].step = "stage"]
              ELSE Failed(j, {job[j].cur})
  <2>1. Written(j) \subseteq Contents
    <3>1. cache[MyCache(j)] \in Contents /\ job[j].got \in Contents
      BY <1>1, TypeIs, JobFields
    <3> QED BY <3>1, ContentsAre DEF Written
  <2>2. cache' \in [Caches -> Contents]
    BY <1>2, <2>1, TypeIs
  <2>3. JobsOK'
    <3>1. CASE job' = [job EXCEPT ![j].step = "stage"]
      <4> DEFINE q == [job[j] EXCEPT !.step = "stage"]
      <4>1. JobOK(q)
        BY <1>1 DEF JobOK, JobRecords, Accounted, Working, InHand
      <4>2. job' = [job EXCEPT ![j] = q]
        BY <3>1
      <4> HIDE DEF q
      <4> QED BY <4>1, <4>2, OneJob
    <3>2. CASE Failed(j, {job[j].cur})
      BY <1>1, <3>2, FailedType
    <3> QED BY <1>2, <3>1, <3>2
  <2> QED BY <2>2, <2>3, TypeIs, TypeAfter DEF Fill
<1>3. CASE /\ cache' = [cache EXCEPT ![MyCache(j)] = Nothing]
           /\ job' = [Unnamed(j, MyCache(j)) EXCEPT ![j] = Done(j, {job[j].cur}, TRUE)]
  <2>1. JobOK(Done(j, {job[j].cur}, TRUE))
    BY <1>1, DoneOK
  <2>2. JobsOK'
    BY <1>3, <2>1, UnnamedType
  <2>3. cache' \in [Caches -> Contents]
    BY <1>3, ContentsAre, TypeIs
  <2> QED BY <2>2, <2>3, TypeIs, TypeAfter DEF Fill
<1> QED BY <1>2, <1>3 DEF Fill

LEMMA StageType ==
  ASSUME TypesOK, NEW j \in Jobs, Stage(j)
  PROVE  TypesOK'
<1> USE DEF TypesOK, disk, quiet
<1>1. /\ job[j].step = "stage" /\ job[j].step \in Working /\ job[j].step \in InHand
      /\ MyCache(j) \in Caches /\ job[j].cur \in Files /\ JobOK(job[j])
  BY HandOK DEF Stage, Working, InHand, JobsOK
<1>2. CASE Failed(j, {job[j].cur}) /\ UNCHANGED dir
  BY <1>1, <1>2, FailedType, TypeIs, TypeAfter DEF Stage
<1>3. CASE /\ job' = [job EXCEPT ![j].step = "place", ![j].got = cache[MyCache(j)]]
           /\ dir' = [dir EXCEPT ![job[j].dir][job[j].cur] = Nothing]
  <2> DEFINE v == cache[MyCache(j)]
             q == [job[j] EXCEPT !.step = "place", !.got = v]
  <2>1. v \in Contents
    BY <1>1, TypeIs
  <2>2. JobOK(q)
    <3> HIDE DEF v
    <3> QED BY <1>1, <2>1 DEF JobOK, JobRecords, Accounted, Working, InHand
  <2>3. job' = [job EXCEPT ![j] = q]
    BY <1>3
  <2>4. JobsOK'
    <3> HIDE DEF q
    <3> QED BY <2>2, <2>3, OneJob
  <2>5. dir' \in [Dirs -> [Files -> Contents]]
    BY <1>3, ContentsAre, TypeIs
  <2> QED BY <2>4, <2>5, TypeIs, TypeAfter DEF Stage
<1> QED BY <1>2, <1>3 DEF Stage

LEMMA PlaceType ==
  ASSUME TypesOK, NEW j \in Jobs, Place(j)
  PROVE  TypesOK'
<1> USE DEF TypesOK, disk, quiet
<1>1. /\ job[j].step = "place" /\ job[j].step \in Working /\ job[j].step \in InHand
      /\ MyCache(j) \in Caches /\ job[j].cur \in Files /\ JobOK(job[j])
  BY HandOK DEF Place, Working, InHand, JobsOK
<1>2. CASE Failed(j, {job[j].cur}) /\ UNCHANGED <<dir, cache>>
  BY <1>1, <1>2, FailedType, TypeIs, TypeAfter DEF Place
<1>3. CASE /\ dir' = [dir EXCEPT ![job[j].dir][job[j].cur] = job[j].got]
           /\ cache' = [cache EXCEPT ![MyCache(j)] = Nothing]
           /\ job' = [Unnamed(j, MyCache(j)) EXCEPT ![j] =
                IF j = "mirror" THEN [@ EXCEPT !.step = "mark"]
                ELSE [Done(j, {job[j].cur}, FALSE) EXCEPT !.done = @ \cup {job[j].cur}]]
  <2>1. dir' \in [Dirs -> [Files -> Contents]] /\ cache' \in [Caches -> Contents]
    BY <1>1, <1>3, ContentsAre, TypeIs, JobFields
  <2>2. CASE j = "mirror"
    <3> DEFINE q == [job[j] EXCEPT !.step = "mark"]
    <3>1. JobOK(q)
      BY <1>1 DEF JobOK, JobRecords, Accounted, Working, InHand
    <3>2. Unnamed(j, MyCache(j))[j] = job[j]
      BY Names DEF Unnamed, JobsOK
    <3>3. job' = [Unnamed(j, MyCache(j)) EXCEPT ![j] = q]
      BY <1>3, <2>2, <3>2
    <3>4. JobsOK'
      <4> HIDE DEF q
      <4> QED BY <3>1, <3>3, UnnamedType
    <3> QED BY <2>1, <3>4, TypeIs, TypeAfter DEF Place
  <2>3. CASE j # "mirror"
    <3> DEFINE q == [Done(j, {job[j].cur}, FALSE) EXCEPT !.done = @ \cup {job[j].cur}]
    <3>1. JobOK(q)
      BY <1>1, WrittenOK
    <3>2. job' = [Unnamed(j, MyCache(j)) EXCEPT ![j] = q]
      BY <1>3, <2>3
    <3>3. JobsOK'
      <4> HIDE DEF q
      <4> QED BY <3>1, <3>2, UnnamedType
    <3> QED BY <2>1, <3>3, TypeIs, TypeAfter DEF Place
  <2> QED BY <2>2, <2>3
<1> QED BY <1>2, <1>3 DEF Place

LEMMA FinishType ==
  ASSUME TypesOK
  PROVE  /\ \A j \in Jobs : Finish(j) => TypesOK'
         /\ Exit => TypesOK'
<1> USE DEF TypesOK, disk, quiet
<1>1. ASSUME NEW j \in Jobs, Finish(j) PROVE TypesOK'
  <2>1. PICK e \in BOOLEAN : End(j, e)
    BY <1>1 DEF Finish
  <2> QED BY <1>1, <2>1, EndType, TypeIs, TypeAfter DEF Finish
<1>2. ASSUME Exit PROVE TypesOK'
  <2>1. JobsOK'
    BY <1>2, IdleOK DEF Exit, JobsOK, JobOK, Accounted
  <2> QED BY <1>2, <2>1, TypeIs, TypeAfter DEF Exit
<1> QED BY <1>1, <1>2

LEMMA TypeStep == TypesOK /\ [Next]_vars => TypesOK'
<1> SUFFICES ASSUME TypesOK, [Next]_vars PROVE TypesOK'
  OBVIOUS
<1>1. CASE UNCHANGED vars
  BY <1>1, SameJobs, TypeIs, TypeAfter DEF vars, TypesOK
<1>2. ASSUME NEW f \in Files, Change(f) \/ UploadOwn(f) \/ SeenAgain(f) PROVE TypesOK'
  BY <1>2, BackupType
<1>3. ASSUME NEW F \in SUBSET Files, NEW z \in Zips, UploadZip(F, z) PROVE TypesOK'
  BY <1>3, BackupType
<1>4. ASSUME NEW z \in Zips, DeleteZip(z) PROVE TypesOK'
  BY <1>4, BackupType
<1>5. ASSUME NEW d \in Dirs, Move(d) PROVE TypesOK'
  BY <1>5, BackupType
<1>6. CASE StartFull \/ StartRescan
  BY <1>6, StartType
<1>7. ASSUME NEW F \in SUBSET Files, NEW d \in Dirs, NEW check \in BOOLEAN,
             StartRestore(F, d, check)
      PROVE  TypesOK'
  BY <1>7, StartType
<1>8. CASE CancelLook \/ CancelAct
  BY <1>8, CancelType
<1>9. CASE Walk
  BY <1>9, WalkType DEF Walk
<1>10. ASSUME NEW j \in Jobs, Work(j) PROVE TypesOK'
  BY <1>10, OpenType, OpenZipType, CloseZipType, FillType, StageType, PlaceType, FinishType
  DEF Work
<1>11. CASE Exit
  BY <1>11, FinishType
<1> QED BY <1>1, <1>2, <1>3, <1>4, <1>5, <1>6, <1>7, <1>8, <1>9, <1>10, <1>11 DEF Next

LEMMA Types == Spec => []TypesOK
BY InitType, TypeStep, PTL DEF Spec

(* Rows, disks and both jobs keep their types, and a job has a file in hand
   exactly in the steps that write one. *)
THEOREM TypeCorrectness == Spec => []TypeOK
<1>1. TypesOK => TypeOK
  BY DEF TypesOK
<1> QED BY <1>1, Types, PTL

-----------------------------------------------------------------------------
(* A job that completes without an error has written every file it listed:
   what it has not written is still to do or has left an error. *)
THEOREM CleanCompletionsHaveAll == Spec => CleanMeansAll
<1>1. TypesOK /\ [Next]_vars =>
        [\A j \in Jobs :
           /\ job[j].step = "next" /\ job'[j].step = "idle"
           /\ job[j].todo = {} /\ ~job[j].errs
           => job[j].done = DOMAIN job[j].rows]_vars
  BY DEF TypesOK, JobsOK, JobOK, Accounted, Working
<1> QED BY <1>1, Types, PTL DEF Spec, CleanMeansAll
-----------------------------------------------------------------------------
(* A step that neither starts nor ends a mirror job, nor cancels one. *)
MirrorGoesOn ==
  /\ UNCHANGED quiet /\ job'["mirror"].stop = Mirror.stop
  /\ job'["mirror"].step = "idle" <=> Mirror.step = "idle"

LEMMA GoesOn ==
  ASSUME TypesOK, CancelOK, MirrorGoesOn
  PROVE  CancelOK' /\ (Mirror.stop /\ last' # last => last' # "failed")
BY DEF MirrorGoesOn, CancelOK, quiet, Mirror

(* A mirror job's end: the error is the cancel if there was one. *)
LEMMA EndCancel ==
  ASSUME TypesOK, CancelOK, NEW e \in BOOLEAN, End("mirror", e)
  PROVE  CancelOK' /\ (Mirror.stop /\ last' # last => last' # "failed")
<1>1. job'["mirror"] = Idle
  BY Names DEF End, TypesOK, JobsOK
<1>2. hand' = [hand EXCEPT !.live = FALSE]
  BY DEF End
<1>3. CancelOK'
  <2>1. hand' \in [at : {"none", "look", "flag"}, live : BOOLEAN] /\ ~hand'.live
    BY <1>2 DEF CancelOK
  <2>2. ~job'["mirror"].stop
    BY <1>1, IdleOK
  <2> QED BY <2>1, <2>2 DEF CancelOK, Mirror
<1>4. Mirror.stop => last' # "failed"
  BY DEF End, CancelOK
<1> QED BY <1>3, <1>4

(* What the steps of a job leave as it is. *)
GoesBack(q, j) == q.step = "next" /\ q.stop = job[j].stop /\ q.cur = None

LEMMA DoneKeeps ==
  ASSUME JobsOK, NEW j \in Jobs, NEW F
  PROVE  /\ GoesBack(Done(j, F, TRUE), j)
         /\ GoesBack([Done(j, F, TRUE) EXCEPT !.zip = None, !.data = NoZip], j)
         /\ \A D : GoesBack([Done(j, F, FALSE) EXCEPT !.done = D], j)
<1>1. job[j] \in JobRecords
  BY DEF JobsOK
<1>2. GoesBack(Done(j, F, TRUE), j)
  BY <1>1 DEF GoesBack, Done, JobRecords
<1>3. GoesBack([Done(j, F, TRUE) EXCEPT !.zip = None, !.data = NoZip], j)
  BY <1>1 DEF GoesBack, Done, JobRecords
<1>4. ASSUME NEW D PROVE GoesBack([Done(j, F, FALSE) EXCEPT !.done = D], j)
  BY <1>1 DEF GoesBack, Done, JobRecords
<1> QED BY <1>2, <1>3, <1>4

LEMMA OneGoesOn ==
  ASSUME JobsOK, NEW j \in Jobs, NEW q, job' = [job EXCEPT ![j] = q],
         q.stop = job[j].stop, job[j].step # "idle", q.step # "idle", UNCHANGED quiet
  PROVE  MirrorGoesOn
BY Names DEF MirrorGoesOn, Mirror, JobsOK

LEMMA BothGoOn ==
  ASSUME JobsOK, NEW j \in Jobs, NEW q, NEW o,
         job' = [job EXCEPT ![j] = q, ![Other(j)] = o],
         q.stop = job[j].stop, job[j].step # "idle", q.step # "idle",
         o.stop = job[Other(j)].stop, o.step = job[Other(j)].step, UNCHANGED quiet
  PROVE  MirrorGoesOn
<1>1. job'[j] = q /\ job'[Other(j)] = o
  BY Names DEF JobsOK
<1>2. j = "mirror" \/ Other(j) = "mirror"
  BY DEF Jobs, Other
<1> QED BY <1>1, <1>2 DEF MirrorGoesOn, Mirror

LEMMA FailedGoesOn ==
  ASSUME JobsOK, NEW j \in Jobs, NEW F, Failed(j, F), job[j].step # "idle", UNCHANGED quiet
  PROVE  MirrorGoesOn
<1>1. Done(j, F, TRUE).stop = job[j].stop /\ Done(j, F, TRUE).step = "next"
  BY DEF Done, JobsOK, JobRecords
<1> QED BY <1>1, OneGoesOn DEF Failed

LEMMA CreateGoesOn ==
  ASSUME JobsOK, NEW j \in Jobs, NEW f, NEW v, Create(j, f, v), job[j].step # "idle",
         UNCHANGED quiet
  PROVE  MirrorGoesOn
<1> DEFINE b == Uses(Other(j), Cache(j, f))
           q == [job[j] EXCEPT !.step = "fill", !.cur = f, !.got = v, !.named = TRUE,
                               !.shared = b]
           o == [job[Other(j)] EXCEPT !.shared = job[Other(j)].shared \/ b]
<1>1. job' = [job EXCEPT ![j] = q, ![Other(j)] = o]
  BY CreateJobs
<1>2. job[j] \in JobRecords /\ job[Other(j)] \in JobRecords
  BY Names DEF JobsOK
<1>3. /\ q.stop = job[j].stop /\ q.step # "idle"
      /\ o.stop = job[Other(j)].stop /\ o.step = job[Other(j)].step
  BY <1>2 DEF JobRecords
<1> HIDE DEF q, o
<1> QED BY <1>1, <1>3, BothGoOn

LEMMA UnnamedGoesOn ==
  ASSUME JobsOK, NEW j \in Jobs, NEW c, NEW q, job' = [Unnamed(j, c) EXCEPT ![j] = q],
         q.stop = job[j].stop, job[j].step # "idle", q.step # "idle", UNCHANGED quiet
  PROVE  MirrorGoesOn
<1> DEFINE o == [job[Other(j)] EXCEPT !.named = job[Other(j)].named /\ ~Uses(Other(j), c)]
<1>1. job' = [job EXCEPT ![j] = q, ![Other(j)] = o]
  BY UnnamedJobs
<1>2. job[Other(j)] \in JobRecords
  BY Names DEF JobsOK
<1>3. o.stop = job[Other(j)].stop /\ o.step = job[Other(j)].step
  BY <1>2 DEF JobRecords
<1> HIDE DEF o
<1> QED BY <1>1, <1>3, BothGoOn

(* The cancel, action by action. *)
CancelKept == CancelOK' /\ (Mirror.stop /\ last' # last => last' # "failed")

LEMMA BackupGoesOn ==
  ASSUME TypesOK, CancelOK
  PROVE  /\ \A f \in Files : Change(f) \/ UploadOwn(f) \/ SeenAgain(f) => CancelKept
         /\ \A F \in SUBSET Files, z \in Zips : UploadZip(F, z) => CancelKept
         /\ \A z \in Zips : DeleteZip(z) => CancelKept
         /\ \A d \in Dirs : Move(d) => CancelKept
<1>1. ASSUME UNCHANGED <<job, hand, asked, last>> PROVE CancelKept
  BY <1>1, GoesOn DEF MirrorGoesOn, quiet, Mirror, CancelKept
<1> QED BY <1>1 DEF Change, UploadOwn, SeenAgain, UploadZip, DeleteZip, Move

LEMMA StartCancel ==
  ASSUME TypesOK, CancelOK
  PROVE  /\ StartFull \/ StartRescan => CancelKept
         /\ \A F \in SUBSET Files, d \in Dirs, check \in BOOLEAN :
              StartRestore(F, d, check) => CancelKept
<1>1. ASSUME NEW s \in {"scan", "list"}, NEW a \in BOOLEAN, StartMirror(s, a)
      PROVE  CancelKept
  <2>1. ~job'["mirror"].stop
    BY <1>1, Names DEF StartMirror, TypesOK, JobsOK, Idle
  <2>2. ~hand.live
    BY <1>1 DEF StartMirror, CancelOK, Mirror
  <2> QED BY <1>1, <2>1, <2>2 DEF StartMirror, CancelOK, CancelKept, Mirror
<1>2. ASSUME NEW F \in SUBSET Files, NEW d \in Dirs, NEW check \in BOOLEAN,
             StartRestore(F, d, check)
      PROVE  CancelKept
  <2>1. job'["mirror"] = job["mirror"]
    BY <1>2, Names DEF StartRestore, TypesOK, JobsOK
  <2> QED BY <1>2, <2>1, GoesOn DEF StartRestore, MirrorGoesOn, Mirror, quiet, CancelKept
<1> QED BY <1>1, <1>2 DEF StartFull, StartRescan

LEMMA CancelCancel ==
  ASSUME TypesOK, CancelOK
  PROVE  CancelLook \/ CancelAct => CancelKept
<1>1. ASSUME CancelLook PROVE CancelKept
  BY <1>1 DEF CancelLook, CancelOK, CancelKept, Mirror
<1>2. ASSUME CancelAct PROVE CancelKept
  <2>1. job["mirror"] \in JobRecords /\ "mirror" \in DOMAIN job
    BY Names DEF TypesOK, JobsOK
  <2>2. hand' = [hand EXCEPT !.at = IF hand.at = "look" THEN "flag" ELSE "none"]
    BY <1>2 DEF CancelAct
  <2>3. /\ hand' \in [at : {"none", "look", "flag"}, live : BOOLEAN]
        /\ hand'.live = hand.live
        /\ hand'.at = "flag" => hand.at = "look"
    BY <2>2 DEF CancelOK
  <2>4. job'["mirror"].step = job["mirror"].step
    BY <1>2, <2>1 DEF CancelAct, JobRecords
  <2>5. job'["mirror"].stop => job["mirror"].stop \/ (hand.live /\ hand.at # "look")
    BY <1>2, <2>1 DEF CancelAct, JobRecords
  <2>6. hand.at \in {"look", "flag"} /\ UNCHANGED last
    BY <1>2 DEF CancelAct, CancelOK
  <2>7. asked => asked'
    BY <1>2 DEF CancelAct
  <2>8. hand.at = "look" => asked'
    BY <1>2 DEF CancelAct
  <2> QED BY <2>3, <2>4, <2>5, <2>6, <2>7, <2>8 DEF CancelOK, CancelKept, Mirror
<1> QED BY <1>1, <1>2

LEMMA WalkCancel ==
  ASSUME TypesOK, CancelOK
  PROVE  /\ \A f \in Files : Stat(f) => CancelKept
         /\ ScanMark \/ ScanSave \/ ListMissing \/ Mark => CancelKept
<1> DEFINE m == job["mirror"]
<1>m. "mirror" \in Jobs /\ m \in JobRecords /\ Mirror = m /\ JobsOK
  BY Names DEF TypesOK, JobsOK, Mirror
<1>e. ASSUME NEW e \in BOOLEAN, End("mirror", e) PROVE CancelKept
  BY <1>e, EndCancel DEF CancelKept
<1>g. MirrorGoesOn => CancelKept
  BY GoesOn DEF CancelKept
<1>1. ASSUME NEW f \in Files, Stat(f) PROVE CancelKept
  <2> DEFINE S == IF Present(m.dir, f) THEN m.seen \cup {f} ELSE m.seen
             q == [m EXCEPT !.todo = m.todo \ {f}, !.seen = S]
  <2>1. q.stop = m.stop /\ q.step = m.step
    BY <1>m DEF JobRecords
  <2>2. job' = [job EXCEPT !["mirror"] = q]
    BY <1>1, <1>m DEF Stat
  <2>3. m.step = "scan" /\ UNCHANGED quiet
    BY <1>1 DEF Stat, Mirror
  <2> HIDE DEF q
  <2> QED BY <1>m, <1>g, <2>1, <2>2, <2>3, OneGoesOn
<1>2. ASSUME NEW q, job' = [job EXCEPT !["mirror"] = q], q.stop = m.stop,
             m.step # "idle", q.step # "idle", UNCHANGED quiet
      PROVE  CancelKept
  BY <1>2, <1>m, <1>g, OneGoesOn
<1>3. ASSUME ScanMark PROVE CancelKept
  <2>1. m.step = "scan"
    BY <1>3 DEF ScanMark, Mirror
  <2>2. CASE job' = [job EXCEPT !["mirror"].step = "save", !["mirror"].seen = {}] /\ UNCHANGED quiet
    <3> DEFINE q == [m EXCEPT !.step = "save", !.seen = {}]
    <3>1. job' = [job EXCEPT !["mirror"] = q]
      BY <2>2
    <3>2. q.stop = m.stop /\ q.step = "save"
      BY <1>m DEF JobRecords
    <3> HIDE DEF q
    <3> QED BY <1>2, <2>1, <2>2, <3>1, <3>2
  <2> QED BY <1>3, <1>e, <2>2 DEF ScanMark
<1>4. ASSUME ScanSave PROVE CancelKept
  <2>1. m.step = "save"
    BY <1>4 DEF ScanSave, Mirror
  <2>2. CASE job' = [job EXCEPT !["mirror"].step = "list"] /\ UNCHANGED quiet
    <3> DEFINE q == [m EXCEPT !.step = "list"]
    <3>1. job' = [job EXCEPT !["mirror"] = q]
      BY <2>2
    <3>2. q.stop = m.stop /\ q.step = "list"
      BY <1>m DEF JobRecords
    <3> HIDE DEF q
    <3> QED BY <1>2, <2>1, <2>2, <3>1, <3>2
  <2> QED BY <1>4, <1>e, <2>2 DEF ScanSave
<1>5. ASSUME ListMissing PROVE CancelKept
  <2>1. m.step = "list"
    BY <1>5 DEF ListMissing, Mirror
  <2>2. CASE /\ job' = [job EXCEPT !["mirror"].step = "next", !["mirror"].todo = Missing,
                                   !["mirror"].rows = [f \in Missing |-> row[f]]]
             /\ UNCHANGED quiet
    <3> DEFINE r == [f \in Missing |-> row[f]]
               q == [m EXCEPT !.step = "next", !.todo = Missing, !.rows = r]
    <3>1. job' = [job EXCEPT !["mirror"] = q]
      BY <2>2
    <3>2. q.stop = m.stop /\ q.step = "next"
      <4> HIDE DEF r
      <4> QED BY <1>m DEF JobRecords
    <3> HIDE DEF q
    <3> QED BY <1>2, <2>1, <2>2, <3>1, <3>2
  <2> QED BY <1>5, <1>e, <2>2 DEF ListMissing
<1>6. ASSUME Mark PROVE CancelKept
  <2>1. m.step = "mark"
    BY <1>6 DEF Mark, Mirror
  <2>2. CASE job' = [job EXCEPT !["mirror"] = [Done("mirror", {Mirror.cur}, FALSE)
                                                 EXCEPT !.done = @ \cup {Mirror.cur}]]
             /\ UNCHANGED quiet
    <3> DEFINE d == Done("mirror", {Mirror.cur}, FALSE)
               q == [d EXCEPT !.done = d.done \cup {Mirror.cur}]
    <3>1. job' = [job EXCEPT !["mirror"] = q]
      BY <2>2
    <3>2. q.stop = m.stop /\ q.step = "next"
      BY <1>m DEF Done, JobRecords
    <3> HIDE DEF q
    <3> QED BY <1>2, <2>1, <2>2, <3>1, <3>2
  <2>3. CASE Failed("mirror", {Mirror.cur}) /\ UNCHANGED quiet
    BY <1>m, <1>g, <2>1, <2>3, FailedGoesOn
  <2> QED BY <1>6, <1>e, <2>2, <2>3 DEF Mark
<1> QED BY <1>1, <1>3, <1>4, <1>5, <1>6

LEMMA WorkCancel ==
  ASSUME TypesOK, CancelOK, NEW j \in Jobs, Work(j)
  PROVE  CancelKept
<1>m. job[j] \in JobRecords /\ JobsOK
  BY DEF TypesOK, JobsOK
<1>g. MirrorGoesOn => CancelKept
  BY GoesOn DEF CancelKept
<1>f. ASSUME NEW F, Failed(j, F), job[j].step # "idle", UNCHANGED quiet PROVE CancelKept
  BY <1>f, <1>g, <1>m, FailedGoesOn
<1>c. ASSUME NEW f, NEW v, Create(j, f, v), job[j].step # "idle", UNCHANGED quiet
      PROVE  CancelKept
  BY <1>c, <1>g, <1>m, CreateGoesOn
<1>o. ASSUME NEW q, job' = [job EXCEPT ![j] = q], q.stop = job[j].stop,
             job[j].step # "idle", q.step # "idle", UNCHANGED quiet
      PROVE  CancelKept
  BY <1>o, <1>g, <1>m, OneGoesOn
<1>u. ASSUME NEW c, NEW q, job' = [Unnamed(j, c) EXCEPT ![j] = q], q.stop = job[j].stop,
             job[j].step # "idle", q.step # "idle", UNCHANGED quiet
      PROVE  CancelKept
  BY <1>u, <1>g, <1>m, UnnamedGoesOn
<1>1. ASSUME NEW f \in Files, Open(j, f) \/ OpenMember(j, f) PROVE CancelKept
  <2>1. job[j].step = "next" /\ UNCHANGED quiet
    BY <1>1 DEF Open, OpenMember, Ready
  <2>2. CASE Failed(j, {f})
    BY <1>f, <2>1, <2>2
  <2>3. CASE \E v : Create(j, f, v)
    BY <1>c, <2>1, <2>3
  <2> QED BY <1>1, <2>2, <2>3 DEF Open, OpenMember
<1>2. ASSUME NEW k \in Keys, OpenZip(j, k) PROVE CancelKept
  <2>1. job[j].step = "next" /\ UNCHANGED quiet
    BY <1>2 DEF OpenZip, Ready
  <2>2. CASE Failed(j, Members(j, k))
    BY <1>f, <2>1, <2>2
  <2>3. ASSUME NEW a, job' = [job EXCEPT ![j].zip = k, ![j].data = a] PROVE CancelKept
    <3> DEFINE q == [job[j] EXCEPT !.zip = k, !.data = a]
    <3>1. job' = [job EXCEPT ![j] = q]
      BY <2>3
    <3>2. q.stop = job[j].stop /\ q.step = "next"
      BY <1>m, <2>1 DEF JobRecords
    <3> HIDE DEF q
    <3> QED BY <1>o, <2>1, <3>1, <3>2
  <2> QED BY <1>2, <2>2, <2>3 DEF OpenZip, Archive
<1>3. ASSUME CloseZip(j) PROVE CancelKept
  <2>1. job[j].step = "next" /\ UNCHANGED quiet
    BY <1>3 DEF CloseZip, Ready
  <2>2. CASE job' = [job EXCEPT ![j].zip = None, ![j].data = NoZip]
    <3> DEFINE q == [job[j] EXCEPT !.zip = None, !.data = NoZip]
    <3>1. job' = [job EXCEPT ![j] = q]
      BY <2>2
    <3>2. q.stop = job[j].stop /\ q.step = "next"
      BY <1>m, <2>1 DEF JobRecords
    <3> HIDE DEF q
    <3> QED BY <1>o, <2>1, <3>1, <3>2
  <2>3. CASE job' = [job EXCEPT ![j] = [Done(j, Members(j, job[j].zip), TRUE)
                                          EXCEPT !.zip = None, !.data = NoZip]]
    <3> DEFINE q == [Done(j, Members(j, job[j].zip), TRUE) EXCEPT !.zip = None, !.data = NoZip]
    <3>1. job' = [job EXCEPT ![j] = q]
      BY <2>3
    <3>2. q.stop = job[j].stop /\ q.step = "next"
      BY <1>m DEF Done, JobRecords
    <3> HIDE DEF q
    <3> QED BY <1>o, <2>1, <3>1, <3>2
  <2> QED BY <1>3, <2>2, <2>3 DEF CloseZip
<1>4. ASSUME Fill(j) PROVE CancelKept
  <2>1. job[j].step = "fill" /\ UNCHANGED quiet
    BY <1>4 DEF Fill
  <2>2. CASE job' = [job EXCEPT ![j].step = "stage"]
    <3> DEFINE q == [job[j] EXCEPT !.step = "stage"]
    <3>1. job' = [job EXCEPT ![j] = q]
      BY <2>2
    <3>2. q.stop = job[j].stop /\ q.step = "stage"
      BY <1>m DEF JobRecords
    <3> HIDE DEF q
    <3> QED BY <1>o, <2>1, <3>1, <3>2
  <2>3. CASE Failed(j, {job[j].cur})
    BY <1>f, <2>1, <2>3
  <2>4. CASE job' = [Unnamed(j, MyCache(j)) EXCEPT ![j] = Done(j, {job[j].cur}, TRUE)]
    <3> DEFINE q == Done(j, {job[j].cur}, TRUE)
    <3>1. q.stop = job[j].stop /\ q.step = "next"
      BY <1>m DEF Done, JobRecords
    <3> HIDE DEF q
    <3> QED BY <1>u, <2>1, <2>4, <3>1 DEF q
  <2> QED BY <1>4, <2>2, <2>3, <2>4 DEF Fill
<1>5. ASSUME Stage(j) PROVE CancelKept
  <2>1. job[j].step = "stage" /\ UNCHANGED quiet
    BY <1>5 DEF Stage
  <2>2. CASE job' = [job EXCEPT ![j].step = "place", ![j].got = cache[MyCache(j)]]
    <3> DEFINE q == [job[j] EXCEPT !.step = "place", !.got = cache[MyCache(j)]]
    <3>1. job' = [job EXCEPT ![j] = q]
      BY <2>2
    <3>2. q.stop = job[j].stop /\ q.step = "place"
      BY <1>m DEF JobRecords
    <3> HIDE DEF q
    <3> QED BY <1>o, <2>1, <3>1, <3>2
  <2>3. CASE Failed(j, {job[j].cur})
    BY <1>f, <2>1, <2>3
  <2> QED BY <1>5, <2>2, <2>3 DEF Stage
<1>6. ASSUME Place(j) PROVE CancelKept
  <2>1. job[j].step = "place" /\ UNCHANGED quiet
    BY <1>6 DEF Place
  <2>2. CASE Failed(j, {job[j].cur})
    BY <1>f, <2>1, <2>2
  <2>3. CASE /\ j = "mirror"
             /\ job' = [Unnamed(j, MyCache(j)) EXCEPT ![j] = [@ EXCEPT !.step = "mark"]]
    <3> DEFINE q == [job[j] EXCEPT !.step = "mark"]
    <3>1. Unnamed(j, MyCache(j))[j] = job[j]
      BY <1>m, Names DEF Unnamed, JobsOK
    <3>2. job' = [Unnamed(j, MyCache(j)) EXCEPT ![j] = q]
      BY <2>3, <3>1
    <3>3. q.stop = job[j].stop /\ q.step = "mark"
      BY <1>m DEF JobRecords
    <3> HIDE DEF q
    <3> QED BY <1>u, <2>1, <3>2, <3>3
  <2>4. CASE job' = [Unnamed(j, MyCache(j)) EXCEPT ![j] =
                       [Done(j, {job[j].cur}, FALSE) EXCEPT !.done = @ \cup {job[j].cur}]]
    <3> DEFINE q == [Done(j, {job[j].cur}, FALSE) EXCEPT !.done = @ \cup {job[j].cur}]
    <3>1. q.stop = job[j].stop /\ q.step = "next"
      BY <1>m DEF Done, JobRecords
    <3> HIDE DEF q
    <3> QED BY <1>u, <2>1, <2>4, <3>1 DEF q
  <2> QED BY <1>6, <2>2, <2>3, <2>4 DEF Place
<1>7. ASSUME Finish(j) PROVE CancelKept
  <2>1. PICK e \in BOOLEAN : End(j, e)
    BY <1>7 DEF Finish
  <2>2. CASE j = "mirror"
    BY <2>1, <2>2, EndCancel DEF CancelKept
  <2>3. CASE j = "restore"
    <3>1. job'["mirror"] = job["mirror"] /\ UNCHANGED quiet
      BY <1>m, <2>1, <2>3, Names DEF End, JobsOK, quiet
    <3> QED BY <1>g, <3>1 DEF MirrorGoesOn, Mirror
  <2> QED BY <2>2, <2>3 DEF Jobs
<1> QED BY <1>1, <1>2, <1>3, <1>4, <1>5, <1>6, <1>7 DEF Work

CancelInv == TypesOK /\ CancelOK

LEMMA CancelStep == CancelInv /\ [Next]_vars => CancelInv' /\ CancelKept
<1> SUFFICES ASSUME TypesOK, CancelOK, [Next]_vars PROVE CancelKept
  BY TypeStep DEF CancelInv, CancelKept
<1>1. CASE UNCHANGED vars
  BY <1>1, GoesOn DEF vars, MirrorGoesOn, quiet, Mirror, CancelKept
<1>2. ASSUME NEW f \in Files, Change(f) \/ UploadOwn(f) \/ SeenAgain(f) PROVE CancelKept
  BY <1>2, BackupGoesOn
<1>3. ASSUME NEW F \in SUBSET Files, NEW z \in Zips, UploadZip(F, z) PROVE CancelKept
  BY <1>3, BackupGoesOn
<1>4. ASSUME NEW z \in Zips, DeleteZip(z) PROVE CancelKept
  BY <1>4, BackupGoesOn
<1>5. ASSUME NEW d \in Dirs, Move(d) PROVE CancelKept
  BY <1>5, BackupGoesOn
<1>6. CASE StartFull \/ StartRescan
  BY <1>6, StartCancel
<1>7. ASSUME NEW F \in SUBSET Files, NEW d \in Dirs, NEW check \in BOOLEAN,
             StartRestore(F, d, check)
      PROVE  CancelKept
  BY <1>7, StartCancel
<1>8. CASE CancelLook \/ CancelAct
  BY <1>8, CancelCancel
<1>9. CASE Walk
  BY <1>9, WalkCancel DEF Walk
<1>10. ASSUME NEW j \in Jobs, Work(j) PROVE CancelKept
  BY <1>10, WorkCancel
<1>11. CASE Exit
  <2>1. job'["mirror"] = Idle
    BY <1>11, Names DEF Exit
  <2> QED BY <1>11, <2>1, IdleOK DEF Exit, CancelOK, CancelKept, Mirror
<1> QED BY <1>1, <1>2, <1>3, <1>4, <1>5, <1>6, <1>7, <1>8, <1>9, <1>10, <1>11 DEF Next

LEMMA InitCancel == Init => CancelInv
BY InitType, IdleOK, Names DEF Init, CancelInv, CancelOK, Mirror

(* A mirror download that sees its cancel does not count as a failure: the
   flag is set before the context, and both only of a job that is at work. *)
THEOREM CancelledIsNotFailed == Spec => CancelIsNoFailure
<1>1. CancelInv /\ [Next]_vars => [Mirror.stop /\ last' # last => last' # "failed"]_vars
  BY CancelStep DEF CancelKept
<1>2. CancelInv /\ [Next]_vars => CancelInv'
  BY CancelStep
<1> QED BY <1>1, <1>2, InitCancel, PTL DEF Spec, CancelIsNoFailure

-----------------------------------------------------------------------------
(* A cache file that only one job has had open holds what that job wrote, and
   what it wrote it has checked. *)
CacheOf(q) == <<IF q.zip = None THEN "standalone" ELSE "member", q.cur>>
Apart(q, o) == o.cur = None \/ CacheOf(o) # CacheOf(q)

Own(q, o, files) ==
  q.cur # None /\ ~q.shared =>
    /\ Apart(q, o)
    /\ q.step = "fill"  => q.named /\ files[CacheOf(q)] = Partial
    /\ q.step = "stage" => files[CacheOf(q)] = q.got
    /\ q.step \in {"stage", "place"} /\ q.check => q.got = q.rows[q.cur].ver

AloneOK == \A j \in Jobs : Own(job[j], job[Other(j)], cache)

AloneInv == TypesOK /\ AloneOK

LEMMA CacheIs ==
  ASSUME NEW j \in Jobs
  PROVE  /\ MyCache(j) = CacheOf(job[j])
         /\ \A c : Uses(j, c) <=> job[j].cur # None /\ CacheOf(job[j]) = c
         /\ \A f : Cache(j, f) = CacheOf([zip |-> job[j].zip, cur |-> f])
BY DEF MyCache, Cache, CacheOf, Uses

LEMMA HandCache ==
  ASSUME JobsOK, NEW j \in Jobs, job[j].cur # None
  PROVE  CacheOf(job[j]) \in Caches
<1>1. job[j].step \in InHand
  BY DEF JobsOK, JobOK
<1> QED BY <1>1, HandOK, CacheIs

(* A job without a file in hand; one whose file, and what is with it, stays. *)
SameHand(p, q) ==
  /\ p.cur = q.cur /\ p.zip = q.zip /\ p.step = q.step /\ p.got = q.got
  /\ p.check = q.check /\ p.rows = q.rows

LEMMA OwnFrame ==
  ASSUME NEW q, NEW o, NEW files, Own(q, o, files),
         NEW p, SameHand(p, q), NEW n,
         n.cur = None \/ (n.cur = o.cur /\ n.zip = o.zip), NEW now,
         q.cur # None /\ ~q.shared =>
           ~p.shared /\ p.named = q.named /\ now[CacheOf(q)] = files[CacheOf(q)]
  PROVE  q.cur # None /\ ~q.shared => Own(p, n, now)
<1> SUFFICES ASSUME q.cur # None, ~q.shared PROVE Own(p, n, now)
  OBVIOUS
<1>1. CacheOf(p) = CacheOf(q) /\ (n.cur # None => CacheOf(n) = CacheOf(o))
  BY DEF CacheOf, SameHand
<1>2. Apart(p, n)
  BY <1>1 DEF Own, Apart
<1>3. now[CacheOf(p)] = files[CacheOf(q)]
  BY <1>1
<1> QED BY <1>2, <1>3 DEF Own, SameHand

(* The steps that leave both jobs' files in hand as they are. *)
LEMMA SameOwn ==
  ASSUME AloneInv, UNCHANGED cache, job' \in [Jobs -> JobRecords],
         \A j \in Jobs : \/ job'[j].cur = None
                         \/ /\ SameHand(job'[j], job[j])
                            /\ job'[j].shared = job[j].shared /\ job'[j].named = job[j].named
  PROVE  AloneOK'
<1>1. ASSUME NEW j \in Jobs
      PROVE  Own(job'[j], job'[Other(j)], cache')
  <2>1. Own(job[j], job[Other(j)], cache) /\ Other(j) \in Jobs
    BY Names DEF AloneInv, AloneOK
  <2>2. CASE job'[j].cur = None
    BY <2>2 DEF Own
  <2>3. CASE job'[j].shared
    BY <2>3 DEF Own
  <2>4. CASE /\ SameHand(job'[j], job[j]) /\ job'[j].cur # None
             /\ job'[j].shared = job[j].shared /\ job'[j].named = job[j].named
             /\ ~job'[j].shared
    <3>1. \/ job'[Other(j)].cur = None
          \/ job'[Other(j)].cur = job[Other(j)].cur /\ job'[Other(j)].zip = job[Other(j)].zip
      BY <2>1 DEF SameHand
    <3>2. job[j].cur # None /\ ~job[j].shared
      BY <2>4 DEF SameHand
    <3> QED BY <2>1, <2>4, <3>1, <3>2, OwnFrame
  <2> QED BY <2>2, <2>3, <2>4
<1> QED BY <1>1 DEF AloneOK, Own, Apart, CacheOf

LEMMA OneAlone ==
  ASSUME AloneInv, JobsOK', NEW j \in Jobs, UNCHANGED cache,
         NEW q, job' = [job EXCEPT ![j] = q], q.cur = None
  PROVE  AloneOK'
<1>1. job' \in [Jobs -> JobRecords] /\ job'[j].cur = None
  BY DEF JobsOK, AloneInv, TypesOK
<1>2. \A i \in Jobs : i # j => job'[i] = job[i]
  BY DEF JobsOK, AloneInv, TypesOK
<1> QED BY <1>1, <1>2, SameOwn DEF SameHand

LEMMA FailedAlone ==
  ASSUME AloneInv, JobsOK', NEW j \in Jobs, UNCHANGED cache, NEW F, Failed(j, F)
  PROVE  AloneOK'
<1>1. Done(j, F, TRUE).cur = None
  BY DEF Done, JobsOK, JobRecords, AloneInv, TypesOK
<1> QED BY <1>1, OneAlone DEF Failed

LEMMA EndAlone ==
  ASSUME AloneInv, JobsOK', NEW j \in Jobs, UNCHANGED cache, NEW e \in BOOLEAN, End(j, e)
  PROVE  AloneOK'
<1>1. Idle.cur = None
  BY DEF Idle
<1> QED BY <1>1, OneAlone DEF End

LEMMA BackupAlone ==
  ASSUME AloneInv, JobsOK'
  PROVE  /\ UNCHANGED vars => AloneOK'
         /\ \A f \in Files : Change(f) \/ UploadOwn(f) \/ SeenAgain(f) => AloneOK'
         /\ \A F \in SUBSET Files, z \in Zips : UploadZip(F, z) => AloneOK'
         /\ \A z \in Zips : DeleteZip(z) => AloneOK'
         /\ \A d \in Dirs : Move(d) => AloneOK'
<1>1. ASSUME UNCHANGED <<job, disk>> PROVE AloneOK'
  BY <1>1, SameOwn DEF SameHand, JobsOK, disk
<1> QED BY <1>1 DEF vars, disk, Change, UploadOwn, SeenAgain, UploadZip, DeleteZip, Move

LEMMA StartAlone ==
  ASSUME AloneInv, JobsOK'
  PROVE  /\ StartFull \/ StartRescan \/ CancelLook \/ CancelAct \/ Exit => AloneOK'
         /\ \A F \in SUBSET Files, d \in Dirs, check \in BOOLEAN :
              StartRestore(F, d, check) => AloneOK'
<1> USE DEF disk
<1>1. ASSUME NEW s \in {"scan", "list"}, NEW a \in BOOLEAN, StartMirror(s, a)
      PROVE  AloneOK'
  <2> DEFINE F == IF s = "scan" THEN Files ELSE {}
             q == [Idle EXCEPT !.step = s, !.after = a, !.dir = conf, !.todo = F]
  <2>1. job' = [job EXCEPT !["mirror"] = q] /\ UNCHANGED cache
    BY <1>1 DEF StartMirror
  <2>2. q.cur = None
    BY DEF Idle
  <2> HIDE DEF q
  <2> QED BY <2>1, <2>2, OneAlone, Names
<1>2. ASSUME NEW F \in SUBSET Files, NEW d \in Dirs, NEW check \in BOOLEAN,
             StartRestore(F, d, check)
      PROVE  AloneOK'
  <2> DEFINE r == [f \in F |-> row[f]]
             q == [Idle EXCEPT !.step = "next", !.dir = d, !.check = check, !.todo = F,
                               !.rows = r]
  <2>1. job' = [job EXCEPT !["restore"] = q] /\ UNCHANGED cache
    BY <1>2 DEF StartRestore
  <2>2. q.cur = None
    <3> HIDE DEF r
    <3> QED BY DEF Idle
  <2> HIDE DEF q
  <2> QED BY <2>1, <2>2, OneAlone, Names
<1>3. ASSUME CancelLook PROVE AloneOK'
  BY <1>3, SameOwn DEF CancelLook, SameHand, JobsOK
<1>4. ASSUME CancelAct PROVE AloneOK'
  <2>1. job["mirror"] \in JobRecords /\ job \in [Jobs -> JobRecords] /\ "mirror" \in Jobs
    BY Names DEF AloneInv, TypesOK, JobsOK
  <2>2. ASSUME NEW j \in Jobs
        PROVE  /\ SameHand(job'[j], job[j])
               /\ job'[j].shared = job[j].shared /\ job'[j].named = job[j].named
    BY <1>4, <2>1 DEF CancelAct, SameHand, JobRecords
  <2> QED BY <1>4, <2>2, SameOwn DEF CancelAct, JobsOK
<1>5. ASSUME Exit PROVE AloneOK'
  <2>1. \A j \in Jobs : job'[j].cur = None
    BY <1>5 DEF Exit, Idle
  <2> QED BY <1>5, <2>1, SameOwn DEF Exit, JobsOK
<1> QED BY <1>1, <1>2, <1>3, <1>4, <1>5 DEF StartFull, StartRescan

LEMMA WalkAlone ==
  ASSUME AloneInv, JobsOK'
  PROVE  /\ \A f \in Files : Stat(f) => AloneOK'
         /\ ScanMark \/ ScanSave \/ ListMissing \/ Mark => AloneOK'
<1> USE DEF disk
<1> DEFINE m == job["mirror"]
<1>m. "mirror" \in Jobs /\ m \in JobRecords /\ Mirror = m
  BY Names DEF AloneInv, TypesOK, JobsOK, Mirror
<1>n. m.step \in {"scan", "save", "list", "next"} => m.cur = None
  BY <1>m DEF AloneInv, TypesOK, JobsOK, JobOK, InHand
<1>e. ASSUME NEW e \in BOOLEAN, End("mirror", e), UNCHANGED cache PROVE AloneOK'
  BY <1>e, <1>m, EndAlone
<1>o. ASSUME NEW q, job' = [job EXCEPT !["mirror"] = q], q.cur = None, UNCHANGED cache
      PROVE  AloneOK'
  BY <1>o, <1>m, OneAlone
<1>1. ASSUME NEW f \in Files, Stat(f) PROVE AloneOK'
  <2> DEFINE S == IF Present(m.dir, f) THEN m.seen \cup {f} ELSE m.seen
             q == [m EXCEPT !.todo = m.todo \ {f}, !.seen = S]
  <2>1. q.cur = m.cur
    BY <1>m DEF JobRecords
  <2>2. job' = [job EXCEPT !["mirror"] = q]
    BY <1>1, <1>m DEF Stat
  <2>3. m.step = "scan" /\ UNCHANGED cache
    BY <1>1 DEF Stat, Mirror
  <2> HIDE DEF q
  <2> QED BY <1>n, <1>o, <2>1, <2>2, <2>3
<1>2. ASSUME ScanMark PROVE AloneOK'
  <2>1. m.step = "scan" /\ UNCHANGED cache
    BY <1>2 DEF ScanMark, Mirror
  <2>2. CASE job' = [job EXCEPT !["mirror"].step = "save", !["mirror"].seen = {}]
    <3> DEFINE q == [m EXCEPT !.step = "save", !.seen = {}]
    <3>1. job' = [job EXCEPT !["mirror"] = q]
      BY <2>2
    <3>2. q.cur = m.cur
      BY <1>m DEF JobRecords
    <3> HIDE DEF q
    <3> QED BY <1>n, <1>o, <2>1, <3>1, <3>2
  <2> QED BY <1>2, <1>e, <2>1, <2>2 DEF ScanMark
<1>3. ASSUME ScanSave PROVE AloneOK'
  <2>1. m.step = "save" /\ UNCHANGED cache
    BY <1>3 DEF ScanSave, Mirror
  <2>2. CASE job' = [job EXCEPT !["mirror"].step = "list"]
    <3> DEFINE q == [m EXCEPT !.step = "list"]
    <3>1. job' = [job EXCEPT !["mirror"] = q]
      BY <2>2
    <3>2. q.cur = m.cur
      BY <1>m DEF JobRecords
    <3> HIDE DEF q
    <3> QED BY <1>n, <1>o, <2>1, <3>1, <3>2
  <2> QED BY <1>3, <1>e, <2>1, <2>2 DEF ScanSave
<1>4. ASSUME ListMissing PROVE AloneOK'
  <2>1. m.step = "list" /\ UNCHANGED cache
    BY <1>4 DEF ListMissing, Mirror
  <2>2. CASE job' = [job EXCEPT !["mirror"].step = "next", !["mirror"].todo = Missing,
                                !["mirror"].rows = [f \in Missing |-> row[f]]]
    <3> DEFINE r == [f \in Missing |-> row[f]]
               q == [m EXCEPT !.step = "next", !.todo = Missing, !.rows = r]
    <3>1. job' = [job EXCEPT !["mirror"] = q]
      BY <2>2
    <3>2. q.cur = m.cur
      <4> HIDE DEF r
      <4> QED BY <1>m DEF JobRecords
    <3> HIDE DEF q
    <3> QED BY <1>n, <1>o, <2>1, <3>1, <3>2
  <2> QED BY <1>4, <1>e, <2>1, <2>2 DEF ListMissing
<1>5. ASSUME Mark PROVE AloneOK'
  <2>1. UNCHANGED cache
    BY <1>5 DEF Mark
  <2>2. CASE job' = [job EXCEPT !["mirror"] = [Done("mirror", {Mirror.cur}, FALSE)
                                                 EXCEPT !.done = @ \cup {Mirror.cur}]]
    <3> DEFINE q == [Done("mirror", {Mirror.cur}, FALSE) EXCEPT !.done = @ \cup {Mirror.cur}]
    <3>1. q.cur = None
      BY <1>m DEF Done, JobRecords
    <3>2. job' = [job EXCEPT !["mirror"] = q]
      BY <2>2
    <3> HIDE DEF q
    <3> QED BY <1>o, <2>1, <3>1, <3>2
  <2>3. CASE Failed("mirror", {Mirror.cur})
    BY <1>m, <2>1, <2>3, FailedAlone
  <2> QED BY <1>5, <1>e, <2>1, <2>2, <2>3 DEF Mark
<1> QED BY <1>1, <1>2, <1>3, <1>4, <1>5

(* The steps that write cache files: the file of the job at work, and the one
   of the other job, which is another one unless both have had it open. *)
LEMMA BothAlone ==
  ASSUME AloneInv, NEW j \in Jobs, NEW q, NEW o,
         job' = [job EXCEPT ![j] = q, ![Other(j)] = o],
         Own(q, o, cache'), Own(o, q, cache')
  PROVE  AloneOK'
<1>1. job'[j] = q /\ job'[Other(j)] = o
  BY Names DEF AloneInv, TypesOK, JobsOK
<1>2. ASSUME NEW i \in Jobs PROVE Own(job'[i], job'[Other(i)], cache')
  <2>1. CASE i = j
    BY <1>1, <2>1
  <2>2. CASE i = Other(j)
    <3>1. job'[i] = o /\ job'[Other(i)] = q
      BY <1>1, <2>2, Names
    <3> QED BY <3>1
  <2> QED BY <2>1, <2>2, Names
<1> QED BY <1>2 DEF AloneOK, Own, Apart, CacheOf

LEMMA Bystander ==
  ASSUME AloneInv, NEW j \in Jobs, job[j].cur # None, NEW o,
         SameHand(o, job[Other(j)]), o.shared = job[Other(j)].shared,
         ~Uses(Other(j), MyCache(j)) => o.named = job[Other(j)].named,
         NEW q, q.cur = None \/ (q.cur = job[j].cur /\ q.zip = job[j].zip),
         NEW now, \A c \in Caches : c # MyCache(j) => now[c] = cache[c]
  PROVE  Own(o, q, now)
<1>1. Other(j) \in Jobs /\ Other(Other(j)) = j
  BY Names
<1>2. Own(job[Other(j)], job[j], cache)
  BY <1>1 DEF AloneInv, AloneOK
<1>3. CASE o.cur = None \/ o.shared
  BY <1>3 DEF Own
<1>4. CASE o.cur # None /\ ~o.shared
  <2>1. job[Other(j)].cur # None /\ ~job[Other(j)].shared
    BY <1>4 DEF SameHand
  <2>2. CacheOf(job[j]) # CacheOf(job[Other(j)])
    BY <1>2, <2>1 DEF Own, Apart
  <2>3. ~Uses(Other(j), MyCache(j))
    BY <1>1, <2>2, CacheIs
  <2>4. CacheOf(job[Other(j)]) \in Caches
    BY <1>1, <2>1, HandCache DEF AloneInv, TypesOK
  <2>5. now[CacheOf(job[Other(j)])] = cache[CacheOf(job[Other(j)])]
    BY <2>2, <2>4, CacheIs
  <2> QED BY <1>2, <1>4, <2>1, <2>3, <2>5, OwnFrame
<1> QED BY <1>3, <1>4

(* The file in hand is given up, and its name is gone; so is the other job's
   name for it. *)
LEMMA UnnamedAlone ==
  ASSUME AloneInv, NEW j \in Jobs, job[j].cur # None,
         NEW q, job' = [Unnamed(j, MyCache(j)) EXCEPT ![j] = q],
         q.cur = None \/ (q.cur = job[j].cur /\ q.zip = job[j].zip),
         \A c \in Caches : c # MyCache(j) => cache'[c] = cache[c],
         Own(q, job[Other(j)], cache')
  PROVE  AloneOK'
<1> DEFINE b == job[Other(j)].named /\ ~Uses(Other(j), MyCache(j))
           o == [job[Other(j)] EXCEPT !.named = b]
<1>1. job[Other(j)] \in JobRecords
  BY Names DEF AloneInv, TypesOK, JobsOK
<1>2. job' = [job EXCEPT ![j] = q, ![Other(j)] = o]
  BY UnnamedJobs DEF AloneInv, TypesOK
<1>3. SameHand(o, job[Other(j)]) /\ o.shared = job[Other(j)].shared
  BY <1>1 DEF JobRecords, SameHand
<1>4. ~Uses(Other(j), MyCache(j)) => o.named = job[Other(j)].named
  BY <1>1 DEF JobRecords
<1> HIDE DEF o
<1>5. Own(o, q, cache')
  BY <1>3, <1>4, Bystander
<1>6. Own(q, o, cache')
  BY <1>3 DEF Own, Apart, SameHand, CacheOf
<1> QED BY <1>2, <1>5, <1>6, BothAlone

LEMMA CreateAlone ==
  ASSUME AloneInv, NEW j \in Jobs, NEW f \in Files, NEW v, Create(j, f, v)
  PROVE  AloneOK'
<1> DEFINE c == Cache(j, f)
           b == Uses(Other(j), c)
           q == [job[j] EXCEPT !.step = "fill", !.cur = f, !.got = v, !.named = TRUE,
                               !.shared = b]
           other == job[Other(j)]
           o == [other EXCEPT !.shared = other.shared \/ b]
<1>1. job[j] \in JobRecords /\ other \in JobRecords /\ Other(j) \in Jobs
  BY Names DEF AloneInv, TypesOK, JobsOK
<1>2. job' = [job EXCEPT ![j] = q, ![Other(j)] = o]
  BY CreateJobs DEF AloneInv, TypesOK
<1>3. c \in Caches /\ cache' = [cache EXCEPT ![c] = Partial] /\ cache \in [Caches -> Contents]
  BY HandOK, TypeIs DEF Create, AloneInv, TypesOK
<1>4. c = CacheOf(q)
  BY <1>1 DEF Cache, CacheOf, JobRecords
<1>5. b <=> other.cur # None /\ CacheOf(other) = c
  BY <1>1, CacheIs
<1>6. b \in BOOLEAN
  BY DEF Uses
<1>7. Own(q, o, cache')
  <2>1. q.step = "fill" /\ q.named /\ (q.shared <=> b)
    BY <1>1 DEF JobRecords
  <2>2. o.cur = other.cur /\ CacheOf(o) = CacheOf(other)
    BY <1>1 DEF JobRecords, CacheOf
  <2>3. cache'[CacheOf(q)] = Partial
    BY <1>3, <1>4
  <2> HIDE DEF q, o, c, b, other
  <2> QED BY <1>4, <1>5, <2>1, <2>2, <2>3 DEF Own, Apart
<1>8. Own(o, q, cache')
  <2>1. SameHand(o, other) /\ o.named = other.named
    BY <1>1 DEF JobRecords, SameHand
  <2>2. o.shared <=> other.shared \/ b
    BY <1>1 DEF JobRecords
  <2>3. CacheOf(o) = CacheOf(other) /\ o.cur = other.cur
    BY <2>1 DEF CacheOf, SameHand
  <2>4. CASE o.cur = None \/ o.shared
    BY <2>4 DEF Own
  <2>5. CASE o.cur # None /\ ~o.shared
    <3>1. ~b /\ ~other.shared /\ other.cur # None
      BY <2>2, <2>3, <2>5
    <3>2. CacheOf(other) # c
      BY <1>5, <3>1
    <3>3. CacheOf(other) \in Caches
      BY <1>1, <3>1, HandCache DEF AloneInv, TypesOK
    <3>4. cache'[CacheOf(other)] = cache[CacheOf(other)]
      BY <1>3, <3>2, <3>3
    <3>5. Own(other, job[j], cache)
      BY <1>1, Names DEF AloneInv, AloneOK
    <3>6. Apart(o, q)
      BY <1>4, <2>3, <3>2 DEF Apart
    <3> HIDE DEF q, o, c, b, other
    <3> QED BY <2>1, <2>3, <3>1, <3>4, <3>5, <3>6 DEF Own, SameHand
  <2> QED BY <2>4, <2>5
<1> HIDE DEF q, o, c, b, other
<1> QED BY <1>2, <1>7, <1>8, BothAlone DEF other

LEMMA FillAlone ==
  ASSUME AloneInv, JobsOK', NEW j \in Jobs, Fill(j)
  PROVE  AloneOK'
<1> DEFINE c == MyCache(j)
           other == job[Other(j)]
<1>1. /\ job[j] \in JobRecords /\ other \in JobRecords /\ Other(j) \in Jobs
      /\ job[j].step = "fill" /\ job[j].cur # None /\ c \in Caches
      /\ cache \in [Caches -> Contents]
  BY Names, HandOK, TypeIs DEF Fill, InHand, AloneInv, TypesOK, JobsOK, JobOK
<1>2. c = CacheOf(job[j])
  BY CacheIs
<1>3. ASSUME NEW v \in Written(j), cache' = [cache EXCEPT ![c] = v], Verified(j),
             job' = [job EXCEPT ![j].step = "stage"]
      PROVE  AloneOK'
  <2> DEFINE q == [job[j] EXCEPT !.step = "stage"]
  <2>1. job' = [job EXCEPT ![j] = q, ![Other(j)] = other]
    BY <1>1, <1>3, Names DEF AloneInv, TypesOK, JobsOK
  <2>2. /\ q.cur = job[j].cur /\ q.zip = job[j].zip /\ q.step = "stage" /\ q.got = job[j].got
        /\ q.check = job[j].check /\ q.rows = job[j].rows /\ q.shared = job[j].shared
    BY <1>1 DEF JobRecords
  <2>3. Own(other, q, cache')
    <3>1. \A d \in Caches : d # c => cache'[d] = cache[d]
      BY <1>1, <1>3
    <3> HIDE DEF q, c
    <3> QED BY <1>1, <2>2, <3>1, Bystander DEF SameHand, c
  <2>4. Own(q, other, cache')
    <3>1. CASE job[j].shared
      BY <2>2, <3>1 DEF Own
    <3>2. CASE ~job[j].shared
      <4>1. /\ Apart(job[j], other) /\ job[j].named /\ cache[c] = Partial
        BY <1>1, <1>2, <3>2 DEF AloneInv, AloneOK, Own
      <4>2. ~Uses(Other(j), c)
        BY <1>1, <1>2, <4>1, CacheIs DEF Apart
      <4>3. v = job[j].got
        BY <1>3, <4>1, <4>2 DEF Written
      <4>4. CacheOf(q) = c /\ cache'[c] = job[j].got
        BY <1>1, <1>2, <1>3, <2>2, <4>3 DEF CacheOf
      <4>5. job[j].check => job[j].got = job[j].rows[job[j].cur].ver
        BY <1>3 DEF Verified
      <4>6. Apart(q, other)
        BY <1>2, <4>1, <4>4 DEF Apart
      <4> HIDE DEF q, c
      <4> QED BY <2>2, <4>4, <4>5, <4>6 DEF Own
    <3> QED BY <1>1, <3>1, <3>2 DEF JobRecords
  <2> HIDE DEF q
  <2> QED BY <2>1, <2>3, <2>4, BothAlone
<1>4. ASSUME NEW v, cache' = [cache EXCEPT ![c] = v], Failed(j, {job[j].cur})
      PROVE  AloneOK'
  <2> DEFINE q == Done(j, {job[j].cur}, TRUE)
  <2>1. job' = [job EXCEPT ![j] = q, ![Other(j)] = other]
    BY <1>1, <1>4, Names DEF AloneInv, TypesOK, JobsOK, Failed
  <2>2. q.cur = None
    BY <1>1 DEF Done, JobRecords
  <2> HIDE DEF q
  <2>3. Own(other, q, cache')
    <3>1. \A d \in Caches : d # c => cache'[d] = cache[d]
      BY <1>1, <1>4
    <3> HIDE DEF c
    <3> QED BY <1>1, <2>2, <3>1, Bystander DEF SameHand, c
  <2>4. Own(q, other, cache')
    BY <2>2 DEF Own
  <2> QED BY <2>1, <2>3, <2>4, BothAlone
<1>5. ASSUME cache' = [cache EXCEPT ![c] = Nothing],
             job' = [Unnamed(j, c) EXCEPT ![j] = Done(j, {job[j].cur}, TRUE)]
      PROVE  AloneOK'
  <2> DEFINE q == Done(j, {job[j].cur}, TRUE)
  <2>1. q.cur = None
    BY <1>1 DEF Done, JobRecords
  <2> HIDE DEF q
  <2>2. job' = [Unnamed(j, c) EXCEPT ![j] = q]
    BY <1>5 DEF q
  <2>3. \A d \in Caches : d # c => cache'[d] = cache[d]
    BY <1>1, <1>5
  <2>4. Own(q, other, cache')
    BY <2>1 DEF Own
  <2> QED BY <1>1, <2>1, <2>2, <2>3, <2>4, UnnamedAlone
<1> QED BY <1>3, <1>4, <1>5 DEF Fill

LEMMA StageAlone ==
  ASSUME AloneInv, JobsOK', NEW j \in Jobs, Stage(j)
  PROVE  AloneOK'
<1> DEFINE c == MyCache(j)
           other == job[Other(j)]
<1>1. /\ job[j] \in JobRecords /\ other \in JobRecords /\ Other(j) \in Jobs
      /\ job[j].step = "stage" /\ job[j].cur # None /\ UNCHANGED cache
  BY Names DEF Stage, InHand, AloneInv, TypesOK, JobsOK, JobOK
<1>2. c = CacheOf(job[j])
  BY CacheIs
<1>3. CASE Failed(j, {job[j].cur})
  BY <1>1, <1>3, FailedAlone
<1>4. CASE job' = [job EXCEPT ![j].step = "place", ![j].got = cache[c]]
  <2> DEFINE q == [job[j] EXCEPT !.step = "place", !.got = cache[c]]
  <2>1. job' = [job EXCEPT ![j] = q, ![Other(j)] = other]
    <3>1. job' = [job EXCEPT ![j] = q]
      BY <1>4
    <3>2. job \in [Jobs -> JobRecords] /\ Other(j) # j
      BY Names DEF AloneInv, TypesOK, JobsOK
    <3> HIDE DEF q
    <3> QED BY <1>1, <3>1, <3>2
  <2>2. /\ q.cur = job[j].cur /\ q.zip = job[j].zip /\ q.step = "place" /\ q.got = cache[c]
        /\ q.check = job[j].check /\ q.rows = job[j].rows /\ q.shared = job[j].shared
    <3>1. job[j] \in JobRecords
      BY <1>1
    <3> HIDE DEF c
    <3> QED BY <3>1 DEF JobRecords
  <2> HIDE DEF q
  <2>3. Own(other, q, cache')
    BY <1>1, <2>2, Bystander DEF SameHand
  <2>4. Own(q, other, cache')
    <3>1. CASE job[j].shared
      BY <2>2, <3>1 DEF Own
    <3>2. CASE ~job[j].shared
      <4>1. /\ Apart(job[j], other) /\ cache[c] = job[j].got
            /\ job[j].check => job[j].got = job[j].rows[job[j].cur].ver
        BY <1>1, <1>2, <3>2 DEF AloneInv, AloneOK, Own
      <4>2. CacheOf(q) = c
        BY <1>2, <2>2 DEF CacheOf
      <4>3. Apart(q, other)
        BY <1>2, <4>1, <4>2 DEF Apart
      <4> HIDE DEF c
      <4> QED BY <2>2, <4>1, <4>2, <4>3 DEF Own
    <3> QED BY <1>1, <3>1, <3>2 DEF JobRecords
  <2> QED BY <2>1, <2>3, <2>4, BothAlone
<1> QED BY <1>3, <1>4 DEF Stage

LEMMA PlaceAlone ==
  ASSUME AloneInv, JobsOK', NEW j \in Jobs, Place(j)
  PROVE  AloneOK'
<1> DEFINE c == MyCache(j)
           other == job[Other(j)]
<1>1. /\ job[j] \in JobRecords /\ Other(j) \in Jobs /\ c \in Caches
      /\ job[j].step = "place" /\ job[j].cur # None /\ cache \in [Caches -> Contents]
  BY Names, HandOK, TypeIs DEF Place, InHand, AloneInv, TypesOK, JobsOK, JobOK
<1>2. ASSUME cache' = [cache EXCEPT ![c] = Nothing],
             NEW q, job' = [Unnamed(j, c) EXCEPT ![j] = q],
             q.cur = None \/ (q.cur = job[j].cur /\ q.zip = job[j].zip),
             Own(q, other, cache')
      PROVE  AloneOK'
  <2>1. \A d \in Caches : d # c => cache'[d] = cache[d]
    BY <1>1, <1>2
  <2> QED BY <1>1, <1>2, <2>1, UnnamedAlone
<1>3. CASE Failed(j, {job[j].cur}) /\ UNCHANGED cache
  BY <1>3, FailedAlone
<1>4. CASE /\ cache' = [cache EXCEPT ![c] = Nothing]
           /\ j = "mirror" /\ job' = [Unnamed(j, c) EXCEPT ![j] = [@ EXCEPT !.step = "mark"]]
  <2> DEFINE q == [job[j] EXCEPT !.step = "mark"]
  <2>1. Unnamed(j, c)[j] = job[j]
    BY Names DEF Unnamed, AloneInv, TypesOK, JobsOK
  <2>2. job' = [Unnamed(j, c) EXCEPT ![j] = q]
    BY <1>4, <2>1
  <2>3. /\ q.cur = job[j].cur /\ q.zip = job[j].zip /\ q.step = "mark"
        /\ q.shared = job[j].shared
    BY <1>1 DEF JobRecords
  <2> HIDE DEF q
  <2>4. Own(q, other, cache')
    <3>1. ~job[j].shared => Apart(job[j], other)
      BY <1>1 DEF AloneInv, AloneOK, Own
    <3> QED BY <2>3, <3>1 DEF Own, Apart, CacheOf
  <2> QED BY <1>2, <1>4, <2>2, <2>3, <2>4
<1>5. CASE /\ cache' = [cache EXCEPT ![c] = Nothing]
           /\ job' = [Unnamed(j, c) EXCEPT ![j] =
                [Done(j, {job[j].cur}, FALSE) EXCEPT !.done = @ \cup {job[j].cur}]]
  <2> DEFINE q == [Done(j, {job[j].cur}, FALSE) EXCEPT !.done = @ \cup {job[j].cur}]
  <2>1. q.cur = None
    BY <1>1 DEF Done, JobRecords
  <2>2. job' = [Unnamed(j, c) EXCEPT ![j] = q]
    BY <1>5
  <2> HIDE DEF q
  <2>3. Own(q, other, cache')
    BY <2>1 DEF Own
  <2> QED BY <1>2, <1>5, <2>1, <2>2, <2>3
<1> QED BY <1>3, <1>4, <1>5 DEF Place

LEMMA WorkAlone ==
  ASSUME AloneInv, JobsOK', NEW j \in Jobs, Work(j)
  PROVE  AloneOK'
<1> USE DEF disk
<1>m. job[j] \in JobRecords /\ (job[j].step = "next" => job[j].cur = None)
  BY DEF AloneInv, TypesOK, JobsOK, JobOK, InHand
<1>1. ASSUME NEW f \in Files, Open(j, f) \/ OpenMember(j, f) PROVE AloneOK'
  <2>1. CASE Failed(j, {f}) /\ UNCHANGED cache
    BY <2>1, FailedAlone
  <2>2. CASE \E v : Create(j, f, v)
    BY <2>2, CreateAlone
  <2> QED BY <1>1, <2>1, <2>2 DEF Open, OpenMember
<1>2. ASSUME NEW k \in Keys, OpenZip(j, k) PROVE AloneOK'
  <2>1. job[j].step = "next" /\ UNCHANGED cache
    BY <1>2 DEF OpenZip, Ready
  <2>2. CASE Failed(j, Members(j, k))
    BY <2>1, <2>2, FailedAlone
  <2>3. ASSUME NEW a, job' = [job EXCEPT ![j].zip = k, ![j].data = a] PROVE AloneOK'
    <3> DEFINE q == [job[j] EXCEPT !.zip = k, !.data = a]
    <3>1. job' = [job EXCEPT ![j] = q]
      BY <2>3
    <3>2. q.cur = None
      BY <1>m, <2>1 DEF JobRecords
    <3> HIDE DEF q
    <3> QED BY <2>1, <3>1, <3>2, OneAlone
  <2> QED BY <1>2, <2>2, <2>3 DEF OpenZip, Archive
<1>3. ASSUME CloseZip(j) PROVE AloneOK'
  <2>1. job[j].step = "next" /\ UNCHANGED cache
    BY <1>3 DEF CloseZip, Ready
  <2>2. CASE job' = [job EXCEPT ![j].zip = None, ![j].data = NoZip]
    <3> DEFINE q == [job[j] EXCEPT !.zip = None, !.data = NoZip]
    <3>1. job' = [job EXCEPT ![j] = q]
      BY <2>2
    <3>2. q.cur = None
      BY <1>m, <2>1 DEF JobRecords
    <3> HIDE DEF q
    <3> QED BY <2>1, <3>1, <3>2, OneAlone
  <2>3. CASE job' = [job EXCEPT ![j] = [Done(j, Members(j, job[j].zip), TRUE)
                                          EXCEPT !.zip = None, !.data = NoZip]]
    <3> DEFINE q == [Done(j, Members(j, job[j].zip), TRUE) EXCEPT !.zip = None, !.data = NoZip]
    <3>1. job' = [job EXCEPT ![j] = q]
      BY <2>3
    <3>2. q.cur = None
      BY <1>m DEF Done, JobRecords
    <3> HIDE DEF q
    <3> QED BY <2>1, <3>1, <3>2, OneAlone
  <2> QED BY <1>3, <2>2, <2>3 DEF CloseZip
<1>4. ASSUME Finish(j) PROVE AloneOK'
  <2>1. PICK e \in BOOLEAN : End(j, e)
    BY <1>4 DEF Finish
  <2> QED BY <1>4, <2>1, EndAlone DEF Finish
<1> QED BY <1>1, <1>2, <1>3, <1>4, FillAlone, StageAlone, PlaceAlone DEF Work

LEMMA AloneStep == AloneInv /\ [Next]_vars => AloneInv'
<1> SUFFICES ASSUME AloneInv, [Next]_vars PROVE AloneOK'
  BY TypeStep DEF AloneInv
<1>0. JobsOK'
  BY TypeStep DEF AloneInv, TypesOK
<1>1. CASE UNCHANGED vars
  BY <1>0, <1>1, BackupAlone
<1>2. ASSUME NEW f \in Files, Change(f) \/ UploadOwn(f) \/ SeenAgain(f) PROVE AloneOK'
  BY <1>0, <1>2, BackupAlone
<1>3. ASSUME NEW F \in SUBSET Files, NEW z \in Zips, UploadZip(F, z) PROVE AloneOK'
  BY <1>0, <1>3, BackupAlone
<1>4. ASSUME NEW z \in Zips, DeleteZip(z) PROVE AloneOK'
  BY <1>0, <1>4, BackupAlone
<1>5. ASSUME NEW d \in Dirs, Move(d) PROVE AloneOK'
  BY <1>0, <1>5, BackupAlone
<1>6. CASE StartFull \/ StartRescan \/ CancelLook \/ CancelAct \/ Exit
  BY <1>0, <1>6, StartAlone
<1>7. ASSUME NEW F \in SUBSET Files, NEW d \in Dirs, NEW check \in BOOLEAN,
             StartRestore(F, d, check)
      PROVE  AloneOK'
  BY <1>0, <1>7, StartAlone
<1>8. CASE Walk
  BY <1>0, <1>8, WalkAlone DEF Walk
<1>9. ASSUME NEW j \in Jobs, Work(j) PROVE AloneOK'
  BY <1>0, <1>9, WorkAlone
<1> QED BY <1>1, <1>2, <1>3, <1>4, <1>5, <1>6, <1>7, <1>8, <1>9 DEF Next

LEMMA InitAlone == Init => AloneInv
<1> SUFFICES ASSUME Init PROVE AloneOK
  BY InitType DEF AloneInv
<1>1. \A j \in Jobs : job[j].cur = None
  BY DEF Init, Idle
<1> QED BY <1>1 DEF AloneOK, Own

(* Each download writes into its target what it has checked against its row,
   if the other one has not had the cache file open: with the two side by
   side in one cache directory, whatever is cancelled, killed or backed up. *)
THEOREM DownloadsWriteWhatTheyChecked == Spec => []AloneWritesWhatItChecked
<1>1. AloneInv => AloneWritesWhatItChecked
  <2> SUFFICES ASSUME AloneInv, NEW j \in Jobs, job[j].step = "place", job[j].check,
                      ~job[j].shared
               PROVE  job[j].got = job[j].rows[job[j].cur].ver
    BY DEF AloneWritesWhatItChecked
  <2>1. job[j].cur # None
    BY DEF AloneInv, TypesOK, JobsOK, JobOK, InHand
  <2> QED BY <2>1 DEF AloneInv, AloneOK, Own
<1> QED BY <1>1, InitAlone, AloneStep, PTL DEF Spec
================================================================================
