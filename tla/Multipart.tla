------------------------------- MODULE Multipart -------------------------------
(***************************************************************************)
(* The resumable upload of one large file over any number of runs          *)
(* (engine.putResumable, storage.PutResumable, the multipart_uploads       *)
(* table), against an S3 that answers late, wrongly or not at all, that    *)
(* forgets uploads, and a process that is killed between any two steps.    *)
(*                                                                         *)
(* A part is the slice of the local copy it was read from; two parts have  *)
(* equal checksums when they are the same slice of the same version.       *)
(***************************************************************************)
EXTENDS Naturals, FiniteSets

CONSTANTS
  Versions,   \* the contents the file may have, numbers from 1
  SizeOf,     \* [Versions -> Nat]
  PartSizes,  \* the values of s3.part_size
  Workers,    \* upload.upload_threads
  S3Limit,    \* the parts S3 accepts in one upload (10000)
  MaxUploads, MaxChanges, MaxFaults, MaxCrashes, MaxExpiries

ASSUME SizeAssumption ==
  /\ Versions \subseteq Nat \ {0}
  /\ SizeOf \in [Versions -> Nat \ {0}]
  /\ \E v \in Versions : \A w \in Versions : SizeOf[w] <= SizeOf[v]
  /\ PartSizes \subseteq Nat \ {0}

ASSUME BoundAssumption ==
  {S3Limit, MaxUploads, MaxChanges, MaxFaults, MaxCrashes, MaxExpiries}
    \subseteq Nat

VARIABLES
  cur,      \* the version staged in TmpDir
  partSize, \* s3.part_size
  row,      \* the file's multipart_uploads row
  marked,   \* the version its files row records as uploaded
  uploads,  \* the multipart uploads at S3
  obj,      \* the object at the file's key: its parts in order
  put,      \* the putResumable call under way
  worker,   \* the part each worker sends
  used      \* how much of each bound is used up

vars == <<cur, partSize, row, marked, uploads, obj, put, worker, used>>
-----------------------------------------------------------------------------
CeilDiv(n, d) == (n + d - 1) \div d
Least(m, n)   == IF m < n THEN m ELSE n
Largest(S)    == CHOOSE n \in S : \A m \in S : m <= n

Ids    == 1..MaxUploads
Longest == Largest({SizeOf[v] : v \in Versions})
Numbers == 1..Longest
Slices == [ver : Versions, from : 0..Longest, to : 0..Longest]
NoPart == [ver |-> 0, from |-> 0, to |-> 0]

PartCount(v, ps) == CeilDiv(SizeOf[v], ps)
(* Mutant of Slice: the last part runs past the end of the file. *)
SliceUncut(v, n, ps) ==
  [ver |-> v, from |-> (n - 1) * ps, to |-> n * ps]

Slice(v, n, ps) ==
  [ver |-> v, from |-> (n - 1) * ps, to |-> Least(n * ps, SizeOf[v])]
Length(p) == p.to - p.from

NoRow == [id |-> 0, ver |-> 0, size |-> 0]
NoUpload == [st |-> "none", parts |-> [n \in Numbers |-> NoPart]]
Fresh == [NoUpload EXCEPT !.st = "open"]
Held(id) == {n \in Numbers : uploads[id].parts[n] # NoPart}

Idle == [pc |-> "idle", ver |-> 0, id |-> 0, size |-> 0, next |-> 0,
         have |-> {}, failed |-> FALSE]
Busy == {w \in Workers : worker[w] # 0}

(* The object's parts make up version v from its first byte to its last. *)
Whole(o, v) ==
  \E count \in Numbers :
    /\ \A n \in Numbers : (o[n] # NoPart) <=> n <= count
    /\ \A n \in 1..count : o[n].ver = v
    /\ o[1].from = 0 /\ o[count].to = SizeOf[v]
    /\ \A n \in 1..count - 1 : o[n].to = o[n + 1].from

Init ==
  /\ cur \in Versions /\ partSize \in PartSizes
  /\ row = NoRow /\ marked = 0
  /\ uploads = [i \in Ids |-> NoUpload]
  /\ obj = NoUpload.parts
  /\ put = Idle /\ worker = [w \in Workers |-> 0]
  /\ used = [change |-> 0, fault |-> 0, crash |-> 0, expiry |-> 0]

Use(what, bound) ==
  /\ used[what] < bound
  /\ used' = [used EXCEPT ![what] = @ + 1]
-----------------------------------------------------------------------------
(* Between two attempts the file changes and is staged anew, or the part
   size is reconfigured. *)
Reconfigure ==
  /\ put.pc = "idle"
  /\ Use("change", MaxChanges)
  /\ \/ cur' \in {v \in Versions : v > cur} /\ UNCHANGED partSize
     \/ partSize' \in PartSizes \ {partSize} /\ UNCHANGED cur
  /\ UNCHANGED <<row, marked, uploads, obj, put, worker>>

(* The bucket's lifecycle rule aborts an unfinished upload. *)
Expire ==
  /\ Use("expiry", MaxExpiries)
  /\ \E i \in Ids :
       /\ uploads[i].st = "open"
       /\ uploads' = [uploads EXCEPT ![i].st = "gone"]
  /\ UNCHANGED <<cur, partSize, row, marked, obj, put, worker>>

(* The process is killed; the parts under way may still arrive. *)
Arrived(W) ==
  [uploads EXCEPT ![put.id].parts = [n \in Numbers |->
     IF \E w \in W : worker[w] = n THEN Slice(put.ver, n, put.size) ELSE @[n]]]

Crash ==
  /\ put.pc # "idle"
  /\ Use("crash", MaxCrashes)
  /\ \/ UNCHANGED uploads
     \/ /\ Busy # {} /\ uploads[put.id].st = "open"
        /\ \E W \in SUBSET Busy \ {{}} : uploads' = Arrived(W)
  /\ put' = Idle /\ worker' = [w \in Workers |-> 0]
  /\ UNCHANGED <<cur, partSize, row, marked, obj>>
-----------------------------------------------------------------------------
(* A run plans the file while its row is pending.  skipIfMatches never
   spares the upload: S3 answers with the checksum of the parts' checksums,
   not with the file's. *)
Begin ==
  /\ put.pc = "idle" /\ marked # cur
  /\ put' = [Idle EXCEPT !.pc = "load", !.ver = cur]
  /\ UNCHANGED <<cur, partSize, row, marked, uploads, obj, worker, used>>

Fails == put' = Idle

(* A call fails: the attempt ends, the row stays as it is. *)
Fail ==
  /\ put.pc \in {"load", "list", "complete"}
  /\ Use("fault", MaxFaults)
  /\ Fails
  /\ UNCHANGED <<cur, partSize, row, marked, uploads, obj, worker>>

(* AbortMultipart: an upload S3 does not know is as good as aborted. *)
Aborted(id) == [uploads EXCEPT ![id].st = "gone"]

(* A row for another content is dropped with its upload; whether S3 aborted
   the upload is not looked at. *)
DropStale ==
  /\ put.pc = "load" /\ row # NoRow /\ row.ver # put.ver
  /\ \/ /\ uploads' = Aborted(row.id)
        /\ UNCHANGED used
     \/ Use("fault", MaxFaults) /\ UNCHANGED uploads
  /\ row' = NoRow
  /\ UNCHANGED <<cur, partSize, marked, obj, put, worker>>

Resume ==
  /\ put.pc = "load" /\ row # NoRow /\ row.ver = put.ver
  /\ put' = [put EXCEPT !.pc = "list", !.id = row.id, !.size = row.size]
  /\ UNCHANGED <<cur, partSize, row, marked, uploads, obj, worker, used>>

Create ==
  /\ put.pc = "load" /\ row = NoRow
  /\ \E i \in Ids :
       /\ uploads[i].st = "none" /\ \A j \in 1..i - 1 : uploads[j].st # "none"
       /\ uploads' = [uploads EXCEPT ![i] = Fresh]
       /\ put' = [put EXCEPT !.pc = "persist", !.id = i, !.size = partSize]
  /\ UNCHANGED <<cur, partSize, row, marked, obj, worker, used>>

(* Mutant of Persist: the row is left for later. *)
PersistLater ==
  /\ put.pc = "persist"
  /\ put' = [put EXCEPT !.pc = "list"]
  /\ UNCHANGED <<cur, partSize, row, marked, uploads, obj, worker, used>>

(* OnUploadID: the row is committed before any part is sent, or the new
   upload is aborted again. *)
Persist ==
  /\ put.pc = "persist"
  /\ \/ /\ row' = [id |-> put.id, ver |-> put.ver, size |-> put.size]
        /\ put' = [put EXCEPT !.pc = "list"]
        /\ UNCHANGED <<uploads, used>>
     \/ /\ Use("fault", MaxFaults)
        /\ uploads' \in {uploads, Aborted(put.id)}
        /\ Fails /\ UNCHANGED row
  /\ UNCHANGED <<cur, partSize, marked, obj, worker>>
-----------------------------------------------------------------------------
(* The parts S3 lists, none for an upload it does not know, and the part
   size they were cut with: the longest one's. *)
Listed(id) == IF uploads[id].st = "open" THEN Held(id) ELSE {}
StoredSize(id, ps) ==
  IF Listed(id) = {} THEN ps
    ELSE Largest({Length(uploads[id].parts[n]) : n \in Listed(id)})
CutSize == StoredSize(put.id, put.size)
Usable == {n \in Listed(put.id) : n <= PartCount(put.ver, CutSize)}
(* Mutant of Verified: a part that is there is taken for the right one. *)
VerifiedBlindly == TRUE
Verified ==
  \A n \in Usable : uploads[put.id].parts[n] = Slice(put.ver, n, CutSize)
Fits == PartCount(put.ver, put.size) <= S3Limit
        /\ PartCount(put.ver, CutSize) <= S3Limit

(* More parts than S3 takes: the attempt fails before any part is sent. *)
TooMany ==
  /\ put.pc = "list"
  /\ ~Fits
  /\ Fails
  /\ UNCHANGED <<cur, partSize, row, marked, uploads, obj, worker, used>>

(* Mutant of Mismatch: the row is kept. *)
MismatchKeepsRow ==
  /\ put.pc = "list" /\ Fits /\ ~Verified
  /\ Fails
  /\ UNCHANGED <<cur, partSize, row, marked, uploads, obj, worker, used>>

(* Every part S3 holds must be a slice of the local copy; otherwise the row
   is dropped, and the upload left to itself. *)
Mismatch ==
  /\ put.pc = "list" /\ Fits /\ ~Verified
  /\ row' = NoRow /\ Fails
  /\ UNCHANGED <<cur, partSize, marked, uploads, obj, worker, used>>

Verify ==
  /\ put.pc = "list" /\ Fits /\ Verified
  /\ put' = [put EXCEPT !.pc = "send", !.size = CutSize, !.have = Usable,
                        !.next = 1]
  /\ UNCHANGED <<cur, partSize, row, marked, uploads, obj, worker, used>>

Total == PartCount(put.ver, put.size)

(* The feeder hands the next part that is missing to a free worker. *)
Missing == {n \in put.next..Total : n \notin put.have}
Feed(w) ==
  /\ put.pc = "send" /\ ~put.failed /\ worker[w] = 0
  /\ Missing # {}
  /\ LET n == CHOOSE m \in Missing : \A k \in Missing : m <= k
     IN /\ worker' = [worker EXCEPT ![w] = n]
        /\ put' = [put EXCEPT !.next = n + 1]
  /\ UNCHANGED <<cur, partSize, row, marked, uploads, obj, used>>

PartStored(w) ==
  [uploads EXCEPT ![put.id].parts[worker[w]] =
     Slice(put.ver, worker[w], put.size)]

SendPart(w) ==
  /\ put.pc = "send" /\ worker[w] # 0
  /\ uploads[put.id].st = "open"
  /\ uploads' = PartStored(w)
  /\ put' = [put EXCEPT !.have = @ \cup {worker[w]}]
  /\ worker' = [worker EXCEPT ![w] = 0]
  /\ UNCHANGED <<cur, partSize, row, marked, obj, used>>

(* A part is refused, because S3 does not know the upload or for a fault, or
   its answer is lost; the other workers' requests are cancelled. *)
LosePart(w) ==
  /\ put.pc = "send" /\ worker[w] # 0
  /\ \/ uploads[put.id].st # "open" /\ UNCHANGED <<uploads, used>>
     \/ put.failed /\ UNCHANGED used
        /\ uploads' \in {uploads, PartStored(w)}
     \/ ~put.failed /\ Use("fault", MaxFaults)
        /\ uploads' \in {uploads, PartStored(w)}
  /\ put' = [put EXCEPT !.failed = TRUE]
  /\ worker' = [worker EXCEPT ![w] = 0]
  /\ UNCHANGED <<cur, partSize, row, marked, obj>>

(* The workers have drained. *)
GiveUp ==
  /\ put.pc = "send" /\ Busy = {} /\ put.failed
  /\ Fails
  /\ UNCHANGED <<cur, partSize, row, marked, uploads, obj, worker, used>>

Drained ==
  /\ put.pc = "send" /\ Busy = {} /\ ~put.failed
  /\ 1..Total \subseteq put.have
  /\ put' = [put EXCEPT !.pc = "complete"]
  /\ UNCHANGED <<cur, partSize, row, marked, uploads, obj, worker, used>>

(* CompleteMultipartUpload joins the parts and ends the upload; its answer
   may be lost. *)
Joined == [n \in Numbers |->
             IF n <= Total THEN uploads[put.id].parts[n] ELSE NoPart]

Complete ==
  /\ put.pc = "complete"
  /\ uploads[put.id].st = "open"
  /\ obj' = Joined
  /\ uploads' = [uploads EXCEPT ![put.id].st = "gone"]
  /\ \/ put' = [put EXCEPT !.pc = "clear"] /\ UNCHANGED used
     \/ Use("fault", MaxFaults) /\ Fails
  /\ UNCHANGED <<cur, partSize, row, marked, worker>>

CompleteRefused ==
  /\ put.pc = "complete"
  /\ uploads[put.id].st # "open"
  /\ Fails
  /\ UNCHANGED <<cur, partSize, row, marked, uploads, obj, worker, used>>

(* The row is deleted after success; a failure to is only logged. *)
ClearRow ==
  /\ put.pc = "clear"
  /\ \/ row' = NoRow /\ UNCHANGED used
     \/ Use("fault", MaxFaults) /\ UNCHANGED row
  /\ put' = [put EXCEPT !.pc = "mark"]
  /\ UNCHANGED <<cur, partSize, marked, uploads, obj, worker>>

Mark ==
  /\ put.pc = "mark"
  /\ marked' = put.ver
  /\ put' = Idle
  /\ UNCHANGED <<cur, partSize, row, uploads, obj, worker, used>>

Engine ==
  \/ Begin \/ DropStale \/ Resume \/ Create \/ Persist
  \/ TooMany \/ Mismatch \/ Verify
  \/ \E w \in Workers : Feed(w) \/ SendPart(w) \/ LosePart(w)
  \/ GiveUp \/ Drained \/ Complete \/ CompleteRefused \/ ClearRow \/ Mark

Next == Engine \/ Fail \/ Reconfigure \/ Expire \/ Crash

Spec == Init /\ [][Next]_vars

(* Scheduled runs come again for ever, and a run does not stop between two
   requests: each has a timeout. *)
FairSpec == Spec /\ WF_vars(Engine)
-----------------------------------------------------------------------------
(* The row, the uploads, the object and the call have their types. *)
TypeOK ==
  /\ cur \in Versions /\ partSize \in PartSizes
  /\ row \in {NoRow} \cup [id : Ids, ver : Versions, size : PartSizes]
  /\ marked \in Versions \cup {0}
  /\ uploads \in [Ids -> [st : {"none", "open", "gone"},
                          parts : [Numbers -> Slices \cup {NoPart}]]]
  /\ obj \in [Numbers -> Slices \cup {NoPart}]
  /\ put \in [pc : {"idle", "load", "persist", "list", "send", "complete",
                    "clear", "mark"},
              ver : Versions \cup {0}, id : Ids \cup {0},
              size : {0} \cup PartSizes \cup Numbers, next : 0..Longest + 1,
              have : SUBSET Numbers, failed : BOOLEAN]
  /\ worker \in [Workers -> Numbers \cup {0}]

(* The upload as the index sees it: whole versions, replaced at once, marked
   while they are there.  putResumable resumes parts of other versions,
   other part sizes, half-finished runs; none of it may show. *)
VersionOf(o) ==
  IF o = NoUpload.parts THEN 0
    ELSE IF \E v \in Versions : Whole(o, v)
      THEN CHOOSE v \in Versions : Whole(o, v)
      ELSE Longest + 1 \* a broken object is no content
HeldVersion == VersionOf(obj)

Promise == INSTANCE PutPromise WITH
  Contents <- Versions, NoContent <- 0, stored <- HeldVersion
KeepsPutPromise == Promise!Spec

(* A part only ever goes to the upload the index records, however failures
   and kills fall: OnUploadID's row comes before the first part, and outlives
   the last (multipart.go 195-200). *)
PartsGoToTheRecordedUpload ==
  [][\A i \in Ids : uploads'[i].parts # uploads[i].parts /\ uploads'[i] # Fresh
       => row.id = i /\ row'.id = i]_vars

(* What keeps a file from ever being uploaded: its row names an upload S3 no
   longer knows, or one whose part size cuts the file into more parts than S3
   takes, or of which S3 holds only the short last part. *)
Blocked ==
  IF row = NoRow \/ row.ver # cur THEN PartCount(cur, partSize) > S3Limit
    ELSE \/ uploads[row.id].st = "gone"
         \/ PartCount(cur, row.size) > S3Limit
         \/ PartCount(cur, StoredSize(row.id, row.size)) > S3Limit

(* Runs that come again upload the file, whatever failed or was killed
   before, unless it is blocked. *)
UploadsUnlessBlocked == <>[](marked = cur \/ Blocked)
===============================================================================
