-------------------------------- MODULE Restore --------------------------------
(***************************************************************************)
(* What the index says of thawed objects (files.restore_status), and who   *)
(* writes it: the restore request (engine.RequestRestore), the scanner's   *)
(* HEADs, the SQS consumer, and the backup runs that replace rows and      *)
(* objects under them.  S3 thaws objects hours later, its events are late, *)
(* out of order, repeated or lost, and the process may be killed.          *)
(***************************************************************************)
EXTENDS Naturals, FiniteSets

CONSTANTS
  Files, Zips,  \* a file's own key is the file itself
  None,         \* no zip
  Large,        \* the versions <<file, version>> that are not zipped
  MaxRequests, MaxScans, MaxFaults, MaxExpiries, MaxChanges

ASSUME KeyAssumption == Files \cap Zips = {} /\ None \notin Files \cup Zips
                      /\ Large \subseteq Files \X {1, 2} /\ Zips # {}

ASSUME BoundAssumption ==
  {MaxRequests, MaxScans, MaxFaults, MaxExpiries, MaxChanges}
    \subseteq Nat

VARIABLES
  row,   \* the files table
  obj,   \* the bucket
  msgs,  \* the queue of restore events
  lost,  \* an event has been lost
  job,   \* currentRestoreJob and its goroutine
  scan,  \* the scanner's run
  used   \* how much of each bound is used up

vars == <<row, obj, msgs, lost, job, scan, used>>
-----------------------------------------------------------------------------
Keys     == Files \cup Zips
Statuses == {"", "in_progress", "restored"}

Rows == [st : {"pending", "uploaded"}, ver : {1, 2}, key : Keys,
         zip : Zips \cup {None}, rs : Statuses]

(* An object: whether it is there, its thaw, and whether it has ever been
   thawed. *)
Objects == [there : BOOLEAN, thaw : {"none", "thawing", "thawed"},
            once : BOOLEAN]
Fresh    == [there |-> TRUE, thaw |-> "none", once |-> FALSE]
There(k) == obj[k].there

(* The object a row's restore asks for: the zip's for a row with a zip_name,
   else the row's s3_key. *)
RestoreKey(r) == IF r.zip # None THEN r.zip ELSE r.key

NoJob  == [kind |-> "none", group |-> [k \in Keys |-> {}], now |-> None]
NoScan == [mode |-> "none", todo |-> {}, head |-> [k \in Keys |-> "-"]]

(* Keys are worked through in one order. *)
First(k, K) == K # {} /\ k = CHOOSE l \in K : TRUE

Use(what, bound) ==
  /\ used[what] < bound
  /\ used' = [used EXCEPT ![what] = @ + 1]

(* At first every file is uploaded, on its own or in one zip. *)
FirstZip == CHOOSE z \in Zips : TRUE

Init ==
  /\ row = [f \in Files |->
       [st |-> "uploaded", ver |-> 1, rs |-> "",
        key |-> IF <<f, 1>> \in Large THEN f ELSE FirstZip,
        zip |-> IF <<f, 1>> \in Large THEN None ELSE FirstZip]]
  /\ obj = [k \in Keys |->
       [Fresh EXCEPT !.there = \E f \in Files : row[f].key = k]]
  /\ msgs = {} /\ lost = FALSE
  /\ job = NoJob /\ scan = NoScan
  /\ used = [request |-> 0, fault |-> 0, expiry |-> 0, change |-> 0, scan |-> 0]
-----------------------------------------------------------------------------
(* The three writes of the files table. *)
(* Mutant of Marked: restored rows are marked too. *)
MarkedAll(K) == [f \in Files |->
  IF row[f].key \in K THEN [row[f] EXCEPT !.rs = "in_progress"] ELSE row[f]]
Marked(K) == [f \in Files |->
  IF row[f].key \in K /\ row[f].rs # "restored"
    THEN [row[f] EXCEPT !.rs = "in_progress"] ELSE row[f]]
Restored(k) == [f \in Files |->
  IF row[f].key = k THEN [row[f] EXCEPT !.rs = "restored"] ELSE row[f]]
Cleared(k) == [f \in Files |->
  IF row[f].key = k THEN [row[f] EXCEPT !.rs = ""] ELSE row[f]]
-----------------------------------------------------------------------------
(* Backup runs.  A full scan is refused while one is under way, but it may
   start right after the handler has looked: nothing keeps them apart. *)

(* The scan finds a file changed: its old key and zip name stay. *)
Change(f) ==
  /\ row[f].ver = 1 /\ row[f].st = "uploaded"
  /\ Use("change", MaxChanges)
  /\ row' = [row EXCEPT ![f].ver = 2, ![f].st = "pending", ![f].rs = ""]
  /\ UNCHANGED <<obj, msgs, lost, job, scan>>

(* A file is uploaded on its own; MarkUploadedMany sets neither zip_name nor
   restore_status. *)
UploadOwn(f) ==
  /\ row[f].st = "pending" /\ <<f, row[f].ver>> \in Large
  /\ obj' = [obj EXCEPT ![f] = Fresh]
  /\ row' = [row EXCEPT ![f].st = "uploaded", ![f].key = f]
  /\ UNCHANGED <<msgs, lost, job, scan, used>>

UploadZip(F, z) ==
  /\ \A f \in F : row[f].st = "pending" /\ <<f, row[f].ver>> \notin Large
  /\ ~There(z)
  /\ obj' = [obj EXCEPT ![z] = Fresh]
  /\ row' = [f \in Files |-> IF f \notin F THEN row[f]
               ELSE [row[f] EXCEPT !.st = "uploaded", !.key = z, !.zip = z]]
  /\ UNCHANGED <<msgs, lost, job, scan, used>>
-----------------------------------------------------------------------------
(* RequestRestore: the rows that match are grouped by the object to restore,
   each with the s3_keys of its rows. *)
Wanted(F) == {f \in F : row[f].st = "uploaded" /\ row[f].rs = ""}

Trigger(F) ==
  /\ job.kind = "none" /\ Use("request", MaxRequests)
  /\ job' = [NoJob EXCEPT !.kind = "trigger", !.group = [k \in Keys |->
               {row[f].key : f \in {g \in Wanted(F) : RestoreKey(row[g]) = k}}]]
  /\ UNCHANGED <<row, obj, msgs, lost, scan>>

Thawing(k) ==
  /\ obj' = [obj EXCEPT ![k].thaw = "thawing"]
  /\ msgs' = msgs \cup {[kind |-> "post", key |-> k]}

Groups == {k \in Keys : job.group[k] # {}}

(* RestoreObject: accepted, already thawing, or only extended; or refused,
   or its answer lost. *)
Ask(k) ==
  /\ job.kind = "trigger" /\ job.now = None /\ First(k, Groups)
  /\ \/ /\ There(k) /\ obj[k].thaw = "none"
        /\ Thawing(k)
        /\ job' = [job EXCEPT !.now = k]
        /\ UNCHANGED used
     \/ /\ There(k) /\ obj[k].thaw # "none"
        /\ job' = [job EXCEPT !.now = k]
        /\ UNCHANGED <<obj, msgs, used>>
     \/ /\ ~There(k)
        /\ job' = [job EXCEPT !.group[k] = {}]
        /\ UNCHANGED <<obj, msgs, used>>
     \/ /\ Use("fault", MaxFaults)
        /\ job' = [job EXCEPT !.group[k] = {}]
        /\ \/ UNCHANGED <<obj, msgs>>
           \/ There(k) /\ obj[k].thaw = "none" /\ Thawing(k)
  /\ UNCHANGED <<row, lost, scan>>

(* The rows of the group, by s3_key; an error of this write is only
   collected. *)
MarkAsked ==
  /\ job.now # None
  /\ \/ row' = Marked(job.group[job.now]) /\ UNCHANGED used
     \/ Use("fault", MaxFaults) /\ UNCHANGED row
  /\ job' = [job EXCEPT !.now = None, !.group[job.now] = {}]
  /\ UNCHANGED <<obj, msgs, lost, scan>>

EndTrigger ==
  /\ job.kind = "trigger" /\ job.now = None
  /\ Groups = {}
  /\ job' = NoJob
  /\ UNCHANGED <<row, obj, msgs, lost, scan, used>>
-----------------------------------------------------------------------------
(* The scanner: one at a time; its workers HEAD the keys and write what they
   have seen. *)
Scan(mode, keys) ==
  /\ scan.mode = "none"
  /\ scan' = [NoScan EXCEPT !.mode = mode, !.todo = keys]

ScanFull ==
  /\ Use("scan", MaxScans)
  /\ Scan("full", {row[f].key : f \in {g \in Files : row[g].st = "uploaded"}})
  /\ UNCHANGED <<row, obj, msgs, lost, job>>

ScanPending ==
  /\ Scan("pending",
          {row[f].key : f \in {g \in Files : row[g].rs = "in_progress"}})
  /\ UNCHANGED <<row, obj, msgs, lost, job, used>>

(* The inventory job: the bucket's listing, hours old, goes to the scanner,
   unless that is busy by then. *)
InventorySync ==
  /\ job.kind = "none" /\ scan.mode = "none" /\ Use("scan", MaxScans)
  /\ job' = [NoJob EXCEPT !.kind = "inventory"]
  /\ UNCHANGED <<row, obj, msgs, lost, scan>>

InventoryListed ==
  /\ job.kind = "inventory" /\ scan.mode # "inventory"
  /\ \/ Scan("inventory", Keys) /\ UNCHANGED job
     \/ /\ scan.mode # "none"
        /\ job' = NoJob /\ UNCHANGED scan
  /\ UNCHANGED <<row, obj, msgs, lost, used>>

(* Mutant of Head: a key without an object has a state, too. *)
HeadGone(k) ==
  /\ First(k, scan.todo)
  /\ scan' = [scan EXCEPT !.todo = @ \ {k},
                 !.head[k] = IF There(k) THEN obj[k].thaw ELSE "gone"]
  /\ UNCHANGED <<row, obj, msgs, lost, job, used>>

(* The x-amz-restore header of one object; none for a key without object. *)
Head(k) ==
  /\ First(k, scan.todo)
  /\ \/ /\ scan' = [scan EXCEPT !.todo = @ \ {k},
                      !.head[k] = IF There(k) THEN obj[k].thaw ELSE "-"]
        /\ UNCHANGED used
     \/ /\ Use("fault", MaxFaults)
        /\ scan' = [scan EXCEPT !.todo = @ \ {k}]
  /\ UNCHANGED <<row, obj, msgs, lost, job>>

(* Mutant of Seen: a HEAD without the header leaves the row alone. *)
SeenUncleared(k) ==
  CASE scan.head[k] = "thawing" -> Marked({k})
    [] scan.head[k] = "thawed"  -> Restored(k)
    [] scan.head[k] = "none"    -> row

(* Mutant of Seen: a copy that is still thawing counts as restored. *)
SeenEarly(k) ==
  CASE scan.head[k] \in {"thawing", "thawed"} -> Restored(k)
    [] scan.head[k] = "none" -> Cleared(k)

Seen(k) ==
  CASE scan.head[k] = "thawing" -> Marked({k})
    [] scan.head[k] = "thawed"  -> Restored(k)
    [] scan.head[k] = "none"    -> Cleared(k)

Apply(k) ==
  /\ scan.head[k] # "-"
  /\ \/ row' = Seen(k) /\ UNCHANGED used
     \/ Use("fault", MaxFaults) /\ UNCHANGED row
  /\ scan' = [scan EXCEPT !.head[k] = "-"]
  /\ UNCHANGED <<obj, msgs, lost, job>>

(* Mutant of EndScan: the inventory job is forgotten. *)
EndScanKeepsJob ==
  /\ scan.mode # "none" /\ scan.todo = {} /\ \A k \in Keys : scan.head[k] = "-"
  /\ scan' = NoScan
  /\ UNCHANGED <<row, obj, msgs, lost, job, used>>

EndScan ==
  /\ scan.mode # "none" /\ scan.todo = {} /\ \A k \in Keys : scan.head[k] = "-"
  /\ scan' = NoScan
  /\ job' = IF scan.mode = "inventory" THEN NoJob ELSE job
  /\ UNCHANGED <<row, obj, msgs, lost, used>>
-----------------------------------------------------------------------------
(* The consumer applies an event to every row with its key and deletes it;
   when the write or the deletion fails it comes again. *)
(* Mutant of Noted: a completion is not applied. *)
NotedPostOnly(m) == IF m.kind = "post" THEN Marked({m.key}) ELSE row
Noted(m) == IF m.kind = "post" THEN Marked({m.key}) ELSE Restored(m.key)

Consume(m) ==
  /\ m \in msgs
  /\ row' = Noted(m)
  /\ \/ msgs' = msgs \ {m} /\ UNCHANGED used
     \/ Use("fault", MaxFaults) /\ UNCHANGED msgs
  /\ UNCHANGED <<obj, lost, job, scan>>

(* The queue's retention passes while nothing polls it. *)
LoseEvent(m) ==
  /\ m \in msgs /\ Use("fault", MaxFaults)
  /\ msgs' = msgs \ {m} /\ lost' = TRUE
  /\ UNCHANGED <<row, obj, job, scan>>

(* Thawing takes hours: no worker holds a HEAD from before the request that
   long. *)
Thaw(k) ==
  /\ obj[k].thaw = "thawing" /\ scan.head[k] # "none"
  /\ obj' = [obj EXCEPT ![k].thaw = "thawed", ![k].once = TRUE]
  /\ msgs' = msgs \cup {[kind |-> "completed", key |-> k]}
  /\ UNCHANGED <<row, lost, job, scan, used>>

Expire(k) ==
  /\ obj[k].thaw = "thawed"
  /\ Use("expiry", MaxExpiries)
  /\ obj' = [obj EXCEPT ![k].thaw = "none"]
  /\ UNCHANGED <<row, msgs, lost, job, scan>>
-----------------------------------------------------------------------------
(* The process ends between any two steps. *)
Exit ==
  /\ Use("fault", MaxFaults)
  /\ job' = NoJob /\ scan' = NoScan
  /\ UNCHANGED <<row, obj, msgs, lost>>
-----------------------------------------------------------------------------
Request   == \/ \E k \in Keys : Ask(k)
             \/ MarkAsked \/ EndTrigger \/ InventoryListed
Scanning  == (\E k \in Keys : Head(k) \/ Apply(k)) \/ EndScan
Consuming == \E m \in msgs : Consume(m)

Next ==
  \/ \E f \in Files : Change(f) \/ UploadOwn(f)
  \/ \E F \in SUBSET Files \ {{}}, z \in Zips : UploadZip(F, z)
  \/ \E F \in SUBSET Files \ {{}} : Trigger(F)
  \/ ScanFull \/ ScanPending \/ InventorySync
  \/ Request \/ Scanning \/ Consuming
  \/ \E m \in msgs : LoseEvent(m)
  \/ \E k \in Keys : Thaw(k) \/ Expire(k)
  \/ Exit

Spec == Init /\ [][Next]_vars

(* The consumer polls for ever, goroutines go on, S3 thaws what it accepted,
   and the operator presses "Sync" again. *)
FairSpec ==
  /\ Spec
  /\ WF_vars(Request) /\ WF_vars(Scanning)
  /\ WF_vars(Consuming)
  /\ WF_vars(\E k \in Keys : Thaw(k))
  /\ WF_vars(ScanPending)
-----------------------------------------------------------------------------
(* Rows, objects, events, jobs and scans have their types. *)
TypeOK ==
  /\ row \in [Files -> Rows]
  /\ obj \in [Keys -> Objects]
  /\ lost \in BOOLEAN
  /\ msgs \subseteq [kind : {"post", "completed"}, key : Keys]
  /\ job \in [kind : {"none", "trigger", "inventory"},
              group : [Keys -> SUBSET Keys], now : Keys \cup {None}]
  /\ scan \in [mode : {"none", "full", "pending", "inventory"},
               todo : SUBSET Keys,
               head : [Keys -> {"-", "none", "thawing", "thawed"}]]

(* While the thawed copy is there, no late event, no slow HEAD and no second
   request takes a row back (files.go 1272). *)
RestoredStays ==
  [][\A f \in Files :
       /\ row[f].rs = "restored"
       /\ obj[row[f].key].thaw = "thawed"
       => row'[f].rs = "restored" \/ row'[f].st = "pending"]_vars

(* A row of a file that has not changed is restored only if its object has
   been thawed. *)
UnchangedRestoredWasThawed ==
  \A f \in Files : row[f].ver = 1 /\ row[f].rs = "restored"
                     => obj[row[f].key].once

(* Whatever is lost, killed or late, no row shows "thawing forever"
   (files.go 1465): pending scans that come again end it. *)
InProgressEnds ==
  \A f \in Files : row[f].rs = "in_progress" ~> row[f].rs # "in_progress"

(* As long as no event is lost, a thawed copy gets noticed without any scan,
   though the request was killed before it marked its rows. *)
ThawsAreNoticed ==
  \A f \in Files :
    row[f].st = "uploaded" /\ obj[row[f].key].thaw = "thawed"
      ~> \/ row[f].rs = "restored" \/ row[f].st = "pending"
         \/ obj[row[f].key].thaw # "thawed" \/ lost

(* A restore job ends, so the next one is accepted. *)
JobsEnd == job.kind # "none" ~> job.kind = "none"
=================================================================================
