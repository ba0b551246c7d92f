----------------------------- MODULE Restore_proofs -----------------------------
(* Theorems of Restore, for every value of its constants: the types, that what
   is called restored has been thawed, and that it stays restored. *)
EXTENDS Restore, TLAPS
-----------------------------------------------------------------------------
Messages == [kind : {"post", "completed"}, key : Keys]
JobType  == [kind : {"none", "trigger", "inventory"},
             group : [Keys -> SUBSET Keys], now : Keys \cup {None}]
ScanType == [mode : {"none", "full", "pending", "inventory"}, todo : SUBSET Keys,
             head : [Keys -> {"-", "none", "thawing", "thawed"}]]

LEMMA TypeIs ==
  TypeOK <=> /\ row \in [Files -> Rows] /\ obj \in [Keys -> Objects]
             /\ lost \in BOOLEAN /\ msgs \subseteq Messages
             /\ job \in JobType /\ scan \in ScanType
BY DEF TypeOK, Messages, JobType, ScanType

LEMMA TypeAfter ==
  ASSUME row' \in [Files -> Rows], obj' \in [Keys -> Objects],
         lost' \in BOOLEAN, msgs' \subseteq Messages,
         job' \in JobType, scan' \in ScanType
  PROVE  TypeOK'
BY DEF TypeOK, Messages, JobType, ScanType

(* The names of objects; no zip is a file or None. *)
LEMMA Names ==
  /\ Files \subseteq Keys /\ Zips \subseteq Keys /\ FirstZip \in Zips
  /\ None \notin Keys /\ \A z \in Zips : z \notin Files
BY KeyAssumption DEF Keys, FirstZip

LEMMA FreshTypes == NoJob \in JobType /\ NoScan \in ScanType /\ Fresh \in Objects
BY DEF NoJob, NoScan, Fresh, JobType, ScanType, Objects

(* What is made of a row is a row. *)
LEMMA RowUpdates ==
  ASSUME NEW r \in Rows
  PROVE  /\ \A s \in Statuses : [r EXCEPT !.rs = s] \in Rows
         /\ [r EXCEPT !.ver = 2, !.st = "pending", !.rs = ""] \in Rows
         /\ \A k \in Keys : [r EXCEPT !.st = "uploaded", !.key = k] \in Rows
         /\ \A z \in Zips : [r EXCEPT !.st = "uploaded", !.key = z, !.zip = z] \in Rows
<1>1. /\ r.st \in {"pending", "uploaded"} /\ r.ver \in {1, 2} /\ r.key \in Keys
      /\ r.zip \in Zips \cup {None} /\ r.rs \in Statuses
  BY DEF Rows
<1>2. "" \in Statuses
  BY DEF Statuses
<1>3. \A s \in Statuses : [r EXCEPT !.rs = s] \in Rows
  BY <1>1 DEF Rows
<1>4. [r EXCEPT !.ver = 2, !.st = "pending", !.rs = ""] \in Rows
  BY <1>1, <1>2 DEF Rows
<1>5. \A k \in Keys : [r EXCEPT !.st = "uploaded", !.key = k] \in Rows
  BY <1>1 DEF Rows
<1>6. ASSUME NEW z \in Zips
      PROVE  [r EXCEPT !.st = "uploaded", !.key = z, !.zip = z] \in Rows
  <2> DEFINE s == [r EXCEPT !.st = "uploaded", !.key = z]
  <2>1. s \in Rows
    BY <1>5, Names
  <2>2. [s EXCEPT !.zip = z] \in Rows
    BY <2>1 DEF Rows
  <2>3. [s EXCEPT !.zip = z] = [r EXCEPT !.st = "uploaded", !.key = z, !.zip = z]
    OBVIOUS
  <2> QED BY <2>2, <2>3
<1> QED BY <1>3, <1>4, <1>5, <1>6

(* The writes of the files table. *)
LEMMA MarkedIs ==
  ASSUME TypeOK, NEW K
  PROVE  /\ Marked(K) \in [Files -> Rows]
         /\ \A f \in Files :
              /\ Marked(K)[f] \in {row[f], [row[f] EXCEPT !.rs = "in_progress"]}
              /\ row[f].rs = "restored" => Marked(K)[f] = row[f]
<1>1. \A f \in Files : row[f] \in Rows /\ [row[f] EXCEPT !.rs = "in_progress"] \in Rows
  BY TypeIs, RowUpdates DEF Statuses
<1> QED BY <1>1 DEF Marked

LEMMA RestoredIs ==
  ASSUME TypeOK, NEW k
  PROVE  /\ Restored(k) \in [Files -> Rows]
         /\ \A f \in Files :
              Restored(k)[f] = IF row[f].key = k THEN [row[f] EXCEPT !.rs = "restored"]
                               ELSE row[f]
<1>1. \A f \in Files : row[f] \in Rows /\ [row[f] EXCEPT !.rs = "restored"] \in Rows
  BY TypeIs, RowUpdates DEF Statuses
<1> QED BY <1>1 DEF Restored

LEMMA ClearedIs ==
  ASSUME TypeOK, NEW k
  PROVE  /\ Cleared(k) \in [Files -> Rows]
         /\ \A f \in Files :
              Cleared(k)[f] = IF row[f].key = k THEN [row[f] EXCEPT !.rs = ""]
                              ELSE row[f]
<1>1. \A f \in Files : row[f] \in Rows /\ [row[f] EXCEPT !.rs = ""] \in Rows
  BY TypeIs, RowUpdates DEF Statuses
<1> QED BY <1>1 DEF Cleared

LEMMA InitType == Init => TypeOK
<1> SUFFICES ASSUME Init PROVE TypeOK
  OBVIOUS
<1>1. row \in [Files -> Rows]
  BY Names DEF Init, Rows, Statuses
<1>2. obj \in [Keys -> Objects]
  BY DEF Init, Fresh, Objects
<1> QED BY <1>1, <1>2, FreshTypes, TypeIs DEF Init

LEMMA BackupType ==
  ASSUME TypeOK
  PROVE  /\ \A f \in Files : Change(f) \/ UploadOwn(f) => TypeOK'
         /\ \A F \in SUBSET Files, z \in Zips : UploadZip(F, z) => TypeOK'
<1> USE TypeIs
<1>1. ASSUME NEW f \in Files, Change(f) PROVE TypeOK'
  <2>1. row' \in [Files -> Rows]
    <3>1. row' = [row EXCEPT ![f] =
                    [row[f] EXCEPT !.ver = 2, !.st = "pending", !.rs = ""]]
      BY <1>1 DEF Change
    <3> QED BY <3>1, RowUpdates
  <2> QED BY <1>1, <2>1, TypeAfter DEF Change
<1>2. ASSUME NEW f \in Files, UploadOwn(f) PROVE TypeOK'
  <2>1. row' \in [Files -> Rows]
    <3>1. row' = [row EXCEPT ![f] = [row[f] EXCEPT !.st = "uploaded", !.key = f]]
      BY <1>2 DEF UploadOwn
    <3> QED BY <3>1, RowUpdates, Names
  <2>2. obj' \in [Keys -> Objects]
    BY <1>2, FreshTypes DEF UploadOwn
  <2> QED BY <1>2, <2>1, <2>2, TypeAfter DEF UploadOwn
<1>3. ASSUME NEW F \in SUBSET Files, NEW z \in Zips, UploadZip(F, z) PROVE TypeOK'
  <2>1. row' \in [Files -> Rows]
    <3>1. \A f \in Files :
            [row[f] EXCEPT !.st = "uploaded", !.key = z, !.zip = z] \in Rows
      BY RowUpdates
    <3> QED BY <1>3, <3>1 DEF UploadZip
  <2>2. obj' \in [Keys -> Objects]
    BY <1>3, FreshTypes DEF UploadZip
  <2> QED BY <1>3, <2>1, <2>2, TypeAfter DEF UploadZip
<1> QED BY <1>1, <1>2, <1>3

LEMMA RequestType ==
  ASSUME TypeOK
  PROVE  /\ \A F \in SUBSET Files : Trigger(F) => TypeOK'
         /\ InventorySync => TypeOK'
         /\ Request => TypeOK'
<1> USE TypeIs
<1>1. ASSUME NEW F \in SUBSET Files, Trigger(F) PROVE TypeOK'
  <2>1. job' \in JobType
    <3>1. [k \in Keys |-> {row[f].key : f \in {g \in Wanted(F) : RestoreKey(row[g]) = k}}]
            \in [Keys -> SUBSET Keys]
      <4>1. \A g \in Wanted(F) : row[g].key \in Keys
        BY DEF Wanted, Rows
      <4> QED BY <4>1
    <3> QED BY <1>1, <3>1, FreshTypes DEF Trigger, JobType
  <2> QED BY <1>1, <2>1, TypeAfter DEF Trigger
<1>2. ASSUME NEW k \in Keys, Ask(k) PROVE TypeOK'
  <2>1. job' \in JobType
    BY <1>2 DEF Ask, JobType
  <2>2. Thawing(k) => obj' \in [Keys -> Objects] /\ msgs' \subseteq Messages
    BY DEF Thawing, Objects, Messages
  <2>3. obj' \in [Keys -> Objects] /\ msgs' \subseteq Messages
    BY <1>2, <2>2 DEF Ask
  <2> QED BY <1>2, <2>1, <2>3, TypeAfter DEF Ask
<1>3. ASSUME MarkAsked PROVE TypeOK'
  <2>1. job' \in JobType
    BY <1>3 DEF MarkAsked, JobType
  <2>2. row' \in [Files -> Rows]
    BY <1>3, MarkedIs DEF MarkAsked
  <2> QED BY <1>3, <2>1, <2>2, TypeAfter DEF MarkAsked
<1>4. ASSUME EndTrigger PROVE TypeOK'
  BY <1>4, FreshTypes, TypeAfter DEF EndTrigger
<1>5. ASSUME InventorySync PROVE TypeOK'
  <2>1. job' \in JobType
    BY <1>5, FreshTypes DEF InventorySync, JobType
  <2> QED BY <1>5, <2>1, TypeAfter DEF InventorySync
<1>6. ASSUME InventoryListed PROVE TypeOK'
  <2>1. scan' \in ScanType /\ job' \in JobType
    BY <1>6, FreshTypes DEF InventoryListed, Scan, ScanType
  <2> QED BY <1>6, <2>1, TypeAfter DEF InventoryListed
<1> QED BY <1>1, <1>2, <1>3, <1>4, <1>5, <1>6 DEF Request

LEMMA ScanningType ==
  ASSUME TypeOK
  PROVE  /\ ScanFull \/ ScanPending => TypeOK'
         /\ Scanning => TypeOK'
<1> USE TypeIs
<1>1. ASSUME ScanFull \/ ScanPending PROVE TypeOK'
  <2>1. /\ {row[f].key : f \in {g \in Files : row[g].st = "uploaded"}} \subseteq Keys
        /\ {row[f].key : f \in {g \in Files : row[g].rs = "in_progress"}} \subseteq Keys
    BY DEF Rows
  <2>2. scan' \in ScanType
    BY <1>1, <2>1, FreshTypes DEF ScanFull, ScanPending, Scan, ScanType
  <2> QED BY <1>1, <2>2, TypeAfter DEF ScanFull, ScanPending
<1>2. ASSUME NEW k \in Keys, Head(k) PROVE TypeOK'
  <2>1. scan' \in ScanType
    <3>1. obj[k].thaw \in {"none", "thawing", "thawed"}
      BY DEF Objects
    <3>2. \A h \in {"-", "none", "thawing", "thawed"} :
            /\ [scan EXCEPT !.todo = @ \ {k}, !.head[k] = h] \in ScanType
            /\ [scan EXCEPT !.todo = @ \ {k}] \in ScanType
      BY DEF ScanType
    <3> QED BY <1>2, <3>1, <3>2 DEF Head
  <2> QED BY <1>2, <2>1, TypeAfter DEF Head
<1>3. ASSUME NEW k \in Keys, Apply(k) PROVE TypeOK'
  <2>1. scan.head[k] \in {"none", "thawing", "thawed"}
    BY <1>3 DEF Apply, ScanType
  <2>2. row' \in [Files -> Rows]
    <3>1. Marked({k}) \in [Files -> Rows]
      BY MarkedIs
    <3>2. Restored(k) \in [Files -> Rows] /\ Cleared(k) \in [Files -> Rows]
      BY RestoredIs, ClearedIs
    <3>3. Seen(k) \in [Files -> Rows]
      BY <2>1, <3>1, <3>2 DEF Seen
    <3> QED BY <1>3, <3>3 DEF Apply
  <2>3. scan' \in ScanType
    BY <1>3 DEF Apply, ScanType
  <2> QED BY <1>3, <2>2, <2>3, TypeAfter DEF Apply
<1>4. ASSUME EndScan PROVE TypeOK'
  BY <1>4, FreshTypes, TypeAfter DEF EndScan
<1> QED BY <1>1, <1>2, <1>3, <1>4 DEF Scanning

LEMMA EventType ==
  ASSUME TypeOK
  PROVE  /\ \A m \in msgs : Consume(m) \/ LoseEvent(m) => TypeOK'
         /\ \A k \in Keys : Thaw(k) \/ Expire(k) => TypeOK'
         /\ Exit => TypeOK'
<1> USE TypeIs
<1>1. ASSUME NEW m \in msgs, Consume(m) PROVE TypeOK'
  <2>1. row' \in [Files -> Rows]
    BY <1>1, MarkedIs, RestoredIs DEF Consume, Noted
  <2> QED BY <1>1, <2>1, TypeAfter DEF Consume
<1>2. ASSUME NEW m \in msgs, LoseEvent(m) PROVE TypeOK'
  BY <1>2, TypeAfter DEF LoseEvent
<1>3. ASSUME NEW k \in Keys, Thaw(k) PROVE TypeOK'
  <2>1. obj' \in [Keys -> Objects] /\ msgs' \subseteq Messages
    <3>1. obj' = [obj EXCEPT ![k] = [obj[k] EXCEPT !.thaw = "thawed", !.once = TRUE]]
      BY <1>3 DEF Thaw
    <3>2. [obj[k] EXCEPT !.thaw = "thawed", !.once = TRUE] \in Objects
      BY DEF Objects
    <3> QED BY <1>3, <3>1, <3>2 DEF Thaw, Messages
  <2> QED BY <1>3, <2>1, TypeAfter DEF Thaw
<1>4. ASSUME NEW k \in Keys, Expire(k) PROVE TypeOK'
  <2>1. obj' \in [Keys -> Objects]
    BY <1>4 DEF Expire, Objects
  <2> QED BY <1>4, <2>1, TypeAfter DEF Expire
<1>5. ASSUME Exit PROVE TypeOK'
  BY <1>5, FreshTypes, TypeAfter DEF Exit
<1> QED BY <1>1, <1>2, <1>3, <1>4, <1>5

LEMMA NextType == ASSUME TypeOK, [Next]_vars PROVE TypeOK'
<1>1. CASE UNCHANGED vars
  BY <1>1, TypeIs, TypeAfter DEF vars
<1> QED BY <1>1, BackupType, RequestType, ScanningType, EventType DEF Next, Consuming

(* Rows, objects, events, jobs and scans have their types in every reachable
   state: what is asked for, looked at and noted is the name of an object. *)
THEOREM TypeCorrectness == Spec => []TypeOK
<1>1. TypeOK /\ [Next]_vars => TypeOK'
  BY NextType
<1> QED BY <1>1, InitType, PTL DEF Spec
-----------------------------------------------------------------------------
(* Why what is called restored has been thawed. *)

(* An own object is its file's, and the row of a file that has not changed
   points at an object that is there. *)
RowsPoint ==
  \A f \in Files : /\ row[f].key \in Files => row[f].key = f
                   /\ row[f].ver = 1 => row[f].st = "uploaded" /\ There(row[f].key)

(* Only objects that are there are thawed. *)
ThawsAreReal ==
  \A k \in Keys : /\ obj[k].thaw # "none" \/ obj[k].once => There(k)
                  /\ obj[k].thaw = "thawed" => obj[k].once

(* The object has been thawed, or was until its file changed and it was
   uploaded anew. *)
WasThawed(k) == obj[k].once \/ (k \in Files /\ row[k].ver = 2)

(* Events and HEADs tell of thaws that have been. *)
NewsIsTrue ==
  /\ \A m \in msgs : m.kind = "completed" => WasThawed(m.key)
  /\ \A k \in Keys : scan.head[k] = "thawed" => WasThawed(k)

ThawInv ==
  TypeOK /\ RowsPoint /\ ThawsAreReal /\ NewsIsTrue /\ UnchangedRestoredWasThawed

(* A step of anything but a backup run writes rows' restore status at most,
   and takes no object away. *)
RowsKeep ==
  \A f \in Files : /\ row'[f].st = row[f].st /\ row'[f].ver = row[f].ver
                   /\ row'[f].key = row[f].key
ObjectsKeep ==
  \A k \in Keys : obj'[k].there = obj[k].there /\ (obj[k].once => obj'[k].once)

LEMMA StatusWrites ==
  ASSUME TypeOK, \/ row' = row \/ \E K : row' = Marked(K)
                 \/ \E k : row' = Restored(k) \/ row' = Cleared(k)
  PROVE  RowsKeep
<1>1. \A f \in Files : row[f] \in Rows
  BY TypeIs
<1>2. CASE row' = row
  BY <1>2 DEF RowsKeep
<1>3. ASSUME NEW K, row' = Marked(K) PROVE RowsKeep
  <2>1. \A f \in Files : row'[f] \in {row[f], [row[f] EXCEPT !.rs = "in_progress"]}
    BY <1>3, MarkedIs
  <2> QED BY <1>1, <2>1 DEF RowsKeep, Rows
<1>4. ASSUME NEW k, row' = Restored(k) PROVE RowsKeep
  <2>1. \A f \in Files : row'[f] \in {row[f], [row[f] EXCEPT !.rs = "restored"]}
    BY <1>4, RestoredIs
  <2> QED BY <1>1, <2>1 DEF RowsKeep, Rows
<1>5. ASSUME NEW k, row' = Cleared(k) PROVE RowsKeep
  <2>1. \A f \in Files : row'[f] \in {row[f], [row[f] EXCEPT !.rs = ""]}
    BY <1>5, ClearedIs
  <2> QED BY <1>1, <2>1 DEF RowsKeep, Rows
<1> QED BY <1>2, <1>3, <1>4, <1>5

LEMMA ObjectWrites ==
  ASSUME TypeOK
  PROVE  /\ obj' = obj => ObjectsKeep
         /\ \A k \in Keys : Ask(k) \/ Thaw(k) \/ Expire(k) => ObjectsKeep
<1> USE TypeIs
<1>1. ASSUME NEW k \in Keys, Ask(k) PROVE ObjectsKeep
  <2>1. obj' = obj \/ obj' = [obj EXCEPT ![k].thaw = "thawing"]
    BY <1>1 DEF Ask, Thawing
  <2> QED BY <2>1 DEF ObjectsKeep, There, Objects
<1>2. ASSUME NEW k \in Keys, Thaw(k) PROVE ObjectsKeep
  <2>1. obj' = [obj EXCEPT ![k] = [obj[k] EXCEPT !.thaw = "thawed", !.once = TRUE]]
    BY <1>2 DEF Thaw
  <2> QED BY <2>1 DEF ObjectsKeep, There, Objects
<1>3. ASSUME NEW k \in Keys, Expire(k) PROVE ObjectsKeep
  BY <1>3 DEF Expire, ObjectsKeep, There, Objects
<1> QED BY <1>1, <1>2, <1>3 DEF ObjectsKeep, There

Backups == \/ \E f \in Files : Change(f) \/ UploadOwn(f)
           \/ \E F \in SUBSET Files, z \in Zips : UploadZip(F, z)

LEMMA SeenIs ==
  ASSUME TypeOK, NEW k \in Keys, Apply(k)
  PROVE  \/ row' = row \/ row' = Marked({k})
         \/ scan.head[k] = "thawed" /\ row' = Restored(k)
         \/ scan.head[k] = "none" /\ row' = Cleared(k)
<1>1. scan.head[k] \in {"none", "thawing", "thawed"}
  BY TypeIs DEF Apply, ScanType
<1> QED BY <1>1 DEF Apply, Seen

LEMMA StepsKeep == ASSUME TypeOK, [Next]_vars, ~Backups PROVE RowsKeep /\ ObjectsKeep
<1>1. RowsKeep
  <2>1. ASSUME NEW k \in Keys, Apply(k) PROVE RowsKeep
    BY <2>1, SeenIs, StatusWrites
  <2>2. ASSUME MarkAsked PROVE RowsKeep
    BY <2>2, StatusWrites DEF MarkAsked
  <2>3. ASSUME NEW m, Consume(m) PROVE RowsKeep
    BY <2>3, StatusWrites DEF Consume, Noted
  <2>4. row' = row => RowsKeep
    BY DEF RowsKeep
  <2> QED
    BY <2>1, <2>2, <2>3, <2>4
       DEF Next, vars, Backups, Request, Scanning, Consuming, Trigger, ScanFull, ScanPending,
           InventorySync, Ask, EndTrigger, InventoryListed, Head, EndScan, LoseEvent,
           Thaw, Expire, Exit
<1>2. ObjectsKeep
  <2>1. ASSUME NEW k \in Keys, Ask(k) \/ Thaw(k) \/ Expire(k) PROVE ObjectsKeep
    BY <2>1, ObjectWrites
  <2>2. obj' = obj => ObjectsKeep
    BY ObjectWrites
  <2> QED
    BY <2>1, <2>2
       DEF Next, vars, Backups, Request, Scanning, Consuming, Trigger, ScanFull, ScanPending,
           InventorySync, MarkAsked, EndTrigger, InventoryListed, Head, Apply, EndScan,
           Consume, LoseEvent, Exit
<1> QED BY <1>1, <1>2

(* What a backup run does to one row and to one object. *)
LEMMA BackupSteps ==
  ASSUME TypeOK, RowsPoint, ThawsAreReal, Backups
  PROVE  /\ \A f \in Files : \/ row'[f] = row[f]
                             \/ /\ row'[f].ver = 2
                                /\ row'[f].key \in Files => row'[f].key \in {f, row[f].key}
         /\ \A k \in Keys : \/ obj'[k] = obj[k]
                            \/ obj'[k] = Fresh /\ k \notin Files /\ ~There(k)
                            \/ obj'[k] = Fresh /\ k \in Files /\ row[k].ver = 2
         /\ msgs' = msgs /\ scan' = scan
<1> USE TypeIs
<1>1. ASSUME NEW f \in Files, row[f].st = "pending" PROVE row[f].ver = 2
  BY <1>1 DEF RowsPoint, Rows
<1>2. ASSUME NEW f \in Files, Change(f) PROVE row' = [row EXCEPT ![f] =
        [row[f] EXCEPT !.ver = 2, !.st = "pending", !.rs = ""]]
  BY <1>2 DEF Change
<1>3. CASE \E f \in Files : Change(f)
  <2>1. PICK g \in Files : Change(g)
    BY <1>3
  <2>2. \A f \in Files : f # g => row'[f] = row[f]
    BY <1>2, <2>1
  <2>3. row'[g].ver = 2 /\ row'[g].key = row[g].key
    <3>1. row'[g] = [row[g] EXCEPT !.ver = 2, !.st = "pending", !.rs = ""]
      BY <1>2, <2>1
    <3> QED BY <3>1 DEF Rows
  <2>4. obj' = obj /\ msgs' = msgs /\ scan' = scan
    BY <2>1 DEF Change
  <2> QED BY <2>2, <2>3, <2>4
<1>4. ASSUME NEW g \in Files, UploadOwn(g)
      PROVE  /\ \A f \in Files : \/ row'[f] = row[f]
                                 \/ row'[f].ver = 2 /\ row'[f].key = f
             /\ \A k \in Keys : \/ obj'[k] = obj[k]
                                \/ obj'[k] = Fresh /\ k \in Files /\ row[k].ver = 2
             /\ msgs' = msgs /\ scan' = scan
  <2>1. row' = [row EXCEPT ![g] = [row[g] EXCEPT !.st = "uploaded", !.key = g]]
    BY <1>4 DEF UploadOwn
  <2>2. row[g].ver = 2
    BY <1>1, <1>4 DEF UploadOwn
  <2> QED BY <1>4, <2>1, <2>2, Names DEF UploadOwn, Rows
<1>5. ASSUME NEW F \in SUBSET Files, NEW z \in Zips, UploadZip(F, z)
      PROVE  /\ \A f \in Files : \/ row'[f] = row[f]
                                 \/ row'[f].ver = 2 /\ row'[f].key = z
             /\ \A k \in Keys : \/ obj'[k] = obj[k]
                                \/ obj'[k] = Fresh /\ k = z /\ ~There(k)
             /\ msgs' = msgs /\ scan' = scan
  <2>1. ASSUME NEW f \in F
        PROVE  row'[f] = [row[f] EXCEPT !.st = "uploaded", !.key = z, !.zip = z]
    BY <1>5 DEF UploadZip
  <2>2. \A f \in F : row'[f].ver = 2 /\ row'[f].key = z
    BY <1>1, <1>5, <2>1 DEF UploadZip, Rows
  <2>3. \A f \in Files \ F : row'[f] = row[f]
    BY <1>5 DEF UploadZip
  <2> QED BY <1>5, <2>2, <2>3, Names DEF UploadZip
<1>6. CASE \E f \in Files : UploadOwn(f)
  BY <1>4, <1>6
<1>7. CASE \E F \in SUBSET Files, z \in Zips : UploadZip(F, z)
  <2>1. PICK F \in SUBSET Files, z \in Zips : UploadZip(F, z)
    BY <1>7
  <2>2. z \notin Files
    BY Names
  <2>3. \A f \in Files : \/ row'[f] = row[f]
                         \/ row'[f].ver = 2 /\ row'[f].key = z
    BY <1>5, <2>1
  <2>4. \A k \in Keys : \/ obj'[k] = obj[k]
                        \/ obj'[k] = Fresh /\ k = z /\ ~There(k)
    BY <1>5, <2>1
  <2>5. msgs' = msgs /\ scan' = scan
    BY <1>5, <2>1
  <2> QED BY <2>2, <2>3, <2>4, <2>5
<1> QED BY <1>3, <1>6, <1>7 DEF Backups

(* The object of a file that has not changed is not replaced. *)
LEMMA UnchangedKeep ==
  ASSUME TypeOK, RowsPoint, ThawsAreReal, [Next]_vars,
         NEW f \in Files, row'[f].ver = 1
  PROVE  /\ row[f].ver = 1 /\ row'[f].key = row[f].key /\ row'[f].st = row[f].st
         /\ obj[row[f].key].there => obj'[row[f].key].there
         /\ obj[row[f].key].once => obj'[row[f].key].once
<1>1. row[f].key \in Keys
  BY TypeIs DEF Rows
<1>2. CASE ~Backups
  BY <1>1, <1>2, StepsKeep DEF RowsKeep, ObjectsKeep
<1>3. CASE Backups
  <2>1. row'[f] = row[f]
    BY <1>3, BackupSteps
  <2>2. There(row[f].key) /\ (row[f].key \in Files => row[f].key = f)
    BY <2>1 DEF RowsPoint
  <2>3. obj'[row[f].key] = obj[row[f].key]
    BY <1>1, <1>3, <2>1, <2>2, BackupSteps
  <2> QED BY <2>1, <2>3 DEF There
<1> QED BY <1>2, <1>3

LEMMA WasThawedKeeps ==
  ASSUME TypeOK, RowsPoint, ThawsAreReal, [Next]_vars, NEW k \in Keys, WasThawed(k)
  PROVE  WasThawed(k)'
<1>1. CASE ~Backups
  BY <1>1, StepsKeep DEF RowsKeep, ObjectsKeep, WasThawed
<1>2. CASE Backups
  <2>1. k \in Files /\ row[k].ver = 2 => row'[k].ver = 2
    BY <1>2, BackupSteps
  <2>2. obj[k].once => There(k)
    BY DEF ThawsAreReal
  <2>3. obj'[k] = obj[k] \/ (k \in Files /\ row[k].ver = 2) \/ ~obj[k].once
    BY <1>2, <2>2, BackupSteps
  <2> QED BY <2>1, <2>3 DEF WasThawed
<1> QED BY <1>1, <1>2

LEMMA RowsPointStep ==
  ASSUME TypeOK, RowsPoint, ThawsAreReal, [Next]_vars PROVE RowsPoint'
<1> SUFFICES ASSUME NEW f \in Files
             PROVE  /\ row'[f].key \in Files => row'[f].key = f
                    /\ row'[f].ver = 1 => row'[f].st = "uploaded" /\ obj'[row'[f].key].there
  BY DEF RowsPoint, There
<1>1. row'[f].key \in Files => row'[f].key = f
  <2>1. CASE ~Backups
    BY <2>1, StepsKeep DEF RowsKeep, RowsPoint
  <2>2. CASE Backups
    BY <2>2, BackupSteps DEF RowsPoint
  <2> QED BY <2>1, <2>2
<1>2. ASSUME row'[f].ver = 1 PROVE row'[f].st = "uploaded" /\ obj'[row'[f].key].there
  BY <1>2, UnchangedKeep DEF RowsPoint, There
<1> QED BY <1>1, <1>2

LEMMA ThawsAreRealStep ==
  ASSUME TypeOK, RowsPoint, ThawsAreReal, [Next]_vars PROVE ThawsAreReal'
<1> USE TypeIs
<1>1. CASE Backups
  <2>1. \A k \in Keys : obj'[k] \in {obj[k], Fresh}
    BY <1>1, BackupSteps
  <2> QED BY <2>1 DEF ThawsAreReal, There, Fresh
<1>2. ASSUME NEW k \in Keys, Ask(k) PROVE ThawsAreReal'
  <2>1. obj' = obj \/ (There(k) /\ obj' = [obj EXCEPT ![k].thaw = "thawing"])
    BY <1>2 DEF Ask, Thawing
  <2> QED BY <2>1 DEF ThawsAreReal, There, Objects
<1>3. ASSUME NEW k \in Keys, Thaw(k) PROVE ThawsAreReal'
  <2>1. obj' = [obj EXCEPT ![k] = [obj[k] EXCEPT !.thaw = "thawed", !.once = TRUE]]
    BY <1>3 DEF Thaw
  <2>2. There(k)
    BY <1>3 DEF Thaw, ThawsAreReal
  <2> QED BY <2>1, <2>2 DEF ThawsAreReal, There, Objects
<1>4. ASSUME NEW k \in Keys, Expire(k) PROVE ThawsAreReal'
  BY <1>4 DEF Expire, ThawsAreReal, There, Objects
<1>5. obj' = obj => ThawsAreReal'
  BY DEF ThawsAreReal, There
<1> QED
  BY <1>1, <1>2, <1>3, <1>4, <1>5
     DEF Next, vars, Backups, Request, Scanning, Consuming, Trigger, ScanFull, ScanPending,
         InventorySync, MarkAsked, EndTrigger, InventoryListed, Head, Apply, EndScan,
         Consume, LoseEvent, Exit

(* An event or a HEAD is of a thaw that was, or was true before. *)
LEMMA NewsIsTrueStep ==
  ASSUME TypeOK, RowsPoint, ThawsAreReal, NewsIsTrue, [Next]_vars PROVE NewsIsTrue'
<1> USE TypeIs
<1>1. \A k \in Keys : WasThawed(k) => WasThawed(k)'
  BY WasThawedKeeps
<1>2. ASSUME NEW m \in msgs', m.kind = "completed" PROVE WasThawed(m.key)'
  <2>1. CASE m \in msgs
    BY <1>1, <1>2, <2>1 DEF NewsIsTrue, Messages
  <2>2. CASE m \notin msgs
    <3>1. ASSUME NEW k \in Keys, Ask(k) PROVE FALSE
      BY <1>2, <2>2, <3>1 DEF Ask, Thawing
    <3>2. ASSUME NEW k \in Keys, Thaw(k) PROVE WasThawed(m.key)'
      <4>1. obj' = [obj EXCEPT ![k] = [obj[k] EXCEPT !.thaw = "thawed", !.once = TRUE]]
        BY <3>2 DEF Thaw
      <4>2. m.key = k
        BY <1>2, <2>2, <3>2 DEF Thaw
      <4> QED BY <4>1, <4>2 DEF WasThawed, Objects
    <3>3. ASSUME NEW n \in msgs, Consume(n) \/ LoseEvent(n) PROVE FALSE
      BY <2>2, <3>3, <1>2 DEF Consume, LoseEvent
    <3> QED
      BY <1>2, <2>2, <3>1, <3>2, <3>3
         DEF Next, vars, Change, UploadOwn, UploadZip, Request, Scanning, Consuming, Trigger,
             ScanFull, ScanPending, InventorySync, MarkAsked, EndTrigger, InventoryListed,
             Head, Apply, EndScan, Expire, Exit
  <2> QED BY <2>1, <2>2
<1>3. ASSUME NEW k \in Keys, scan'.head[k] = "thawed" PROVE WasThawed(k)'
  <2>1. CASE scan.head[k] = "thawed"
    BY <1>1, <2>1 DEF NewsIsTrue
  <2>2. CASE scan.head[k] # "thawed"
    <3>1. ASSUME NEW l \in Keys, Head(l) PROVE WasThawed(k)'
      <4>1. obj[k].thaw = "thawed"
        <5> DEFINE seen == IF There(l) THEN obj[l].thaw ELSE "-"
        <5>1. scan'.head = scan.head \/ scan'.head = [scan.head EXCEPT ![l] = seen]
          <6>1. [scan EXCEPT !.todo = @ \ {l}, !.head[l] = seen].head
                  = [scan.head EXCEPT ![l] = seen]
            BY DEF ScanType
          <6>2. [scan EXCEPT !.todo = @ \ {l}].head = scan.head
            BY DEF ScanType
          <6> QED BY <3>1, <6>1, <6>2 DEF Head
        <5>2. scan.head \in [Keys -> {"-", "none", "thawing", "thawed"}]
          BY DEF ScanType
        <5> QED BY <1>3, <2>2, <5>1, <5>2
      <4> QED BY <1>1, <4>1 DEF ThawsAreReal, WasThawed
    <3>2. ASSUME NEW l \in Keys, Apply(l) PROVE FALSE
      BY <1>3, <2>2, <3>2 DEF Apply, ScanType
    <3>3. NoScan.head[k] # "thawed"
      BY DEF NoScan
    <3>4. ASSUME ScanFull \/ ScanPending \/ InventoryListed PROVE FALSE
      <4>1. ASSUME NEW mode, NEW keys
            PROVE  [NoScan EXCEPT !.mode = mode, !.todo = keys].head[k] # "thawed"
        BY DEF NoScan
      <4>2. \/ scan' = scan
            \/ \E mode, keys : scan' = [NoScan EXCEPT !.mode = mode, !.todo = keys]
        BY <3>4 DEF ScanFull, ScanPending, InventoryListed, Scan
      <4> QED BY <1>3, <2>2, <4>1, <4>2
    <3>5. ASSUME EndScan \/ Exit PROVE FALSE
      BY <1>3, <3>3, <3>5 DEF EndScan, Exit
    <3> QED
      BY <1>3, <2>2, <3>1, <3>2, <3>4, <3>5
         DEF Next, vars, Change, UploadOwn, UploadZip, Request, Scanning, Consuming, Trigger,
             InventorySync, Ask, MarkAsked, EndTrigger, Consume, LoseEvent, Thaw, Expire
  <2> QED BY <2>1, <2>2
<1> QED BY <1>2, <1>3 DEF NewsIsTrue

(* A row becomes restored by a completion event or by a HEAD. *)
LEMMA RestoredStep ==
  ASSUME ThawInv, [Next]_vars, NEW f \in Files,
         row'[f].ver = 1, row'[f].rs = "restored"
  PROVE  obj'[row'[f].key].once
<1> USE TypeIs DEF ThawInv
<1>1. /\ row[f].ver = 1 /\ row'[f].key = row[f].key
      /\ obj[row[f].key].once => obj'[row[f].key].once
  BY UnchangedKeep
<1> SUFFICES obj[row[f].key].once
  BY <1>1
<1>2. row[f].key \in Keys /\ row[f] \in Rows
  BY DEF Rows
<1>3. WasThawed(row[f].key) => obj[row[f].key].once
  <2>1. row[f].key \in Files => row[f].key = f
    BY DEF RowsPoint
  <2> QED BY <1>1, <2>1 DEF WasThawed
<1>4. CASE row[f].rs = "restored"
  BY <1>1, <1>4 DEF UnchangedRestoredWasThawed
<1>5. CASE row[f].rs # "restored"
  <2>1. ASSUME NEW K, row' = Marked(K) PROVE FALSE
    <3>1. row'[f] \in {row[f], [row[f] EXCEPT !.rs = "in_progress"]}
      BY <2>1, MarkedIs
    <3> QED BY <1>2, <1>5, <3>1 DEF Rows
  <2>2. ASSUME NEW k, row' = Cleared(k) PROVE FALSE
    <3>1. row'[f] \in {row[f], [row[f] EXCEPT !.rs = ""]}
      BY <2>2, ClearedIs
    <3> QED BY <1>2, <1>5, <3>1 DEF Rows
  <2>3. ASSUME NEW k, row' = Restored(k) PROVE k = row[f].key
    <3>1. row[f].key # k => row'[f] = row[f]
      BY <2>3, RestoredIs
    <3> QED BY <1>5, <3>1
  <2>4. row' # row
    BY <1>5
  <2>5. ASSUME NEW k \in Keys, Apply(k) PROVE obj[row[f].key].once
    <3>1. scan.head[k] = "thawed" /\ row' = Restored(k)
      BY <2>1, <2>2, <2>4, <2>5, SeenIs
    <3>2. k = row[f].key
      BY <2>3, <3>1
    <3> QED BY <1>3, <3>1, <3>2 DEF NewsIsTrue
  <2>6. ASSUME NEW m \in msgs, Consume(m) PROVE obj[row[f].key].once
    <3>1. m.kind = "completed" /\ row' = Restored(m.key)
      BY <2>1, <2>6 DEF Consume, Noted, Messages
    <3>2. m.key = row[f].key
      BY <2>3, <3>1
    <3> QED BY <1>3, <3>1, <3>2 DEF NewsIsTrue
  <2>7. ASSUME MarkAsked PROVE FALSE
    BY <2>1, <2>4, <2>7 DEF MarkAsked
  <2>8. ~Backups
    <3> SUFFICES ASSUME Backups PROVE row'[f] = row[f]
      BY <1>5
    <3> QED BY BackupSteps
  <2> QED
    BY <2>4, <2>5, <2>6, <2>7, <2>8
       DEF Next, vars, Backups, Request, Scanning, Consuming, Trigger, ScanFull, ScanPending,
           InventorySync, Ask, EndTrigger, InventoryListed, Head, EndScan, LoseEvent,
           Thaw, Expire, Exit
<1> QED BY <1>4, <1>5

LEMMA ThawInvariant == Spec => []ThawInv
<1>1. Init => ThawInv
  <2> SUFFICES ASSUME Init PROVE ThawInv
    OBVIOUS
  <2>1. TypeOK
    BY InitType
  <2>2. \A f \in Files : /\ row[f].key = f \/ row[f].key \in Zips
                         /\ row[f].st = "uploaded" /\ row[f].rs = ""
                         /\ row[f].key \in Keys
    BY Names DEF Init
  <2>3. \A k \in Keys : /\ obj[k].thaw = "none" /\ ~obj[k].once
                        /\ (\E f \in Files : row[f].key = k) => There(k)
    BY DEF Init, Fresh, There
  <2>4. RowsPoint
    BY <2>2, <2>3, Names DEF RowsPoint
  <2>5. ThawsAreReal /\ UnchangedRestoredWasThawed
    BY <2>2, <2>3 DEF ThawsAreReal, UnchangedRestoredWasThawed
  <2>6. NewsIsTrue
    BY DEF Init, NoScan, NewsIsTrue
  <2> QED BY <2>1, <2>4, <2>5, <2>6 DEF ThawInv
<1>2. ASSUME ThawInv, [Next]_vars PROVE ThawInv'
  <2>1. TypeOK' /\ RowsPoint' /\ ThawsAreReal' /\ NewsIsTrue'
    BY <1>2, NextType, RowsPointStep, ThawsAreRealStep, NewsIsTrueStep DEF ThawInv
  <2>2. UnchangedRestoredWasThawed'
    BY <1>2, RestoredStep DEF UnchangedRestoredWasThawed
  <2> QED BY <2>1, <2>2 DEF ThawInv
<1> QED BY <1>1, <1>2, PTL DEF Spec

(* Whatever events and HEADs are late, repeated or out of order: a row of a
   file that has not changed is restored only if its object has been thawed. *)
THEOREM RestoredHasBeenThawed == Spec => []UnchangedRestoredWasThawed
<1>1. ThawInv => UnchangedRestoredWasThawed
  BY DEF ThawInv
<1> QED BY <1>1, ThawInvariant, PTL
-----------------------------------------------------------------------------
(* Why a restored row stays so. *)

(* No HEAD that found no thaw is still to be written when one is complete. *)
HeadsAreNew == \A k \in Keys : scan.head[k] = "none" => obj[k].thaw # "thawed"

LEMMA HeadsAreNewStep == ASSUME TypeOK, HeadsAreNew, [Next]_vars PROVE HeadsAreNew'
<1> USE TypeIs
<1>1. ASSUME NEW k \in Keys
      PROVE  \/ obj'[k] = obj[k] \/ obj'[k].thaw # "thawed"
             \/ scan' = scan /\ scan.head[k] # "none"
  <2>1. ASSUME NEW l \in Keys, Ask(l) PROVE obj'[k] = obj[k] \/ obj'[k].thaw # "thawed"
    BY <2>1 DEF Ask, Thawing, Objects
  <2>2. ASSUME NEW l \in Keys, Thaw(l)
        PROVE  obj'[k] = obj[k] \/ (scan' = scan /\ scan.head[k] # "none")
    <3>1. obj' = [obj EXCEPT ![l] = [obj[l] EXCEPT !.thaw = "thawed", !.once = TRUE]]
      BY <2>2 DEF Thaw
    <3> QED BY <2>2, <3>1 DEF Thaw
  <2>3. ASSUME NEW l \in Keys, Expire(l) PROVE obj'[k] = obj[k] \/ obj'[k].thaw # "thawed"
    BY <2>3 DEF Expire, Objects
  <2>4. ASSUME NEW f \in Files, UploadOwn(f)
        PROVE  obj'[k] = obj[k] \/ obj'[k].thaw # "thawed"
    BY <2>4, Names DEF UploadOwn, Fresh
  <2>5. ASSUME NEW F, NEW z \in Zips, UploadZip(F, z)
        PROVE  obj'[k] = obj[k] \/ obj'[k].thaw # "thawed"
    BY <2>5, Names DEF UploadZip, Fresh
  <2> QED
    BY <2>1, <2>2, <2>3, <2>4, <2>5
       DEF Next, vars, Change, Request, Scanning, Consuming, Trigger, ScanFull, ScanPending,
           InventorySync, MarkAsked, EndTrigger, InventoryListed, Head, Apply, EndScan,
           Consume, LoseEvent, Exit
<1>2. ASSUME NEW k \in Keys
      PROVE  \/ scan'.head[k] \in {scan.head[k], "-"}
             \/ scan'.head[k] = obj[k].thaw /\ obj' = obj
  <2>1. scan.head \in [Keys -> {"-", "none", "thawing", "thawed"}]
    BY DEF ScanType
  <2>2. ASSUME NEW l \in Keys, Head(l)
        PROVE  obj' = obj /\ scan'.head[k] \in {scan.head[k], "-", obj[k].thaw}
    <3> DEFINE seen == IF There(l) THEN obj[l].thaw ELSE "-"
    <3>1. scan'.head = scan.head \/ scan'.head = [scan.head EXCEPT ![l] = seen]
      <4>1. [scan EXCEPT !.todo = @ \ {l}, !.head[l] = seen].head
              = [scan.head EXCEPT ![l] = seen]
        BY DEF ScanType
      <4>2. [scan EXCEPT !.todo = @ \ {l}].head = scan.head
        BY DEF ScanType
      <4> QED BY <2>2, <4>1, <4>2 DEF Head
    <3> QED BY <2>1, <2>2, <3>1 DEF Head
  <2>3. ASSUME NEW l \in Keys, Apply(l) PROVE scan'.head[k] \in {scan.head[k], "-"}
    BY <2>1, <2>3 DEF Apply, ScanType
  <2>4. NoScan.head[k] = "-"
    BY DEF NoScan
  <2>5. ASSUME ScanFull \/ ScanPending \/ InventoryListed
        PROVE  scan'.head[k] \in {scan.head[k], "-"}
    <3>1. \/ scan' = scan
          \/ \E mode, keys : scan' = [NoScan EXCEPT !.mode = mode, !.todo = keys]
      BY <2>5 DEF ScanFull, ScanPending, InventoryListed, Scan
    <3>2. ASSUME NEW mode, NEW keys, scan' = [NoScan EXCEPT !.mode = mode, !.todo = keys]
          PROVE  scan'.head[k] = "-"
      BY <3>2 DEF NoScan
    <3> QED BY <3>1, <3>2
  <2>6. EndScan \/ Exit => scan'.head[k] = "-"
    BY <2>4 DEF EndScan, Exit
  <2> QED
    BY <2>2, <2>3, <2>5, <2>6
       DEF Next, vars, Change, UploadOwn, UploadZip, Request, Scanning, Consuming, Trigger,
           InventorySync, Ask, MarkAsked, EndTrigger, Consume, LoseEvent, Thaw, Expire
<1> QED BY <1>1, <1>2 DEF HeadsAreNew

LEMMA HeadsInvariant == Spec => [](TypeOK /\ HeadsAreNew)
<1>1. Init => HeadsAreNew
  <2>1. Init => scan = NoScan
    BY DEF Init
  <2> QED BY <2>1 DEF NoScan, HeadsAreNew
<1>2. TypeOK /\ HeadsAreNew /\ [Next]_vars => HeadsAreNew'
  BY HeadsAreNewStep
<1> QED BY <1>1, <1>2, TypeCorrectness, PTL DEF Spec

(* While the thawed copy is there no late event, slow HEAD or second request
   takes a restored row back. *)
LEMMA StaysRestored ==
  ASSUME TypeOK, HeadsAreNew, [Next]_vars, NEW f \in Files,
         row[f].rs = "restored", obj[row[f].key].thaw = "thawed"
  PROVE  row'[f].rs = "restored" \/ row'[f].st = "pending"
<1> USE TypeIs
<1>1. row[f].key \in Keys /\ row[f] \in Rows
  BY DEF Rows
<1>2. ASSUME NEW K, row' = Marked(K) PROVE row'[f] = row[f]
  BY <1>2, MarkedIs
<1>3. ASSUME NEW k, row' = Restored(k) PROVE row'[f].rs = "restored"
  <2>1. row'[f] \in {row[f], [row[f] EXCEPT !.rs = "restored"]}
    BY <1>3, RestoredIs
  <2> QED BY <1>1, <2>1 DEF Rows
<1>4. ASSUME NEW k \in Keys, Apply(k) PROVE row'[f].rs = "restored"
  <2>1. ASSUME scan.head[k] = "none", row' = Cleared(k) PROVE row'[f] = row[f]
    <3>1. k # row[f].key
      BY <2>1 DEF HeadsAreNew
    <3> QED BY <2>1, <3>1, ClearedIs
  <2> QED BY <1>2, <1>3, <1>4, <2>1, SeenIs
<1>5. ASSUME NEW m, Consume(m) PROVE row'[f].rs = "restored"
  BY <1>2, <1>3, <1>5 DEF Consume, Noted
<1>6. ASSUME MarkAsked PROVE row'[f].rs = "restored"
  BY <1>2, <1>6 DEF MarkAsked
<1>7. ASSUME NEW g \in Files, Change(g) PROVE row'[f].rs = "restored" \/ row'[f].st = "pending"
  <2>1. row' = [row EXCEPT ![g] = [row[g] EXCEPT !.ver = 2, !.st = "pending", !.rs = ""]]
    BY <1>7 DEF Change
  <2> QED BY <1>1, <2>1 DEF Rows
<1>8. ASSUME NEW g \in Files, UploadOwn(g) PROVE row'[f].rs = "restored"
  <2>1. row' = [row EXCEPT ![g] = [row[g] EXCEPT !.st = "uploaded", !.key = g]]
    BY <1>8 DEF UploadOwn
  <2> QED BY <1>1, <2>1 DEF Rows
<1>9. ASSUME NEW F, NEW z \in Zips, UploadZip(F, z) PROVE row'[f].rs = "restored"
  <2>1. row'[f] \in {row[f], [row[f] EXCEPT !.st = "uploaded", !.key = z, !.zip = z]}
    BY <1>9 DEF UploadZip
  <2> QED BY <1>1, <2>1 DEF Rows
<1> QED
  BY <1>4, <1>5, <1>6, <1>7, <1>8, <1>9
     DEF Next, vars, Request, Scanning, Consuming, Trigger, ScanFull, ScanPending,
         InventorySync, Ask, EndTrigger, InventoryListed, Head, EndScan, LoseEvent,
         Thaw, Expire, Exit

(* The same, of the specification: thaws are longer than any HEAD waits to be
   written. *)
THEOREM RestoredRowsStay == Spec => RestoredStays
<1>1. (TypeOK /\ HeadsAreNew) /\ [Next]_vars =>
        [\A f \in Files :
           /\ row[f].rs = "restored"
           /\ obj[row[f].key].thaw = "thawed"
           => row'[f].rs = "restored" \/ row'[f].st = "pending"]_vars
  BY StaysRestored
<1> QED BY <1>1, HeadsInvariant, PTL DEF Spec, RestoredStays
================================================================================
