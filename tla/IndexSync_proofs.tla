--------------------------- MODULE IndexSync_proofs ---------------------------
(* Theorems of IndexSync, for every value of its constants. *)
EXTENDS IndexSync, TLAPS

LEMMA Values ==
  /\ None \notin Profiles /\ First \in Profiles
  /\ MaxCommits \in Nat /\ MaxSwitches \in Nat /\ MaxEnds \in Nat /\ MaxFaults \in Nat
  /\ NoFile \notin Databases
  /\ \A p \in Profiles : Fresh(p) \in Databases /\ Fresh(p) # NoFile
  /\ Shut \in Openings /\ NoJob \in Uploads
<1>1. First \in Profiles
  BY ProfileAssumption DEF First
<1>2. NoFile \notin Databases
  BY ProfileAssumption DEF NoFile, Databases
<1>3. ASSUME NEW p \in Profiles PROVE Fresh(p) \in Databases /\ Fresh(p) # NoFile
  <2>1. Fresh(p) \in Databases
    BY DEF Fresh, Databases
  <2> QED BY <1>2, <2>1
<1>4. Shut \in Openings /\ NoJob \in Uploads
  BY DEF Shut, Openings, NoJob, Uploads
<1> QED BY <1>1, <1>2, <1>3, <1>4, ProfileAssumption, BoundAssumption

(* What TypeOK needs to be inductive: a log belongs to a file, a start or switch
   has a profile, an upload a database, and no upload outlives the process. *)
Shapes ==
  /\ \A p \in Profiles : wal[p] # {} => file[p] \in Databases
  /\ open.step # "none" => open.p \in Profiles
  /\ open.step = "rename" => open.part \in Databases
  /\ \A j \in Jobs : job[j].step # "none" =>
       job[j].db \in Databases /\ job[j].from \in Profiles /\ live # None

Types == TypeOK /\ Shapes

LEMMA InitTypes == Init => Types
<1> SUFFICES ASSUME Init PROVE Types
  OBVIOUS
<1>1. file \in [Profiles -> Databases \cup {NoFile}] /\ file[First] # NoFile
  BY Values DEF Init
<1>2. used \in Counters
  BY DEF Init, Counters
<1>3. TypeOK
  BY <1>1, <1>2, Values DEF Init, TypeOK, NoJob
<1>4. Shapes
  BY DEF Init, Shapes, Shut, NoJob
<1> QED BY <1>3, <1>4 DEF Types

(* What is in a database, with its log. *)
LEMMA ContentHas ==
  ASSUME Types, NEW p \in Profiles
  PROVE  /\ Content(p).has = file[p].has \cup wal[p]
         /\ Content(p).whole = file[p].whole
         /\ Content(p) \in Databases \cup {NoFile}
         /\ file[p] \in Databases => Content(p) \in Databases
         /\ Content(p) # NoFile <=> file[p] # NoFile
<1>1. file[p] \in Databases \cup {NoFile} /\ wal[p] \subseteq Commits
  BY DEF Types, TypeOK
<1>2. CASE file[p] \in Databases
  <2>1. Content(p) \in Databases
    BY <1>1, <1>2 DEF Content, Databases
  <2> QED BY <1>2, <2>1, Values DEF Content, Databases
<1>3. CASE file[p] = NoFile
  <2>1. wal[p] = {}
    BY <1>3, Values DEF Types, Shapes
  <2>2. Content(p) = NoFile
    BY <1>3, <2>1 DEF Content, NoFile
  <2> QED BY <1>3, <2>1, <2>2, Values DEF NoFile
<1> QED BY <1>1, <1>2, <1>3

(* Closing and checkpointing move commits from the log into the file. *)
LEMMA CloseKeeps ==
  ASSUME Types, NEW Q, Close(Q)
  PROVE  /\ file' \in [Profiles -> Databases \cup {NoFile}]
         /\ wal' \in [Profiles -> SUBSET Commits] /\ newer' \in [Profiles -> BOOLEAN]
         /\ \A p \in Profiles :
              /\ file'[p] # NoFile <=> file[p] # NoFile
              /\ file'[p] \in Databases <=> file[p] \in Databases
              /\ wal'[p] = IF p \in Q THEN {} ELSE wal[p]
              /\ file'[p].whole = file[p].whole
              /\ file'[p].has \cup wal'[p] = file[p].has \cup wal[p]
              /\ p \notin Q => file'[p] = file[p] /\ newer'[p] = newer[p]
              /\ newer'[p] => newer[p] /\ file'[p].has = file[p].has
<1>1. /\ file' = [q \in Profiles |-> IF q \in Q THEN Content(q) ELSE file[q]]
      /\ wal' = [q \in Profiles |-> IF q \in Q THEN {} ELSE wal[q]]
      /\ newer' = [q \in Profiles |->
           newer[q] /\ q \notin {x \in Q : ~(wal[x] \subseteq file[x].has)}]
  BY DEF Close
<1>2. \A q \in Profiles : newer[q] \in BOOLEAN /\ wal[q] \subseteq Commits
                          /\ file[q] \in Databases \cup {NoFile}
  BY DEF Types, TypeOK
<1>3. /\ file' \in [Profiles -> Databases \cup {NoFile}]
      /\ wal' \in [Profiles -> SUBSET Commits] /\ newer' \in [Profiles -> BOOLEAN]
  BY <1>1, <1>2, ContentHas
<1>4. ASSUME NEW p \in Profiles
      PROVE  /\ file'[p] # NoFile <=> file[p] # NoFile
             /\ file'[p] \in Databases <=> file[p] \in Databases
             /\ wal'[p] = IF p \in Q THEN {} ELSE wal[p]
             /\ file'[p].whole = file[p].whole
             /\ file'[p].has \cup wal'[p] = file[p].has \cup wal[p]
             /\ p \notin Q => file'[p] = file[p] /\ newer'[p] = newer[p]
             /\ newer'[p] => newer[p] /\ file'[p].has = file[p].has
  <2>1. CASE p \in Q
    <3>1. file'[p] = Content(p) /\ wal'[p] = {}
          /\ (newer'[p] <=> newer[p] /\ wal[p] \subseteq file[p].has)
      BY <1>1, <1>2, <2>1
    <3> QED BY <1>2, <2>1, <3>1, ContentHas, Values
  <2>2. CASE p \notin Q
    BY <1>1, <1>2, <2>2
  <2> QED BY <2>1, <2>2
<1> QED BY <1>3, <1>4
(* The counters only grow. *)
LEMMA CountersGrow ==
  ASSUME Types, Next
  PROVE  /\ used' \in Counters
         /\ \A k \in {"kill", "again", "slow", "crossed"} :
              used'[k] = 0 => used[k] = 0
<1>. used \in Counters
  BY DEF Types, TypeOK
<1>1. ASSUME NEW what \in {"commit", "exit", "kill", "fault"},
             used' = [used EXCEPT ![what] = @ + 1]
      PROVE  /\ used' \in Counters
             /\ \A k \in {"kill", "again", "slow", "crossed"} :
                  used'[k] = 0 => used[k] = 0
  BY <1>1 DEF Counters
<1>2. ASSUME NEW p \in Profiles, Switch(p)
      PROVE  /\ used' \in Counters
             /\ \A k \in {"kill", "again", "slow", "crossed"} :
                  used'[k] = 0 => used[k] = 0
  <2>1. PICK n \in {0, 1} : used' = [used EXCEPT !.switch = @ + 1, !.again = @ + n]
    BY <1>2 DEF Switch
  <2>2. used["switch"] + 1 \in Nat /\ used["again"] + n \in Nat
    BY DEF Counters
  <2>3. used' = [[used EXCEPT !["switch"] = used["switch"] + 1]
                  EXCEPT !["again"] = used["again"] + n]
    BY <2>1 DEF Counters
  <2>4. used["again"] + n = 0 => used["again"] = 0
    BY DEF Counters
  <2> QED BY <2>2, <2>3, <2>4 DEF Counters
<1>3. ASSUME NEW j \in Jobs, Put(j)
      PROVE  /\ used' \in Counters
             /\ \A k \in {"kill", "again", "slow", "crossed"} :
                  used'[k] = 0 => used[k] = 0
  <2>1. PICK n \in {1, used.slow}, m \in {1, used.crossed} :
          used' = [used EXCEPT !.slow = n, !.crossed = m]
    BY <1>3 DEF Put, Counters
  <2>2. used' = [[used EXCEPT !["slow"] = n] EXCEPT !["crossed"] = m]
    BY <2>1
  <2>3. n \in Nat /\ m \in Nat
    BY DEF Counters
  <2> QED BY <2>2, <2>3 DEF Counters
<1>4. ASSUME NEW j \in Jobs, Snapshot(j) \/ FindStore(j)
      PROVE  used' = used
  BY <1>4 DEF Snapshot, FindStore
<1>5. CASE \/ \E p \in Profiles : Start(p)
           \/ Rename \/ Create \/ Swap \/ Checkpoint \/ IdleClose
  BY <1>5 DEF Start, Rename, Create, Swap, Checkpoint, IdleClose
<1>6. CASE Fetch \/ OpenFails \/ \E j \in Jobs : PutFails(j)
  <2>1. used' = used \/ used' = [used EXCEPT !["fault"] = @ + 1]
    BY <1>6 DEF Fetch, OpenFails, PutFails, Fault, Use
  <2> QED BY <1>1, <2>1
<1>7. CASE Commit \/ Exit \/ Kill
  <2>1. \E what \in {"commit", "exit", "kill"} : used' = [used EXCEPT ![what] = @ + 1]
    BY <1>7 DEF Commit, Exit, Kill, Use, Ends
  <2> QED BY <1>1, <2>1
<1> QED BY <1>2, <1>3, <1>4, <1>5, <1>6, <1>7 DEF Next, OpenSteps, JobSteps

(* Steps that leave files, logs, copies and history alone. *)
LEMMA OpeningTypes ==
  ASSUME Types, used' \in Counters,
         UNCHANGED <<file, wal, copy, newer, live, job, made>>,
         open' \in Openings, open'.step # "none" => open'.p \in Profiles,
         open'.step = "rename" => open'.part \in Databases
  PROVE  Types'
<1>1. TypeOK'
  BY DEF Types, TypeOK
<1>2. Shapes'
  BY DEF Types, Shapes
<1> QED BY <1>1, <1>2 DEF Types

LEMMA StartTypes ==
  ASSUME Types, used' \in Counters,
         (\E p \in Profiles : Start(p) \/ Switch(p)) \/ Fetch
  PROVE  Types'
<1>. open \in Openings /\ copy \in [Profiles -> Databases \cup {NoFile}]
  BY DEF Types, TypeOK
<1>1. UNCHANGED <<file, wal, copy, newer, live, job, made>>
  BY DEF Start, Switch, Fetch
<1>2. CASE \E p \in Profiles : Start(p) \/ Switch(p)
  <2>1. PICK p \in Profiles : open' = [Shut EXCEPT !.step = "fetch", !.p = p]
    BY <1>2 DEF Start, Switch
  <2>2. /\ open' \in Openings /\ open'.step = "fetch" /\ open'.p \in Profiles
    BY <2>1 DEF Shut, Openings
  <2> QED BY <1>1, <2>2, OpeningTypes
<1>3. CASE Fetch
  <2>1. open.p \in Profiles
    BY <1>3 DEF Fetch, Types, Shapes
  <2>2. CASE open' = [open EXCEPT !.step = "open"]
    <3>1. open' \in Openings /\ open'.step = "open" /\ open'.p = open.p
      BY <2>2 DEF Openings
    <3> QED BY <1>1, <2>1, <3>1, OpeningTypes
  <2>3. CASE RefreshNeeded(open.p) /\ open' = [open EXCEPT !.step = "rename", !.part = copy[open.p]]
    <3>1. copy[open.p] \in Databases
      BY <2>1, <2>3 DEF RefreshNeeded
    <3>2. open' \in Openings /\ open'.p = open.p /\ open'.part \in Databases
      BY <2>3, <3>1 DEF Openings
    <3> QED BY <1>1, <2>1, <3>2, OpeningTypes
  <2> QED BY <1>3, <2>2, <2>3 DEF Fetch
<1> QED BY <1>2, <1>3

LEMMA FileTypes ==
  ASSUME Types, used' \in Counters, Rename \/ Create \/ Checkpoint \/ Commit
  PROVE  Types'
<1>. TypeOK /\ Shapes
  BY DEF Types
<1>1. UNCHANGED <<copy, live, job>>
  BY DEF Rename, Create, Checkpoint, Commit
<1>2. CASE Rename
  <2>1. open.p \in Profiles /\ open.part \in Databases
    BY <1>2 DEF Rename, Shapes
  <2>2. [open.part EXCEPT !.whole = @ /\ wal[open.p] = {}] \in Databases
    BY <2>1 DEF Databases
  <2>3. /\ file' \in [Profiles -> Databases \cup {NoFile}]
        /\ file'[open.p] \in Databases
        /\ \A q \in Profiles : q # open.p => file'[q] = file[q]
    BY <1>2, <2>1, <2>2 DEF Rename, TypeOK
  <2>4. newer' \in [Profiles -> BOOLEAN]
    BY <1>2, <2>1 DEF Rename, TypeOK
  <2>5. open' \in Openings /\ open'.step = "open" /\ open'.p = open.p
    BY <1>2 DEF Rename, TypeOK, Openings
  <2>6. wal' = wal /\ made' = made
    BY <1>2 DEF Rename
  <2>7. TypeOK'
    BY <1>1, <2>3, <2>4, <2>5, <2>6, Values DEF TypeOK
  <2>8. Shapes'
    BY <1>1, <2>1, <2>3, <2>5, <2>6 DEF Shapes
  <2> QED BY <2>7, <2>8 DEF Types
<1>3. CASE Create
  <2>1. open.p \in Profiles
    BY <1>3 DEF Create, Shapes
  <2>2. /\ file' \in [Profiles -> Databases \cup {NoFile}]
        /\ file'[open.p] \in Databases
        /\ \A q \in Profiles : q # open.p => file'[q] = file[q]
    BY <1>3, <2>1, Values DEF Create, TypeOK
  <2>3. UNCHANGED <<wal, newer, open, made>>
    BY <1>3 DEF Create
  <2>4. TypeOK'
    BY <1>1, <2>2, <2>3, Values DEF TypeOK
  <2>5. Shapes'
    BY <1>1, <2>1, <2>2, <2>3 DEF Shapes
  <2> QED BY <2>4, <2>5 DEF Types
<1>4. CASE Checkpoint
  <2>1. live \in Profiles /\ file[live] \in Databases
    BY <1>4 DEF Checkpoint, TypeOK
  <2>2. Content(live) \in Databases
    BY <2>1, ContentHas
  <2>3. /\ file' \in [Profiles -> Databases \cup {NoFile}]
        /\ \A q \in Profiles : file'[q] \in Databases <=> file[q] \in Databases
    BY <1>4, <2>1, <2>2 DEF Checkpoint, TypeOK
  <2>4. newer' \in [Profiles -> BOOLEAN]
    BY <1>4, <2>1 DEF Checkpoint, TypeOK
  <2>5. UNCHANGED <<wal, open, made>>
    BY <1>4 DEF Checkpoint
  <2>6. TypeOK'
    BY <1>1, <2>1, <2>3, <2>4, <2>5, Values DEF TypeOK
  <2>7. Shapes'
    BY <1>1, <2>3, <2>5 DEF Shapes
  <2> QED BY <2>6, <2>7 DEF Types
<1>5. CASE Commit
  <2>1. live \in Profiles /\ file[live] \in Databases
    BY <1>5 DEF Commit, TypeOK
  <2>2. used.commit + 1 \in Commits
    BY <1>5, Values DEF Commit, Use, Commits, TypeOK, Counters
  <2>3. wal' \in [Profiles -> SUBSET Commits] /\ made' \in [Profiles -> SUBSET Commits]
    BY <1>5, <2>1, <2>2 DEF Commit, TypeOK
  <2>4. \A q \in Profiles : q # live => wal'[q] = wal[q]
    BY <1>5, <2>1 DEF Commit, TypeOK
  <2>5. UNCHANGED <<file, newer, open>>
    BY <1>5 DEF Commit
  <2>6. TypeOK'
    BY <1>1, <2>3, <2>5 DEF TypeOK
  <2>7. Shapes'
    BY <1>1, <2>1, <2>4, <2>5 DEF Shapes
  <2> QED BY <2>6, <2>7 DEF Types
<1> QED BY <1>2, <1>3, <1>4, <1>5
LEMMA CloseTypes ==
  ASSUME Types, used' \in Counters, Swap \/ OpenFails \/ IdleClose \/ Exit \/ Kill
  PROVE  Types'
<1>. TypeOK /\ Shapes
  BY DEF Types
<1>1. copy' = copy /\ made' = made
  BY DEF Swap, OpenFails, IdleClose, Exit, Kill
<1>2. PICK Q : Close(Q) \/ (Q = {} /\ UNCHANGED <<file, wal, newer>>)
  BY DEF Swap, OpenFails, IdleClose, Exit, Kill
<1>3. /\ file' \in [Profiles -> Databases \cup {NoFile}]
      /\ wal' \in [Profiles -> SUBSET Commits] /\ newer' \in [Profiles -> BOOLEAN]
      /\ \A p \in Profiles : /\ file'[p] # NoFile <=> file[p] # NoFile
                             /\ file'[p] \in Databases <=> file[p] \in Databases
                             /\ wal'[p] # {} => wal[p] # {}
  BY <1>2, CloseKeeps DEF TypeOK
<1>4. /\ live' \in Profiles \cup {None} /\ (live' # None => file'[live'] # NoFile)
      /\ live' = None => live = None \/ Gone
  <2>1. CASE Swap
    <3>1. open.p \in Profiles
      BY <2>1 DEF Swap, Shapes
    <3>2. live' = open.p /\ file[open.p] # NoFile
      BY <2>1 DEF Swap
    <3>3. live' \in Profiles /\ live' # None
      BY <3>1, <3>2, Values
    <3>4. file'[open.p] # NoFile
      BY <1>3, <3>1, <3>2
    <3> QED BY <3>2, <3>3, <3>4
  <2>2. CASE OpenFails \/ IdleClose
    <3>1. live' = live
      BY <2>2 DEF OpenFails, IdleClose
    <3>2. live # None => live \in Profiles /\ file[live] # NoFile
      BY DEF TypeOK
    <3>3. live # None => file'[live] # NoFile
      BY <1>3, <3>2
    <3>4. live \in Profiles \cup {None}
      BY DEF TypeOK
    <3> QED BY <3>1, <3>3, <3>4
  <2>3. CASE Exit \/ Kill
    BY <2>3 DEF Exit, Kill, Gone
  <2> QED BY <2>1, <2>2, <2>3
<1>5. open' \in Openings /\ (open' = open \/ open' = Shut)
  BY Values DEF Swap, OpenFails, IdleClose, Exit, Kill, Gone, TypeOK
<1>6. /\ job' \in [Jobs -> Uploads]
      /\ \A j \in Jobs : job'[j].p \in Profiles <=> job'[j].step = "put"
      /\ \A j \in Jobs : job'[j] = NoJob \/ (job'[j] = job[j] /\ (live # None => live' # None))
  <2>1. CASE Exit \/ Kill
    <3>1. job' = [j \in Jobs |-> NoJob]
      BY <2>1 DEF Exit, Kill, Gone
    <3> QED BY <3>1, Values DEF NoJob
  <2>2. CASE Swap \/ OpenFails \/ IdleClose
    <3>1. job' = job /\ (live # None => live' # None)
      BY <2>2, Values DEF Swap, OpenFails, IdleClose, Shapes
    <3> QED BY <3>1 DEF TypeOK
  <2> QED BY <2>1, <2>2
<1>7. TypeOK'
  BY <1>1, <1>3, <1>4, <1>5, <1>6 DEF TypeOK
<1>8. Shapes'
  <2>1. \A p \in Profiles : wal'[p] # {} => file'[p] \in Databases
    BY <1>3 DEF Shapes
  <2>2. /\ open'.step # "none" => open'.p \in Profiles
        /\ open'.step = "rename" => open'.part \in Databases
    BY <1>5 DEF Shapes, Shut
  <2>3. \A j \in Jobs : job'[j].step # "none" =>
          job'[j].db \in Databases /\ job'[j].from \in Profiles /\ live' # None
    BY <1>6 DEF Shapes, NoJob
  <2> QED BY <2>1, <2>2, <2>3 DEF Shapes
<1> QED BY <1>7, <1>8 DEF Types

LEMMA JobTypes ==
  ASSUME Types, used' \in Counters, NEW j \in Jobs, Snapshot(j) \/ JobSteps(j)
  PROVE  Types'
<1>. TypeOK /\ Shapes
  BY DEF Types
<1>1. UNCHANGED <<file, wal, live, open, made>>
  BY DEF Snapshot, JobSteps, FindStore, Put, PutFails
<1>2. /\ copy' \in [Profiles -> Databases \cup {NoFile}] /\ newer' \in [Profiles -> BOOLEAN]
  <2>1. CASE Put(j)
    <3>1. job[j].p \in Profiles /\ job[j].db \in Databases
      BY <2>1 DEF Put, TypeOK, Shapes
    <3> QED BY <2>1, <3>1 DEF Put, TypeOK
  <2>2. CASE Snapshot(j) \/ FindStore(j) \/ PutFails(j)
    BY <2>2 DEF Snapshot, FindStore, PutFails, TypeOK
  <2> QED BY <2>1, <2>2 DEF JobSteps
<1>3. \E u \in Uploads :
        /\ job' = [job EXCEPT ![j] = u] /\ (u.p \in Profiles <=> u.step = "put")
        /\ u.step # "none" => u.db \in Databases /\ u.from \in Profiles /\ live # None
  <2>1. CASE Snapshot(j)
    <3>1. live \in Profiles /\ live # None /\ Content(live) \in Databases
      BY <2>1, ContentHas DEF Snapshot, TypeOK
    <3>2. [step |-> "look", db |-> Content(live), from |-> live, p |-> None] \in Uploads
      BY <3>1 DEF Uploads
    <3> QED BY <2>1, <3>1, <3>2, Values DEF Snapshot
  <2>2. CASE FindStore(j)
    <3>1. job[j] \in Uploads /\ live \in Profiles
      BY <2>2 DEF FindStore, TypeOK, Shapes
    <3>2. [job[j] EXCEPT !.step = "put", !.p = live] \in Uploads
      BY <3>1 DEF Uploads
    <3>3. job' = [job EXCEPT ![j] = [job[j] EXCEPT !.step = "put", !.p = live]]
      BY <2>2 DEF FindStore, TypeOK
    <3>4. /\ [job[j] EXCEPT !.step = "put", !.p = live].p = live
          /\ [job[j] EXCEPT !.step = "put", !.p = live].step = "put"
          /\ [job[j] EXCEPT !.step = "put", !.p = live].db = job[j].db
          /\ [job[j] EXCEPT !.step = "put", !.p = live].from = job[j].from
      BY <3>1 DEF Uploads
    <3>5. job[j].step # "none"
      BY <2>2 DEF FindStore
    <3> QED BY <3>1, <3>2, <3>3, <3>4, <3>5 DEF Shapes
  <2>3. CASE Put(j) \/ PutFails(j)
    BY <2>3, Values DEF Put, PutFails, NoJob
  <2> QED BY <2>1, <2>2, <2>3 DEF JobSteps
<1>4. TypeOK'
  BY <1>1, <1>2, <1>3 DEF TypeOK
<1>5. Shapes'
  BY <1>1, <1>3 DEF Shapes, TypeOK
<1> QED BY <1>4, <1>5 DEF Types

LEMMA TypeStep == Types /\ [Next]_vars => Types'
<1> SUFFICES ASSUME Types, [Next]_vars PROVE Types'
  OBVIOUS
<1>1. CASE Next
  <2>1. used' \in Counters
    BY <1>1, CountersGrow
  <2> QED BY <1>1, <2>1, StartTypes, FileTypes, CloseTypes, JobTypes DEF Next, OpenSteps
<1>2. CASE UNCHANGED vars
  BY <1>2 DEF vars, Types, TypeOK, Shapes
<1> QED BY <1>1, <1>2

LEMMA TypesInvariance == Spec => []Types
BY InitTypes, TypeStep, PTL DEF Spec

(* For any number of profiles, uploads and commits, files, copies, uploads and
   the open index keep their types; what is open has a file. *)
THEOREM TypeCorrectness == Spec => []TypeOK
<1>1. Types => TypeOK
  BY DEF Types
<1> QED BY <1>1, TypesInvariance, PTL
-----------------------------------------------------------------------------
(* Without kills and without a switch to the open profile.  A log belongs to
   the index that is open, and that is never the one a copy is fetched for. *)

Clean == used.kill = 0 /\ used.again = 0
Steady == Clean /\ used.slow = 0 /\ used.crossed = 0

Apart ==
  /\ \A p \in Profiles : p # live => wal[p] = {}
  /\ open.step # "none" => open.p # live

Whole ==
  /\ \A p \in Profiles : file[p].whole /\ copy[p].whole
  /\ open.part.whole
  /\ \A j \in Jobs : job[j].db.whole

(* No upload is outrun either: a copy never has what the index lacks, and lacks
   only what the log has, or the index is the younger of the two. *)
InIndex(S, p) == S \subseteq file[p].has \cup wal[p]
Kept ==
  /\ \A p \in Profiles : /\ InIndex(made[p], p) /\ InIndex(copy[p].has, p)
                         /\ newer[p] => file[p].has \subseteq copy[p].has
  /\ \A j \in Jobs : job[j].step # "none" => InIndex(job[j].db.has, job[j].from)
  /\ open.step = "rename" => /\ open.part.has = file[open.p].has
                             /\ file[open.p].has \subseteq copy[open.p].has

HistoryInv == Types /\ (Clean => Apart /\ Whole) /\ (Steady => Kept)

LEMMA StillClean ==
  ASSUME Types, Next
  PROVE  /\ Clean' => Clean
         /\ Steady' => Steady
<1>1. \A k \in {"kill", "again", "slow", "crossed"} : used'[k] = 0 => used[k] = 0
  BY CountersGrow
<1> QED BY <1>1 DEF Clean, Steady

LEMMA InitHistory == Init => HistoryInv
<1> SUFFICES ASSUME Init PROVE HistoryInv
  OBVIOUS
<1>1. Apart /\ Whole
  BY DEF Init, Apart, Whole, Shut, NoJob, NoFile, Fresh
<1>2. Kept
  BY DEF Init, Kept, InIndex, Shut, NoJob, NoFile, Fresh
<1> QED BY <1>1, <1>2, InitTypes DEF HistoryInv

(* A database in its log or its file is the same to a reader. *)
LEMMA ClosesKeepHistory ==
  ASSUME Types, Types', Clean, Apart, Whole, Clean',
         Swap \/ OpenFails \/ IdleClose \/ Exit
  PROVE  Apart' /\ Whole' /\ (Steady /\ Kept => Kept')
<1>. TypeOK /\ Shapes
  BY DEF Types
<1>1. PICK Q : /\ Close(Q) /\ (\A p \in Profiles : p = live /\ p # live' => p \in Q)
               /\ (open'.step # "none" => open.p \notin Q)
  <2>1. CASE Swap
    BY <2>1, Values DEF Swap, Shapes, Shut
  <2>2. CASE OpenFails
    BY <2>2 DEF OpenFails, Shut
  <2>3. CASE IdleClose
    BY <2>3 DEF IdleClose, Apart
  <2>4. CASE Exit
    BY <2>4 DEF Exit, Gone, Shut
  <2> QED BY <2>1, <2>2, <2>3, <2>4
<1>2. \A p \in Profiles :
        /\ wal'[p] = IF p \in Q THEN {} ELSE wal[p]
        /\ file'[p].whole = file[p].whole
        /\ file'[p].has \cup wal'[p] = file[p].has \cup wal[p]
        /\ p \notin Q => file'[p] = file[p] /\ newer'[p] = newer[p]
        /\ newer'[p] => newer[p] /\ file'[p].has = file[p].has
  BY <1>1, CloseKeeps
<1>3. /\ copy' = copy /\ made' = made /\ (open' = open \/ open' = Shut)
      /\ job' = job \/ job' = [j \in Jobs |-> NoJob]
  BY DEF Swap, OpenFails, IdleClose, Exit, Gone
<1>4. open'.step # "none" => open' = open /\ live' = live
  BY <1>3 DEF Swap, OpenFails, IdleClose, Exit, Gone, Shut
<1>5. Apart'
  <2>1. \A p \in Profiles : p # live' => wal'[p] = {}
    BY <1>1, <1>2 DEF Apart
  <2> QED BY <1>4, <2>1 DEF Apart
<1>6. Whole'
  BY <1>2, <1>3 DEF Whole, Shut, NoFile, NoJob
<1>7. ASSUME Steady, Kept PROVE Kept'
  <2>1. \A p \in Profiles : /\ InIndex(made[p], p)' /\ InIndex(copy[p].has, p)'
                            /\ newer'[p] => file'[p].has \subseteq copy'[p].has
    BY <1>2, <1>3, <1>7 DEF Kept, InIndex
  <2>2. \A j \in Jobs : job'[j].step # "none" => InIndex(job[j].db.has, job[j].from)'
    BY <1>2, <1>3, <1>7 DEF Kept, InIndex, NoJob, Shapes
  <2>3. ASSUME open'.step = "rename"
        PROVE  /\ open'.part.has = file'[open'.p].has
               /\ file'[open'.p].has \subseteq copy'[open'.p].has
    <3>1. open' = open /\ open.p \in Profiles /\ open.p \notin Q
      BY <1>1, <1>4, <2>3 DEF Shapes
    <3>2. file'[open.p] = file[open.p]
      BY <1>2, <3>1
    <3> QED BY <1>3, <1>7, <2>3, <3>1, <3>2 DEF Kept
  <2> QED BY <2>1, <2>2, <2>3 DEF Kept
<1> QED BY <1>5, <1>6, <1>7

(* A start or a switch finds the log of its profile empty, so the copy that it
   fetches, if it is newer, holds exactly what index.db holds. *)
LEMMA OpeningKeepsHistory ==
  ASSUME Types, Types', Clean, Apart, Whole, Clean',
         (\E p \in Profiles : Start(p) \/ Switch(p)) \/ Fetch
  PROVE  Apart' /\ Whole' /\ (Steady /\ Kept => Kept')
<1>. TypeOK /\ Shapes
  BY DEF Types
<1>1. UNCHANGED <<file, wal, copy, newer, live, job, made>>
  BY DEF Start, Switch, Fetch
<1>2. CASE \E p \in Profiles : Start(p) \/ Switch(p)
  <2>1. PICK p \in Profiles : Start(p) \/ Switch(p)
    BY <1>2
  <2>2. open' = [Shut EXCEPT !.step = "fetch", !.p = p]
    BY <2>1 DEF Start, Switch
  <2>3. p # live
    <3>1. CASE Start(p)
      BY <3>1, Values DEF Start
    <3>2. CASE Switch(p)
      <4>1. ASSUME p = live PROVE FALSE
        <5>1. used'["again"] = used["again"] + 1
          BY <3>2, <4>1 DEF Switch, TypeOK, Counters
        <5> QED BY <5>1 DEF TypeOK, Counters, Clean
      <4> QED BY <4>1
    <3> QED BY <2>1, <3>1, <3>2
  <2>4. open'.step = "fetch" /\ open'.p = p /\ open'.part = NoFile
    BY <2>2 DEF Shut
  <2>5. Apart'
    BY <1>1, <2>3, <2>4 DEF Apart
  <2>6. Whole'
    BY <1>1, <2>4 DEF Whole, NoFile
  <2>7. ASSUME Kept PROVE Kept'
    BY <1>1, <2>4, <2>7 DEF Kept, InIndex
  <2> QED BY <2>5, <2>6, <2>7
<1>3. CASE Fetch
  <2>1. open.p \in Profiles /\ open.p # live /\ wal[open.p] = {}
    BY <1>3 DEF Fetch, Shapes, Apart
  <2>2. CASE open' = [open EXCEPT !.step = "open"]
    <3>1. open'.step = "open" /\ open'.p = open.p /\ open'.part = open.part
      BY <2>2 DEF TypeOK, Openings
    <3>2. Apart' /\ Whole'
      BY <1>1, <2>1, <3>1 DEF Apart, Whole
    <3>3. ASSUME Kept PROVE Kept'
      BY <1>1, <3>1, <3>3 DEF Kept, InIndex
    <3> QED BY <3>2, <3>3
  <2>3. CASE RefreshNeeded(open.p)
             /\ open' = [open EXCEPT !.step = "rename", !.part = copy[open.p]]
    <3>1. open'.step = "rename" /\ open'.p = open.p /\ open'.part = copy[open.p]
      BY <2>3 DEF TypeOK, Openings
    <3>2. Apart' /\ Whole'
      BY <1>1, <2>1, <3>1 DEF Apart, Whole
    <3>3. ASSUME Kept PROVE Kept'
      <4>1. copy[open.p].has \subseteq file[open.p].has
        BY <2>1, <3>3 DEF Kept, InIndex
      <4>2. file[open.p].has \subseteq copy[open.p].has
        BY <2>1, <2>3, <3>3 DEF Kept, RefreshNeeded, NoFile
      <4>3. open'.part.has = file[open.p].has
        BY <3>1, <4>1, <4>2
      <4>4. \A j \in Jobs : job'[j].step # "none" => InIndex(job[j].db.has, job[j].from)'
        BY <1>1, <3>3 DEF Kept, InIndex
      <4>5. \A p \in Profiles : /\ InIndex(made[p], p)' /\ InIndex(copy[p].has, p)'
                                /\ newer'[p] => file'[p].has \subseteq copy'[p].has
        BY <1>1, <3>3 DEF Kept, InIndex
      <4> QED BY <1>1, <3>1, <4>2, <4>3, <4>4, <4>5 DEF Kept, InIndex
    <3> QED BY <3>2, <3>3
  <2> QED BY <1>3, <2>2, <2>3 DEF Fetch
<1> QED BY <1>2, <1>3

LEMMA FilesKeepHistory ==
  ASSUME Types, Types', Clean, Apart, Whole,
         Rename \/ Create \/ Checkpoint \/ Commit
  PROVE  Apart' /\ Whole' /\ (Steady /\ Kept => Kept')
<1>. TypeOK /\ Shapes
  BY DEF Types
<1>1. UNCHANGED <<copy, live, job>>
  BY DEF Rename, Create, Checkpoint, Commit
<1>2. CASE Rename
  <2>1. open.p \in Profiles /\ open.part \in Databases /\ wal[open.p] = {}
    BY <1>2 DEF Rename, Shapes, Apart
  <2>2. /\ file'[open.p].whole = open.part.whole /\ file'[open.p].has = open.part.has
        /\ newer'[open.p] = (copy[open.p] # open.part)
        /\ \A q \in Profiles \ {open.p} : file'[q] = file[q] /\ newer'[q] = newer[q]
    BY <1>2, <2>1 DEF Rename, TypeOK, Databases
  <2>3. open'.step = "open" /\ open'.p = open.p /\ open'.part = NoFile
    BY <1>2 DEF Rename, TypeOK, Openings
  <2>4. wal' = wal /\ made' = made
    BY <1>2 DEF Rename
  <2>5. Apart'
    BY <1>1, <1>2, <2>3, <2>4 DEF Apart, Rename
  <2>6. Whole'
    <3>1. file'[open.p].whole
      BY <2>2 DEF Whole
    <3>2. \A q \in Profiles : file'[q].whole
      BY <2>2, <3>1 DEF Whole
    <3>3. open'.part.whole
      BY <2>3 DEF NoFile
    <3> QED BY <1>1, <3>2, <3>3 DEF Whole
  <2>7. ASSUME Kept PROVE Kept'
    <3>1. file'[open.p].has = file[open.p].has /\ file[open.p].has \subseteq copy[open.p].has
      BY <1>2, <2>2, <2>7 DEF Rename, Kept
    <3>2. \A p \in Profiles : file'[p].has = file[p].has
      BY <2>2, <3>1
    <3>3. \A p \in Profiles : newer'[p] => file[p].has \subseteq copy[p].has
      BY <2>2, <2>7, <3>1 DEF Kept
    <3> QED BY <1>1, <2>3, <2>4, <2>7, <3>2, <3>3 DEF Kept, InIndex, Shapes
  <2> QED BY <2>5, <2>6, <2>7
<1>3. CASE Create
  <2>1. open.p \in Profiles /\ open.step = "open"
    BY <1>3 DEF Create, Shapes
  <2>2. \A p \in Profiles : file'[p].has = file[p].has /\ file'[p].whole = file[p].whole
    <3>1. /\ file[open.p] = NoFile /\ file'[open.p] = Fresh(open.p)
          /\ \A q \in Profiles \ {open.p} : file'[q] = file[q]
      BY <1>3, <2>1 DEF Create, TypeOK
    <3>2. /\ NoFile.has = {} /\ NoFile.whole = TRUE
          /\ Fresh(open.p).has = {} /\ Fresh(open.p).whole = TRUE
      BY DEF NoFile, Fresh
    <3> QED BY <3>1, <3>2
  <2>3. UNCHANGED <<wal, newer, open, made>>
    BY <1>3 DEF Create
  <2>4. Apart' /\ Whole'
    BY <1>1, <2>2, <2>3 DEF Apart, Whole
  <2>5. ASSUME Kept PROVE Kept'
    BY <1>1, <2>1, <2>2, <2>3, <2>5 DEF Kept, InIndex, Shapes
  <2> QED BY <2>4, <2>5
<1>4. CASE Checkpoint
  <2>1. live \in Profiles
    BY <1>4 DEF Checkpoint, TypeOK
  <2>2. /\ file'[live] = Content(live) /\ newer'[live] = FALSE
        /\ \A q \in Profiles \ {live} : file'[q] = file[q] /\ newer'[q] = newer[q]
    BY <1>4, <2>1 DEF Checkpoint, TypeOK
  <2>3. \A p \in Profiles : /\ file'[p].has \cup wal[p] = file[p].has \cup wal[p]
                            /\ file'[p].whole = file[p].whole
    BY <2>1, <2>2, ContentHas
  <2>4. UNCHANGED <<wal, open, made>>
    BY <1>4 DEF Checkpoint
  <2>5. Apart' /\ Whole'
    BY <1>1, <2>3, <2>4 DEF Apart, Whole
  <2>6. ASSUME Kept PROVE Kept'
    <3>1. \A p \in Profiles : newer'[p] => file'[p].has \subseteq copy[p].has
      BY <2>2, <2>6 DEF Kept
    <3>2. open.step = "rename" => file'[open.p] = file[open.p]
      BY <2>2 DEF Apart, Shapes
    <3> QED BY <1>1, <2>3, <2>4, <2>6, <3>1, <3>2 DEF Kept, InIndex, Shapes
  <2> QED BY <2>5, <2>6
<1>5. CASE Commit
  <2>1. live \in Profiles
    BY <1>5 DEF Commit, TypeOK
  <2>2. PICK c : /\ wal'[live] = wal[live] \cup {c} /\ made'[live] = made[live] \cup {c}
                 /\ \A q \in Profiles \ {live} : wal'[q] = wal[q] /\ made'[q] = made[q]
    BY <1>5, <2>1 DEF Commit, TypeOK
  <2>3. UNCHANGED <<file, newer, open>>
    BY <1>5 DEF Commit
  <2>4. Apart' /\ Whole'
    BY <1>1, <2>2, <2>3 DEF Apart, Whole
  <2>5. ASSUME Kept PROVE Kept'
    <3>1. \A p \in Profiles : wal[p] \subseteq wal'[p] /\ InIndex(made[p], p)'
      BY <2>1, <2>2, <2>3, <2>5 DEF Kept, InIndex
    <3> QED BY <1>1, <2>3, <2>5, <3>1 DEF Kept, InIndex, Shapes
  <2> QED BY <2>4, <2>5
<1> QED BY <1>2, <1>3, <1>4, <1>5

(* An upload that is neither outrun nor crossed leaves a copy that has all of
   index.db, and nothing that the index lacks. *)
LEMMA JobsKeepHistory ==
  ASSUME Types, Types', Clean, Apart, Whole, NEW j \in Jobs, Snapshot(j) \/ JobSteps(j)
  PROVE  Apart' /\ Whole' /\ (Steady /\ Steady' /\ Kept => Kept')
<1>. TypeOK /\ Shapes
  BY DEF Types
<1>1. UNCHANGED <<file, wal, live, open, made>>
  BY DEF Snapshot, JobSteps, FindStore, Put, PutFails
<1>2. Apart'
  BY <1>1 DEF Apart
<1>3. CASE Put(j)
  <2>1. job[j].p \in Profiles /\ job' = [job EXCEPT ![j] = NoJob]
    BY <1>3 DEF Put, TypeOK
  <2>2. /\ copy'[job[j].p] = job[j].db
        /\ \A q \in Profiles \ {job[j].p} : copy'[q] = copy[q] /\ newer'[q] = newer[q]
    BY <1>3, <2>1 DEF Put, TypeOK
  <2>3. Whole'
    BY <1>1, <2>1, <2>2 DEF Whole, TypeOK, NoJob, NoFile
  <2>4. ASSUME Steady, Steady', Kept PROVE Kept'
    <3>1. ~Slow(j) /\ ~Crossed(j)
      <4>1. /\ used'["slow"] = IF Slow(j) THEN 1 ELSE used["slow"]
            /\ used'["crossed"] = IF Crossed(j) THEN 1 ELSE used["crossed"]
        BY <1>3 DEF Put, TypeOK, Counters
      <4> QED BY <2>4, <4>1 DEF Steady
    <3>2. /\ job[j].from = job[j].p /\ file[job[j].p].has \subseteq job[j].db.has
          /\ InIndex(job[j].db.has, job[j].p)
      BY <1>3, <2>4, <3>1 DEF Slow, Crossed, Kept, Put
    <3>3. \A p \in Profiles : /\ InIndex(copy'[p].has, p)
                              /\ newer'[p] => file[p].has \subseteq copy'[p].has
      BY <2>2, <2>4, <3>2 DEF Kept
    <3>4. ASSUME open.step = "rename" PROVE file[open.p].has \subseteq copy'[open.p].has
      BY <2>2, <2>4, <3>2, <3>4 DEF Kept, Shapes
    <3>5. \A i \in Jobs : job'[i].step # "none" => job'[i] = job[i]
      BY <2>1 DEF TypeOK, NoJob
    <3> QED BY <1>1, <2>4, <3>3, <3>4, <3>5 DEF Kept, InIndex
  <2> QED BY <1>2, <2>3, <2>4
<1>4. CASE Snapshot(j) \/ FindStore(j) \/ PutFails(j)
  <2>1. copy' = copy /\ newer' = newer
    BY <1>4 DEF Snapshot, FindStore, PutFails
  <2>2. /\ \A i \in Jobs \ {j} : job'[i] = job[i]
        /\ \/ job'[j] = NoJob
           \/ live \in Profiles /\ job'[j].db = Content(live) /\ job'[j].from = live
           \/ /\ job[j].step # "none"
              /\ job'[j].db = job[j].db /\ job'[j].from = job[j].from
    <3>1. CASE Snapshot(j)
      BY <3>1 DEF Snapshot, TypeOK
    <3>2. CASE FindStore(j)
      BY <3>2 DEF FindStore, TypeOK, Uploads
    <3>3. CASE PutFails(j)
      BY <3>3 DEF PutFails, TypeOK
    <3> QED BY <1>4, <3>1, <3>2, <3>3
  <2>3. Whole'
    BY <1>1, <2>1, <2>2, ContentHas DEF Whole, NoJob, NoFile
  <2>4. ASSUME Kept PROVE Kept'
    <3>1. \A i \in Jobs : job'[i].step # "none" => InIndex(job'[i].db.has, job'[i].from)
      BY <2>2, <2>4, ContentHas DEF Kept, InIndex, NoJob
    <3> QED BY <1>1, <2>1, <2>4, <3>1 DEF Kept, InIndex
  <2> QED BY <1>2, <2>3, <2>4
<1> QED BY <1>3, <1>4 DEF JobSteps

LEMMA HistoryStep == HistoryInv /\ [Next]_vars => HistoryInv'
<1> SUFFICES ASSUME HistoryInv, [Next]_vars PROVE HistoryInv'
  OBVIOUS
<1>1. Types /\ Types'
  BY TypeStep DEF HistoryInv
<1>2. CASE Next
  <2>1. (Clean' => Clean) /\ (Steady' => Steady) /\ (Steady' => Clean')
    BY <1>1, <1>2, StillClean DEF Steady
  <2>2. ASSUME Clean' PROVE Apart' /\ Whole' /\ (Steady' => Kept')
    <3>1. Clean /\ Apart /\ Whole /\ (Steady => Kept)
      BY <2>1, <2>2 DEF HistoryInv
    <3>2. ~Kill
      <4>1. ASSUME Kill PROVE FALSE
        <5>1. used'["kill"] = used["kill"] + 1
          BY <4>1, <1>1 DEF Kill, Ends, Types, TypeOK, Counters
        <5> QED BY <1>1, <2>2, <5>1 DEF Clean, Types, TypeOK, Counters
      <4> QED BY <4>1
    <3>3. CASE (\E p \in Profiles : Start(p) \/ Switch(p)) \/ Fetch
      BY <1>1, <2>1, <2>2, <3>1, <3>3, OpeningKeepsHistory
    <3>4. CASE Rename \/ Create \/ Checkpoint \/ Commit
      BY <1>1, <2>1, <3>1, <3>4, FilesKeepHistory
    <3>5. CASE Swap \/ OpenFails \/ IdleClose \/ Exit
      BY <1>1, <2>1, <2>2, <3>1, <3>5, ClosesKeepHistory
    <3>6. CASE \E j \in Jobs : Snapshot(j) \/ JobSteps(j)
      BY <1>1, <2>1, <3>1, <3>6, JobsKeepHistory
    <3> QED BY <1>2, <3>2, <3>3, <3>4, <3>5, <3>6 DEF Next, OpenSteps
  <2> QED BY <1>1, <2>1, <2>2 DEF HistoryInv
<1>3. CASE UNCHANGED vars
  BY <1>1, <1>3 DEF vars, HistoryInv, Clean, Steady, Apart, Whole, Kept, InIndex
<1> QED BY <1>2, <1>3

LEMMA HistoryInvariance == Spec => []HistoryInv
BY InitHistory, HistoryStep, PTL DEF Spec, HistoryInv

(* For any number of profiles, uploads, commits, switches and exits: an index
   is made of pages of two databases only after a kill, or a switch to the
   profile that is open (refreshDBFromS3, switchProfileTo). *)
THEOREM IndexesStayWhole == Spec => []WholeUnlessKilled
<1>1. HistoryInv => WholeUnlessKilled
  BY DEF HistoryInv, Clean, Whole, WholeUnlessKilled
<1> QED BY <1>1, HistoryInvariance, PTL

(* Likewise, the copy that a start or a switch fetches never loses a commit, if
   no upload was outrun by a checkpoint or by a switch of profiles. *)
THEOREM FetchesKeepCommits == Spec => []CleanRestartsKeepCommits
<1>1. HistoryInv => CleanRestartsKeepCommits
  <2> SUFFICES ASSUME HistoryInv, Steady, NEW p \in Profiles
               PROVE  made[p] \subseteq Content(p).has
    BY DEF CleanRestartsKeepCommits, Steady, Clean
  <2> QED BY ContentHas DEF HistoryInv, Kept, InIndex, Steady
<1> QED BY <1>1, HistoryInvariance, PTL
=============================================================================
