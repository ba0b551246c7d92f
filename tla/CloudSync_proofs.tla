---------------------------- MODULE CloudSync_proofs ----------------------------
(* Theorems of CloudSync, for every value of its constants: the types, that
   deletions spare what was not asked for, that scans tell versions apart, and
   that a sync leaves the index as the bucket is. *)
EXTENDS CloudSync, WellFoundedInduction, TLAPS
-----------------------------------------------------------------------------
(* Archives: the first of some, and the number after the last that is used. *)
LEMMA LeastInSet ==
  ASSUME NEW S, S \subseteq Nat, S # {}
  PROVE  \E n \in S : \A m \in S : n <= m
<1> DEFINE R == {ss \in Nat \X Nat : ss[1] < ss[2]}
<1>1. IsWellFoundedOn(R, Nat)
  BY NatLessThanWellFounded, Zenon DEF OpToRel
<1>2. PICK n \in S : \A m \in S : <<m, n>> \notin R
  BY <1>1, WFMin, Zenon
<1>3. ASSUME NEW m \in S PROVE n <= m
  <2>1. m < n => <<m, n>> \in R
    OBVIOUS
  <2> QED BY <1>2, <2>1
<1> QED BY <1>3

LEMMA MinIsInSet ==
  ASSUME NEW S, S \subseteq Nat, S # {}
  PROVE  Min(S) \in S
<1>1. PICK n \in S : \A m \in S : n <= m
  BY LeastInSet
<1> QED BY <1>1 DEF Min

(* The numbers above all of S have a least, and the one before it is in S. *)
LEMMA MaxIsLargest ==
  ASSUME NEW S, NEW b \in Nat, S \subseteq 0..b, S # {}
  PROVE  Max(S) \in S /\ \A m \in S : m <= Max(S)
<1> DEFINE T == {x \in Nat : \A m \in S : m <= x}
<1>1. b \in T /\ T \subseteq Nat
  OBVIOUS
<1>2. PICK x \in T : \A y \in T : x <= y
  <2> HIDE DEF T
  <2> QED BY <1>1, LeastInSet
<1>3. x \in Nat /\ \A m \in S : m <= x
  OBVIOUS
<1>4. x \in S
  <2> SUFFICES ASSUME x \notin S PROVE FALSE
    OBVIOUS
  <2>1. PICK k \in S : TRUE
    OBVIOUS
  <2>2. \A m \in S : m \in Nat /\ m <= x - 1
    BY <1>3
  <2>3. x - 1 \in T
    BY <1>3, <2>1, <2>2
  <2> QED BY <1>2, <1>3, <2>3
<1>5. \A m \in S : x >= m
  BY <1>3
<1> QED BY <1>3, <1>4, <1>5 DEF Max

LEMMA ZipsAreNumbers ==
  Zips \subseteq Nat \ {0} /\ 1 \in Zips /\ Zips \subseteq Keys /\ Files \subseteq Keys
BY KeyAssumption DEF Zips, Keys

(* A new archive's name was not in use. *)
LEMMA NextZipIsEmpty == ASSUME NextZip \in Zips PROVE obj[NextZip] = Empty
<1> DEFINE S == {0} \cup {z \in Zips : obj[z] # Empty}
<1>1. S \subseteq 0..NumZips /\ S # {} /\ NumZips \in Nat
  BY KeyAssumption DEF Zips
<1>2. Max(S) \in S /\ \A m \in S : m <= Max(S)
  <2> HIDE DEF S
  <2> QED BY <1>1, MaxIsLargest
<1>3. Max(S) \in Nat
  BY <1>1, <1>2
<1>4. 1 + Max(S) \notin S
  <2> HIDE DEF S
  <2> QED BY <1>2, <1>3
<1> QED BY <1>4 DEF NextZip
-----------------------------------------------------------------------------
(* The types, action by action. *)
LEMMA IndexType == CloudIndex \in [Files -> Keys \cup {None}]
<1>1. \A f \in Files : Holders(f) # {} => Min(Holders(f)) \in Zips
  <2> TAKE f \in Files
  <2>1. Holders(f) \subseteq Zips /\ Holders(f) \subseteq Nat
    BY ZipsAreNumbers DEF Holders
  <2> QED BY <2>1, MinIsInSet
<1> QED BY <1>1, ZipsAreNumbers DEF CloudIndex

LEMMA InitType == Init => TypeOK
<1> SUFFICES ASSUME Init PROVE TypeOK
  OBVIOUS
<1> USE DEF Init, TypeOK
<1>1. disk \in [Files -> 0..2] /\ obj \in [Keys -> [Files -> 0..2]]
  BY DEF Empty
<1>2. row \in [Files -> Rows]
  BY ZipsAreNumbers DEF NoRow, Rows
<1>3. used \in [change : 0..MaxChanges, delete : 0..MaxDeletes,
                overlap : 0..MaxOverlaps, fault : 0..MaxFaults]
  BY BoundAssumption
<1> QED BY <1>1, <1>2, <1>3 DEF NoRun, NoSync, NoDel, NoIndex

Used == [change : 0..MaxChanges, delete : 0..MaxDeletes,
         overlap : 0..MaxOverlaps, fault : 0..MaxFaults]

LEMMA UseType ==
  ASSUME TypeOK
  PROVE  /\ Fault => used' \in Used
         /\ Use("change", MaxChanges) => used' \in Used
         /\ Use("delete", MaxDeletes) => used' \in Used
         /\ Use("overlap", MaxOverlaps) => used' \in Used
         /\ UNCHANGED used => used' \in Used
<1>1. used \in Used
  BY DEF TypeOK, Used
<1>2. /\ MaxChanges \in Nat /\ MaxDeletes \in Nat
      /\ MaxOverlaps \in Nat /\ MaxFaults \in Nat
  BY BoundAssumption
<1>3. Fault => used' \in Used
  BY <1>1, <1>2 DEF Used, Use, Fault
<1>4. Use("change", MaxChanges) => used' \in Used
  BY <1>1, <1>2 DEF Used, Use
<1>5. Use("delete", MaxDeletes) => used' \in Used
  BY <1>1, <1>2 DEF Used, Use
<1>6. Use("overlap", MaxOverlaps) => used' \in Used
  BY <1>1, <1>2 DEF Used, Use
<1> QED BY <1>1, <1>3, <1>4, <1>5, <1>6

(* The other six variables, each with its type. *)
Runs ==
  [step : {"idle", "walk", "mark", "reconcile", "upload"}, seen : SUBSET Files,
   todo : SUBSET Files, put : SUBSET Files, key : Keys \cup {None}]
Statuses == {"none", "pending", "uploaded", "missing", "cloud_only"}
Syncs ==
  [step : {"idle", "load", "read", "create", "update"},
   idx : [Files -> Keys \cup {None}], new : SUBSET Files,
   set : [Files -> Statuses], calm : BOOLEAN]
Dels ==
  [step : {"idle", "load", "own", "zips"}, paths : SUBSET Files,
   idx : [Files -> Keys \cup {None}], todo : SUBSET Keys, gone : SUBSET Files]

LEMMA TypeIs ==
  TypeOK <=> /\ disk \in [Files -> 0..2] /\ row \in [Files -> Rows]
             /\ obj \in [Keys -> [Files -> 0..2]] /\ run \in Runs
             /\ sync \in Syncs /\ del \in Dels /\ used \in Used
BY DEF TypeOK, Runs, Syncs, Dels, Used, Statuses

LEMMA TypeAfter ==
  ASSUME disk' \in [Files -> 0..2], row' \in [Files -> Rows],
         obj' \in [Keys -> [Files -> 0..2]], run' \in Runs,
         sync' \in Syncs, del' \in Dels, used' \in Used
  PROVE  TypeOK'
BY DEF TypeOK, Runs, Syncs, Dels, Used, Statuses

LEMMA FreshTypes == NoRow \in Rows /\ NoRun \in Runs /\ NoSync \in Syncs /\ NoDel \in Dels
BY DEF NoRow, NoRun, NoSync, NoDel, NoIndex, Rows, Runs, Syncs, Dels, Statuses

LEMMA OvertakenType ==
  ASSUME NEW s \in Syncs
  PROVE  /\ Overtaken(s) \in Syncs /\ ~Overtaken(s).calm
         /\ Overtaken(s).step = s.step
BY DEF Overtaken, Syncs

LEMMA MachineType ==
  ASSUME TypeOK
  PROVE  /\ \A f \in Files, v \in 0..2 : Change(f, v) => TypeOK'
         /\ \A lost \in BOOLEAN : Restart(lost) => TypeOK'
<1>1. ASSUME NEW f \in Files, NEW v \in 0..2, Change(f, v) PROVE TypeOK'
  <2>1. disk' \in [Files -> 0..2]
    BY <1>1, TypeIs DEF Change
  <2>2. used' \in Used
    BY <1>1, UseType DEF Change
  <2> QED BY <1>1, <2>1, <2>2, TypeIs, TypeAfter DEF Change
<1>2. ASSUME NEW lost \in BOOLEAN, Restart(lost) PROVE TypeOK'
  <2>1. row' \in [Files -> Rows]
    BY <1>2, TypeIs, FreshTypes DEF Restart
  <2>2. used' \in Used
    BY <1>2, UseType DEF Restart
  <2>3. run' \in Runs /\ sync' \in Syncs /\ del' \in Dels
    BY <1>2, FreshTypes DEF Restart
  <2> QED BY <1>2, <2>1, <2>2, <2>3, TypeIs, TypeAfter DEF Restart
<1> QED BY <1>1, <1>2

(* What a run makes of a row is a row. *)
LEMMA RowOperators ==
  ASSUME NEW r \in Rows
  PROVE  Unseen(r) \in Rows /\ \A v \in 0..2 : SeenAgain(r, v) \in Rows
<1>1. \A v \in 0..2 : SeenAgain(r, v) \in Rows
  BY DEF SeenAgain, Rows
<1>2. Unseen(r) \in Rows
  BY DEF Unseen, Rows
<1> QED BY <1>1, <1>2

LEMMA ReboundType == ASSUME TypeOK, NEW f \in Files PROVE Rebound(f) \in Rows
<1>1. row[f] \in Rows
  BY TypeIs
<1>2. Matching(f) # {} => Min(Matching(f)) \in Keys
  <2>1. Matching(f) \subseteq Zips /\ Matching(f) \subseteq Nat
    BY ZipsAreNumbers DEF Matching
  <2> QED BY <2>1, MinIsInSet, ZipsAreNumbers
<1> QED BY <1>1, <1>2 DEF Rebound, Rows

LEMMA RunType ==
  ASSUME TypeOK
  PROVE  (StartRun => TypeOK') /\ (RunSteps => TypeOK')
<1> USE TypeIs
<1>1. ASSUME StartRun PROVE TypeOK'
  <2>1. run' \in Runs
    BY <1>1, FreshTypes DEF StartRun, Runs
  <2>2. used' \in Used
    BY <1>1, UseType DEF StartRun
  <2> QED BY <1>1, <2>1, <2>2, TypeAfter DEF StartRun
<1>2. ASSUME Walk PROVE TypeOK'
  <2>1. row' \in [Files -> Rows]
    <3>1. \A f \in Files : SeenAgain(row[f], disk[f]) \in Rows
      BY RowOperators
    <3> QED BY <1>2, <3>1 DEF Walk
  <2>2. run' \in Runs
    BY <1>2 DEF Walk, Runs
  <2> QED BY <1>2, <2>1, <2>2, OvertakenType, UseType, TypeAfter DEF Walk
<1>3. ASSUME MarkMissing PROVE TypeOK'
  <2>1. row' \in [Files -> Rows]
    BY <1>3, RowOperators DEF MarkMissing
  <2>2. run' \in Runs
    BY <1>3 DEF MarkMissing, Runs
  <2> QED BY <1>3, <2>1, <2>2, OvertakenType, UseType, TypeAfter DEF MarkMissing
<1>4. ASSUME Reconcile PROVE TypeOK'
  <2>1. row' \in [Files -> Rows]
    BY <1>4, ReboundType DEF Reconcile
  <2>2. run' \in Runs
    BY <1>4 DEF Reconcile, Runs
  <2> QED BY <1>4, <2>1, <2>2, OvertakenType, UseType, TypeAfter DEF Reconcile
<1>5. ASSUME NEW F \in SUBSET Files, NEW k \in Keys, Put(F, k) PROVE TypeOK'
  <2>1. obj' \in [Keys -> [Files -> 0..2]]
    <3>1. [f \in Files |-> IF f \in F THEN disk[f] ELSE 0] \in [Files -> 0..2]
      OBVIOUS
    <3> QED BY <1>5, <3>1 DEF Put
  <2>2. run' \in Runs
    BY <1>5 DEF Put, Runs
  <2> QED BY <1>5, <2>1, <2>2, OvertakenType, UseType, TypeAfter DEF Put
<1>6. ASSUME MarkUploaded PROVE TypeOK'
  <2>1. row' \in [Files -> Rows]
    <3>1. run.key \in Keys \cup {None}
      BY DEF Runs
    <3>2. \A f \in Files :
            [row[f] EXCEPT !.st = "uploaded", !.key = run.key] \in Rows
      BY <3>1 DEF Rows
    <3> QED BY <1>6, <3>2 DEF MarkUploaded
  <2>2. run' \in Runs
    BY <1>6 DEF MarkUploaded, Runs
  <2> QED BY <1>6, <2>1, <2>2, OvertakenType, UseType, TypeAfter DEF MarkUploaded
<1>7. ASSUME EndRun PROVE TypeOK'
  <2>1. used' \in Used
    BY <1>7, UseType DEF EndRun
  <2> QED BY <1>7, <2>1, FreshTypes, TypeAfter DEF EndRun
<1>8. ASSUME NEW f \in Files, PutOwn(f) PROVE TypeOK'
  BY <1>5, <1>8, ZipsAreNumbers DEF PutOwn
<1>9. ASSUME NEW F \in SUBSET Files, PutZip(F) PROVE TypeOK'
  BY <1>5, <1>9, ZipsAreNumbers DEF PutZip
<1> QED BY <1>1, <1>2, <1>3, <1>4, <1>6, <1>7, <1>8, <1>9 DEF RunSteps

LEMMA SyncType ==
  ASSUME TypeOK
  PROVE  (StartSync => TypeOK') /\ (SyncSteps => TypeOK')
<1> USE TypeIs
<1>1. ASSUME StartSync PROVE TypeOK'
  <2>1. sync' \in Syncs
    BY <1>1, FreshTypes DEF StartSync, Syncs
  <2> QED BY <1>1, <2>1, UseType, TypeAfter DEF StartSync
<1>2. ASSUME LoadSync PROVE TypeOK'
  <2>1. sync' \in Syncs
    BY <1>2, IndexType DEF LoadSync, Syncs
  <2> QED BY <1>2, <2>1, UseType, TypeAfter DEF LoadSync
<1>3. ASSUME ReadSync PROVE TypeOK'
  <2>1. [f \in Files |-> Compared(f, row[f])] \in [Files -> Statuses]
    BY DEF Compared, Statuses
  <2>2. sync' \in Syncs
    BY <1>3, <2>1 DEF ReadSync, Syncs
  <2> QED BY <1>3, <2>2, UseType, TypeAfter DEF ReadSync
<1>4. ASSUME CreateFiles PROVE TypeOK'
  <2>1. row' \in [Files -> Rows]
    <3>1. \A f \in Files :
            [st |-> "cloud_only", ver |-> 0, key |-> sync.idx[f]] \in Rows
      BY DEF Syncs, Rows
    <3> QED BY <1>4, <3>1 DEF CreateFiles
  <2>2. sync' \in Syncs
    BY <1>4 DEF CreateFiles, Syncs
  <2> QED BY <1>4, <2>1, <2>2, UseType, TypeAfter DEF CreateFiles
<1>5. ASSUME UpdateFiles PROVE TypeOK'
  <2>1. row' \in [Files -> Rows]
    <3>1. ASSUME NEW f \in Files PROVE Updated(f, row[f]) \in Rows
      <4>1. sync.set[f] \in Statuses /\ sync.idx[f] \in Keys \cup {None}
        BY DEF Syncs
      <4> QED BY <4>1 DEF Updated, Rows, Statuses
    <3> QED BY <1>5, <3>1 DEF UpdateFiles
  <2> QED BY <1>5, <2>1, FreshTypes, UseType, TypeAfter DEF UpdateFiles
<1>6. ASSUME FailSync PROVE TypeOK'
  BY <1>6, FreshTypes, UseType, TypeAfter DEF FailSync
<1> QED BY <1>1, <1>2, <1>3, <1>4, <1>5, <1>6 DEF SyncSteps

LEMMA DeleteType ==
  ASSUME TypeOK
  PROVE  (\A F \in SUBSET Files : StartDelete(F) => TypeOK') /\ (DeleteSteps => TypeOK')
<1> USE TypeIs
<1>1. ASSUME NEW F \in SUBSET Files, StartDelete(F) PROVE TypeOK'
  <2>1. del' \in Dels
    BY <1>1, FreshTypes DEF StartDelete, Dels
  <2>2. used' \in Used
    BY <1>1, UseType DEF StartDelete
  <2> QED BY <1>1, <2>1, <2>2, TypeAfter DEF StartDelete
<1>2. ASSUME LoadDelete PROVE TypeOK'
  <2>1. del' \in Dels
    BY <1>2, IndexType, ZipsAreNumbers DEF LoadDelete, Dels
  <2> QED BY <1>2, <2>1, UseType, TypeAfter DEF LoadDelete
<1>3. ASSUME ListZips PROVE TypeOK'
  <2>1. del' \in Dels
    BY <1>3, ZipsAreNumbers DEF ListZips, Dels
  <2> QED BY <1>3, <2>1, UseType, TypeAfter DEF ListZips
<1>4. ASSUME FailDelete PROVE TypeOK'
  BY <1>4, FreshTypes, UseType, TypeAfter DEF FailDelete
<1>5. Empty \in [Files -> 0..2]
  BY DEF Empty
<1>6. ASSUME NEW ok \in BOOLEAN, NEW f \in Files, DeleteOwn(f, ok) PROVE TypeOK'
  <2>1. del' \in Dels
    BY <1>6 DEF DeleteOwn, Dels
  <2>2. obj' \in [Keys -> [Files -> 0..2]]
    BY <1>5, <1>6 DEF DeleteOwn
  <2>3. used' \in Used
    BY <1>6, UseType DEF DeleteOwn
  <2> QED BY <1>6, <2>1, <2>2, <2>3, OvertakenType, TypeAfter DEF DeleteOwn
<1>7. ASSUME NEW ok \in BOOLEAN, NEW z \in Zips, DeleteZip(z, ok) PROVE TypeOK'
  <2>1. del' \in Dels
    BY <1>7 DEF DeleteZip, Dels, ZipContents
  <2>2. obj' \in [Keys -> [Files -> 0..2]]
    BY <1>5, <1>7 DEF DeleteZip
  <2>3. used' \in Used
    BY <1>7, UseType DEF DeleteZip
  <2> QED BY <1>7, <2>1, <2>2, <2>3, OvertakenType, TypeAfter DEF DeleteZip
<1>8. ASSUME NEW ok \in BOOLEAN, MarkGone(ok) PROVE TypeOK'
  <2>1. row' \in [Files -> Rows]
    BY <1>8 DEF MarkGone, Rows
  <2>2. used' \in Used
    BY <1>8, UseType DEF MarkGone
  <2> QED BY <1>8, <2>1, <2>2, FreshTypes, OvertakenType, TypeAfter DEF MarkGone
<1> QED BY <1>1, <1>2, <1>3, <1>4, <1>6, <1>7, <1>8 DEF DeleteSteps

LEMMA NextType == ASSUME TypeOK, [Next]_vars PROVE TypeOK'
<1>1. CASE UNCHANGED vars
  BY <1>1, UseType, TypeIs, TypeAfter DEF vars
<1> QED BY <1>1, MachineType, RunType, SyncType, DeleteType DEF Next

(* Rows, objects, the run and the two requests have their types in every
   reachable state: whatever overlaps, a row's key is an object's name. *)
THEOREM TypeCorrectness == Spec => []TypeOK
<1>1. TypeOK /\ [Next]_vars => TypeOK'
  BY NextType
<1> QED BY <1>1, InitType, PTL DEF Spec
-----------------------------------------------------------------------------
(* What a scan and a reconcile make of a row that they change. *)
LEMMA ScanStep ==
  ASSUME TypeOK, Walk \/ MarkMissing \/ Reconcile, NEW f \in Files,
         Outdated(f)'
  PROVE  Outdated(f)
<1> DEFINE BackedUp == {"uploaded", "cloud_only"}
<1>1. /\ row'[f].st \in BackedUp /\ row'[f].ver # 0
      /\ \E k \in Keys : obj'[k][f] # 0
      /\ \A k \in Keys : obj'[k][f] # row'[f].ver
  BY DEF Outdated, InBucket, Holds
<1>2. obj' = obj
  BY DEF Walk, MarkMissing, Reconcile
<1>3. InBucket(f) /\ ~Holds(f, row'[f].ver)
  BY <1>1, <1>2 DEF InBucket, Holds
<1>4. row[f] \in Rows
  BY TypeIs
<1> SUFFICES row[f].st \in BackedUp /\ row[f].ver = row'[f].ver
  BY <1>1, <1>3 DEF Outdated
<1>5. CASE Walk
  <2>1. row'[f] \in {row[f], SeenAgain(row[f], disk[f])}
    BY <1>5 DEF Walk
  <2>2. ASSUME NEW r \in Rows, NEW v, SeenAgain(r, v).st \in BackedUp
        PROVE  r.st \in BackedUp /\ SeenAgain(r, v).ver = r.ver
    BY <2>2 DEF SeenAgain, Rows
  <2> QED BY <1>1, <1>4, <2>1, <2>2
<1>6. CASE MarkMissing
  <2>1. row'[f] \in {row[f], Unseen(row[f])}
    BY <1>6 DEF MarkMissing
  <2> QED BY <1>1, <1>4, <2>1 DEF Unseen, Rows
<1>7. CASE Reconcile
  <2>1. row'[f] = Rebound(f)
    BY <1>7 DEF Reconcile
  <2>2. Rebound(f).ver = row[f].ver
    BY <1>4 DEF Rebound, Rows
  <2>3. Matching(f) # {} => Holds(f, row[f].ver)
    BY ZipsAreNumbers DEF Matching, Holds
  <2> QED BY <1>3, <2>1, <2>2, <2>3, <1>1 DEF Rebound
<1> QED BY <1>5, <1>6, <1>7

(* Whatever overlaps them, the scan and the reconcile of a run never take an
   object of another version for the one on the source. *)
THEOREM ScansTellVersionsApart == Spec => ScansTellVersions
<1>1. TypeOK /\ [Next]_vars =>
        [Walk \/ MarkMissing \/ Reconcile =>
           \A f \in Files : Outdated(f)' => Outdated(f)]_vars
  BY ScanStep
<1> QED BY <1>1, TypeCorrectness, PTL DEF Spec, ScansTellVersions
-----------------------------------------------------------------------------
(* Why deletions spare what was not asked for. *)

(* An object of a file's own holds that file only. *)
OwnKeys == \A f, g \in Files : obj[f][g] # 0 => g = f

(* A deletion has looked at the bucket, and may yet delete archive z. *)
Looked  == del.step \in {"own", "zips"}
Live(z) == del.step = "own" \/ (del.step = "zips" /\ z \in del.todo)

(* What is to go was asked for, in an archive all that the index has of it. *)
TodoIsTargeted ==
  /\ del.step = "own"  => del.todo \subseteq Files \cap del.paths
  /\ del.step = "zips" => del.todo \subseteq {z \in Zips : AllTargeted(z)}

(* A path is still in the archive the index has it in, unless that one has
   been deleted. *)
MembersStay ==
  Looked => \A z \in Zips : Live(z) \/ ~AllTargeted(z) =>
              \A f \in ZipContents(z) : obj[z][f] # 0

(* An archive that may be deleted holds no path the index has in no archive:
   it was there at the look, and no upload writes to a name in use. *)
MembersAreIndexed ==
  Looked => \A z \in Zips : Live(z) /\ ZipContents(z) # {} =>
              \A f \in Files : obj[z][f] # 0 => del.idx[f] \in Zips

DeletionInv ==
  TypeOK /\ OwnKeys /\ TodoIsTargeted /\ MembersStay /\ MembersAreIndexed

LEMMA Spared ==
  ASSUME DeletionInv, DeleteSteps, NEW f \in Files \ del.paths, InBucket(f)
  PROVE  InBucket(f)'
<1> USE TypeIs
<1>1. PICK k \in Keys : obj[k][f] # 0
  BY DEF InBucket
<1> SUFFICES \E y \in Keys : obj'[y][f] # 0
  BY DEF InBucket
<1>2. CASE obj' = obj
  BY <1>1, <1>2
<1>3. ASSUME NEW ok \in BOOLEAN, NEW g \in Files, DeleteOwn(g, ok)
      PROVE  \E y \in Keys : obj'[y][f] # 0
  <2>1. g \in del.paths
    BY <1>3 DEF DeletionInv, TodoIsTargeted, DeleteOwn
  <2>2. k # g
    BY <1>1, <2>1 DEF DeletionInv, OwnKeys
  <2> QED BY <1>1, <1>3, <2>2 DEF DeleteOwn
<1>4. ASSUME NEW ok \in BOOLEAN, NEW z \in Zips, DeleteZip(z, ok)
      PROVE  \E y \in Keys : obj'[y][f] # 0
  <2>1. CASE k # z
    BY <1>1, <1>4, <2>1 DEF DeleteZip
  <2>2. CASE k = z
    <3>1. AllTargeted(z) /\ Live(z) /\ Looked
      BY <1>4 DEF DeletionInv, TodoIsTargeted, DeleteZip, Live, Looked
    <3>2. del.idx[f] \in Zips
      BY <1>1, <2>2, <3>1 DEF DeletionInv, MembersAreIndexed, AllTargeted
    <3>3. f \in ZipContents(del.idx[f])
      BY DEF ZipContents
    <3>4. ~AllTargeted(del.idx[f])
      BY <3>3 DEF AllTargeted
    <3>5. del.idx[f] # z /\ obj[del.idx[f]][f] # 0
      BY <3>1, <3>2, <3>3, <3>4 DEF DeletionInv, MembersStay
    <3> QED BY <1>4, <3>2, <3>5, ZipsAreNumbers DEF DeleteZip
  <2> QED BY <2>1, <2>2
<1>5. (LoadDelete \/ ListZips \/ FailDelete \/ \E ok \in BOOLEAN : MarkGone(ok))
        => obj' = obj
  BY DEF LoadDelete, ListZips, FailDelete, MarkGone
<1> QED BY <1>2, <1>3, <1>4, <1>5 DEF DeleteSteps

(* The index as the request loads it. *)
LEMMA IndexMeans ==
  ASSUME NEW f \in Files
  PROVE  /\ Holders(f) # {} => CloudIndex[f] \in Holders(f) /\ CloudIndex[f] \in Zips
         /\ Holders(f) = {} => CloudIndex[f] \in {f, None} /\ CloudIndex[f] \notin Zips
         /\ CloudIndex[f] # None <=> Holders(f) # {} \/ obj[f][f] # 0
<1>1. Holders(f) \subseteq Zips /\ Holders(f) \subseteq Nat
  BY ZipsAreNumbers DEF Holders
<1>2. Holders(f) # {} => Min(Holders(f)) \in Holders(f)
  BY <1>1, MinIsInSet
<1>3. None \notin Keys /\ Zips \subseteq Keys /\ Files \subseteq Keys /\ f \notin Zips
  BY KeyAssumption, ZipsAreNumbers
<1> QED BY <1>1, <1>2, <1>3 DEF CloudIndex

LEMMA OwnKeysInit == Init => OwnKeys
BY ZipsAreNumbers, KeyAssumption DEF Init, OwnKeys, Empty, Keys

LEMMA OwnKeysStep == ASSUME TypeOK, OwnKeys, [Next]_vars PROVE OwnKeys'
<1> USE TypeIs
<1>1. CASE obj' = obj
  BY <1>1 DEF OwnKeys
<1>2. ASSUME NEW F, NEW k \in Keys, Put(F, k), k \in Files => F = {k} PROVE OwnKeys'
  <2> SUFFICES ASSUME NEW f \in Files, NEW g \in Files, obj'[f][g] # 0 PROVE g = f
    BY DEF OwnKeys
  <2>1. f # k => obj'[f] = obj[f]
    BY <1>2, ZipsAreNumbers DEF Put
  <2>2. f = k => obj'[f][g] = IF g \in F THEN disk[g] ELSE 0
    BY <1>2 DEF Put
  <2> QED BY <1>2, <2>1, <2>2 DEF OwnKeys
<1>3. ASSUME NEW k \in Keys, obj' = [obj EXCEPT ![k] = Empty] PROVE OwnKeys'
  BY <1>3, ZipsAreNumbers DEF OwnKeys, Empty
<1>4. ASSUME NEW f \in Files, PutOwn(f) PROVE OwnKeys'
  BY <1>2, <1>4, ZipsAreNumbers DEF PutOwn
<1>5. ASSUME NEW F, PutZip(F) PROVE OwnKeys'
  BY <1>2, <1>5, ZipsAreNumbers, KeyAssumption DEF PutZip
<1>6. ASSUME NEW ok \in BOOLEAN, NEW f \in Files, DeleteOwn(f, ok) PROVE OwnKeys'
  BY <1>1, <1>3, <1>6, ZipsAreNumbers DEF DeleteOwn
<1>7. ASSUME NEW ok \in BOOLEAN, NEW z \in Zips, DeleteZip(z, ok) PROVE OwnKeys'
  BY <1>1, <1>3, <1>7, ZipsAreNumbers DEF DeleteZip
<1>8. \/ UNCHANGED vars \/ StartRun \/ Walk \/ MarkMissing \/ Reconcile \/ MarkUploaded
      \/ EndRun \/ StartSync \/ SyncSteps \/ LoadDelete \/ ListZips \/ FailDelete
      => obj' = obj
  BY DEF vars, StartRun, Walk, MarkMissing, Reconcile, MarkUploaded, EndRun, StartSync,
         SyncSteps, LoadSync, ReadSync, CreateFiles, UpdateFiles, FailSync, LoadDelete,
         ListZips, FailDelete
<1>9. /\ \A f \in Files, v \in 0..2 : Change(f, v) => obj' = obj
      /\ \A lost \in BOOLEAN : Restart(lost) => obj' = obj
      /\ \A F \in SUBSET Files : StartDelete(F) => obj' = obj
      /\ \A ok \in BOOLEAN : MarkGone(ok) => obj' = obj
  BY DEF Change, Restart, StartDelete, MarkGone
<1> QED BY <1>1, <1>4, <1>5, <1>6, <1>7, <1>8, <1>9 DEF Next, RunSteps, DeleteSteps

(* The deletion's part of the invariant. *)
Kept == TodoIsTargeted /\ MembersStay /\ MembersAreIndexed

LEMMA NothingLooked == ASSUME del'.step \in {"idle", "load"} PROVE Kept'
BY DEF Kept, TodoIsTargeted, MembersStay, MembersAreIndexed, Looked

(* Others write only to archive names that were not in use. *)
LEMMA OthersKeep ==
  ASSUME DeletionInv, del' = del, \A z \in Zips : obj[z] # Empty => obj'[z] = obj[z]
  PROVE  Kept'
<1> USE DEF DeletionInv
<1>1. TodoIsTargeted'
  BY DEF TodoIsTargeted, AllTargeted, ZipContents
<1>2. ASSUME NEW z \in Zips, NEW f \in Files, obj[z][f] # 0
      PROVE  obj'[z][f] = obj[z][f] /\ obj[z] # Empty
  BY <1>2 DEF Empty
<1>3. MembersStay'
  BY <1>2 DEF MembersStay, Looked, Live, AllTargeted, ZipContents
<1>4. MembersAreIndexed'
  <2> SUFFICES ASSUME Looked, NEW z \in Zips, Live(z), NEW g \in ZipContents(z),
                      NEW f \in Files, obj'[z][f] # 0
               PROVE  del.idx[f] \in Zips
    BY DEF MembersAreIndexed, Looked, Live, ZipContents
  <2>1. obj[z][g] # 0 /\ g \in Files
    BY DEF MembersStay, ZipContents
  <2>2. obj'[z] = obj[z]
    BY <1>2, <2>1
  <2> QED BY <2>2 DEF MembersAreIndexed
<1> QED BY <1>1, <1>3, <1>4 DEF Kept

LEMMA LooksKeep == ASSUME DeletionInv, LoadDelete PROVE Kept'
<1>1. /\ del'.step = "own" /\ del'.idx = CloudIndex /\ del'.paths = del.paths
      /\ del'.todo = {f \in del.paths : CloudIndex[f] = f} /\ obj' = obj
      /\ del.paths \subseteq Files
  BY TypeIs DEF LoadDelete, Dels, DeletionInv
<1>2. TodoIsTargeted'
  BY <1>1 DEF TodoIsTargeted
<1>3. ASSUME NEW z \in Zips, NEW f \in Files
      PROVE  /\ CloudIndex[f] = z => obj[z][f] # 0
             /\ obj[z][f] # 0 => CloudIndex[f] \in Zips
  BY IndexMeans DEF Holders
<1>4. MembersStay' /\ MembersAreIndexed'
  BY <1>1, <1>3 DEF MembersStay, MembersAreIndexed, ZipContents
<1> QED BY <1>2, <1>4 DEF Kept

LEMMA DeletionsKeep ==
  ASSUME DeletionInv
  PROVE  /\ \A ok \in BOOLEAN, f \in Files : DeleteOwn(f, ok) => Kept'
         /\ ListZips => Kept'
         /\ \A ok \in BOOLEAN, z \in Zips : DeleteZip(z, ok) => Kept'
<1> USE TypeIs DEF DeletionInv
<1>1. ASSUME NEW ok \in BOOLEAN, NEW f \in Files, DeleteOwn(f, ok) PROVE Kept'
  <2>1. /\ del.step = "own" /\ del'.step = "own" /\ del'.idx = del.idx
        /\ del'.paths = del.paths /\ del'.todo \subseteq del.todo
    BY <1>1 DEF DeleteOwn, Dels
  <2>2. \A z \in Zips : obj'[z] = obj[z]
    BY <1>1, ZipsAreNumbers, KeyAssumption DEF DeleteOwn
  <2>3. TodoIsTargeted'
    BY <2>1 DEF TodoIsTargeted
  <2>4. MembersStay' /\ MembersAreIndexed'
    BY <2>1, <2>2 DEF MembersStay, MembersAreIndexed, Looked, Live, ZipContents, AllTargeted
  <2> QED BY <2>3, <2>4 DEF Kept
<1>2. ASSUME ListZips PROVE Kept'
  <2>1. /\ del.step = "own" /\ del'.step = "zips" /\ del'.idx = del.idx
        /\ del'.paths = del.paths /\ del'.todo = {z \in Zips : AllTargeted(z)}
        /\ obj' = obj
    BY <1>2 DEF ListZips, Dels
  <2>2. TodoIsTargeted'
    BY <2>1 DEF TodoIsTargeted, AllTargeted, ZipContents
  <2>3. MembersStay' /\ MembersAreIndexed'
    BY <2>1 DEF MembersStay, MembersAreIndexed, Looked, Live, ZipContents, AllTargeted
  <2> QED BY <2>2, <2>3 DEF Kept
<1>3. ASSUME NEW ok \in BOOLEAN, NEW z \in Zips, DeleteZip(z, ok) PROVE Kept'
  <2>1. /\ del.step = "zips" /\ del'.step = "zips" /\ del'.idx = del.idx
        /\ del'.paths = del.paths /\ del'.todo = del.todo \ {z} /\ z \in del.todo
    BY <1>3 DEF DeleteZip, Dels
  <2>2. \A y \in Zips : y # z => obj'[y] = obj[y]
    BY <1>3, ZipsAreNumbers DEF DeleteZip
  <2>3. TodoIsTargeted'
    BY <2>1 DEF TodoIsTargeted, AllTargeted, ZipContents
  <2>4. AllTargeted(z)
    BY <2>1 DEF TodoIsTargeted
  <2>5. /\ Looked /\ \A y \in Zips : Live(y)' => Live(y) /\ y # z
        /\ \A y \in Zips : (AllTargeted(y)' <=> AllTargeted(y))
                            /\ ZipContents(y)' = ZipContents(y)
    BY <2>1 DEF Looked, Live, AllTargeted, ZipContents
  <2>6. MembersStay'
    BY <2>2, <2>4, <2>5 DEF MembersStay, ZipContents
  <2>7. MembersAreIndexed'
    BY <2>1, <2>2, <2>5 DEF MembersAreIndexed
  <2> QED BY <2>3, <2>6, <2>7 DEF Kept
<1> QED BY <1>1, <1>2, <1>3

LEMMA DeletionInvariant == Spec => []DeletionInv
<1>1. Init => DeletionInv
  BY InitType, OwnKeysInit
     DEF Init, NoDel, DeletionInv, TodoIsTargeted, MembersStay, MembersAreIndexed, Looked
<1>2. ASSUME DeletionInv, [Next]_vars PROVE DeletionInv'
  <2>1. TypeOK' /\ OwnKeys'
    BY <1>2, NextType, OwnKeysStep DEF DeletionInv
  <2>2. ASSUME del' = del /\ obj' = obj PROVE Kept'
    BY <1>2, <2>2, OthersKeep
  <2>3. ASSUME NEW F, NEW k \in Keys, Put(F, k), k \in Zips => obj[k] = Empty
        PROVE  Kept'
    <3>1. \A z \in Zips : obj[z] # Empty => obj'[z] = obj[z]
      BY <1>2, <2>3, ZipsAreNumbers, TypeIs DEF Put, DeletionInv
    <3> QED BY <1>2, <2>3, <3>1, OthersKeep DEF Put
  <2>4. ASSUME NEW f \in Files, PutOwn(f) PROVE Kept'
    BY <2>3, <2>4, ZipsAreNumbers, KeyAssumption DEF PutOwn
  <2>5. ASSUME NEW F, PutZip(F) PROVE Kept'
    BY <2>3, <2>5, ZipsAreNumbers, NextZipIsEmpty DEF PutZip
  <2>6. ASSUME del'.step \in {"idle", "load"} PROVE Kept'
    BY <2>6, NothingLooked
  <2>7. \/ UNCHANGED vars \/ StartRun \/ Walk \/ MarkMissing \/ Reconcile
        \/ MarkUploaded \/ EndRun \/ StartSync \/ SyncSteps
        \/ \E f \in Files, v \in 0..2 : Change(f, v)
        => del' = del /\ obj' = obj
    BY DEF vars, StartRun, Walk, MarkMissing, Reconcile, MarkUploaded, EndRun, StartSync,
           SyncSteps, LoadSync, ReadSync, CreateFiles, UpdateFiles, FailSync, Change
  <2>8. /\ \A lost \in BOOLEAN : Restart(lost) => del'.step = "idle"
        /\ \A F \in SUBSET Files : StartDelete(F) => del'.step = "load"
        /\ FailDelete => del'.step = "idle"
        /\ \A ok \in BOOLEAN : MarkGone(ok) => del'.step = "idle"
    <3>1. NoDel.step = "idle" /\ \A F : [NoDel EXCEPT !.step = "load", !.paths = F].step = "load"
      BY DEF NoDel
    <3>2. \A lost \in BOOLEAN : Restart(lost) => del'.step = "idle"
      BY <3>1 DEF Restart
    <3>3. \A F \in SUBSET Files : StartDelete(F) => del'.step = "load"
      BY <3>1 DEF StartDelete
    <3>4. FailDelete => del'.step = "idle"
      BY <3>1 DEF FailDelete
    <3>5. \A ok \in BOOLEAN : MarkGone(ok) => del'.step = "idle"
      BY <3>1 DEF MarkGone
    <3> QED BY <3>2, <3>3, <3>4, <3>5
  <2>9. Kept'
    BY <1>2, <2>2, <2>4, <2>5, <2>6, <2>7, <2>8, LooksKeep, DeletionsKeep
       DEF Next, RunSteps, DeleteSteps
  <2> QED BY <2>1, <2>9 DEF DeletionInv, Kept
<1> QED BY <1>1, <1>2, PTL DEF Spec

(* Deleting some paths takes no other path out of the bucket, whatever runs,
   syncs, failures and restarts come between the look at the bucket and the
   deletions. *)
THEOREM UntargetedPathsSurvive == Spec => UntargetedSurvives
<1>1. DeletionInv /\ [Next]_vars =>
        [DeleteSteps => \A f \in Files \ del.paths : InBucket(f) => InBucket(f)']_vars
  BY Spared
<1> QED BY <1>1, DeletionInvariant, PTL DEF Spec, UntargetedSurvives
-----------------------------------------------------------------------------
(* Why a sync that nothing overtook leaves the index as the bucket is. *)

(* What the request took from the bucket is still so. *)
IndexIsBucket ==
  sync.calm /\ sync.step \in {"read", "create", "update"} =>
    \A f \in Files : sync.idx[f] # None <=> InBucket(f)

(* What it is to create and to update follows from the rows as they are. *)
CreatesFollow ==
  sync.calm /\ sync.step = "create" =>
    \A f \in Files : /\ f \in sync.new <=> row[f].st = "none" /\ sync.idx[f] # None
                     /\ sync.set[f] = Compared(f, row[f])

(* Then each row is as compared, and not missing, or just created. *)
UpdatesFollow ==
  sync.calm /\ sync.step = "update" =>
    \A f \in Files :
      \/ /\ sync.set[f] = Compared(f, row[f])
         /\ row[f].st = "none" => sync.idx[f] = None
      \/ sync.set[f] = "none" /\ row[f].st = "cloud_only" /\ sync.idx[f] # None

Follow == IndexIsBucket /\ CreatesFollow /\ UpdatesFollow
SyncInv == TypeOK /\ OwnKeys /\ Follow

LEMMA UpdateMatches ==
  ASSUME SyncInv, UpdateFiles, sync.calm, NEW f \in Files
  PROVE  row'[f].st \in {"uploaded", "cloud_only"} <=> InBucket(f)
<1>1. row[f].st \in Statuses
  BY TypeIs DEF SyncInv, Rows, Statuses
<1>2. sync.step = "update" /\ (sync.idx[f] # None <=> InBucket(f))
  BY DEF SyncInv, Follow, UpdateFiles, IndexIsBucket
<1>3. row'[f].st = IF sync.set[f] = "none" THEN row[f].st ELSE sync.set[f]
  BY DEF UpdateFiles, Updated
<1>4. CASE sync.set[f] = Compared(f, row[f]) /\ (row[f].st = "none" => sync.idx[f] = None)
  BY <1>1, <1>2, <1>3, <1>4 DEF Compared, Statuses
<1>5. CASE sync.set[f] = "none" /\ row[f].st = "cloud_only" /\ sync.idx[f] # None
  BY <1>2, <1>3, <1>5
<1> QED BY <1>2, <1>4, <1>5 DEF SyncInv, Follow, UpdatesFollow

LEMMA SyncInvariant == Spec => []SyncInv
<1>1. Init => SyncInv
  BY InitType, OwnKeysInit
     DEF Init, NoSync, SyncInv, Follow, IndexIsBucket, CreatesFollow, UpdatesFollow
<1>2. ASSUME SyncInv, [Next]_vars PROVE SyncInv'
  <2> USE DEF SyncInv
  <2>1. TypeOK' /\ OwnKeys'
    BY <1>2, NextType, OwnKeysStep
  <2>2. ASSUME ~sync'.calm \/ sync'.step \in {"idle", "load"} PROVE Follow'
    BY <2>2 DEF Follow, IndexIsBucket, CreatesFollow, UpdatesFollow
  <2>3. ASSUME sync' = sync /\ row' = row /\ obj' = obj PROVE Follow'
    BY <1>2, <2>3 DEF Follow, IndexIsBucket, CreatesFollow, UpdatesFollow, InBucket, Compared
  <2>4. ASSUME LoadSync PROVE Follow'
    <3>1. /\ sync'.step = "read" /\ sync'.idx = CloudIndex /\ obj' = obj
      BY <1>2, <2>4, TypeIs DEF LoadSync, Syncs
    <3>2. ASSUME NEW f \in Files PROVE CloudIndex[f] # None <=> InBucket(f)
      BY <1>2, IndexMeans DEF InBucket, Holders, Keys, OwnKeys
    <3> QED BY <3>1, <3>2 DEF Follow, IndexIsBucket, CreatesFollow, UpdatesFollow, InBucket
  <2>5. ASSUME ReadSync PROVE Follow'
    <3>1. /\ sync.step = "read" /\ sync'.step = "create" /\ sync'.idx = sync.idx
          /\ sync'.calm = sync.calm /\ obj' = obj /\ row' = row
          /\ sync'.new = {f \in Files : row[f].st = "none" /\ sync.idx[f] # None}
          /\ sync'.set = [f \in Files |-> Compared(f, row[f])]
      BY <1>2, <2>5, TypeIs DEF ReadSync, Syncs
    <3> QED BY <1>2, <3>1
            DEF Follow, IndexIsBucket, CreatesFollow, UpdatesFollow, InBucket, Compared
  <2>6. ASSUME CreateFiles PROVE Follow'
    <3>1. /\ sync.step = "create" /\ sync'.step = "update" /\ sync'.idx = sync.idx
          /\ sync'.calm = sync.calm /\ sync'.set = sync.set /\ obj' = obj
      BY <1>2, <2>6, TypeIs DEF CreateFiles, Syncs
    <3>2. IndexIsBucket'
      BY <1>2, <3>1 DEF Follow, IndexIsBucket, InBucket
    <3>3. ASSUME NEW f \in Files, sync.calm
          PROVE  \/ /\ sync.set[f] = Compared(f, row[f])'
                    /\ row'[f].st = "none" => sync.idx[f] = None
                 \/ sync.set[f] = "none" /\ row'[f].st = "cloud_only" /\ sync.idx[f] # None
      <4>1. /\ f \in sync.new <=> row[f].st = "none" /\ sync.idx[f] # None
            /\ sync.set[f] = Compared(f, row[f])
        BY <1>2, <3>1, <3>3 DEF Follow, CreatesFollow
      <4>2. CASE f \in sync.new
        <5>1. row'[f].st = "cloud_only"
          BY <2>6, <4>1, <4>2 DEF CreateFiles
        <5> QED BY <4>1, <4>2, <5>1 DEF Compared
      <4>3. CASE f \notin sync.new
        <5>1. row'[f] = row[f]
          BY <2>6, <4>3 DEF CreateFiles
        <5> QED BY <3>1, <4>1, <4>3, <5>1 DEF Compared
      <4> QED BY <4>2, <4>3
    <3> QED BY <3>1, <3>2, <3>3 DEF Follow, CreatesFollow, UpdatesFollow, Compared
  <2>7. /\ StartSync => sync'.step = "load"
        /\ UpdateFiles \/ FailSync => sync'.step = "idle"
        /\ \A lost \in BOOLEAN : Restart(lost) => sync'.step = "idle"
    BY DEF StartSync, UpdateFiles, FailSync, Restart, NoSync
  <2>8. /\ Walk \/ MarkMissing \/ Reconcile \/ MarkUploaded => sync' = Overtaken(sync)
        /\ \A f \in Files : PutOwn(f) => sync' = Overtaken(sync)
        /\ \A F \in SUBSET Files : PutZip(F) => sync' = Overtaken(sync)
        /\ \A ok \in BOOLEAN, f \in Files : DeleteOwn(f, ok) => sync' = Overtaken(sync)
        /\ \A ok \in BOOLEAN, z \in Zips : DeleteZip(z, ok) => sync' = Overtaken(sync)
        /\ \A ok \in BOOLEAN : MarkGone(ok) => sync' = Overtaken(sync)
    BY DEF Walk, MarkMissing, Reconcile, MarkUploaded, PutOwn, PutZip, Put, DeleteOwn,
           DeleteZip, MarkGone
  <2> DEFINE Apart == sync' = sync /\ row' = row /\ obj' = obj
  <2>9. /\ UNCHANGED vars \/ StartRun \/ EndRun => Apart
        /\ LoadDelete \/ ListZips \/ FailDelete => Apart
        /\ \A f \in Files, v \in 0..2 : Change(f, v) => Apart
        /\ \A F \in SUBSET Files : StartDelete(F) => Apart
    BY DEF vars, StartRun, EndRun, LoadDelete, ListZips, FailDelete, Change, StartDelete
  <2>10. sync' = Overtaken(sync) => ~sync'.calm
    BY <1>2, TypeIs, OvertakenType
  <2>11. Follow'
    <3> HIDE DEF SyncInv
    <3> QED BY <1>2, <2>2, <2>3, <2>4, <2>5, <2>6, <2>7, <2>8, <2>9, <2>10
            DEF Next, RunSteps, SyncSteps, DeleteSteps
  <2> QED BY <2>1, <2>11 DEF Follow
<1> QED BY <1>1, <1>2, PTL DEF Spec

(* A sync that no run and no deletion overtook leaves exactly the paths that
   some object has as backed up, and a row for each of them. *)
THEOREM SyncsMatchTheBucket == Spec => SyncMatchesBucket
<1>1. SyncInv /\ [Next]_vars =>
        [UpdateFiles /\ sync.calm =>
           \A f \in Files : row'[f].st \in {"uploaded", "cloud_only"} <=> InBucket(f)]_vars
  BY UpdateMatches
<1> QED BY <1>1, SyncInvariant, PTL DEF Spec, SyncMatchesBucket
================================================================================
