--------------------------- MODULE Multipart_proofs ---------------------------
(* Theorems of Multipart, for every value of its constants: the types, the
   refinement of PutPromise, and where parts go. *)
EXTENDS Multipart, WellFoundedInduction, TLAPS
-----------------------------------------------------------------------------
(* Numbers: how a file is cut. *)
LEMMA CeilDivBounds ==
  ASSUME NEW n \in Nat \ {0}, NEW d \in Nat \ {0}
  PROVE  /\ CeilDiv(n, d) \in 1..n
         /\ (CeilDiv(n, d) - 1) * d < n
         /\ n <= CeilDiv(n, d) * d
<1> DEFINE q == CeilDiv(n, d)
<1>1. q \in Nat /\ q * d <= n + d - 1 /\ n + d - 1 < (q + 1) * d
  BY DEF CeilDiv
<1>2. (q + 1) * d = q * d + d /\ (q >= 1 => (q - 1) * d = q * d - d)
  BY <1>1
<1>3. q >= 1
  BY <1>1
<1> QED BY <1>1, <1>2, <1>3

LEMMA TimesGrows ==
  ASSUME NEW m \in Nat, NEW n \in Nat, NEW d \in Nat, m <= n
  PROVE  m * d \in Nat /\ n * d \in Nat /\ m * d <= n * d
<1>1. n * d = m * d + (n - m) * d
  OBVIOUS
<1>2. (n - m) * d \in Nat /\ m * d \in Nat /\ n * d \in Nat
  OBVIOUS
<1> QED BY <1>1, <1>2

(* A set of numbers has a least; a bounded one has a largest: the least of its
   bounds. *)
LEMMA HasLeast ==
  ASSUME NEW S, S \subseteq Nat, S # {}
  PROVE  \E n \in S : \A m \in S : n <= m
<1> DEFINE R == {ss \in Nat \X Nat : ss[1] < ss[2]}
<1>1. IsWellFoundedOn(R, Nat)
  BY NatLessThanWellFounded, Zenon DEF OpToRel
<1>2. PICK n \in S : \A m \in S : <<m, n>> \notin R
  BY <1>1, WFMin, Zenon
<1>3. ASSUME NEW m \in S PROVE n <= m
  <2>1. m < n => <<m, n>> \in R
    OBVIOUS
  <2> QED BY <1>2, <2>1
<1> QED BY <1>3

LEMMA BoundedHasLargest ==
  ASSUME NEW S, NEW b \in Nat, S \subseteq 0..b, S # {}
  PROVE  Largest(S) \in S /\ \A m \in S : m <= Largest(S)
<1> DEFINE T == {x \in Nat : \A m \in S : m <= x}
<1>1. b \in T /\ T \subseteq Nat
  OBVIOUS
<1>2. PICK x \in T : \A y \in T : x <= y
  <2> HIDE DEF T
  <2> QED BY <1>1, HasLeast
<1>3. x \in Nat /\ \A m \in S : m <= x
  OBVIOUS
<1>4. x \in S
  <2> SUFFICES ASSUME x \notin S PROVE FALSE
    OBVIOUS
  <2>1. PICK k \in S : TRUE
    OBVIOUS
  <2>2. \A m \in S : m \in Nat /\ m <= x - 1
    BY <1>3
  <2>3. x - 1 \in T
    BY <1>3, <2>1, <2>2
  <2> QED BY <1>2, <1>3, <2>3
<1> QED BY <1>3, <1>4 DEF Largest

LEMMA Sizes ==
  /\ Longest \in Nat \ {0} /\ 1 \in Numbers /\ Numbers \subseteq Nat
  /\ \A v \in Versions : v \in Nat \ {0} /\ SizeOf[v] \in 1..Longest
<1>1. PICK v \in Versions : \A w \in Versions : SizeOf[w] <= SizeOf[v]
  BY SizeAssumption
<1>2. \A w \in Versions : w \in Nat \ {0} /\ SizeOf[w] \in Nat \ {0}
  BY SizeAssumption
<1> DEFINE S == {SizeOf[w] : w \in Versions}
<1>3. S \subseteq 0..SizeOf[v] /\ S # {}
  BY <1>1, <1>2
<1>4. Largest(S) \in S /\ \A m \in S : m <= Largest(S)
  <2> HIDE DEF S
  <2> QED BY <1>2, <1>3, BoundedHasLargest
<1>5. Longest = Largest(S)
  BY DEF Longest
<1>6. Longest \in Nat \ {0} /\ \A w \in Versions : SizeOf[w] <= Longest
  <2> HIDE DEF Longest
  <2> QED BY <1>2, <1>4, <1>5
<1> QED
  <2> HIDE DEF Longest
  <2> QED BY <1>2, <1>6 DEF Numbers

(* The parts of a version: as many as Numbers has, each from where the one
   before ends, none empty, the last up to the end. *)
LEMMA Cuts ==
  ASSUME NEW v \in Versions, NEW ps \in Nat \ {0}
  PROVE  /\ PartCount(v, ps) \in Numbers /\ PartCount(v, ps) \in Nat
         /\ 1..PartCount(v, ps) \subseteq Numbers
         /\ \A n \in 1..PartCount(v, ps) :
              /\ Slice(v, n, ps) \in Slices /\ Slice(v, n, ps) # NoPart
              /\ Slice(v, n, ps).ver = v
              /\ Slice(v, n, ps).from = (n - 1) * ps
              /\ Length(Slice(v, n, ps)) \in Numbers
              /\ Slice(v, n, ps).to =
                   IF n = PartCount(v, ps) THEN SizeOf[v] ELSE n * ps
<1> DEFINE count == PartCount(v, ps)
<1>1. /\ SizeOf[v] \in Nat \ {0} /\ SizeOf[v] <= Longest
      /\ Longest \in Nat \ {0} /\ v \in Nat \ {0}
  BY Sizes
<1>2. /\ count \in 1..SizeOf[v] /\ (count - 1) * ps < SizeOf[v]
      /\ SizeOf[v] <= count * ps
  <2> HIDE DEF Longest
  <2> QED BY <1>1, CeilDivBounds DEF PartCount
<1> HIDE DEF count, Longest
<1>3. count \in Numbers /\ count \in Nat /\ 1..count \subseteq Numbers
  BY <1>1, <1>2 DEF Numbers
<1>4. ASSUME NEW n \in 1..count
      PROVE  /\ Slice(v, n, ps) \in Slices /\ Slice(v, n, ps) # NoPart
             /\ Slice(v, n, ps).ver = v
             /\ Slice(v, n, ps).from = (n - 1) * ps
             /\ Length(Slice(v, n, ps)) \in Numbers
             /\ Slice(v, n, ps).to = IF n = count THEN SizeOf[v] ELSE n * ps
  <2>1. n \in Nat /\ n - 1 \in Nat /\ n <= count /\ count \in Nat /\ count - 1 \in Nat
    BY <1>2
  <2>2. (n - 1) * ps \in Nat /\ (n - 1) * ps <= (count - 1) * ps
    BY <2>1, TimesGrows
  <2>3. (n - 1) * ps < SizeOf[v] /\ n * ps = (n - 1) * ps + ps /\ n * ps \in Nat
    BY <1>1, <1>2, <2>1, <2>2
  <2>4. n # count => n * ps <= (count - 1) * ps
    BY <2>1, TimesGrows
  <2>5. Least(n * ps, SizeOf[v]) = IF n = count THEN SizeOf[v] ELSE n * ps
    BY <1>1, <1>2, <2>1, <2>3, <2>4 DEF Least
  <2>6. Least(n * ps, SizeOf[v]) \in Nat /\ (n - 1) * ps < Least(n * ps, SizeOf[v])
        /\ Least(n * ps, SizeOf[v]) <= Longest
    BY <1>1, <2>3 DEF Least
  <2> DEFINE from == (n - 1) * ps  to == Least(n * ps, SizeOf[v])
  <2>7. Slice(v, n, ps) = [ver |-> v, from |-> from, to |-> to]
    BY DEF Slice
  <2>8. from \in 0..Longest /\ to \in 0..Longest /\ to - from \in 1..Longest
    BY <1>1, <2>2, <2>6
  <2> HIDE DEF from, to
  <2>9. Slice(v, n, ps) \in Slices /\ Slice(v, n, ps) # NoPart
        /\ Length(Slice(v, n, ps)) \in Numbers
    BY <1>1, <2>7, <2>8 DEF Slices, NoPart, Length, Numbers
  <2> QED BY <2>5, <2>7, <2>9 DEF from, to
<1> QED BY <1>3, <1>4 DEF count
-----------------------------------------------------------------------------
(* What S3 holds of an upload was cut from some version in some size. *)
PartsAreSlices ==
  \A i \in Ids, n \in Numbers : uploads[i].parts[n] # NoPart =>
    \E v \in Versions, ps \in PartSizes \cup Numbers :
      n <= PartCount(v, ps) /\ uploads[i].parts[n] = Slice(v, n, ps)

(* A call works on a version, and from "persist" to "complete" on one upload in
   one part size; its row was committed before the parts were listed. *)
CallOK ==
  /\ put.pc # "idle" => put.ver \in Versions
  /\ put.pc \in {"persist", "list", "send", "complete"} =>
       put.id \in Ids /\ put.size \in PartSizes \cup Numbers
  /\ put.pc = "persist" => put.size \in PartSizes
  /\ put.pc \in {"list", "send", "complete"} =>
       row.id = put.id /\ row.ver = put.ver

(* Workers send parts of the file, in "send" only. *)
WorkersOK ==
  /\ put.pc = "send" => put.next # 0
  /\ \A w \in Workers : worker[w] # 0 => put.pc = "send" /\ worker[w] <= Total

(* What the call takes for stored is at S3, as the local copy has it; before
   the parts are joined, that is all of them. *)
HaveIsStored ==
  /\ put.pc \in {"send", "complete"} =>
       \A n \in put.have :
         n <= Total /\ uploads[put.id].parts[n] = Slice(put.ver, n, put.size)
  /\ put.pc = "complete" => 1..Total \subseteq put.have

(* The object is a version, and after the parts were joined it is the call's. *)
ObjectIsWhole ==
  /\ obj = NoUpload.parts \/ \E v \in Versions : Whole(obj, v)
  /\ put.pc \in {"clear", "mark"} => Whole(obj, put.ver)

PutInv == /\ TypeOK /\ PartsAreSlices /\ CallOK
          /\ WorkersOK /\ HaveIsStored /\ ObjectIsWhole

States == {"none", "open", "gone"}
Parts  == [Numbers -> Slices \cup {NoPart}]

LEMMA PartSizesCount == PartSizes \cup Numbers \subseteq Nat \ {0}
BY Sizes, SizeAssumption DEF Numbers

LEMMA InitPutInv == Init => PutInv
<1> SUFFICES ASSUME Init PROVE PutInv
  OBVIOUS
<1>1. NoUpload.parts \in Parts /\ NoUpload.st = "none"
      /\ \A n \in Numbers : NoUpload.parts[n] = NoPart
  BY DEF NoUpload, Parts
<1>2. uploads \in [Ids -> [st : States, parts : Parts]] /\ obj \in Parts
  BY <1>1 DEF Init, States, NoUpload, Parts
<1>3. TypeOK
  <2>1. put \in [pc : {"idle", "load", "persist", "list", "send", "complete",
                       "clear", "mark"},
                 ver : Versions \cup {0}, id : Ids \cup {0},
                 size : {0} \cup PartSizes \cup Numbers, next : 0..Longest + 1,
                 have : SUBSET Numbers, failed : BOOLEAN]
    <3>1. 0 \in 0..Longest + 1
      BY Sizes
    <3> QED BY <3>1 DEF Init, Idle
  <2> QED BY <1>2, <2>1 DEF Init, TypeOK, States, Parts
<1>4. PartsAreSlices
  BY <1>1 DEF Init, PartsAreSlices
<1>5. CallOK /\ WorkersOK /\ HaveIsStored /\ ObjectIsWhole
  BY DEF Init, Idle, CallOK, WorkersOK, HaveIsStored, ObjectIsWhole
<1> QED BY <1>3, <1>4, <1>5 DEF PutInv

(* The part size the stored parts tell. *)
LEMMA CutSizes ==
  ASSUME PutInv, NEW id \in Ids, NEW ps \in PartSizes \cup Numbers
  PROVE  StoredSize(id, ps) \in PartSizes \cup Numbers
<1> DEFINE S == {Length(uploads[id].parts[n]) : n \in Listed(id)}
<1>1. CASE Listed(id) = {}
  BY <1>1 DEF StoredSize
<1>2. CASE Listed(id) # {}
  <2>1. ASSUME NEW n \in Listed(id)
        PROVE  Length(uploads[id].parts[n]) \in Numbers
    <3>1. n \in Numbers /\ uploads[id].parts[n] # NoPart
      BY DEF Listed, Held
    <3>2. PICK v \in Versions, d \in PartSizes \cup Numbers :
            n <= PartCount(v, d) /\ uploads[id].parts[n] = Slice(v, n, d)
      BY <3>1 DEF PutInv, PartsAreSlices
    <3>3. d \in Nat \ {0} /\ n \in Nat \ {0}
      BY <3>1, PartSizesCount
    <3>4. n \in 1..PartCount(v, d)
      BY <3>2, <3>3, Cuts
    <3> QED BY <3>2, <3>3, <3>4, Cuts
  <2>2. S \subseteq Numbers /\ S # {}
    BY <1>2, <2>1
  <2>3. S \subseteq 0..Longest /\ Longest \in Nat
    BY <2>2, Sizes DEF Numbers
  <2>4. Largest(S) \in S
    <3> HIDE DEF S
    <3> QED BY <2>2, <2>3, BoundedHasLargest
  <2> QED BY <1>2, <2>2, <2>4 DEF StoredSize
<1> QED BY <1>1, <1>2

(* Parts of one version and size that arrive at an upload. *)
With(i, arrived) == [uploads EXCEPT ![i].parts = arrived]
LEMMA PartsArrive ==
  ASSUME PutInv, NEW i \in Ids, NEW v \in Versions,
         NEW ps \in PartSizes \cup Numbers, NEW arrived,
         arrived = [n \in Numbers |-> arrived[n]],
         \A n \in Numbers :
           \/ arrived[n] = uploads[i].parts[n]
           \/ n <= PartCount(v, ps) /\ arrived[n] = Slice(v, n, ps),
         uploads' = With(i, arrived)
  PROVE  /\ uploads' \in [Ids -> [st : States, parts : Parts]]
         /\ PartsAreSlices'
         /\ uploads'[i].parts = arrived
<1>1. uploads \in [Ids -> [st : States, parts : Parts]]
  BY DEF PutInv, TypeOK, States, Parts
<1>2. ps \in Nat \ {0}
  BY PartSizesCount
<1>3. ASSUME NEW n \in Numbers
      PROVE  arrived[n] \in Slices \cup {NoPart}
  <2>1. CASE arrived[n] = uploads[i].parts[n]
    BY <1>1, <2>1 DEF Parts
  <2>2. CASE n <= PartCount(v, ps) /\ arrived[n] = Slice(v, n, ps)
    <3>1. n \in Nat \ {0} /\ n <= PartCount(v, ps)
      BY <2>2, PartSizesCount
    <3>2. n \in 1..PartCount(v, ps)
      BY <1>2, <3>1, Cuts
    <3> QED BY <1>2, <2>2, <3>2, Cuts
  <2> QED BY <2>1, <2>2
<1>4. arrived \in Parts
  <2>1. [n \in Numbers |-> arrived[n]] \in Parts
    BY <1>3 DEF Parts
  <2> QED BY <2>1
<1>5. /\ uploads' \in [Ids -> [st : States, parts : Parts]]
      /\ uploads'[i].parts = arrived
      /\ \A j \in Ids \ {i} : uploads'[j] = uploads[j]
  <2> HIDE DEF Parts
  <2>1. uploads' = [uploads EXCEPT ![i] = [@ EXCEPT !.parts = arrived]]
    BY DEF With
  <2>2. [uploads[i] EXCEPT !.parts = arrived] \in [st : States, parts : Parts]
        /\ [uploads[i] EXCEPT !.parts = arrived].parts = arrived
    BY <1>1, <1>4
  <2> QED BY <1>1, <2>1, <2>2
<1>6. PartsAreSlices'
  <2> SUFFICES ASSUME NEW j \in Ids, NEW n \in Numbers, uploads'[j].parts[n] # NoPart
               PROVE  \E u \in Versions, d \in PartSizes \cup Numbers :
                        /\ n <= PartCount(u, d)
                        /\ uploads'[j].parts[n] = Slice(u, n, d)
    BY DEF PartsAreSlices
  <2>1. CASE uploads'[j].parts[n] = uploads[j].parts[n]
    BY <2>1 DEF PutInv, PartsAreSlices
  <2>2. CASE uploads'[j].parts[n] # uploads[j].parts[n]
    <3>1. j = i
      BY <1>5, <2>2
    <3> QED BY <1>5, <2>2, <3>1
  <2> QED BY <2>1, <2>2
<1> QED BY <1>5, <1>6

(* S3 forgets an upload; it keeps what it has of it. *)
LEMMA UploadGone ==
  ASSUME PutInv, NEW i \in Ids, uploads' = [uploads EXCEPT ![i].st = "gone"]
  PROVE  /\ uploads' \in [Ids -> [st : States, parts : Parts]]
         /\ PartsAreSlices'
         /\ \A j \in Ids : uploads'[j].parts = uploads[j].parts
<1>1. uploads \in [Ids -> [st : States, parts : Parts]]
  BY DEF PutInv, TypeOK, States, Parts
<1>2. /\ uploads' \in [Ids -> [st : States, parts : Parts]]
      /\ \A j \in Ids : uploads'[j].parts = uploads[j].parts
  BY <1>1 DEF States
<1> QED BY <1>2 DEF PutInv, PartsAreSlices

Calls == [pc : {"idle", "load", "persist", "list", "send", "complete",
                "clear", "mark"},
          ver : Versions \cup {0}, id : Ids \cup {0},
          size : {0} \cup PartSizes \cup Numbers, next : 0..Longest + 1,
          have : SUBSET Numbers, failed : BOOLEAN]

(* A step that ends the call leaves nothing to show about it. *)
LEMMA CallEnds ==
  ASSUME PutInv, put' = Idle, \A w \in Workers : worker'[w] = 0,
         obj' = obj \/ \E v \in Versions : Whole(obj', v)
  PROVE  put' \in Calls /\ CallOK' /\ WorkersOK' /\ HaveIsStored' /\ ObjectIsWhole'
<1>1. put'.pc = "idle" /\ put' \in Calls
  BY Sizes DEF Idle, Calls
<1>2. ObjectIsWhole'
  BY <1>1 DEF PutInv, ObjectIsWhole, Whole
<1> QED BY <1>1, <1>2 DEF CallOK, WorkersOK, HaveIsStored

(* What changes neither the uploads nor the call keeps what is said of them. *)
LEMMA CallKept ==
  ASSUME PutInv, UNCHANGED <<put, worker, obj>>,
         row' = row \/ put.pc = "load",
         \A i \in Ids : uploads'[i].parts = uploads[i].parts
  PROVE  CallOK' /\ WorkersOK' /\ HaveIsStored' /\ ObjectIsWhole'
<1>1. CallOK' /\ WorkersOK'
  BY DEF PutInv, CallOK, WorkersOK, Total, PartCount
<1>2. HaveIsStored'
  BY DEF PutInv, CallOK, HaveIsStored, Total, PartCount
<1>3. ObjectIsWhole'
  BY DEF PutInv, ObjectIsWhole, Whole
<1> QED BY <1>1, <1>2, <1>3

LEMMA EnvironmentStep ==
  ASSUME PutInv, Reconfigure \/ Expire \/ Crash
  PROVE  PutInv'
<1>1. TypeOK /\ PartsAreSlices
  BY DEF PutInv
<1>2. CASE Reconfigure
  <2>1. UNCHANGED <<row, marked, uploads, obj, put, worker>>
    BY <1>2 DEF Reconfigure
  <2>2. TypeOK'
    BY <1>1, <1>2, <2>1 DEF Reconfigure, TypeOK
  <2>3. PartsAreSlices'
    BY <1>1, <2>1 DEF PartsAreSlices
  <2> QED BY <2>1, <2>2, <2>3, CallKept DEF PutInv
<1>3. CASE Expire
  <2>1. UNCHANGED <<cur, partSize, row, marked, obj, put, worker>>
    BY <1>3 DEF Expire
  <2>2. PICK i \in Ids : uploads' = [uploads EXCEPT ![i].st = "gone"]
    BY <1>3 DEF Expire
  <2>3. TypeOK'
    BY <1>1, <2>1, <2>2, UploadGone DEF TypeOK, States, Parts
  <2> QED BY <2>1, <2>2, <2>3, UploadGone, CallKept DEF PutInv
<1>4. CASE Crash
  <2>1. /\ UNCHANGED <<cur, partSize, row, marked, obj>> /\ put' = Idle
        /\ worker' = [w \in Workers |-> 0]
    BY <1>4 DEF Crash
  <2>2. uploads' \in [Ids -> [st : States, parts : Parts]] /\ PartsAreSlices'
    <3>1. CASE UNCHANGED uploads
      BY <1>1, <3>1 DEF TypeOK, States, Parts, PartsAreSlices
    <3>2. CASE ~UNCHANGED uploads
      <4>1. PICK W \in SUBSET Busy : uploads' = Arrived(W) /\ Busy # {}
        BY <1>4, <3>2 DEF Crash
      <4>2. put.pc = "send" /\ \A w \in W : worker[w] <= Total
        BY <4>1 DEF PutInv, WorkersOK, Busy
      <4>3. put.id \in Ids /\ put.ver \in Versions /\ put.size \in PartSizes \cup Numbers
        BY <4>2 DEF PutInv, CallOK
      <4> DEFINE arrived == [n \in Numbers |->
            IF \E w \in W : worker[w] = n THEN Slice(put.ver, n, put.size)
                                        ELSE uploads[put.id].parts[n]]
      <4>4. uploads' = With(put.id, arrived)
        BY <4>1 DEF Arrived, With
      <4>5. /\ arrived = [n \in Numbers |-> arrived[n]]
            /\ \A n \in Numbers :
                 \/ arrived[n] = uploads[put.id].parts[n]
                 \/ /\ n <= PartCount(put.ver, put.size)
                    /\ arrived[n] = Slice(put.ver, n, put.size)
        BY <4>2 DEF Total
      <4> HIDE DEF arrived
      <4> QED BY <4>3, <4>4, <4>5, PartsArrive
    <3> QED BY <3>1, <3>2
  <2>3. \A w \in Workers : worker'[w] = 0
    BY <2>1
  <2>4. /\ put' \in Calls /\ CallOK' /\ WorkersOK' /\ HaveIsStored'
        /\ ObjectIsWhole'
    BY <2>1, <2>3, CallEnds
  <2>5. TypeOK'
    BY <1>1, <2>1, <2>2, <2>4 DEF TypeOK, States, Parts, Calls
  <2> QED BY <2>2, <2>4, <2>5 DEF PutInv
<1> QED BY <1>2, <1>3, <1>4

(* Attempts that begin or end; S3 may be told to forget their upload. *)
LEMMA AttemptStep ==
  ASSUME PutInv, \/ Begin \/ Fail \/ DropStale \/ Resume \/ TooMany \/ Mismatch
                 \/ GiveUp \/ CompleteRefused
  PROVE  PutInv'
<1>1. TypeOK /\ PartsAreSlices
  BY DEF PutInv
<1>2. ASSUME put' = Idle, \A w \in Workers : worker[w] = 0,
             UNCHANGED <<cur, partSize, marked, uploads, obj, worker>>,
             row' = row \/ row' = NoRow
      PROVE  PutInv'
  <2>1. put' \in Calls /\ CallOK' /\ WorkersOK' /\ HaveIsStored' /\ ObjectIsWhole'
    BY <1>2, CallEnds
  <2>2. TypeOK'
    BY <1>1, <1>2, <2>1 DEF TypeOK, Calls
  <2>3. PartsAreSlices'
    BY <1>1, <1>2 DEF PartsAreSlices
  <2> QED BY <2>1, <2>2, <2>3 DEF PutInv
<1>3. CASE Begin
  <2>1. UNCHANGED <<cur, partSize, row, marked, uploads, obj, worker>>
        /\ put' = [Idle EXCEPT !.pc = "load", !.ver = cur] /\ put.pc = "idle"
    BY <1>3 DEF Begin
  <2>2. put' \in Calls /\ put'.pc = "load" /\ put'.ver \in Versions
    <3>1. put' = [pc |-> "load", ver |-> cur, id |-> 0, size |-> 0, next |-> 0,
                  have |-> {}, failed |-> FALSE]
      BY <2>1 DEF Idle
    <3>2. cur \in Versions /\ 0 \in 0..Longest + 1
      BY <1>1, Sizes DEF TypeOK
    <3> QED BY <3>1, <3>2 DEF Calls
  <2>3. TypeOK'
    BY <1>1, <2>1, <2>2 DEF TypeOK, Calls
  <2>4. PartsAreSlices'
    BY <1>1, <2>1 DEF PartsAreSlices
  <2>5. WorkersOK'
    BY <2>1, <2>2 DEF PutInv, WorkersOK
  <2>6. CallOK' /\ HaveIsStored' /\ ObjectIsWhole'
    BY <2>1, <2>2 DEF PutInv, CallOK, HaveIsStored, ObjectIsWhole, Whole
  <2> QED BY <2>3, <2>4, <2>5, <2>6 DEF PutInv
<1>4. CASE DropStale
  <2>1. UNCHANGED <<cur, partSize, marked, obj, put, worker>> /\ put.pc = "load"
        /\ row # NoRow /\ row' = NoRow
    BY <1>4 DEF DropStale
  <2>2. row.id \in Ids
    BY <1>1, <2>1 DEF TypeOK
  <2>3. /\ uploads' \in [Ids -> [st : States, parts : Parts]] /\ PartsAreSlices'
        /\ \A i \in Ids : uploads'[i].parts = uploads[i].parts
    <3>1. CASE UNCHANGED uploads
      BY <1>1, <3>1 DEF TypeOK, States, Parts, PartsAreSlices
    <3>2. CASE uploads' = Aborted(row.id)
      BY <2>2, <3>2, UploadGone DEF Aborted
    <3> QED BY <1>4, <3>1, <3>2 DEF DropStale
  <2>4. TypeOK'
    BY <1>1, <2>1, <2>3 DEF TypeOK, States, Parts
  <2> QED BY <2>1, <2>3, <2>4, CallKept DEF PutInv
<1>5. CASE Resume
  <2>1. UNCHANGED <<cur, partSize, row, marked, uploads, obj, worker>>
        /\ put' = [put EXCEPT !.pc = "list", !.id = row.id, !.size = row.size]
        /\ put.pc = "load" /\ row # NoRow /\ row.ver = put.ver
    BY <1>5 DEF Resume
  <2>2. put \in Calls /\ row.id \in Ids /\ row.size \in PartSizes
    BY <1>1, <2>1 DEF TypeOK, Calls
  <2>3. put' \in Calls /\ put'.pc = "list" /\ put'.ver = put.ver
        /\ put'.id = row.id /\ put'.size = row.size
    BY <2>1, <2>2 DEF Calls
  <2>4. TypeOK'
    BY <1>1, <2>1, <2>3 DEF TypeOK, Calls
  <2>5. PartsAreSlices' /\ WorkersOK'
    <3>1. PartsAreSlices'
      BY <1>1, <2>1 DEF PartsAreSlices
    <3>2. WorkersOK'
      BY <2>1, <2>3 DEF PutInv, WorkersOK
    <3> QED BY <3>1, <3>2
  <2>6. CallOK'
    BY <2>1, <2>2, <2>3 DEF PutInv, CallOK
  <2>7. HaveIsStored' /\ ObjectIsWhole'
    BY <2>1, <2>3 DEF PutInv, HaveIsStored, ObjectIsWhole, Whole
  <2> QED BY <2>4, <2>5, <2>6, <2>7 DEF PutInv
<1>6. CASE \/ Fail \/ TooMany \/ Mismatch \/ GiveUp \/ CompleteRefused
  <2>1. /\ put' = Idle /\ UNCHANGED <<cur, partSize, marked, uploads, obj, worker>>
        /\ row' = row \/ row' = NoRow
    BY <1>6 DEF Fail, TooMany, Mismatch, GiveUp, CompleteRefused, Fails
  <2>2. \A w \in Workers : worker[w] = 0
    <3>1. put.pc # "send" \/ Busy = {}
      BY <1>6 DEF Fail, TooMany, Mismatch, GiveUp, CompleteRefused
    <3> QED BY <3>1 DEF PutInv, WorkersOK, Busy
  <2> QED BY <1>2, <2>1, <2>2
<1> QED BY <1>3, <1>4, <1>5, <1>6

(* The upload is made and its row committed before anything is sent. *)
LEMMA CreationStep ==
  ASSUME PutInv, Create \/ Persist
  PROVE  PutInv'
<1>1. TypeOK /\ PartsAreSlices
  BY DEF PutInv
<1>2. put \in Calls /\ uploads \in [Ids -> [st : States, parts : Parts]]
  BY <1>1 DEF TypeOK, Calls, States, Parts
<1>3. CASE Create
  <2>1. PICK i \in Ids :
          /\ uploads' = [uploads EXCEPT ![i] = Fresh]
          /\ put' = [put EXCEPT !.pc = "persist", !.id = i, !.size = partSize]
    BY <1>3 DEF Create
  <2>2. UNCHANGED <<cur, partSize, row, marked, obj, worker>> /\ put.pc = "load"
    BY <1>3 DEF Create
  <2>3. Fresh \in [st : States, parts : Parts]
        /\ \A n \in Numbers : Fresh.parts[n] = NoPart
    BY DEF Fresh, NoUpload, States, Parts
  <2>4. /\ uploads' \in [Ids -> [st : States, parts : Parts]]
        /\ uploads'[i] = Fresh /\ \A j \in Ids \ {i} : uploads'[j] = uploads[j]
    BY <1>2, <2>1, <2>3
  <2>5. PartsAreSlices'
    BY <1>1, <2>3, <2>4 DEF PartsAreSlices
  <2>6. partSize \in PartSizes
    BY <1>1 DEF TypeOK
  <2>7. put' \in Calls /\ put'.pc = "persist" /\ put'.id = i
        /\ put'.size = partSize /\ put'.ver = put.ver
    BY <1>2, <2>1, <2>6 DEF Calls
  <2>8. TypeOK'
    BY <1>1, <2>2, <2>4, <2>7 DEF TypeOK, Calls, States, Parts
  <2>9. CallOK' /\ HaveIsStored' /\ ObjectIsWhole'
    BY <2>2, <2>6, <2>7 DEF PutInv, CallOK, HaveIsStored, ObjectIsWhole, Whole
  <2>10. WorkersOK'
    BY <2>2, <2>7 DEF PutInv, WorkersOK
  <2> QED BY <2>5, <2>8, <2>9, <2>10 DEF PutInv
<1>4. CASE Persist
  <2>1. UNCHANGED <<cur, partSize, marked, obj, worker>> /\ put.pc = "persist"
    BY <1>4 DEF Persist
  <2>2. put.id \in Ids /\ put.ver \in Versions /\ put.size \in PartSizes
    BY <2>1 DEF PutInv, CallOK
  <2>3. \A w \in Workers : worker[w] = 0
    BY <2>1 DEF PutInv, WorkersOK
  <2>4. CASE /\ row' = [id |-> put.id, ver |-> put.ver, size |-> put.size]
             /\ put' = [put EXCEPT !.pc = "list"] /\ UNCHANGED uploads
    <3>1. put' \in Calls /\ put'.pc = "list" /\ put'.id = put.id
          /\ put'.size = put.size /\ put'.ver = put.ver
      BY <1>2, <2>4 DEF Calls
    <3>2. TypeOK'
      BY <1>1, <2>1, <2>2, <2>4, <3>1 DEF TypeOK, Calls
    <3>3. PartsAreSlices'
      BY <1>1, <2>4 DEF PartsAreSlices
    <3>4. CallOK' /\ HaveIsStored' /\ ObjectIsWhole'
      BY <2>1, <2>2, <2>4, <3>1
      DEF PutInv, CallOK, HaveIsStored, ObjectIsWhole, Whole
    <3>5. WorkersOK'
      BY <2>1, <2>3, <3>1 DEF WorkersOK
    <3> QED BY <3>2, <3>3, <3>4, <3>5 DEF PutInv
  <2>5. CASE /\ uploads' \in {uploads, Aborted(put.id)}
             /\ put' = Idle /\ UNCHANGED row
    <3>1. uploads' \in [Ids -> [st : States, parts : Parts]] /\ PartsAreSlices'
      <4>1. CASE UNCHANGED uploads
        BY <1>1, <1>2, <4>1 DEF PartsAreSlices
      <4>2. CASE uploads' = Aborted(put.id)
        BY <2>2, <4>2, UploadGone DEF Aborted
      <4> QED BY <2>5, <4>1, <4>2
    <3>2. put' \in Calls /\ CallOK' /\ WorkersOK' /\ HaveIsStored' /\ ObjectIsWhole'
      BY <2>1, <2>3, <2>5, CallEnds
    <3>3. TypeOK'
      BY <1>1, <2>1, <2>5, <3>1, <3>2 DEF TypeOK, Calls, States, Parts
    <3> QED BY <3>1, <3>2, <3>3 DEF PutInv
  <2> QED BY <1>4, <2>4, <2>5 DEF Persist, Fails
<1> QED BY <1>3, <1>4

(* The parts at S3 are taken over if each is the local copy's. *)
LEMMA VerifyStep ==
  ASSUME PutInv, Verify
  PROVE  PutInv'
<1>1. TypeOK /\ PartsAreSlices
  BY DEF PutInv
<1>2. put \in Calls
  BY <1>1 DEF TypeOK, Calls
<1>3. /\ UNCHANGED <<cur, partSize, row, marked, uploads, obj, worker>>
      /\ put.pc = "list" /\ Verified
      /\ put' = [put EXCEPT !.pc = "send", !.size = CutSize, !.have = Usable,
                            !.next = 1]
  BY DEF Verify
<1>4. put.id \in Ids /\ put.ver \in Versions
      /\ row.id = put.id /\ row.ver = put.ver
  BY <1>3 DEF PutInv, CallOK
<1>5. CutSize \in PartSizes \cup Numbers
  <2>1. put.size \in PartSizes \cup Numbers
    BY <1>3 DEF PutInv, CallOK
  <2> QED BY <1>4, <2>1, CutSizes DEF CutSize
<1>6. Usable \in SUBSET Numbers /\ 1 \in 0..Longest + 1
      /\ \A n \in Usable : n <= PartCount(put.ver, CutSize)
  BY Sizes DEF Usable, Listed, Held
<1>7. /\ put' \in Calls /\ put'.pc = "send" /\ put'.size = CutSize
      /\ put'.have = Usable /\ put'.next = 1
      /\ put'.ver = put.ver /\ put'.id = put.id
  <2> HIDE DEF CutSize, Usable
  <2> QED BY <1>2, <1>3, <1>5, <1>6 DEF Calls
<1>8. \A w \in Workers : worker[w] = 0
  BY <1>3 DEF PutInv, WorkersOK
<1>9. TypeOK'
  BY <1>1, <1>3, <1>7 DEF TypeOK, Calls
<1>10. PartsAreSlices'
  BY <1>1, <1>3 DEF PartsAreSlices
<1>11. CallOK' /\ ObjectIsWhole'
  BY <1>3, <1>4, <1>5, <1>7 DEF PutInv, CallOK, ObjectIsWhole, Whole
<1>12. WorkersOK'
  BY <1>3, <1>7, <1>8 DEF WorkersOK
<1>13. HaveIsStored'
  <2>1. \A n \in Usable : uploads[put.id].parts[n] = Slice(put.ver, n, CutSize)
    BY <1>3 DEF Verified
  <2>2. Total' = PartCount(put.ver, CutSize)
    BY <1>7 DEF Total
  <2> QED BY <1>3, <1>6, <1>7, <2>1, <2>2 DEF HaveIsStored
<1> QED BY <1>9, <1>10, <1>11, <1>12, <1>13 DEF PutInv

(* The call's own cut of the file. *)
LEMMA CallCuts ==
  ASSUME PutInv, put.pc \in {"list", "send", "complete"}
  PROVE  /\ put.id \in Ids /\ put.ver \in Versions
         /\ put.size \in PartSizes \cup Numbers /\ put.size \in Nat \ {0}
         /\ Total \in Numbers /\ Total \in Nat /\ 1..Total \subseteq Numbers
<1>1. /\ put.id \in Ids /\ put.ver \in Versions
      /\ put.size \in PartSizes \cup Numbers /\ put.size \in Nat \ {0}
  BY PartSizesCount DEF PutInv, CallOK
<1> QED BY <1>1, Cuts DEF Total

LEMMA FeedStep ==
  ASSUME PutInv, NEW w \in Workers, Feed(w)
  PROVE  PutInv'
<1>1. TypeOK /\ PartsAreSlices
  BY DEF PutInv
<1>2. put \in Calls /\ worker \in [Workers -> Numbers \cup {0}]
  BY <1>1 DEF TypeOK, Calls
<1>3. /\ UNCHANGED <<cur, partSize, row, marked, uploads, obj>>
      /\ put.pc = "send" /\ Missing # {}
  BY DEF Feed
<1> DEFINE n == CHOOSE m \in Missing : \A k \in Missing : m <= k
<1>4. worker' = [worker EXCEPT ![w] = n] /\ put' = [put EXCEPT !.next = n + 1]
  BY DEF Feed
<1>5. put.next \in Nat \ {0}
  BY <1>2, <1>3, Sizes DEF PutInv, WorkersOK, Calls
<1>6. Missing \subseteq 1..Total /\ Total \in Nat /\ 1..Total \subseteq Numbers
  BY <1>3, <1>5, CallCuts DEF Missing
<1>7. n \in Missing
  <2>1. Missing \subseteq Nat
    BY <1>6
  <2>2. PICK m \in Missing : \A k \in Missing : m <= k
    BY <1>3, <2>1, HasLeast
  <2> QED BY <2>2
<1> HIDE DEF n
<1>8. n \in Numbers /\ n <= Total /\ n \in Nat \ {0} /\ n + 1 \in 0..Longest + 1
      /\ n + 1 # 0
  BY <1>6, <1>7, Sizes DEF Numbers
<1>9. /\ put' \in Calls /\ put'.pc = put.pc /\ put'.size = put.size
      /\ put'.have = put.have /\ put'.next # 0
      /\ put'.ver = put.ver /\ put'.id = put.id
  BY <1>2, <1>4, <1>8 DEF Calls
<1>10. worker' \in [Workers -> Numbers \cup {0}]
       /\ \A x \in Workers : worker'[x] = IF x = w THEN n ELSE worker[x]
  BY <1>2, <1>4, <1>8
<1>11. Total' = Total
  BY <1>9 DEF Total, PartCount
<1>12. TypeOK'
  BY <1>1, <1>3, <1>9, <1>10 DEF TypeOK, Calls
<1>13. PartsAreSlices'
  BY <1>1, <1>3 DEF PartsAreSlices
<1>14. CallOK' /\ ObjectIsWhole'
  BY <1>3, <1>9 DEF PutInv, CallOK, ObjectIsWhole, Whole
<1>15. WorkersOK'
  BY <1>3, <1>8, <1>9, <1>10, <1>11 DEF PutInv, WorkersOK
<1>16. HaveIsStored'
  BY <1>3, <1>9, <1>11 DEF PutInv, HaveIsStored
<1> QED BY <1>12, <1>13, <1>14, <1>15, <1>16 DEF PutInv

LEMMA PartIsStored ==
  ASSUME PutInv, put.pc = "send", NEW w \in Workers, worker[w] # 0,
         uploads' = PartStored(w)
  PROVE  /\ uploads' \in [Ids -> [st : States, parts : Parts]]
         /\ PartsAreSlices'
         /\ \A n \in Numbers : uploads'[put.id].parts[n] =
              IF n = worker[w] THEN Slice(put.ver, n, put.size)
                               ELSE uploads[put.id].parts[n]
<1> DEFINE n == worker[w]
<1>1. n \in Numbers /\ n <= Total
  BY DEF PutInv, TypeOK, WorkersOK
<1>2. put.id \in Ids /\ put.ver \in Versions /\ put.size \in PartSizes \cup Numbers
  BY CallCuts
<1>3. uploads[put.id].parts \in Parts /\ uploads \in [Ids -> [st : States, parts : Parts]]
  BY <1>2 DEF PutInv, TypeOK, States, Parts
<1> HIDE DEF n
<1> DEFINE arrived == [uploads[put.id].parts EXCEPT ![n] = Slice(put.ver, n, put.size)]
<1>4. uploads' = With(put.id, arrived)
  BY DEF PartStored, n, With
<1>5. /\ arrived = [m \in Numbers |-> arrived[m]]
      /\ \A m \in Numbers : arrived[m] =
           IF m = n THEN Slice(put.ver, m, put.size) ELSE uploads[put.id].parts[m]
  BY <1>1, <1>3 DEF Parts
<1>6. n <= PartCount(put.ver, put.size)
  BY <1>1 DEF Total
<1> HIDE DEF arrived
<1>7. \A m \in Numbers :
        \/ arrived[m] = uploads[put.id].parts[m]
        \/ /\ m <= PartCount(put.ver, put.size)
           /\ arrived[m] = Slice(put.ver, m, put.size)
  BY <1>5, <1>6
<1>8. /\ uploads' \in [Ids -> [st : States, parts : Parts]] /\ PartsAreSlices'
      /\ uploads'[put.id].parts = arrived
  BY <1>2, <1>4, <1>5, <1>7, PartsArrive
<1> QED BY <1>5, <1>8 DEF n

(* A part has been sent, or lost: its worker is free. *)
LEMMA PartStep ==
  ASSUME PutInv, NEW w \in Workers, SendPart(w) \/ LosePart(w)
  PROVE  PutInv'
<1>1. TypeOK /\ PartsAreSlices
  BY DEF PutInv
<1>2. /\ put \in Calls /\ worker \in [Workers -> Numbers \cup {0}]
      /\ uploads \in [Ids -> [st : States, parts : Parts]]
  BY <1>1 DEF TypeOK, Calls, States, Parts
<1>3. /\ UNCHANGED <<cur, partSize, row, marked, obj>>
      /\ put.pc = "send" /\ worker[w] # 0
      /\ worker' = [worker EXCEPT ![w] = 0]
      /\ uploads' = uploads \/ uploads' = PartStored(w)
  BY DEF SendPart, LosePart
<1>4. worker[w] \in Numbers /\ worker[w] <= Total
  BY <1>2, <1>3 DEF PutInv, WorkersOK
<1>5. /\ uploads' \in [Ids -> [st : States, parts : Parts]] /\ PartsAreSlices'
      /\ \A n \in Numbers :
           \/ uploads'[put.id].parts[n] = uploads[put.id].parts[n]
           \/ uploads'[put.id].parts[n] = Slice(put.ver, n, put.size)
  <2>1. CASE uploads' = uploads
    BY <1>1, <1>2, <2>1 DEF PartsAreSlices
  <2>2. CASE uploads' = PartStored(w)
    BY <1>3, <2>2, PartIsStored
  <2> QED BY <1>3, <2>1, <2>2
<1>6. /\ put' \in Calls /\ put'.pc = "send" /\ put'.size = put.size
      /\ put'.next = put.next /\ put'.ver = put.ver /\ put'.id = put.id
      /\ put'.have \in {put.have, put.have \cup {worker[w]}}
      /\ put'.have = put.have \/ uploads' = PartStored(w)
  <2>1. CASE SendPart(w)
    <3>1. /\ put' = [put EXCEPT !.have = @ \cup {worker[w]}]
          /\ uploads' = PartStored(w)
      BY <2>1 DEF SendPart
    <3> QED BY <1>2, <1>3, <1>4, <3>1 DEF Calls
  <2>2. CASE LosePart(w)
    <3>1. put' = [put EXCEPT !.failed = TRUE]
      BY <2>2 DEF LosePart
    <3> QED BY <1>2, <1>3, <3>1 DEF Calls
  <2> QED BY <2>1, <2>2
<1>7. worker' \in [Workers -> Numbers \cup {0}]
      /\ \A x \in Workers : worker'[x] = IF x = w THEN 0 ELSE worker[x]
  BY <1>2, <1>3
<1>8. Total' = Total
  BY <1>6 DEF Total, PartCount
<1>9. TypeOK'
  BY <1>1, <1>3, <1>5, <1>6, <1>7 DEF TypeOK, Calls, States, Parts
<1>10. CallOK' /\ ObjectIsWhole'
  BY <1>3, <1>6 DEF PutInv, CallOK, ObjectIsWhole, Whole
<1>11. WorkersOK'
  BY <1>3, <1>6, <1>7, <1>8 DEF PutInv, WorkersOK
<1>12. HaveIsStored'
  <2>1. ASSUME NEW n \in put'.have
        PROVE  n <= Total /\ uploads'[put.id].parts[n] = Slice(put.ver, n, put.size)
    <3>1. CASE n \in put.have
      <4>1. n \in Numbers
        BY <1>2, <3>1 DEF Calls
      <4>2. n <= Total /\ uploads[put.id].parts[n] = Slice(put.ver, n, put.size)
        BY <1>3, <3>1 DEF PutInv, HaveIsStored
      <4> QED BY <1>5, <4>1, <4>2
    <3>2. CASE n \notin put.have
      <4>1. n = worker[w] /\ uploads' = PartStored(w)
        BY <1>6, <3>2
      <4> QED BY <1>3, <1>4, <4>1, PartIsStored
    <3> QED BY <3>1, <3>2
  <2> QED BY <1>6, <1>8, <2>1 DEF HaveIsStored
<1> QED BY <1>5, <1>9, <1>10, <1>11, <1>12 DEF PutInv

LEMMA DrainedStep ==
  ASSUME PutInv, Drained
  PROVE  PutInv'
<1>1. TypeOK /\ PartsAreSlices
  BY DEF PutInv
<1>2. put \in Calls
  BY <1>1 DEF TypeOK, Calls
<1>3. /\ UNCHANGED <<cur, partSize, row, marked, uploads, obj, worker>>
      /\ put.pc = "send" /\ Busy = {} /\ 1..Total \subseteq put.have
      /\ put' = [put EXCEPT !.pc = "complete"]
  BY DEF Drained
<1>4. /\ put' \in Calls /\ put'.pc = "complete" /\ put'.size = put.size
      /\ put'.have = put.have /\ put'.ver = put.ver /\ put'.id = put.id
  BY <1>2, <1>3 DEF Calls
<1>5. Total' = Total
  BY <1>4 DEF Total, PartCount
<1>6. TypeOK'
  BY <1>1, <1>3, <1>4 DEF TypeOK, Calls
<1>7. PartsAreSlices'
  BY <1>1, <1>3 DEF PartsAreSlices
<1>8. CallOK' /\ ObjectIsWhole'
  BY <1>3, <1>4 DEF PutInv, CallOK, ObjectIsWhole, Whole
<1>9. WorkersOK'
  BY <1>3, <1>4 DEF WorkersOK, Busy
<1>10. HaveIsStored'
  BY <1>3, <1>4, <1>5 DEF PutInv, HaveIsStored
<1> QED BY <1>6, <1>7, <1>8, <1>9, <1>10 DEF PutInv

(* What CompleteMultipartUpload joins is the version the call works on, from
   its first byte to its last. *)
LEMMA JoinedIsWhole ==
  ASSUME PutInv, put.pc = "complete"
  PROVE  Joined \in Parts /\ Whole(Joined, put.ver)
<1>1. /\ put.id \in Ids /\ put.ver \in Versions
      /\ put.size \in Nat \ {0} /\ Total \in Numbers /\ Total \in Nat
      /\ 1..Total \subseteq Numbers /\ Total = PartCount(put.ver, put.size)
  BY CallCuts DEF Total
<1>2. uploads[put.id].parts \in Parts
  BY <1>1 DEF PutInv, TypeOK, Parts
<1>3. ASSUME NEW n \in 1..Total
      PROVE  Joined[n] = Slice(put.ver, n, put.size) /\ n \in Numbers
  <2>1. n \in put.have /\ n \in Numbers /\ n <= Total
    BY <1>1 DEF PutInv, HaveIsStored
  <2>2. uploads[put.id].parts[n] = Slice(put.ver, n, put.size)
    BY <2>1 DEF PutInv, HaveIsStored
  <2> QED BY <2>1, <2>2 DEF Joined
<1>4. Joined \in Parts
  BY <1>2 DEF Joined, Parts
<1>5. ASSUME NEW n \in 1..Total
      PROVE  /\ Joined[n] # NoPart /\ Joined[n].ver = put.ver
             /\ Joined[n].from = (n - 1) * put.size
             /\ Joined[n].to = IF n = Total THEN SizeOf[put.ver] ELSE n * put.size
  BY <1>1, <1>3, Cuts
<1>6. \A n \in Numbers : Joined[n] # NoPart <=> n <= Total
  <2> SUFFICES ASSUME NEW n \in Numbers PROVE Joined[n] # NoPart <=> n <= Total
    OBVIOUS
  <2>1. n \in Nat \ {0}
    BY PartSizesCount
  <2>2. CASE n <= Total
    BY <1>1, <1>5, <2>1, <2>2
  <2>3. CASE ~(n <= Total)
    BY <2>3 DEF Joined
  <2> QED BY <2>2, <2>3
<1>7. Joined[1].from = 0 /\ Joined[Total].to = SizeOf[put.ver]
  <2>1. 1 \in 1..Total /\ Total \in 1..Total
    BY <1>1, PartSizesCount
  <2> QED BY <1>1, <1>5, <2>1
<1>8. ASSUME NEW n \in 1..Total - 1
      PROVE  Joined[n].to = Joined[n + 1].from
  <2>1. n \in 1..Total /\ n + 1 \in 1..Total /\ n # Total /\ (n + 1) - 1 = n
    BY <1>1
  <2> QED BY <1>5, <2>1
<1>9. \A n \in 1..Total : Joined[n].ver = put.ver
  BY <1>5
<1> QED
  <2> HIDE DEF Joined, Total
  <2> QED BY <1>1, <1>4, <1>6, <1>7, <1>8, <1>9 DEF Whole

LEMMA EndStep ==
  ASSUME PutInv, Complete \/ ClearRow \/ Mark
  PROVE  PutInv'
<1>1. TypeOK /\ PartsAreSlices
  BY DEF PutInv
<1>2. put \in Calls
  BY <1>1 DEF TypeOK, Calls
<1>3. \A w \in Workers : worker[w] = 0
  BY DEF Complete, ClearRow, Mark, PutInv, WorkersOK
<1>4. CASE Complete
  <2>1. /\ UNCHANGED <<cur, partSize, row, marked, worker>>
        /\ put.pc = "complete" /\ obj' = Joined
        /\ uploads' = [uploads EXCEPT ![put.id].st = "gone"]
        /\ put' = Idle \/ put' = [put EXCEPT !.pc = "clear"]
    BY <1>4 DEF Complete, Fails
  <2>2. put.id \in Ids /\ put.ver \in Versions
    BY <2>1, CallCuts
  <2>3. uploads' \in [Ids -> [st : States, parts : Parts]] /\ PartsAreSlices'
    BY <2>1, <2>2, UploadGone
  <2>4. obj' \in Parts /\ Whole(obj', put.ver)
    <3> HIDE DEF Joined
    <3> QED BY <2>1, JoinedIsWhole
  <2>5. put' \in Calls /\ CallOK' /\ WorkersOK' /\ HaveIsStored' /\ ObjectIsWhole'
    <3>1. CASE put' = Idle
      BY <1>3, <2>1, <2>2, <2>4, <3>1, CallEnds
    <3>2. CASE put' = [put EXCEPT !.pc = "clear"]
      <4>1. put' \in Calls /\ put'.pc = "clear" /\ put'.ver = put.ver
        BY <1>2, <3>2 DEF Calls
      <4>2. CallOK' /\ HaveIsStored' /\ WorkersOK'
        BY <1>3, <2>1, <2>2, <4>1 DEF CallOK, HaveIsStored, WorkersOK
      <4>3. ObjectIsWhole'
        BY <2>2, <2>4, <4>1 DEF ObjectIsWhole, Whole
      <4> QED BY <4>1, <4>2, <4>3
    <3> QED BY <2>1, <3>1, <3>2
  <2>6. TypeOK'
    BY <1>1, <2>1, <2>3, <2>4, <2>5 DEF TypeOK, Calls, States, Parts
  <2> QED BY <2>3, <2>5, <2>6 DEF PutInv
<1>5. CASE ClearRow
  <2>1. /\ UNCHANGED <<cur, partSize, marked, uploads, obj, worker>>
        /\ row' = row \/ row' = NoRow
        /\ put.pc = "clear" /\ put' = [put EXCEPT !.pc = "mark"]
    BY <1>5 DEF ClearRow
  <2>2. put' \in Calls /\ put'.pc = "mark" /\ put'.ver = put.ver
    BY <1>2, <2>1 DEF Calls
  <2>3. TypeOK'
    BY <1>1, <2>1, <2>2 DEF TypeOK, Calls
  <2>4. PartsAreSlices'
    BY <1>1, <2>1 DEF PartsAreSlices
  <2>5. WorkersOK' /\ HaveIsStored'
    BY <1>3, <2>1, <2>2 DEF WorkersOK, HaveIsStored
  <2>6. CallOK' /\ ObjectIsWhole'
    BY <2>1, <2>2 DEF PutInv, CallOK, ObjectIsWhole, Whole
  <2> QED BY <2>3, <2>4, <2>5, <2>6 DEF PutInv
<1>6. CASE Mark
  <2>1. /\ UNCHANGED <<cur, partSize, row, uploads, obj, worker>>
        /\ put.pc = "mark" /\ marked' = put.ver /\ put' = Idle
    BY <1>6 DEF Mark
  <2>2. put' \in Calls /\ CallOK' /\ WorkersOK' /\ HaveIsStored' /\ ObjectIsWhole'
    BY <1>3, <2>1, CallEnds
  <2>3. put.ver \in Versions \cup {0}
    BY <1>2 DEF Calls
  <2>4. TypeOK'
    BY <1>1, <2>1, <2>2, <2>3 DEF TypeOK, Calls
  <2>5. PartsAreSlices'
    BY <1>1, <2>1 DEF PartsAreSlices
  <2> QED BY <2>2, <2>4, <2>5 DEF PutInv
<1> QED BY <1>4, <1>5, <1>6

LEMMA NextPutInv == PutInv /\ [Next]_vars => PutInv'
<1> SUFFICES ASSUME PutInv, [Next]_vars PROVE PutInv'
  OBVIOUS
<1>1. CASE UNCHANGED vars
  <2>1. UNCHANGED <<cur, partSize, row, marked, uploads, obj, put, worker>>
    BY <1>1 DEF vars
  <2>2. TypeOK' /\ PartsAreSlices'
    BY <2>1 DEF PutInv, TypeOK, PartsAreSlices
  <2> QED BY <2>1, <2>2, CallKept DEF PutInv
<1>2. CASE Next
  <2>1. CASE Engine
    BY <2>1, AttemptStep, CreationStep, VerifyStep, FeedStep, PartStep,
       DrainedStep, EndStep DEF Engine
  <2> QED BY <1>2, <2>1, AttemptStep, EnvironmentStep DEF Next
<1> QED BY <1>1, <1>2

LEMMA PutInvariant == Spec => []PutInv
<1> QED BY InitPutInv, NextPutInv, PTL DEF Spec

(* Row, uploads, object and call have their types, however many versions, part
   sizes and workers there are. *)
THEOREM TypeCorrectness == Spec => []TypeOK
<1>1. PutInv => TypeOK
  BY DEF PutInv
<1> QED BY <1>1, PutInvariant, PTL
-----------------------------------------------------------------------------
(* The refinement of PutPromise. *)
LEMMA WholeIsHeld ==
  ASSUME NEW o, NEW v \in Versions, Whole(o, v)
  PROVE  VersionOf(o) = v /\ v # 0
<1>1. PICK count \in Numbers :
        /\ \A n \in Numbers : (o[n] # NoPart) <=> n <= count
        /\ \A n \in 1..count : o[n].ver = v
  BY DEF Whole
<1>2. 1 \in 1..count /\ 1 \in Numbers /\ 1 <= count
  BY Sizes DEF Numbers
<1>3. o # NoUpload.parts
  <2>1. o[1] # NoPart
    BY <1>1, <1>2
  <2> QED BY <1>2, <2>1 DEF NoUpload
<1>4. o[1].ver = v
  BY <1>1, <1>2
<1>5. ASSUME NEW u \in Versions, Whole(o, u) PROVE u = v
  <2>1. PICK c \in Numbers : \A n \in 1..c : o[n].ver = u
    BY <1>5 DEF Whole
  <2>2. 1 \in 1..c
    BY Sizes DEF Numbers
  <2> QED BY <1>4, <2>1, <2>2
<1>6. (CHOOSE u \in Versions : Whole(o, u)) = v
  <2> HIDE DEF Whole
  <2> QED BY <1>5
<1> QED
  <2> HIDE DEF Whole
  <2> QED BY <1>3, <1>6, Sizes DEF VersionOf

(* Two of the program's steps show: joining the parts is the promise's Put,
   marking the row its Mark.  No other step touches the object or the mark. *)
LEMMA StepKeepsPromise ==
  ASSUME PutInv, [Next]_vars
  PROVE  [Promise!Next]_<<HeldVersion, marked>>
<1>1. CASE Complete
  <2>1. put.pc = "complete" /\ obj' = Joined /\ marked' = marked
    BY <1>1 DEF Complete
  <2>2. put.ver \in Versions
    BY <2>1, CallCuts
  <2>3. Whole(obj', put.ver)
    <3> HIDE DEF Joined, Whole
    <3> QED BY <2>1, JoinedIsWhole
  <2>4. HeldVersion' \in Versions
    BY <2>2, <2>3, WholeIsHeld DEF HeldVersion
  <2> QED BY <2>1, <2>4 DEF Promise!Next, Promise!Put
<1>2. CASE Mark
  <2>1. put.pc = "mark" /\ obj' = obj /\ marked' = put.ver
    BY <1>2 DEF Mark
  <2>2. Whole(obj, put.ver) /\ put.ver \in Versions
    BY <2>1 DEF PutInv, ObjectIsWhole, CallOK
  <2>3. HeldVersion = put.ver /\ HeldVersion # 0
    BY <2>2, WholeIsHeld DEF HeldVersion
  <2>4. HeldVersion' = HeldVersion
    BY <2>1 DEF HeldVersion
  <2> QED BY <2>1, <2>3, <2>4 DEF Promise!Next, Promise!Mark
<1>3. CASE ~Complete /\ ~Mark
  <2>1. UNCHANGED <<obj, marked>>
    BY <1>3 DEF Next, vars, Engine, Fail, Reconfigure, Expire, Crash, Begin,
       DropStale, Resume, Create, Persist, TooMany, Mismatch, Verify, Feed,
       SendPart, LosePart, GiveUp, Drained, CompleteRefused, ClearRow
  <2> QED BY <2>1 DEF HeldVersion
<1> QED BY <1>1, <1>2, <1>3

(* The program implements PutPromise, whatever versions, part sizes, workers,
   failures, kills and forgotten uploads: the object is replaced by one whole
   version at a time and marked while it is there. *)
THEOREM PutsKeepTheirPromise == Spec => KeepsPutPromise
<1>1. Init => Promise!Init
  BY DEF Init, Promise!Init, HeldVersion, VersionOf
<1>2. PutInv /\ [Next]_vars => [Promise!Next]_<<HeldVersion, marked>>
  BY StepKeepsPromise
<1> QED BY <1>1, <1>2, PutInvariant, PTL DEF Spec, KeepsPutPromise, Promise!Spec
-----------------------------------------------------------------------------
(* In a step that changes what an upload holds, the index has its row before
   and after, unless the upload is only just made. *)
LEMMA PartsStep ==
  ASSUME PutInv, [Next]_vars, NEW i \in Ids,
         uploads'[i].parts # uploads[i].parts, uploads'[i] # Fresh
  PROVE  row.id = i /\ row'.id = i
<1>1. uploads \in [Ids -> [st : States, parts : Parts]]
  BY DEF PutInv, TypeOK, States, Parts
<1>2. ASSUME NEW j \in Ids, uploads' = [uploads EXCEPT ![j].st = "gone"]
      PROVE  FALSE
  BY <1>2, UploadGone
<1>3. uploads' # uploads
  OBVIOUS
<1>4. CASE Create
  BY <1>1, <1>4 DEF Create
<1>5. CASE Expire \/ DropStale \/ Persist \/ Complete
  <2>1. Expire => \E j \in Ids : uploads' = [uploads EXCEPT ![j].st = "gone"]
    BY DEF Expire
  <2>2. DropStale => row.id \in Ids /\ uploads' = [uploads EXCEPT ![row.id].st = "gone"]
    BY <1>3 DEF DropStale, Aborted, PutInv, TypeOK
  <2>3. Persist => put.id \in Ids /\ uploads' = [uploads EXCEPT ![put.id].st = "gone"]
    BY <1>3 DEF Persist, Aborted, PutInv, CallOK
  <2>4. Complete => put.id \in Ids /\ uploads' = [uploads EXCEPT ![put.id].st = "gone"]
    BY DEF Complete, PutInv, CallOK
  <2> QED BY <1>2, <1>5, <2>1, <2>2, <2>3, <2>4
<1>6. ASSUME put.pc = "send", row' = row, NEW arrived, uploads' = With(put.id, arrived)
      PROVE  row.id = i /\ row'.id = i
  <2>1. put.id = row.id /\ put.id \in Ids
    BY <1>6 DEF PutInv, CallOK
  <2>2. i = put.id
    BY <1>1, <1>6, <2>1 DEF With
  <2> QED BY <1>6, <2>1, <2>2
<1>7. CASE Crash
  <2>1. row' = row
    BY <1>7 DEF Crash
  <2>2. Busy # {} /\ \E W \in SUBSET Busy : uploads' = Arrived(W)
    BY <1>3, <1>7 DEF Crash
  <2>3. put.pc = "send"
    BY <2>2 DEF PutInv, WorkersOK, Busy
  <2>4. \E arrived : uploads' = With(put.id, arrived)
    BY <2>2 DEF Arrived, With
  <2> QED BY <1>6, <2>1, <2>3, <2>4
<1>8. ASSUME NEW w \in Workers, SendPart(w) \/ LosePart(w)
      PROVE  row.id = i /\ row'.id = i
  <2>1. put.pc = "send" /\ row' = row /\ uploads' = PartStored(w)
    BY <1>3, <1>8 DEF SendPart, LosePart
  <2>2. \E arrived : uploads' = With(put.id, arrived)
    BY <2>1 DEF PartStored, With
  <2> QED BY <1>6, <2>1, <2>2
<1>9. CASE /\ ~Create /\ ~Expire /\ ~DropStale /\ ~Persist /\ ~Complete /\ ~Crash
           /\ \A w \in Workers : ~SendPart(w) /\ ~LosePart(w)
  BY <1>3, <1>9 DEF Next, vars, Engine, Fail, Reconfigure, Begin, Resume, TooMany,
     Mismatch, Verify, Feed, GiveUp, Drained, CompleteRefused, ClearRow, Mark
<1> QED BY <1>4, <1>5, <1>7, <1>8, <1>9

(* A part only ever goes to the upload the index records. *)
THEOREM PartsGoWhereTheRowSays == Spec => PartsGoToTheRecordedUpload
<1>1. PutInv /\ [Next]_vars =>
        [\A i \in Ids : uploads'[i].parts # uploads[i].parts /\ uploads'[i] # Fresh
           => row.id = i /\ row'.id = i]_vars
  BY PartsStep
<1> QED BY <1>1, PutInvariant, PTL DEF Spec, PartsGoToTheRecordedUpload
===============================================================================
