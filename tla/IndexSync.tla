------------------------------- MODULE IndexSync -------------------------------
(***************************************************************************)
(* Where the index of a profile lives: index.db and its write-ahead log on *)
(* disk, and the copy in the profile's bucket.  A start, and a switch of   *)
(* profiles, first fetch the copy if it is newer than index.db            *)
(* (refreshDBFromS3); the end of a run uploads a snapshot (syncDBToS3).    *)
(* Uploads of two runs, switches, exits and kills overlap them.            *)
(***************************************************************************)
EXTENDS Naturals, FiniteSets

CONSTANTS
  Profiles,
  Jobs,        \* uploads that may be under way at once
  None,
  MaxCommits, MaxSwitches,
  MaxEnds,     \* exits and kills
  MaxFaults    \* calls that fail, and downloads that are cancelled

ASSUME ProfileAssumption == Profiles # {} /\ None \notin Profiles
ASSUME BoundAssumption ==
  {MaxCommits, MaxSwitches, MaxEnds, MaxFaults} \subseteq Nat

VARIABLES
  file,   \* index.db of each profile
  wal,    \* its write-ahead log: the commits it has frames of
  copy,   \* index.db in each bucket
  newer,  \* the copy's LastModified is after index.db's mtime
  live,   \* the profile that is open (appState), None while the process is down
  open,   \* the start or switch under way
  job,    \* the uploads of syncDBToS3
  made,   \* the commits made to each profile, in all (history)
  used    \* how much of each bound is used up, and what has happened

vars == <<file, wal, copy, newer, live, open, job, made, used>>
-----------------------------------------------------------------------------
Commits == 1..MaxCommits

(* A database: whose it is, what has been committed to it, and whether it is
   whole, or pages of two databases. *)
Databases == [of : Profiles, has : SUBSET Commits, whole : BOOLEAN]
NoFile    == [of |-> None, has |-> {}, whole |-> TRUE]
Fresh(p)  == [of |-> p, has |-> {}, whole |-> TRUE]

Shut   == [step |-> "none", p |-> None, part |-> NoFile]
NoJob  == [step |-> "none", db |-> NoFile, from |-> None, p |-> None]

Use(what, bound) ==
  /\ used[what] < bound
  /\ used' = [used EXCEPT ![what] = @ + 1]
Fault == Use("fault", MaxFaults)

(* What a reader of the open index sees. *)
Content(p) == [file[p] EXCEPT !.has = @ \cup wal[p]]

(* One profile is open and new. *)
First == CHOOSE p \in Profiles : TRUE

Init ==
  /\ file = [p \in Profiles |-> IF p = First THEN Fresh(p) ELSE NoFile]
  /\ wal = [p \in Profiles |-> {}]
  /\ copy = [p \in Profiles |-> NoFile]
  /\ newer = [p \in Profiles |-> FALSE]
  /\ live = First /\ open = Shut
  /\ job = [j \in Jobs |-> NoJob]
  /\ made = [p \in Profiles |-> {}]
  /\ used = [commit |-> 0, switch |-> 0, again |-> 0, exit |-> 0, kill |-> 0,
             slow |-> 0, crossed |-> 0, fault |-> 0]
-----------------------------------------------------------------------------
(* loadAppState and switchProfileTo: the copy, the file, then the new state. *)
Start(p) ==
  /\ live = None /\ open.step = "none"
  /\ open' = [Shut EXCEPT !.step = "fetch", !.p = p]
  /\ UNCHANGED <<file, wal, copy, newer, live, job, made, used>>

(* handleSwitchProfile refuses while a run is active, not while the upload that
   follows a run is; and it does not refuse the profile that is open. *)
Switch(p) ==
  /\ live # None /\ open.step = "none" /\ used.switch < MaxSwitches
  /\ used' = [used EXCEPT !.switch = @ + 1, !.again = @ + IF p = live THEN 1 ELSE 0]
  /\ open' = [Shut EXCEPT !.step = "fetch", !.p = p]
  /\ UNCHANGED <<file, wal, copy, newer, live, job, made>>

(* Mutant of RefreshNeeded: whatever the bucket has is fetched. *)
AlwaysRefresh(p) == copy[p] # NoFile

(* dbRefreshNeeded: a copy, and no file or an older one. *)
RefreshNeeded(p) == copy[p] # NoFile /\ (file[p] = NoFile \/ newer[p])

(* The download is into index.db.part.  No copy, no connection, an error half
   way or the boot page's Cancel: index.db is left alone. *)
Fetch ==
  /\ open.step = "fetch"
  /\ \/ /\ IF RefreshNeeded(open.p)
             THEN open' = [open EXCEPT !.step = "rename", !.part = copy[open.p]]
             ELSE open' = [open EXCEPT !.step = "open"]
        /\ UNCHANGED used
     \/ Fault /\ open' = [open EXCEPT !.step = "open"]
  /\ UNCHANGED <<file, wal, copy, newer, live, job, made>>

(* The rename.  A log that is there stays, and SQLite will replay its pages
   into whatever index.db it finds. *)
Rename ==
  /\ open.step = "rename"
  /\ file' = [file EXCEPT ![open.p] =
       [open.part EXCEPT !.whole = @ /\ wal[open.p] = {}]]
  /\ newer' = [newer EXCEPT ![open.p] = copy[open.p] # open.part]
  /\ open' = [open EXCEPT !.step = "open", !.part = NoFile]
  /\ UNCHANGED <<wal, copy, live, job, made, used>>

(* Mutant of Close: the process leaves without closing its index. *)
CloseNothing(Q) == UNCHANGED <<file, wal, newer>>

(* A database is closed: what is only in the log is written into index.db,
   which is the younger for it, and the log is removed. *)
Close(Q) ==
  LET behind == {q \in Q : ~(wal[q] \subseteq file[q].has)}
  IN /\ file' = [q \in Profiles |-> IF q \in Q THEN Content(q) ELSE file[q]]
     /\ wal' = [q \in Profiles |-> IF q \in Q THEN {} ELSE wal[q]]
     /\ newer' = [q \in Profiles |-> newer[q] /\ q \notin behind]

(* db.Open makes a file if there is none; appState is swapped, and a switch
   closes what was open. *)
Create ==
  /\ open.step = "open" /\ file[open.p] = NoFile
  /\ file' = [file EXCEPT ![open.p] = Fresh(open.p)]
  /\ UNCHANGED <<wal, copy, newer, live, open, job, made, used>>

(* Mutant of Swap: the state is swapped before the new index is opened. *)
SwapFirst ==
  /\ open.step = "open"
  /\ Close({live} \ {None, open.p})
  /\ live' = open.p /\ open' = Shut
  /\ UNCHANGED <<copy, job, made, used>>

Swap ==
  /\ open.step = "open" /\ file[open.p] # NoFile
  /\ Close({live} \ {None, open.p})
  /\ live' = open.p /\ open' = Shut
  /\ UNCHANGED <<copy, job, made, used>>

(* The source or the configuration cannot be opened or saved: the new index is
   closed, a switch keeps the old state, a start gives up. *)
OpenFails ==
  /\ open.step = "open" /\ file[open.p] # NoFile /\ Fault
  /\ Close({open.p} \ {live}) /\ open' = Shut
  /\ UNCHANGED <<copy, live, job, made>>
-----------------------------------------------------------------------------
(* The open index: a commit goes to the log; SQLite checkpoints when the log
   is long, and closes an idle connection, which the next query opens again. *)
Commit ==
  /\ live # None /\ Use("commit", MaxCommits)
  /\ LET c == used.commit + 1
     IN /\ wal' = [wal EXCEPT ![live] = @ \cup {c}]
        /\ made' = [made EXCEPT ![live] = @ \cup {c}]
  /\ UNCHANGED <<file, copy, newer, live, open, job>>

Checkpoint ==
  /\ live # None /\ ~(wal[live] \subseteq file[live].has)
  /\ file' = [file EXCEPT ![live] = Content(live)]
  /\ newer' = [newer EXCEPT ![live] = FALSE]
  /\ UNCHANGED <<wal, copy, live, open, job, made, used>>

IdleClose ==
  /\ live # None /\ wal[live] # {}
  /\ Close({live})
  /\ UNCHANGED <<copy, live, open, job, made, used>>
-----------------------------------------------------------------------------
(* syncDBToS3, after a run (see RunControl): a snapshot of a.db, then store and
   prefix under the lock, then the upload. *)
Snapshot(j) ==
  /\ live # None /\ job[j].step = "none"
  /\ job' = [job EXCEPT ![j] = [step |-> "look", db |-> Content(live),
                               from |-> live, p |-> None]]
  /\ UNCHANGED <<file, wal, copy, newer, live, open, made, used>>

FindStore(j) ==
  /\ job[j].step = "look"
  /\ job' = [job EXCEPT ![j].step = "put", ![j].p = live]
  /\ UNCHANGED <<file, wal, copy, newer, live, open, made, used>>

(* What an upload may do to a copy: bring what index.db has already left
   behind; bring another profile's index. *)
Slow(j)    == ~(file[job[j].p].has \subseteq job[j].db.has)
Crossed(j) == job[j].from # job[j].p

(* Mutant of Put: like the zips of a run, the index is not put over another. *)
PutIfAbsent(j) ==
  /\ job[j].step = "put"
  /\ copy' = [copy EXCEPT ![job[j].p] = IF @ = NoFile THEN job[j].db ELSE @]
  /\ newer' = [newer EXCEPT ![job[j].p] = TRUE]
  /\ job' = [job EXCEPT ![j] = NoJob]
  /\ used' = [used EXCEPT !.slow = IF Slow(j) THEN 1 ELSE @,
                         !.crossed = IF Crossed(j) THEN 1 ELSE @]
  /\ UNCHANGED <<file, wal, live, open, made>>

Put(j) ==
  /\ job[j].step = "put"
  /\ copy' = [copy EXCEPT ![job[j].p] = job[j].db]
  /\ newer' = [newer EXCEPT ![job[j].p] = TRUE]
  /\ job' = [job EXCEPT ![j] = NoJob]
  /\ used' = [used EXCEPT !.slow = IF Slow(j) THEN 1 ELSE @,
                         !.crossed = IF Crossed(j) THEN 1 ELSE @]
  /\ UNCHANGED <<file, wal, live, open, made>>

PutFails(j) ==
  /\ job[j].step # "none" /\ Fault
  /\ job' = [job EXCEPT ![j] = NoJob]
  /\ UNCHANGED <<file, wal, copy, newer, live, open, made>>
-----------------------------------------------------------------------------
(* A shutdown aborts the uploads, waits for them, and closes the index; a kill
   leaves everything as it is. *)
Ends(how) ==
  /\ used.exit + used.kill < MaxEnds
  /\ used' = [used EXCEPT ![how] = @ + 1]
Gone == live' = None /\ open' = Shut /\ job' = [j \in Jobs |-> NoJob]

Exit ==
  /\ live # None /\ open.step = "none" /\ Ends("exit")
  /\ Close({live}) /\ Gone
  /\ UNCHANGED <<copy, made>>

Kill ==
  /\ live # None \/ open.step # "none"
  /\ Ends("kill") /\ Gone
  /\ UNCHANGED <<file, wal, copy, newer, made>>
-----------------------------------------------------------------------------
OpenSteps   == Fetch \/ Rename \/ Create \/ Swap \/ OpenFails
JobSteps(j) == FindStore(j) \/ Put(j) \/ PutFails(j)

Next ==
  \/ \E p \in Profiles : Start(p) \/ Switch(p)
  \/ OpenSteps
  \/ Commit \/ Checkpoint \/ IdleClose
  \/ \E j \in Jobs : Snapshot(j) \/ JobSteps(j)
  \/ Exit \/ Kill

Spec == Init /\ [][Next]_vars

(* The process is started again, starts and switches go on, every upload ends,
   and runs, with their uploads, are scheduled for ever. *)
FairSpec ==
  /\ Spec
  /\ WF_vars(\E p \in Profiles : Start(p)) /\ WF_vars(OpenSteps)
  /\ \A j \in Jobs : WF_vars(JobSteps(j)) /\ SF_vars(Snapshot(j))
-----------------------------------------------------------------------------
Openings ==
  [step : {"none", "fetch", "rename", "open"}, p : Profiles \cup {None},
   part : Databases \cup {NoFile}]

Uploads ==
  [step : {"none", "look", "put"}, db : Databases \cup {NoFile},
   from : Profiles \cup {None}, p : Profiles \cup {None}]

Counters ==
  [{"commit", "switch", "again", "exit", "kill", "slow", "crossed", "fault"} -> Nat]

(* The files, copies and jobs have their types; what is open has a file; a job
   has a store to write to exactly while it uploads. *)
TypeOK ==
  /\ file \in [Profiles -> Databases \cup {NoFile}]
  /\ wal \in [Profiles -> SUBSET Commits]
  /\ copy \in [Profiles -> Databases \cup {NoFile}]
  /\ newer \in [Profiles -> BOOLEAN]
  /\ live \in Profiles \cup {None} /\ open \in Openings
  /\ job \in [Jobs -> Uploads] /\ used \in Counters
  /\ \A j \in Jobs : job[j].p \in Profiles <=> job[j].step = "put"
  /\ live # None => file[live] # NoFile
  /\ made \in [Profiles -> SUBSET Commits]

(* The index is never made of pages of two databases, unless the process was
   killed, or a switch fetched a copy over the index that was open. *)
WholeUnlessKilled ==
  used.kill = 0 /\ used.again = 0 =>
    \A p \in Profiles : file[p].whole /\ copy[p].whole

(* With clean exits, switches between profiles and any number of starts, no
   commit is lost to the copy that is fetched (the mtime of index.db is young
   enough), as long as no upload was outrun by a checkpoint or by a switch. *)
CleanRestartsKeepCommits ==
  used.kill = 0 /\ used.again = 0 /\ used.slow = 0 /\ used.crossed = 0 =>
    \A p \in Profiles : made[p] \subseteq Content(p).has

(* Whatever kills, lost or crossed uploads came before: in the end the copy of
   the profile that is open is what its index holds. *)
CopyCatchesUp == <>[](live # None => copy[live] = Content(live))
================================================================================
