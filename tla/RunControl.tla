----------------------------- MODULE RunControl -----------------------------
(***************************************************************************)
(* The HTTP server's run state (internal/api): handlers that start, stop,  *)
(* continue and cancel a run, save settings and install updates, and the   *)
(* goroutine that sees each run to its end, applies the settings queued    *)
(* meanwhile and uploads the index.                                        *)
(*                                                                         *)
(* A section under runMu that does not block is one step, and so is an     *)
(* atomic operation; what a handler reads in one section and uses in a     *)
(* later one is kept in its record.  The engine is BackupRun's; here it    *)
(* polls the stop flag and its context, and ends.                          *)
(***************************************************************************)
EXTENDS Naturals

CONSTANTS
  Requests,   \* the HTTP requests, each handled once
  Ops,        \* what they ask for
  MaxRuns,    \* bound on the runs started
  Modes,      \* the run modes asked for
  Configs,    \* configurations
  Config0,    \* the one at the start
  None,       \* no configuration, nobody
  Flaky,      \* whether applying, saving, installing and runs may fail
  ShutsDown   \* whether the process is asked to end

ASSUME ControlAssumption ==
  /\ Ops \subseteq {"run", "stop", "continue", "cancel", "settings", "update"}
  /\ MaxRuns \in Nat /\ Modes \subseteq {"full", "scan", "upload"}
  /\ Config0 \in Configs /\ None \notin Configs \cup Requests \cup 1..MaxRuns
  /\ Requests \cap (1..MaxRuns) = {}
  /\ {Flaky, ShutsDown} \subseteq BOOLEAN

VARIABLES
  gate,    \* operationGate: its active operations, and whether it is updating
  current, \* currentRun (0: none)
  stop, cancelReq, \* currentRunStopState and currentRunCancelReq
  applyMu, \* who holds the lock
  pending, \* pendingConfig
  conf,    \* the configuration live (deps.Config), on disk, and of the source
           \* and storage clients in use (appState)
  req,     \* the handlers
  runs,    \* the runs and their goroutines
  down,    \* shutdownCh is closed
  wish     \* what was last asked of each run's stop flag (history)

vars == <<gate, current, stop, cancelReq, applyMu, pending, conf, req, runs,
          down, wish>>
flags == <<stop, cancelReq, wish>>
RunIds == 1..MaxRuns
-----------------------------------------------------------------------------
NewRequest == [op |-> None, pc |-> "new", id |-> 0, cfg |-> None, prev |-> None]
NoRun == [pc |-> "none", mode |-> "full", comp |-> None, ctx |-> "live",
          end |-> "none", stopReq |-> FALSE, cancelReq |-> FALSE,
          cfg |-> None, synced |-> FALSE]

Init ==
  /\ gate = [active |-> 0, updating |-> FALSE]
  /\ current = 0 /\ stop = "none" /\ cancelReq = FALSE
  /\ applyMu = None /\ pending = None
  /\ conf = [live |-> Config0, disk |-> Config0, comp |-> Config0]
  /\ req = [r \in Requests |-> NewRequest]
  /\ runs = [i \in RunIds |-> NoRun] /\ down = FALSE
  /\ wish = [i \in RunIds |-> [stop |-> FALSE, cancel |-> FALSE]]

Arrives(r, op) == req[r].pc = "new" /\ op \in Ops /\ ~down
At(r, op, pc)  == req[r].op = op /\ req[r].pc = pc
Goes(r, pc)    == req' = [req EXCEPT ![r].pc = pc]
Becomes(r, new) == req' = [req EXCEPT ![r] = new]
-----------------------------------------------------------------------------
(* POST /api/runs *)

(* startOperation *)
Trigger(r) ==
  /\ Arrives(r, "run") /\ ~gate.updating
  /\ gate' = [gate EXCEPT !.active = @ + 1]
  /\ Becomes(r, [NewRequest EXCEPT !.op = "run", !.pc = "gated"])
  /\ UNCHANGED <<current, flags, applyMu, pending, conf, runs, down>>

(* Mutant of Launch: the handler ends the operation it has handed over. *)
LaunchReleasing(r) ==
  /\ At(r, "run", "gated") /\ applyMu = None /\ current = 0
  /\ \E i \in RunIds, m \in Modes :
       /\ runs[i].pc = "none" /\ \A j \in RunIds : j < i => runs[j].pc # "none"
       /\ runs' = [runs EXCEPT ![i] = [NoRun EXCEPT !.pc = "running", !.mode = m,
                                                    !.comp = conf.comp]]
       /\ current' = i
  /\ stop' = "none" /\ cancelReq' = FALSE
  /\ Goes(r, "done") /\ gate' = [gate EXCEPT !.active = @ - 1]
  /\ UNCHANGED <<applyMu, pending, conf, down, wish>>

(* Under applyMu and runMu: the engine is built with the clients in use. *)
Launch(r) ==
  /\ At(r, "run", "gated") /\ applyMu = None /\ current = 0
  /\ \E i \in RunIds, m \in Modes :
       /\ runs[i].pc = "none" /\ \A j \in RunIds : j < i => runs[j].pc # "none"
       /\ runs' = [runs EXCEPT ![i] = [NoRun EXCEPT !.pc = "running", !.mode = m,
                                                    !.comp = conf.comp]]
       /\ current' = i
  /\ stop' = "none" /\ cancelReq' = FALSE
  /\ Goes(r, "done")
  /\ UNCHANGED <<gate, applyMu, pending, conf, down, wish>>

(* Another run is active, or the engine or the run's row cannot be made. *)
Refuse(r) ==
  /\ At(r, "run", "gated") /\ applyMu = None
  /\ current # 0 \/ Flaky \/ \A i \in RunIds : runs[i].pc # "none"
  /\ gate' = [gate EXCEPT !.active = @ - 1]
  /\ Goes(r, "done")
  /\ UNCHANGED <<current, flags, applyMu, pending, conf, runs, down>>
-----------------------------------------------------------------------------
(* POST /api/runs/{id}/stop, continue and cancel: the id is checked under
   runMu, the flag changed after it is unlocked. *)

CheckId(r, op) ==
  /\ op \in {"stop", "continue", "cancel"} /\ Arrives(r, op) /\ current # 0
  /\ Becomes(r, [NewRequest EXCEPT !.op = op, !.pc = "checked", !.id = current])
  /\ UNCHANGED <<gate, current, flags, applyMu, pending, conf, runs, down>>

StopRun(r) ==
  /\ At(r, "stop", "checked")
  /\ stop' = IF stop = "none" THEN "requested" ELSE stop
  /\ wish' = [wish EXCEPT ![req[r].id].stop = TRUE]
  /\ Goes(r, "done")
  /\ UNCHANGED <<gate, current, cancelReq, applyMu, pending, conf, runs, down>>

(* Accepted unless the stop is committed, which is answered 409. *)
ContinueRun(r) ==
  /\ At(r, "continue", "checked")
  /\ stop' = IF stop = "requested" THEN "none" ELSE stop
  /\ wish' = IF stop = "committed" THEN wish
                                   ELSE [wish EXCEPT ![req[r].id].stop = FALSE]
  /\ Goes(r, "done")
  /\ UNCHANGED <<gate, current, cancelReq, applyMu, pending, conf, runs, down>>

CancelRun(r) ==
  /\ At(r, "cancel", "checked")
  /\ cancelReq' = TRUE
  /\ runs' = [runs EXCEPT ![req[r].id].ctx = "cancelled"]
  /\ wish' = [wish EXCEPT ![req[r].id].cancel = TRUE]
  /\ Goes(r, "done")
  /\ UNCHANGED <<gate, current, stop, applyMu, pending, conf, down>>
-----------------------------------------------------------------------------
(* PUT /api/settings *)

(* snapshotConfig, before the lock is taken *)
PutSettings(r) ==
  /\ Arrives(r, "settings")
  /\ \E c \in Configs :
       Becomes(r, [NewRequest EXCEPT !.op = "settings", !.pc = "snapped",
                                     !.cfg = c, !.prev = conf.live])
  /\ UNCHANGED <<gate, current, flags, applyMu, pending, conf, runs, down>>

(* Mutant of LockSettings: whether a run is active is not asked. *)
LockSettingsAnyhow(r) ==
  /\ At(r, "settings", "snapped") /\ applyMu = None
  /\ applyMu' = r
  /\ Goes(r, "apply")
  /\ UNCHANGED <<gate, current, flags, pending, conf, runs, down>>

LockSettings(r) ==
  /\ At(r, "settings", "snapped") /\ applyMu = None
  /\ applyMu' = r
  /\ Goes(r, IF current # 0 THEN "queue" ELSE "apply")
  /\ UNCHANGED <<gate, current, flags, pending, conf, runs, down>>

(* The request ends and lets go of applyMu. *)
Unlock(r) == applyMu' = None /\ Goes(r, "done")

QueueSettings(r) ==
  /\ At(r, "settings", "queue") /\ Unlock(r)
  /\ \/ conf' = [conf EXCEPT !.disk = req[r].cfg] /\ pending' = req[r].cfg
     \/ Flaky /\ UNCHANGED <<conf, pending>>
  /\ UNCHANGED <<gate, current, flags, runs, down>>

(* ApplySettings(prev, next): new clients when the two differ. *)
Swapped(prev, next) == IF prev = next THEN conf.comp ELSE next

ApplySettings(r) ==
  /\ At(r, "settings", "apply")
  /\ \/ /\ conf' = [conf EXCEPT !.comp = Swapped(req[r].prev, req[r].cfg)]
        /\ Goes(r, "save") /\ UNCHANGED applyMu
     \/ Flaky /\ Unlock(r) /\ UNCHANGED conf
  /\ UNCHANGED <<gate, current, flags, pending, runs, down>>

(* Mutant of SaveSettings: what an earlier save queued stays queued. *)
SaveSettingsKeepsQueue(r) ==
  /\ At(r, "settings", "save") /\ Unlock(r)
  /\ conf' = [conf EXCEPT !.disk = req[r].cfg, !.live = req[r].cfg]
  /\ UNCHANGED <<gate, current, flags, pending, runs, down>>

SaveSettings(r) ==
  /\ At(r, "settings", "save") /\ Unlock(r)
  /\ conf' = [conf EXCEPT !.disk = req[r].cfg, !.live = req[r].cfg]
  /\ pending' = None
  /\ UNCHANGED <<gate, current, flags, runs, down>>

(* The save fails: the clients are swapped back, if that works. *)
SaveSettingsFail(r) ==
  /\ Flaky /\ At(r, "settings", "save") /\ Unlock(r)
  /\ conf' \in {conf, [conf EXCEPT !.comp = Swapped(req[r].cfg, req[r].prev)]}
  /\ UNCHANGED <<gate, current, flags, pending, runs, down>>
-----------------------------------------------------------------------------
(* POST /api/update/install *)

BeginUpdate(r) ==
  /\ Arrives(r, "update") /\ ~gate.updating /\ gate.active = 0
  /\ gate' = [gate EXCEPT !.updating = TRUE]
  /\ Becomes(r, [NewRequest EXCEPT !.op = "update", !.pc = "installing"])
  /\ UNCHANGED <<current, flags, applyMu, pending, conf, runs, down>>

(* Once installed, the process is shut down. *)
InstallUpdate(r) ==
  /\ At(r, "update", "installing") /\ Goes(r, "done")
  /\ \/ down' = TRUE /\ UNCHANGED gate
     \/ Flaky /\ gate' = [gate EXCEPT !.updating = FALSE] /\ UNCHANGED down
  /\ UNCHANGED <<current, flags, applyMu, pending, conf, runs>>
-----------------------------------------------------------------------------
(* The goroutine of a run. *)

Working(i) == runs[i].pc \in {"running", "draining"}
Ends(i, how) == runs' = [runs EXCEPT ![i].pc = "ended", ![i].end = how]
RunGoes(i, pc) == runs' = [runs EXCEPT ![i].pc = pc]

EngineEnds(i) ==
  /\ \/ runs[i].pc = "running" /\ Ends(i, "completed")
     \/ Working(i) /\ Flaky /\ Ends(i, "failed")
     \/ Working(i) /\ runs[i].ctx = "cancelled" /\ Ends(i, "cancelled")
  /\ UNCHANGED <<gate, current, flags, applyMu, pending, conf, req, down>>

(* IsStopRequested: the pipeline drains. *)
SeeStop(i) ==
  /\ runs[i].pc = "running" /\ runs[i].mode # "scan" /\ stop # "none"
  /\ RunGoes(i, "draining")
  /\ UNCHANGED <<gate, current, flags, applyMu, pending, conf, req, down>>

(* Mutant of CommitStop: the drained run stops whatever the flag says now. *)
CommitStopAnyhow(i) ==
  /\ runs[i].pc = "draining"
  /\ stop' = "committed" /\ Ends(i, "stopped")
  /\ UNCHANGED <<gate, current, cancelReq, applyMu, pending, conf, req, down,
                 wish>>

(* TryCommitStop: the run stops, or resumes if the stop was withdrawn. *)
CommitStop(i) ==
  /\ runs[i].pc = "draining"
  /\ IF stop = "requested"
       THEN stop' = "committed" /\ Ends(i, "stopped")
       ELSE RunGoes(i, "running") /\ UNCHANGED stop
  /\ UNCHANGED <<gate, current, cancelReq, applyMu, pending, conf, req, down,
                 wish>>

ReadStop(i) ==
  /\ runs[i].pc = "ended"
  /\ runs' = [runs EXCEPT ![i].pc = "stopRead", ![i].stopReq = stop # "none"]
  /\ UNCHANGED <<gate, current, flags, applyMu, pending, conf, req, down>>

ReadCancel(i) ==
  /\ runs[i].pc = "stopRead"
  /\ runs' = [runs EXCEPT ![i].pc = "flagged", ![i].cancelReq = cancelReq]
  /\ UNCHANGED <<gate, current, flags, applyMu, pending, conf, req, down>>

(* Mutant of ClearCurrent: the operation ends with the engine. *)
ClearCurrentReleasing(i) ==
  /\ runs[i].pc = "flagged"
  /\ current' = 0 /\ RunGoes(i, "cleared")
  /\ gate' = [gate EXCEPT !.active = @ - 1]
  /\ UNCHANGED <<flags, applyMu, pending, conf, req, down>>

ClearCurrent(i) ==
  /\ runs[i].pc = "flagged"
  /\ current' = 0 /\ RunGoes(i, "cleared")
  /\ UNCHANGED <<gate, flags, applyMu, pending, conf, req, down>>

(* Mutant of DrainPending: an empty queue ends the goroutine early. *)
DrainPendingIfQueued(i) ==
  /\ runs[i].pc = "cleared" /\ applyMu = None /\ pending # None
  /\ applyMu' = i /\ pending' = None
  /\ runs' = [runs EXCEPT ![i].pc = "applying", ![i].cfg = pending]
  /\ UNCHANGED <<gate, current, flags, conf, req, down>>

DrainPending(i) ==
  /\ runs[i].pc = "cleared" /\ applyMu = None
  /\ applyMu' = i /\ pending' = None
  /\ runs' = [runs EXCEPT ![i].pc = "applying", ![i].cfg = pending]
  /\ UNCHANGED <<gate, current, flags, conf, req, down>>

(* applyPendingSettings; a failure, and a shutdown, leave it on disk only. *)
ApplyPending(i) ==
  /\ runs[i].pc = "applying" /\ applyMu' = None /\ RunGoes(i, "applied")
  /\ LET next == runs[i].cfg
     IN \/ /\ next # None /\ ~down
           /\ conf' = [conf EXCEPT !.comp = Swapped(conf.live, next),
                                   !.live = next]
        \/ /\ next = None \/ down \/ Flaky
           /\ UNCHANGED conf
  /\ UNCHANGED <<gate, current, flags, pending, req, down>>

(* Mutant of SyncsIndex: a stopped run's index is not uploaded. *)
SyncsIndexIfComplete(i) ==
  /\ runs[i].mode # "scan" /\ runs[i].end \in {"completed", "stopped"}
  /\ ~runs[i].stopReq /\ ~runs[i].cancelReq

(* maybeSyncDBToS3: reason "stop" or "complete". *)
SyncsIndex(i) ==
  /\ runs[i].mode # "scan" /\ runs[i].end \in {"completed", "stopped"}
  /\ runs[i].stopReq \/ ~runs[i].cancelReq

(* The upload is over, or skipped; operationDone *)
FinishRun(i) ==
  /\ runs[i].pc = "applied"
  /\ runs' = [runs EXCEPT ![i].pc = "done",
                          ![i].synced = SyncsIndex(i) /\ ~down]
  /\ gate' = [gate EXCEPT !.active = @ - 1]
  /\ UNCHANGED <<current, flags, applyMu, pending, conf, req, down>>

(* BeginShutdown, and Shutdown's cancel of the current run. *)
Shutdown ==
  /\ ShutsDown /\ ~down /\ down' = TRUE
  /\ UNCHANGED <<gate, current, flags, applyMu, pending, conf, req, runs>>

CancelForShutdown ==
  /\ down /\ current # 0 /\ runs[current].ctx = "live"
  /\ runs' = [runs EXCEPT ![current].ctx = "cancelled"]
  /\ UNCHANGED <<gate, current, flags, applyMu, pending, conf, req, down>>
-----------------------------------------------------------------------------
Handle(r) ==
  \/ Launch(r) \/ Refuse(r) \/ StopRun(r) \/ ContinueRun(r) \/ CancelRun(r)
  \/ LockSettings(r) \/ QueueSettings(r) \/ ApplySettings(r)
  \/ SaveSettings(r) \/ SaveSettingsFail(r) \/ InstallUpdate(r)

Arrive(r) ==
  \/ Trigger(r) \/ PutSettings(r) \/ BeginUpdate(r)
  \/ \E op \in Ops : CheckId(r, op)

RunStep(i) ==
  \/ EngineEnds(i) \/ CommitStop(i)
  \/ ReadStop(i) \/ ReadCancel(i) \/ ClearCurrent(i)
  \/ DrainPending(i) \/ ApplyPending(i) \/ FinishRun(i)

(* No handler and no run is at work: the server waits for a request. *)
Quiet ==
  /\ \A r \in Requests : req[r].pc \in {"new", "done"}
  /\ \A i \in RunIds : runs[i].pc \in {"none", "done"}
  /\ UNCHANGED vars

Next ==
  \/ \E r \in Requests : Arrive(r) \/ Handle(r)
  \/ \E i \in RunIds : RunStep(i) \/ SeeStop(i)
  \/ Shutdown \/ CancelForShutdown \/ Quiet

Spec == Init /\ [][Next]_vars

(* Handlers and goroutines are scheduled, and their calls return. *)
FairSpec ==
  /\ Spec
  /\ \A r \in Requests : WF_vars(Handle(r))
  /\ \A i \in RunIds : WF_vars(RunStep(i))
-----------------------------------------------------------------------------
(* Properties. *)

Handlers ==
  [op : Ops \cup {None}, id : {0} \cup RunIds,
   pc : {"new", "gated", "checked", "snapped", "queue", "apply", "save",
         "installing", "done"},
   cfg : Configs \cup {None}, prev : Configs \cup {None}]

Goroutines ==
  [pc : {"none", "running", "draining", "ended", "stopRead", "flagged",
         "cleared", "applying", "applied", "done"},
   mode : {"full", "scan", "upload"}, comp : Configs \cup {None},
   ctx : {"live", "cancelled"},
   end : {"none", "completed", "failed", "stopped", "cancelled"},
   stopReq : BOOLEAN, cancelReq : BOOLEAN, cfg : Configs \cup {None},
   synced : BOOLEAN]

(* Every variable is a value the server's state can take. *)
TypeOK ==
  /\ gate \in [active : Nat, updating : BOOLEAN] /\ current \in {0} \cup RunIds
  /\ stop \in {"none", "requested", "committed"} /\ cancelReq \in BOOLEAN
  /\ applyMu \in {None} \cup Requests \cup RunIds
  /\ pending \in {None} \cup Configs
  /\ conf \in [live : Configs, disk : Configs, comp : Configs]
  /\ req \in [Requests -> Handlers] /\ runs \in [RunIds -> Goroutines]
  /\ down \in BOOLEAN
  /\ wish \in [RunIds -> [stop : BOOLEAN, cancel : BOOLEAN]]

(* A run ends "stopped" only if the last accepted stop or continue for that
   very run was a stop: a continue that was answered "continuing" is never
   followed by the run's stopping (#384), nor does another run's stop count. *)
StopIsWished ==
  [][\A i \in RunIds :
       runs[i].end = "none" /\ runs'[i].end = "stopped" => wish[i].stop]_vars

(* While an engine works, the source and storage clients it was built with are
   the ones in use: nobody has swapped and closed them under it. *)
EngineKeepsClients ==
  \A i \in RunIds : Working(i) => runs[i].comp = conf.comp

(* When no save is under way or queued, and nothing failed, the settings saved
   last are live: a queued save never reverts a later one (#255). *)
SavedIsLive ==
  applyMu = None /\ pending = None /\ ~down => conf.live = conf.disk

(* The executable is replaced only when no run is working, applying settings
   or uploading the index. *)
UpdateWaits ==
  gate.updating => \A i \in RunIds : runs[i].pc \in {"none", "done"}

(* The index of a run that completed or was stopped is uploaded, unless that
   run was cancelled or the process is ending. *)
IndexIsSynced ==
  \A i \in RunIds :
    runs[i].pc = "done" /\ runs[i].mode # "scan"
      /\ runs[i].end \in {"completed", "stopped"} /\ ~wish[i].cancel /\ ~down
    => runs[i].synced

(* Once started, a run's goroutine gets to its end. *)
RunsFinish == \A i \in RunIds : runs[i].pc = "running" ~> runs[i].pc = "done"
=============================================================================
