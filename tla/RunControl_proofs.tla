-------------------------- MODULE RunControl_proofs --------------------------
(* Theorems of RunControl, for every value of its constants. *)
EXTENDS RunControl, FiniteSetTheorems, TLAPS

LEMMA Values ==
  /\ MaxRuns \in Nat /\ RunIds \subseteq Nat \ {0} /\ Config0 \in Configs
  /\ None \notin Configs /\ None \notin Requests /\ None \notin RunIds
  /\ Requests \cap RunIds = {}
  /\ NoRun \in Goroutines /\ NewRequest \in Handlers
BY ControlAssumption DEF RunIds, NoRun, NewRequest, Goroutines, Handlers

(* The operations that startOperation has counted and operationDone has not:
   triggers that wait for the locks, and runs up to the end of their goroutine. *)
Gated  == {r \in Requests : req[r].pc = "gated"}
AtWork == {i \in RunIds : runs[i].pc \notin {"none", "done"}}

Counted ==
  /\ IsFiniteSet(Gated)
  /\ gate.active = Cardinality(Gated) + Cardinality(AtWork)

(* A handler of a save knows what it saves, and what it compares that with. *)
HeldConfig ==
  \A r \in Requests : req[r].pc \in {"snapped", "queue", "apply", "save"} =>
    req[r].cfg \in Configs /\ req[r].prev \in Configs

LEMMA AtWorkFinite ==
  /\ IsFiniteSet(AtWork) /\ Cardinality(AtWork) \in Nat
<1>1. IsFiniteSet(RunIds)
  BY Values, FS_Interval DEF RunIds
<1>2. AtWork \subseteq RunIds
  BY DEF AtWork
<1>3. IsFiniteSet(AtWork)
  BY <1>1, <1>2, FS_Subset
<1> QED BY <1>3, FS_CardinalityType

LEMMA AtWorkFiniteNext == IsFiniteSet(AtWork') /\ Cardinality(AtWork') \in Nat
<1>1. IsFiniteSet(RunIds)
  BY Values, FS_Interval DEF RunIds
<1>2. AtWork' \subseteq RunIds
  BY DEF AtWork
<1>3. IsFiniteSet(AtWork')
  BY <1>1, <1>2, FS_Subset
<1> QED BY <1>3, FS_CardinalityType

(* Whoever is counted is seen by the gate. *)
LEMMA GateHeld ==
  ASSUME Counted
  PROVE  /\ gate.active \in Nat
         /\ Gated # {} \/ AtWork # {} => gate.active > 0
         /\ gate.active = 0 => AtWork = {}
<1>1. IsFiniteSet(Gated) /\ Cardinality(Gated) \in Nat
  BY FS_CardinalityType DEF Counted
<1>2. IsFiniteSet(AtWork) /\ Cardinality(AtWork) \in Nat
  BY AtWorkFinite
<1>3. /\ Cardinality(Gated) = 0 => Gated = {}
      /\ Cardinality(AtWork) = 0 => AtWork = {}
  BY <1>1, <1>2, FS_EmptySet
<1> QED BY <1>1, <1>2, <1>3 DEF Counted

LEMMA InitCounted == Init => TypeOK /\ Counted /\ HeldConfig
<1> SUFFICES ASSUME Init PROVE TypeOK /\ Counted /\ HeldConfig
  OBVIOUS
<1>1. TypeOK
  BY Values DEF Init, TypeOK
<1>2. Gated = {} /\ AtWork = {}
  BY DEF Init, Gated, AtWork, NewRequest, NoRun
<1>3. IsFiniteSet({}) /\ Cardinality({}) = 0
  BY FS_EmptySet
<1>4. HeldConfig
  BY Values, ControlAssumption DEF Init, NewRequest, HeldConfig
<1> QED BY <1>1, <1>2, <1>3, <1>4 DEF Init, Counted
-----------------------------------------------------------------------------
(* Types. *)

(* A handler or a goroutine that moves keeps its type. *)
LEMMA HandlerEdits ==
  ASSUME NEW h \in Handlers
  PROVE  \A pc \in {"queue", "apply", "save", "done"} :
           [h EXCEPT !.pc = pc] \in Handlers
BY DEF Handlers

LEMMA NewHandlers ==
  /\ [NewRequest EXCEPT !.op = "run", !.pc = "gated"] \in Handlers \/ "run" \notin Ops
  /\ [NewRequest EXCEPT !.op = "update", !.pc = "installing"] \in Handlers
       \/ "update" \notin Ops
  /\ "settings" \in Ops =>
       \A c, d \in Configs : [NewRequest EXCEPT !.op = "settings", !.pc = "snapped",
                                               !.cfg = c, !.prev = d] \in Handlers
  /\ \A op \in Ops, i \in RunIds :
       [NewRequest EXCEPT !.op = op, !.pc = "checked", !.id = i] \in Handlers
BY DEF NewRequest, Handlers

LEMMA GoroutineEdits ==
  ASSUME NEW g \in Goroutines
  PROVE  /\ \A pc \in {"running", "draining", "cleared", "applied"} :
              [g EXCEPT !.pc = pc] \in Goroutines
         /\ \A how \in {"completed", "failed", "stopped", "cancelled"} :
              [g EXCEPT !.pc = "ended", !.end = how] \in Goroutines
         /\ [g EXCEPT !.ctx = "cancelled"] \in Goroutines
         /\ \A b \in BOOLEAN :
              /\ [g EXCEPT !.pc = "stopRead", !.stopReq = b] \in Goroutines
              /\ [g EXCEPT !.pc = "flagged", !.cancelReq = b] \in Goroutines
              /\ [g EXCEPT !.pc = "done", !.synced = b] \in Goroutines
         /\ \A c \in Configs \cup {None} :
              [g EXCEPT !.pc = "applying", !.cfg = c] \in Goroutines
BY DEF Goroutines

LEMMA NewGoroutines ==
  ASSUME NEW m \in Modes, NEW c \in Configs
  PROVE  [NoRun EXCEPT !.pc = "running", !.mode = m, !.comp = c] \in Goroutines
BY ControlAssumption DEF NoRun, Goroutines

Wishes == [stop : BOOLEAN, cancel : BOOLEAN]

LEMMA WishEdits ==
  ASSUME wish \in [RunIds -> Wishes], NEW i, NEW b \in BOOLEAN
  PROVE  /\ [wish EXCEPT ![i].stop = b] \in [RunIds -> Wishes]
         /\ [wish EXCEPT ![i].cancel = b] \in [RunIds -> Wishes]
<1>1. \A j \in RunIds : /\ [wish[j] EXCEPT !.stop = b] \in Wishes
                        /\ [wish[j] EXCEPT !.cancel = b] \in Wishes
  BY DEF Wishes
<1>2. [wish EXCEPT ![i].stop = b] = [wish EXCEPT ![i] = [wish[i] EXCEPT !.stop = b]]
  OBVIOUS
<1>3. [wish EXCEPT ![i].cancel = b] = [wish EXCEPT ![i] = [wish[i] EXCEPT !.cancel = b]]
  OBVIOUS
<1> QED BY <1>1, <1>2, <1>3

LEMMA ArriveTypes ==
  ASSUME TypeOK, NEW r \in Requests, Arrive(r)
  PROVE  TypeOK'
<1>1. CASE Trigger(r)
  <2>1. req' \in [Requests -> Handlers]
    BY <1>1, NewHandlers DEF TypeOK, Trigger, Arrives, Becomes
  <2>2. gate' \in [active : Nat, updating : BOOLEAN]
    BY <1>1 DEF TypeOK, Trigger
  <2> QED BY <1>1, <2>1, <2>2 DEF TypeOK, Trigger, flags
<1>2. CASE PutSettings(r)
  <2>1. conf.live \in Configs
    BY DEF TypeOK
  <2>2. PICK c \in Configs :
          req' = [req EXCEPT ![r] = [NewRequest EXCEPT !.op = "settings", !.pc = "snapped",
                                                       !.cfg = c, !.prev = conf.live]]
    BY <1>2 DEF PutSettings, Becomes
  <2>3. [NewRequest EXCEPT !.op = "settings", !.pc = "snapped", !.cfg = c,
                           !.prev = conf.live] \in Handlers
    BY <1>2, <2>1, NewHandlers DEF PutSettings, Arrives
  <2>4. req' \in [Requests -> Handlers]
    BY <2>2, <2>3 DEF TypeOK
  <2> QED BY <1>2, <2>4 DEF TypeOK, PutSettings, flags
<1>3. CASE BeginUpdate(r)
  <2>1. req' \in [Requests -> Handlers]
    BY <1>3, NewHandlers DEF TypeOK, BeginUpdate, Arrives, Becomes
  <2>2. gate' \in [active : Nat, updating : BOOLEAN]
    BY <1>3 DEF TypeOK, BeginUpdate
  <2> QED BY <1>3, <2>1, <2>2 DEF TypeOK, BeginUpdate, flags
<1>4. ASSUME NEW op \in Ops, CheckId(r, op) PROVE TypeOK'
  <2>1. current \in RunIds
    BY <1>4 DEF TypeOK, CheckId
  <2>2. [NewRequest EXCEPT !.op = op, !.pc = "checked", !.id = current] \in Handlers
    BY <2>1, NewHandlers
  <2>3. req' \in [Requests -> Handlers]
    BY <1>4, <2>2 DEF TypeOK, CheckId, Becomes
  <2> QED BY <1>4, <2>3 DEF TypeOK, CheckId, flags
<1> QED BY <1>1, <1>2, <1>3, <1>4 DEF Arrive

LEMMA Moves ==
  ASSUME TypeOK
  PROVE  /\ \A r \in Requests, pc \in {"queue", "apply", "save", "done"} :
              Goes(r, pc) => req' \in [Requests -> Handlers]
         /\ \A i \in RunIds, pc \in {"running", "draining", "cleared", "applied"} :
              RunGoes(i, pc) => runs' \in [RunIds -> Goroutines]
         /\ \A i \in RunIds, how \in {"completed", "failed", "stopped", "cancelled"} :
              Ends(i, how) => runs' \in [RunIds -> Goroutines]
<1>1. ASSUME NEW r \in Requests, NEW pc \in {"queue", "apply", "save", "done"}, Goes(r, pc)
      PROVE  req' \in [Requests -> Handlers]
  <2>1. [req[r] EXCEPT !.pc = pc] \in Handlers
    BY HandlerEdits DEF TypeOK
  <2>2. req' = [req EXCEPT ![r] = [req[r] EXCEPT !.pc = pc]]
    BY <1>1 DEF Goes
  <2> QED BY <2>1, <2>2 DEF TypeOK
<1>2. ASSUME NEW i \in RunIds, NEW pc \in {"running", "draining", "cleared", "applied"},
             RunGoes(i, pc)
      PROVE  runs' \in [RunIds -> Goroutines]
  <2>1. [runs[i] EXCEPT !.pc = pc] \in Goroutines
    BY GoroutineEdits DEF TypeOK
  <2>2. runs' = [runs EXCEPT ![i] = [runs[i] EXCEPT !.pc = pc]]
    BY <1>2 DEF RunGoes
  <2> QED BY <2>1, <2>2 DEF TypeOK
<1>3. ASSUME NEW i \in RunIds, NEW how \in {"completed", "failed", "stopped", "cancelled"},
             Ends(i, how)
      PROVE  runs' \in [RunIds -> Goroutines]
  <2>1. [runs[i] EXCEPT !.pc = "ended", !.end = how] \in Goroutines
    BY GoroutineEdits DEF TypeOK
  <2>2. runs' = [runs EXCEPT ![i] = [runs[i] EXCEPT !.pc = "ended", !.end = how]]
    BY <1>3 DEF Ends, TypeOK
  <2> QED BY <2>1, <2>2 DEF TypeOK
<1> QED BY <1>1, <1>2, <1>3

LEMMA HandleTypes ==
  ASSUME TypeOK, Counted, HeldConfig, NEW r \in Requests, Handle(r)
  PROVE  TypeOK'
<1>1. CASE Launch(r)
  <2>1. PICK i \in RunIds, m \in Modes :
          /\ runs' = [runs EXCEPT ![i] = [NoRun EXCEPT !.pc = "running", !.mode = m,
                                                       !.comp = conf.comp]]
          /\ current' = i
    BY <1>1 DEF Launch
  <2>2. [NoRun EXCEPT !.pc = "running", !.mode = m, !.comp = conf.comp] \in Goroutines
    BY NewGoroutines DEF TypeOK
  <2>3. runs' \in [RunIds -> Goroutines]
    BY <2>1, <2>2 DEF TypeOK
  <2>4. req' \in [Requests -> Handlers]
    BY <1>1, Moves DEF Launch
  <2> QED BY <1>1, <2>1, <2>3, <2>4 DEF Launch, TypeOK
<1>2. CASE Refuse(r)
  <2>1. gate.active - 1 \in Nat
    BY <1>2, GateHeld DEF Refuse, At, Gated
  <2>2. req' \in [Requests -> Handlers]
    BY <1>2, Moves DEF Refuse
  <2> QED BY <1>2, <2>1, <2>2 DEF Refuse, TypeOK, flags
<1>3. CASE StopRun(r) \/ ContinueRun(r)
  <2>1. req' \in [Requests -> Handlers]
    BY <1>3, Moves DEF StopRun, ContinueRun
  <2>2. wish' \in [RunIds -> [stop : BOOLEAN, cancel : BOOLEAN]]
    <3>1. wish \in [RunIds -> Wishes]
      BY DEF TypeOK, Wishes
    <3>2. \/ wish' = wish
          \/ \E b \in BOOLEAN : wish' = [wish EXCEPT ![req[r].id].stop = b]
      BY <1>3 DEF StopRun, ContinueRun
    <3>3. \A b \in BOOLEAN : [wish EXCEPT ![req[r].id].stop = b] \in [RunIds -> Wishes]
      BY <3>1, WishEdits
    <3> QED BY <3>1, <3>2, <3>3 DEF Wishes
  <2> QED BY <1>3, <2>1, <2>2 DEF StopRun, ContinueRun, TypeOK
<1>4. CASE CancelRun(r)
  <2>1. req' \in [Requests -> Handlers]
    BY <1>4, Moves DEF CancelRun
  <2>2. runs' \in [RunIds -> Goroutines]
    <3>1. \A i \in RunIds : [runs[i] EXCEPT !.ctx = "cancelled"] \in Goroutines
      BY GoroutineEdits DEF TypeOK
    <3> QED BY <1>4, <3>1 DEF CancelRun, TypeOK
  <2>3. wish' \in [RunIds -> [stop : BOOLEAN, cancel : BOOLEAN]]
    BY <1>4, WishEdits DEF CancelRun, TypeOK, Wishes
  <2> QED BY <1>4, <2>1, <2>2, <2>3 DEF CancelRun, TypeOK
<1>5. CASE LockSettings(r)
  <2>1. req' \in [Requests -> Handlers]
    BY <1>5, Moves DEF LockSettings
  <2> QED BY <1>5, <2>1 DEF LockSettings, TypeOK, flags
<1>6. CASE QueueSettings(r) \/ ApplySettings(r) \/ SaveSettings(r) \/ SaveSettingsFail(r)
  <2>1. req' \in [Requests -> Handlers]
    BY <1>6, Moves DEF QueueSettings, ApplySettings, SaveSettings, SaveSettingsFail, Unlock
  <2>2. applyMu' \in {None} \cup Requests \cup RunIds
    BY <1>6 DEF QueueSettings, ApplySettings, SaveSettings, SaveSettingsFail, Unlock, TypeOK
  <2>4. conf' \in [live : Configs, disk : Configs, comp : Configs]
            /\ pending' \in Configs \cup {None}
    <3>. req[r].pc \in {"queue", "apply", "save"}
      BY <1>6 DEF QueueSettings, ApplySettings, SaveSettings, SaveSettingsFail, At
    <3>. DEFINE c == req[r].cfg  d == req[r].prev
    <3>. c \in Configs /\ d \in Configs
      BY DEF HeldConfig
    <3>. HIDE DEF c, d
    <3>1. CASE QueueSettings(r)
      BY <1>6, <3>1 DEF c, QueueSettings, TypeOK, flags
    <3>2. CASE ApplySettings(r)
      BY <1>6, <3>2 DEF c, d, ApplySettings, Swapped, TypeOK, flags
    <3>3. CASE SaveSettings(r)
      BY <1>6, <3>3 DEF c, SaveSettings, TypeOK, flags
    <3>4. CASE SaveSettingsFail(r)
      BY <1>6, <3>4 DEF c, d, SaveSettingsFail, Swapped, TypeOK, flags
    <3> QED BY <1>6, <3>1, <3>2, <3>3, <3>4
  <2> QED BY <1>6, <2>1, <2>2, <2>4
       DEF QueueSettings, ApplySettings, SaveSettings, SaveSettingsFail, TypeOK, flags
<1>7. CASE InstallUpdate(r)
  <2>1. req' \in [Requests -> Handlers]
    BY <1>7, Moves DEF InstallUpdate
  <2> QED BY <1>7, <2>1 DEF InstallUpdate, TypeOK, flags
<1> QED BY <1>1, <1>2, <1>3, <1>4, <1>5, <1>6, <1>7 DEF Handle

LEMMA RunStepTypes ==
  ASSUME TypeOK, Counted, NEW i \in RunIds, RunStep(i) \/ SeeStop(i)
  PROVE  TypeOK'
<1> DEFINE g == runs[i]
<1>. g \in Goroutines
  BY DEF TypeOK
<1>1. CASE EngineEnds(i) \/ SeeStop(i) \/ CommitStop(i)
  <2>1. runs' \in [RunIds -> Goroutines]
    BY <1>1, Moves DEF EngineEnds, SeeStop, CommitStop
  <2>2. stop' \in {"none", "requested", "committed"}
    BY <1>1 DEF EngineEnds, SeeStop, CommitStop, TypeOK, flags
  <2> QED BY <1>1, <2>1, <2>2 DEF EngineEnds, SeeStop, CommitStop, TypeOK, flags
<1>2. CASE ReadStop(i)
  <2>1. [g EXCEPT !.pc = "stopRead", !.stopReq = (stop # "none")] \in Goroutines
    BY GoroutineEdits
  <2>2. runs' \in [RunIds -> Goroutines]
    BY <1>2, <2>1 DEF ReadStop, TypeOK
  <2> QED BY <1>2, <2>2 DEF ReadStop, TypeOK, flags
<1>3. CASE ReadCancel(i)
  <2>1. [g EXCEPT !.pc = "flagged", !.cancelReq = cancelReq] \in Goroutines
    BY GoroutineEdits DEF TypeOK
  <2>2. runs' \in [RunIds -> Goroutines]
    BY <1>3, <2>1 DEF ReadCancel, TypeOK
  <2> QED BY <1>3, <2>2 DEF ReadCancel, TypeOK, flags
<1>4. CASE ClearCurrent(i)
  <2>1. runs' \in [RunIds -> Goroutines]
    BY <1>4, Moves DEF ClearCurrent
  <2> QED BY <1>4, <2>1 DEF ClearCurrent, TypeOK, flags
<1>5. CASE DrainPending(i)
  <2>1. [g EXCEPT !.pc = "applying", !.cfg = pending] \in Goroutines
    BY GoroutineEdits DEF TypeOK
  <2>2. runs' \in [RunIds -> Goroutines]
    BY <1>5, <2>1 DEF DrainPending, TypeOK
  <2> QED BY <1>5, <2>2 DEF DrainPending, TypeOK, flags
<1>6. CASE ApplyPending(i)
  <2>1. runs' \in [RunIds -> Goroutines]
    BY <1>6, Moves DEF ApplyPending
  <2>2. g.cfg \in Configs \cup {None}
    BY DEF Goroutines
  <2>3. conf' \in [live : Configs, disk : Configs, comp : Configs]
    BY <1>6, <2>2 DEF ApplyPending, Swapped, TypeOK
  <2> QED BY <1>6, <2>1, <2>3 DEF ApplyPending, TypeOK, flags
<1>7. CASE FinishRun(i)
  <2>1. gate.active - 1 \in Nat
    BY <1>7, GateHeld DEF FinishRun, AtWork
  <2>2. gate' \in [active : Nat, updating : BOOLEAN]
    BY <1>7, <2>1 DEF FinishRun, TypeOK
  <2>3. (SyncsIndex(i) /\ ~down) \in BOOLEAN
    BY DEF SyncsIndex
  <2>4. [g EXCEPT !.pc = "done", !.synced = (SyncsIndex(i) /\ ~down)] \in Goroutines
    BY <2>3, GoroutineEdits
  <2>5. runs' \in [RunIds -> Goroutines]
    BY <1>7, <2>4 DEF FinishRun, TypeOK
  <2> QED BY <1>7, <2>2, <2>5 DEF FinishRun, TypeOK, flags
<1> QED BY <1>1, <1>2, <1>3, <1>4, <1>5, <1>6, <1>7 DEF RunStep

LEMMA ServerTypes ==
  ASSUME TypeOK, Shutdown \/ CancelForShutdown \/ UNCHANGED vars
  PROVE  TypeOK'
<1>1. CASE Shutdown
  BY <1>1 DEF Shutdown, TypeOK, flags
<1>2. CASE CancelForShutdown
  <2>1. current \in RunIds /\ runs[current] \in Goroutines
    BY <1>2 DEF CancelForShutdown, TypeOK
  <2>2. [runs[current] EXCEPT !.ctx = "cancelled"] \in Goroutines
    BY <2>1, GoroutineEdits
  <2>3. runs' \in [RunIds -> Goroutines]
    BY <1>2, <2>1, <2>2 DEF CancelForShutdown, TypeOK
  <2> QED BY <1>2, <2>3 DEF CancelForShutdown, TypeOK, flags
<1>3. CASE UNCHANGED vars
  BY <1>3 DEF vars, TypeOK
<1> QED BY <1>1, <1>2, <1>3
-----------------------------------------------------------------------------
(* The gate's count. *)

LEMMA SameCount ==
  ASSUME Counted, Gated' = Gated, AtWork' = AtWork, gate'.active = gate.active
  PROVE  Counted'
BY DEF Counted

LEMMA HandlerCounted ==
  ASSUME TypeOK, Counted, NEW r \in Requests, Arrive(r) \/ Handle(r)
  PROVE  Counted'
<1>1. IsFiniteSet(Gated) /\ IsFiniteSet(AtWork)
  BY AtWorkFinite DEF Counted
<1>2. CASE Trigger(r)
  <2>1. r \notin Gated /\ Gated' = Gated \cup {r} /\ AtWork' = AtWork
    BY <1>2 DEF Trigger, Arrives, Becomes, Gated, AtWork, TypeOK, NewRequest
  <2>2. /\ IsFiniteSet(Gated \cup {r})
        /\ Cardinality(Gated \cup {r}) = Cardinality(Gated) + 1
    BY <1>1, <2>1, FS_AddElement
  <2>3. gate'.active = gate.active + 1
    BY <1>2 DEF Trigger, TypeOK
  <2>4. Cardinality(Gated) \in Nat /\ Cardinality(AtWork) \in Nat
    BY <1>1, FS_CardinalityType
  <2> QED BY <2>1, <2>2, <2>3, <2>4 DEF Counted
<1>3. CASE Launch(r)
  <2>1. PICK i \in RunIds, m \in Modes :
          /\ runs[i].pc = "none"
          /\ runs' = [runs EXCEPT ![i] = [NoRun EXCEPT !.pc = "running", !.mode = m,
                                                       !.comp = conf.comp]]
    BY <1>3 DEF Launch
  <2>2. r \in Gated /\ Gated' = Gated \ {r}
    BY <1>3 DEF Launch, At, Goes, Gated, TypeOK, Handlers
  <2>3. i \notin AtWork /\ AtWork' = AtWork \cup {i}
    BY <2>1 DEF AtWork, TypeOK, NoRun
  <2>4. /\ IsFiniteSet(Gated \ {r})
        /\ Cardinality(Gated \ {r}) = Cardinality(Gated) - 1
    BY <1>1, <2>2, FS_RemoveElement
  <2>5. Cardinality(AtWork \cup {i}) = Cardinality(AtWork) + 1
    BY <1>1, <2>3, FS_AddElement
  <2>6. Cardinality(Gated) \in Nat /\ Cardinality(AtWork) \in Nat
    BY <1>1, FS_CardinalityType
  <2>7. gate' = gate
    BY <1>3 DEF Launch
  <2> QED BY <2>2, <2>3, <2>4, <2>5, <2>6, <2>7 DEF Counted
<1>4. CASE Refuse(r)
  <2>1. r \in Gated /\ Gated' = Gated \ {r} /\ AtWork' = AtWork
    BY <1>4 DEF Refuse, At, Goes, Gated, AtWork, TypeOK, Handlers
  <2>2. /\ IsFiniteSet(Gated \ {r})
        /\ Cardinality(Gated \ {r}) = Cardinality(Gated) - 1
    BY <1>1, <2>1, FS_RemoveElement
  <2>3. gate'.active = gate.active - 1
    BY <1>4 DEF Refuse, TypeOK
  <2>4. Cardinality(Gated) \in Nat /\ Cardinality(AtWork) \in Nat
    BY <1>1, FS_CardinalityType
  <2> QED BY <2>1, <2>2, <2>3, <2>4 DEF Counted
<1>5. ASSUME PutSettings(r) \/ BeginUpdate(r) \/ \E op \in Ops : CheckId(r, op)
      PROVE  Counted'
  <2>1. Gated' = Gated
    <3>1. \E h : h.pc # "gated" /\ req' = [req EXCEPT ![r] = h]
      <4>1. CASE PutSettings(r)
        BY <4>1 DEF PutSettings, Becomes, NewRequest
      <4>2. CASE BeginUpdate(r)
        BY <4>2 DEF BeginUpdate, Becomes, NewRequest
      <4>3. ASSUME NEW op \in Ops, CheckId(r, op)
            PROVE  \E h : h.pc # "gated" /\ req' = [req EXCEPT ![r] = h]
        BY <4>3 DEF CheckId, Becomes, NewRequest
      <4> QED BY <1>5, <4>1, <4>2, <4>3
    <3>2. req[r].pc = "new"
      BY <1>5 DEF PutSettings, BeginUpdate, CheckId, Arrives
    <3> QED BY <3>1, <3>2 DEF Gated, TypeOK
  <2>2. AtWork' = AtWork /\ gate'.active = gate.active
    BY <1>5 DEF PutSettings, BeginUpdate, CheckId, AtWork, TypeOK
  <2> QED BY <2>1, <2>2, SameCount
<1>6. ASSUME \/ StopRun(r) \/ ContinueRun(r) \/ LockSettings(r) \/ QueueSettings(r)
             \/ ApplySettings(r) \/ SaveSettings(r) \/ SaveSettingsFail(r)
             \/ InstallUpdate(r)
      PROVE  Counted'
  <2>1. req[r].pc # "gated"
    BY <1>6 DEF StopRun, ContinueRun, LockSettings, QueueSettings, ApplySettings,
                SaveSettings, SaveSettingsFail, InstallUpdate, At
  <2>2. \E pc \in {"queue", "apply", "save", "done"} : Goes(r, pc)
    BY <1>6 DEF StopRun, ContinueRun, LockSettings, QueueSettings, ApplySettings,
                SaveSettings, SaveSettingsFail, InstallUpdate, Unlock
  <2>3. Gated' = Gated
    BY <2>1, <2>2 DEF Goes, Gated, TypeOK, Handlers
  <2>4. AtWork' = AtWork /\ gate'.active = gate.active
    BY <1>6 DEF StopRun, ContinueRun, LockSettings, QueueSettings, ApplySettings,
                SaveSettings, SaveSettingsFail, InstallUpdate, AtWork, TypeOK
  <2> QED BY <2>3, <2>4, SameCount
<1>7. CASE CancelRun(r)
  <2>1. Gated' = Gated
    BY <1>7 DEF CancelRun, At, Goes, Gated, TypeOK, Handlers
  <2>2. AtWork' = AtWork /\ gate' = gate
    BY <1>7 DEF CancelRun, AtWork, TypeOK, Goroutines
  <2> QED BY <2>1, <2>2, SameCount
<1> QED BY <1>2, <1>3, <1>4, <1>5, <1>6, <1>7 DEF Arrive, Handle

LEMMA RunCounted ==
  ASSUME TypeOK, Counted, NEW i \in RunIds, RunStep(i) \/ SeeStop(i)
  PROVE  Counted'
<1>1. Gated' = Gated
  BY DEF RunStep, SeeStop, EngineEnds, CommitStop, ReadStop, ReadCancel, ClearCurrent,
         DrainPending, ApplyPending, FinishRun, Gated
<1>2. CASE FinishRun(i)
  <2>1. i \in AtWork /\ AtWork' = AtWork \ {i}
    BY <1>2 DEF FinishRun, AtWork, TypeOK, Goroutines
  <2>2. Cardinality(AtWork \ {i}) = Cardinality(AtWork) - 1
    BY <2>1, AtWorkFinite, FS_RemoveElement
  <2>3. gate'.active = gate.active - 1
    BY <1>2 DEF FinishRun, TypeOK
  <2>4. Cardinality(Gated) \in Nat /\ Cardinality(AtWork) \in Nat
    BY AtWorkFinite, FS_CardinalityType DEF Counted
  <2> QED BY <1>1, <2>1, <2>2, <2>3, <2>4 DEF Counted
<1>3. CASE ~FinishRun(i)
  <2>1. /\ runs[i].pc \notin {"none", "done"} /\ gate' = gate
        /\ \E g \in Goroutines : /\ g.pc \notin {"none", "done"}
                                 /\ runs' = [runs EXCEPT ![i] = g]
    <3>1. runs[i] \in Goroutines
      BY DEF TypeOK
    <3>2. CASE EngineEnds(i) \/ CommitStop(i) \/ SeeStop(i)
      BY <3>1, <3>2 DEF EngineEnds, CommitStop, SeeStop, Working, Ends, RunGoes, Goroutines
    <3>3. CASE ReadStop(i) \/ ReadCancel(i)
      BY <3>1, <3>3 DEF ReadStop, ReadCancel, Goroutines, TypeOK
    <3>4. CASE ClearCurrent(i) \/ ApplyPending(i)
      BY <3>1, <3>4 DEF ClearCurrent, ApplyPending, RunGoes, Goroutines
    <3>5. CASE DrainPending(i)
      <4>1. [runs[i] EXCEPT !.pc = "applying", !.cfg = pending] \in Goroutines
        BY <3>1, GoroutineEdits DEF TypeOK
      <4>2. [runs[i] EXCEPT !.pc = "applying", !.cfg = pending].pc = "applying"
        BY <3>1 DEF Goroutines
      <4> QED BY <3>5, <4>1, <4>2 DEF DrainPending
    <3> QED BY <1>3, <3>2, <3>3, <3>4, <3>5 DEF RunStep
  <2>2. AtWork' = AtWork
    BY <2>1 DEF AtWork, TypeOK
  <2> QED BY <1>1, <2>1, <2>2, SameCount
<1> QED BY <1>2, <1>3

LEMMA ServerCounted ==
  ASSUME TypeOK, Counted, Shutdown \/ CancelForShutdown \/ UNCHANGED vars
  PROVE  Counted'
<1>1. Gated' = Gated /\ gate' = gate
  BY DEF Shutdown, CancelForShutdown, vars, Gated
<1>2. AtWork' = AtWork
  BY DEF Shutdown, CancelForShutdown, vars, AtWork, TypeOK, Goroutines
<1> QED BY <1>1, <1>2, SameCount
LEMMA HeldConfigStep ==
  ASSUME TypeOK, HeldConfig, Next \/ UNCHANGED vars
  PROVE  HeldConfig'
<1>1. ASSUME NEW r \in Requests, Arrive(r) \/ Handle(r) PROVE HeldConfig'
  <2>1. CASE PutSettings(r)
    BY <2>1 DEF PutSettings, Becomes, HeldConfig, TypeOK, NewRequest
  <2>2. ASSUME Trigger(r) \/ BeginUpdate(r) \/ \E op \in Ops : CheckId(r, op)
        PROVE  HeldConfig'
    <3>1. \E h : /\ h.pc \notin {"snapped", "queue", "apply", "save"}
                 /\ req' = [req EXCEPT ![r] = h]
      <4>1. CASE Trigger(r)
        BY <4>1 DEF Trigger, Becomes, NewRequest
      <4>2. CASE BeginUpdate(r)
        BY <4>2 DEF BeginUpdate, Becomes, NewRequest
      <4>3. ASSUME NEW op \in Ops, CheckId(r, op)
            PROVE  \E h : /\ h.pc \notin {"snapped", "queue", "apply", "save"}
                          /\ req' = [req EXCEPT ![r] = h]
        BY <4>3 DEF CheckId, Becomes, NewRequest
      <4> QED BY <2>2, <4>1, <4>2, <4>3
    <3> QED BY <3>1 DEF HeldConfig, TypeOK
  <2>3. CASE Launch(r) \/ Refuse(r) \/ StopRun(r) \/ ContinueRun(r) \/ CancelRun(r)
             \/ QueueSettings(r) \/ SaveSettings(r) \/ SaveSettingsFail(r)
             \/ InstallUpdate(r)
    <3>1. Goes(r, "done")
      BY <2>3 DEF Launch, Refuse, StopRun, ContinueRun, CancelRun, QueueSettings,
                  SaveSettings, SaveSettingsFail, InstallUpdate, Unlock
    <3> QED BY <3>1 DEF Goes, HeldConfig, TypeOK, Handlers
  <2>4. CASE LockSettings(r) \/ ApplySettings(r)
    <3>1. /\ req[r].pc \in {"snapped", "queue", "apply", "save"}
          /\ \E pc \in {"queue", "apply", "save", "done"} : Goes(r, pc)
      BY <2>4 DEF LockSettings, ApplySettings, At, Unlock
    <3> QED BY <3>1 DEF Goes, HeldConfig, TypeOK, Handlers
  <2> QED BY <1>1, <2>1, <2>2, <2>3, <2>4 DEF Arrive, Handle
<1>2. ASSUME \/ \E i \in RunIds : RunStep(i) \/ SeeStop(i)
             \/ Shutdown \/ CancelForShutdown \/ UNCHANGED vars
      PROVE  HeldConfig'
  <2>1. req' = req
    BY <1>2 DEF RunStep, SeeStop, EngineEnds, CommitStop, ReadStop, ReadCancel,
                ClearCurrent, DrainPending, ApplyPending, FinishRun, Shutdown,
                CancelForShutdown, vars
  <2> QED BY <2>1 DEF HeldConfig
<1> QED BY <1>1, <1>2 DEF Next, Quiet

CountInv == TypeOK /\ Counted /\ HeldConfig

LEMMA CountStep == CountInv /\ [Next]_vars => CountInv'
<1> SUFFICES ASSUME CountInv, Next \/ UNCHANGED vars PROVE CountInv'
  OBVIOUS
<1>. TypeOK /\ Counted /\ HeldConfig
  BY DEF CountInv
<1>1. HeldConfig'
  BY HeldConfigStep
<1>2. ASSUME NEW r \in Requests, Arrive(r) \/ Handle(r) PROVE TypeOK' /\ Counted'
  BY <1>2, ArriveTypes, HandleTypes, HandlerCounted
<1>3. ASSUME NEW i \in RunIds, RunStep(i) \/ SeeStop(i) PROVE TypeOK' /\ Counted'
  BY <1>3, RunStepTypes, RunCounted
<1>4. CASE Shutdown \/ CancelForShutdown \/ UNCHANGED vars
  BY <1>1, <1>4, ServerTypes, ServerCounted DEF CountInv
<1> QED BY <1>1, <1>2, <1>3, <1>4 DEF Next, Quiet, CountInv

LEMMA CountInvariance == Spec => []CountInv
<1>1. Init => CountInv
  BY InitCounted DEF CountInv
<1> QED BY <1>1, CountStep, PTL DEF Spec

(* For any number of requests and runs, the server's state keeps its types;
   above all, the gate's count never falls below zero. *)
THEOREM TypeCorrectness == Spec => []TypeOK
<1>1. CountInv => TypeOK
  BY DEF CountInv
<1> QED BY <1>1, CountInvariance, PTL
-----------------------------------------------------------------------------
(* Updates. *)

UpdateInv == gate.updating => gate.active = 0

LEMMA UpdateStep == CountInv /\ UpdateInv /\ [Next]_vars => UpdateInv'
<1> SUFFICES ASSUME CountInv, UpdateInv, Next \/ UNCHANGED vars PROVE UpdateInv'
  OBVIOUS
<1>. gate \in [active : Nat, updating : BOOLEAN]
  BY DEF CountInv, TypeOK
<1>1. ASSUME NEW r \in Requests, Arrive(r) PROVE UpdateInv'
  BY <1>1 DEF Arrive, Trigger, PutSettings, BeginUpdate, CheckId, UpdateInv
<1>2. ASSUME NEW r \in Requests, Handle(r) PROVE UpdateInv'
  <2>1. CASE Refuse(r)
    <3>1. gate.active > 0
      BY <2>1, GateHeld DEF CountInv, Refuse, At, Gated
    <3> QED BY <2>1, <3>1 DEF Refuse, UpdateInv
  <2>2. CASE ~Refuse(r)
    BY <1>2, <2>2 DEF Handle, Launch, StopRun, ContinueRun, CancelRun, LockSettings,
       QueueSettings, ApplySettings, SaveSettings, SaveSettingsFail, InstallUpdate, UpdateInv
  <2> QED BY <2>1, <2>2
<1>3. ASSUME NEW i \in RunIds, RunStep(i) \/ SeeStop(i) PROVE UpdateInv'
  <2>1. CASE FinishRun(i)
    <3>1. gate.active > 0
      BY <2>1, GateHeld DEF CountInv, FinishRun, AtWork
    <3> QED BY <2>1, <3>1 DEF FinishRun, UpdateInv
  <2>2. CASE ~FinishRun(i)
    BY <1>3, <2>2 DEF RunStep, SeeStop, EngineEnds, CommitStop, ReadStop, ReadCancel,
       ClearCurrent, DrainPending, ApplyPending, UpdateInv
  <2> QED BY <2>1, <2>2
<1>4. CASE Shutdown \/ CancelForShutdown \/ UNCHANGED vars
  BY <1>4 DEF Shutdown, CancelForShutdown, vars, UpdateInv
<1> QED BY <1>1, <1>2, <1>3, <1>4 DEF Next, Quiet

(* For any number of requests and runs: the executable is not replaced while a
   run works, applies the settings queued during it or uploads the index. *)
THEOREM UpdatesWait == Spec => []UpdateWaits
<1>1. Init => UpdateInv
  BY DEF Init, UpdateInv
<1>2. CountInv /\ UpdateInv => UpdateWaits
  BY GateHeld DEF CountInv, UpdateInv, UpdateWaits, AtWork
<1> QED BY <1>1, <1>2, CountInvariance, UpdateStep, PTL DEF Spec
-----------------------------------------------------------------------------
(* Settings. *)

(* Whoever is in a section of applyMu holds it. *)
Inside == {"queue", "apply", "save"}
Locks ==
  /\ \A r \in Requests : req[r].pc \in Inside => applyMu = r
  /\ \A i \in RunIds : runs[i].pc = "applying" => applyMu = i

(* When no call fails, what is on disk is queued, in the hands of a run's goroutine, or live. *)
Applying == {i \in RunIds : runs[i].pc = "applying" /\ runs[i].cfg # None}
Saved ==
  ~down /\ ~Flaky =>
    /\ pending # None => pending = conf.disk
    /\ \A i \in Applying : runs[i].cfg = conf.disk
    /\ pending = None /\ Applying = {} => conf.live = conf.disk

SaveInv == CountInv /\ Locks /\ Saved

(* Steps outside the sections. *)
LEMMA OutsideStep ==
  ASSUME SaveInv, UNCHANGED <<conf, pending, applyMu>>, down => down',
         \A r \in Requests : req'[r].pc \in Inside => req[r].pc \in Inside,
         \A i \in RunIds : /\ runs'[i].pc = "applying" <=> runs[i].pc = "applying"
                           /\ runs'[i].cfg = runs[i].cfg \/ runs'[i].pc # "applying"
  PROVE  Locks' /\ Saved'
<1>1. Locks'
  BY DEF SaveInv, Locks
<1>2. Applying' = Applying /\ \A i \in Applying : runs'[i].cfg = runs[i].cfg
  BY DEF Applying
<1> QED BY <1>1, <1>2 DEF SaveInv, Saved

LEMMA HandlerSaves ==
  ASSUME SaveInv, NEW r \in Requests, Arrive(r) \/ Handle(r)
  PROVE  Locks' /\ Saved'
<1>. TypeOK /\ Counted /\ HeldConfig /\ Locks /\ Saved
  BY DEF SaveInv, CountInv
<1>1. ASSUME Arrive(r) PROVE Locks' /\ Saved'
  <2>1. \E h : h.pc \notin Inside /\ req' = [req EXCEPT ![r] = h]
    <3>1. CASE Trigger(r)
      BY <3>1 DEF Trigger, Becomes, NewRequest, Inside
    <3>2. CASE PutSettings(r)
      BY <3>2 DEF PutSettings, Becomes, NewRequest, Inside
    <3>3. CASE BeginUpdate(r)
      BY <3>3 DEF BeginUpdate, Becomes, NewRequest, Inside
    <3>4. ASSUME NEW op \in Ops, CheckId(r, op)
          PROVE  \E h : h.pc \notin Inside /\ req' = [req EXCEPT ![r] = h]
      BY <3>4 DEF CheckId, Becomes, NewRequest, Inside
    <3> QED BY <1>1, <3>1, <3>2, <3>3, <3>4 DEF Arrive
  <2>2. UNCHANGED <<conf, pending, applyMu, down, runs>>
    BY <1>1 DEF Arrive, Trigger, PutSettings, BeginUpdate, CheckId
  <2>3. \A q \in Requests : req'[q].pc \in Inside => req[q].pc \in Inside
    BY <2>1 DEF TypeOK
  <2> QED BY <2>2, <2>3, OutsideStep
<1>2. CASE Launch(r)
  <2>1. PICK i \in RunIds, m \in Modes :
          /\ runs[i].pc = "none"
          /\ runs' = [runs EXCEPT ![i] = [NoRun EXCEPT !.pc = "running", !.mode = m,
                                                       !.comp = conf.comp]]
    BY <1>2 DEF Launch
  <2>2. UNCHANGED <<conf, pending, applyMu, down>>
    BY <1>2 DEF Launch
  <2>3. \A q \in Requests : req'[q].pc \in Inside => req[q].pc \in Inside
    BY <1>2 DEF Launch, Goes, TypeOK, Handlers, Inside
  <2>4. \A j \in RunIds : /\ runs'[j].pc = "applying" <=> runs[j].pc = "applying"
                          /\ runs'[j].cfg = runs[j].cfg \/ runs'[j].pc # "applying"
    BY <2>1 DEF TypeOK, NoRun
  <2> QED BY <2>2, <2>3, <2>4, OutsideStep
<1>3. CASE Refuse(r) \/ StopRun(r) \/ ContinueRun(r) \/ InstallUpdate(r) \/ CancelRun(r)
  <2>1. UNCHANGED <<conf, pending, applyMu>> /\ (down => down')
    BY <1>3 DEF Refuse, StopRun, ContinueRun, InstallUpdate, CancelRun
  <2>2. \A q \in Requests : req'[q].pc \in Inside => req[q].pc \in Inside
    BY <1>3 DEF Refuse, StopRun, ContinueRun, InstallUpdate, CancelRun, Goes, TypeOK,
                Handlers, Inside
  <2>3. \A j \in RunIds : runs'[j].pc = runs[j].pc /\ runs'[j].cfg = runs[j].cfg
    BY <1>3 DEF Refuse, StopRun, ContinueRun, InstallUpdate, CancelRun, TypeOK, Goroutines
  <2> QED BY <2>1, <2>2, <2>3, OutsideStep
<1>4. CASE LockSettings(r)
  <2>1. \A i \in RunIds : runs[i].pc # "applying"
    BY <1>4, Values DEF LockSettings, Locks
  <2>2. \A q \in Requests : q # r => req'[q] = req[q] /\ req[q].pc \notin Inside
    BY <1>4, Values DEF LockSettings, Locks, Goes, TypeOK
  <2>3. Locks'
    BY <1>4, <2>1, <2>2 DEF LockSettings, Locks
  <2>4. Applying' = Applying
    BY <1>4 DEF LockSettings, Applying
  <2> QED BY <1>4, <2>3, <2>4 DEF LockSettings, Saved, Applying
<1>5. CASE QueueSettings(r) \/ ApplySettings(r) \/ SaveSettings(r) \/ SaveSettingsFail(r)
  <2>1. req[r].pc \in Inside /\ applyMu = r /\ req[r].cfg \in Configs
    BY <1>5 DEF QueueSettings, ApplySettings, SaveSettings, SaveSettingsFail, At,
       Locks, Inside, HeldConfig
  <2>2. \A i \in RunIds : runs[i].pc # "applying"
    BY <2>1, Values DEF Locks
  <2>3. \A q \in Requests \ {r} : req[q].pc \notin Inside
    BY <2>1 DEF Locks
  <2>4. runs' = runs /\ down' = down
    BY <1>5 DEF QueueSettings, ApplySettings, SaveSettings, SaveSettingsFail
  <2>5. Applying = {} /\ Applying' = {}
    BY <2>2, <2>4 DEF Applying
  <2>6. Locks'
    <3>1. \/ Goes(r, "save") /\ applyMu' = applyMu
          \/ Goes(r, "done")
      BY <1>5 DEF QueueSettings, ApplySettings, SaveSettings, SaveSettingsFail, Unlock
    <3>2. \A q \in Requests \ {r} : req'[q] = req[q]
      BY <3>1 DEF Goes, TypeOK
    <3>3. \/ applyMu' = r
          \/ req'[r].pc \notin Inside
      BY <2>1, <3>1 DEF Goes, TypeOK, Handlers, Inside
    <3> QED BY <2>2, <2>3, <2>4, <3>2, <3>3 DEF Locks
  <2>7. Saved'
    <3>1. CASE QueueSettings(r)
      BY <3>1, <2>1, <2>4, <2>5, Values DEF QueueSettings, Saved, TypeOK
    <3>2. CASE ApplySettings(r)
      BY <3>2, <2>4, <2>5 DEF ApplySettings, Saved, TypeOK
    <3>3. CASE SaveSettings(r)
      BY <3>3, <2>4, <2>5 DEF SaveSettings, Saved, TypeOK
    <3>4. CASE SaveSettingsFail(r)
      BY <3>4 DEF SaveSettingsFail, Saved
    <3> QED BY <1>5, <3>1, <3>2, <3>3, <3>4
  <2> QED BY <2>6, <2>7
<1> QED BY <1>1, <1>2, <1>3, <1>4, <1>5 DEF Handle

LEMMA RunSaves ==
  ASSUME SaveInv, NEW i \in RunIds, RunStep(i) \/ SeeStop(i)
  PROVE  Locks' /\ Saved'
<1>. TypeOK /\ Counted /\ HeldConfig /\ Locks /\ Saved
  BY DEF SaveInv, CountInv
<1>1. CASE \/ EngineEnds(i) \/ SeeStop(i) \/ CommitStop(i) \/ ReadStop(i)
           \/ ReadCancel(i) \/ ClearCurrent(i) \/ FinishRun(i)
  <2>1. UNCHANGED <<conf, pending, applyMu, req, down>>
    BY <1>1 DEF EngineEnds, SeeStop, CommitStop, ReadStop, ReadCancel, ClearCurrent, FinishRun
  <2>2. \A j \in RunIds : /\ runs'[j].pc = "applying" <=> runs[j].pc = "applying"
                          /\ runs'[j].cfg = runs[j].cfg \/ runs'[j].pc # "applying"
    <3>1. runs[i].pc # "applying"
      BY <1>1 DEF EngineEnds, SeeStop, CommitStop, ReadStop, ReadCancel, ClearCurrent,
                  FinishRun, Working
    <3>2. \A j \in RunIds \ {i} : runs'[j] = runs[j]
      BY <1>1 DEF EngineEnds, SeeStop, CommitStop, ReadStop, ReadCancel, ClearCurrent,
                  FinishRun, Ends, RunGoes, TypeOK
    <3>3. runs'[i].pc # "applying"
      <4>1. runs[i] \in Goroutines
        BY DEF TypeOK
      <4>2. CASE EngineEnds(i) \/ SeeStop(i) \/ CommitStop(i) \/ ClearCurrent(i)
        BY <4>1, <4>2 DEF EngineEnds, SeeStop, CommitStop, ClearCurrent, Ends, RunGoes,
                          TypeOK, Goroutines
      <4>3. CASE ReadStop(i) \/ ReadCancel(i) \/ FinishRun(i)
        BY <4>1, <4>3 DEF ReadStop, ReadCancel, FinishRun, TypeOK, Goroutines
      <4> QED BY <1>1, <4>2, <4>3
    <3> QED BY <3>1, <3>2, <3>3
  <2> QED BY <2>1, <2>2, OutsideStep
<1>2. CASE DrainPending(i)
  <2>1. /\ \A r \in Requests : req'[r].pc \notin Inside
        /\ \A j \in RunIds : runs[j].pc # "applying"
    BY <1>2, Values DEF DrainPending, Locks
  <2>2. \A j \in RunIds \ {i} : runs'[j] = runs[j]
    BY <1>2 DEF DrainPending, TypeOK
  <2>3. runs'[i].pc = "applying" /\ runs'[i].cfg = pending
    BY <1>2 DEF DrainPending, TypeOK, Goroutines
  <2>4. Locks'
    BY <1>2, <2>1, <2>2 DEF DrainPending, Locks
  <2>5. Applying = {} /\ Applying' = IF pending = None THEN {} ELSE {i}
    BY <2>1, <2>2, <2>3 DEF Applying
  <2>6. Saved'
    BY <1>2, <2>3, <2>5 DEF DrainPending, Saved
  <2> QED BY <2>4, <2>6
<1>3. CASE ApplyPending(i)
  <2>1. runs[i].pc = "applying" /\ applyMu = i
    BY <1>3 DEF ApplyPending, Locks
  <2>2. /\ \A r \in Requests : req[r].pc \notin Inside
        /\ \A j \in RunIds \ {i} : runs[j].pc # "applying"
    BY <2>1, Values DEF Locks
  <2>3. /\ \A j \in RunIds \ {i} : runs'[j] = runs[j]
        /\ runs'[i].pc = "applied"
    BY <1>3 DEF ApplyPending, RunGoes, TypeOK, Goroutines
  <2>4. Locks'
    BY <1>3, <2>2, <2>3 DEF ApplyPending, Locks
  <2>5. Applying' = {} /\ Applying \subseteq {i}
    BY <2>2, <2>3 DEF Applying
  <2>6. runs[i].cfg # None => i \in Applying
    BY <2>1 DEF Applying
  <2>7. runs[i].cfg = None => Applying = {}
    BY <2>5 DEF Applying
  <2>8. Saved'
    <3>1. CASE runs[i].cfg # None /\ ~down /\ conf' # conf
      <4>1. conf'.live = runs[i].cfg /\ conf'.disk = conf.disk
        BY <1>3, <3>1 DEF ApplyPending, TypeOK
      <4>2. pending' = pending /\ down' = down
        BY <1>3 DEF ApplyPending
      <4> QED BY <2>5, <2>6, <3>1, <4>1, <4>2 DEF Saved
    <3>2. CASE runs[i].cfg = None \/ down
      <4>1. conf' = conf /\ pending' = pending /\ down' = down
        BY <1>3, <3>2 DEF ApplyPending
      <4> QED BY <2>5, <2>7, <3>2, <4>1 DEF Saved
    <3>3. CASE runs[i].cfg # None /\ ~down /\ conf' = conf /\ ~Flaky
      <4>1. conf.live = runs[i].cfg
        BY <1>3, <3>3 DEF ApplyPending, TypeOK
      <4>2. pending' = pending /\ down' = down
        BY <1>3 DEF ApplyPending
      <4> QED BY <2>5, <2>6, <3>3, <4>1, <4>2 DEF Saved
    <3>4. CASE Flaky
      BY <3>4 DEF Saved
    <3> QED BY <3>1, <3>2, <3>3, <3>4
  <2> QED BY <2>4, <2>8
<1> QED BY <1>1, <1>2, <1>3 DEF RunStep

LEMMA SaveStep == SaveInv /\ [Next]_vars => SaveInv'
<1> SUFFICES ASSUME SaveInv, Next \/ UNCHANGED vars PROVE SaveInv'
  OBVIOUS
<1>1. CountInv'
  BY CountStep DEF SaveInv
<1>2. CASE Shutdown \/ CancelForShutdown \/ UNCHANGED vars
  <2>1. UNCHANGED <<conf, pending, applyMu, req>> /\ (down => down')
    BY <1>2 DEF Shutdown, CancelForShutdown, vars
  <2>2. \A j \in RunIds : runs'[j].pc = runs[j].pc /\ runs'[j].cfg = runs[j].cfg
    BY <1>2 DEF Shutdown, CancelForShutdown, vars, SaveInv, CountInv, TypeOK, Goroutines
  <2>3. Locks' /\ Saved'
    BY <2>1, <2>2, OutsideStep
  <2> QED BY <1>1, <2>3 DEF SaveInv
<1>3. ASSUME \/ \E r \in Requests : Arrive(r) \/ Handle(r)
             \/ \E i \in RunIds : RunStep(i) \/ SeeStop(i)
      PROVE  SaveInv'
  BY <1>1, <1>3, HandlerSaves, RunSaves DEF SaveInv
<1> QED BY <1>2, <1>3 DEF Next, Quiet

LEMMA InitSaves == Init => SaveInv
<1> SUFFICES ASSUME Init PROVE SaveInv
  OBVIOUS
<1>1. CountInv
  BY InitCounted DEF CountInv
<1>2. Locks
  BY DEF Init, Locks, Inside, NewRequest, NoRun
<1>3. Saved
  BY DEF Init, Saved, Applying, NoRun
<1> QED BY <1>1, <1>2, <1>3 DEF SaveInv

LEMMA SaveInvariance == Spec => []SaveInv
BY InitSaves, SaveStep, PTL DEF Spec

(* When no call fails, for any number of requests and runs: once no save is
   under way or queued, what is on disk is live; a save queued during a run
   never reverts one made after it. *)
THEOREM LastSaveIsLive ==
  ASSUME ~Flaky
  PROVE  Spec => []SavedIsLive
<1>1. ~Flaky /\ SaveInv => SavedIsLive
  <2> SUFFICES ASSUME ~Flaky, SaveInv, applyMu = None, pending = None, ~down
               PROVE  conf.live = conf.disk
    BY DEF SavedIsLive
  <2>1. Applying = {}
    BY Values DEF SaveInv, Locks, Applying
  <2> QED BY <2>1 DEF SaveInv, Saved
<1> QED BY <1>1, SaveInvariance, PTL
-----------------------------------------------------------------------------
(* The first run.  The code's checks are made before the flags are set and the
   clients are swapped, so a later run may be hit by what was meant for an
   earlier one; with one run there is no other. *)

LEMMA OneRun ==
  ASSUME MaxRuns = 1
  PROVE  RunIds = {1}
BY DEF RunIds

Current == {"running", "draining", "ended", "stopRead", "flagged"}

OnlyRun ==
  /\ current = 1 <=> runs[1].pc \in Current
  /\ \A r \in Requests : req[r].pc = "checked" => req[r].id = 1
  /\ \A r \in Requests : req[r].pc \in {"apply", "save"} => current = 0
  /\ stop = "requested" => wish[1].stop
  /\ cancelReq \/ runs[1].cancelReq => wish[1].cancel
  /\ EngineKeepsClients /\ IndexIsSynced

OnlyInv == SaveInv /\ OnlyRun

LEMMA OnlyArrive ==
  ASSUME MaxRuns = 1, OnlyInv, NEW r \in Requests, Arrive(r)
  PROVE  OnlyRun'
<1>. TypeOK /\ OnlyRun /\ RunIds = {1}
  BY OneRun DEF OnlyInv, SaveInv, CountInv
<1>1. \E h : /\ h.pc \notin {"apply", "save"} /\ (h.pc = "checked" => h.id = 1)
             /\ req' = [req EXCEPT ![r] = h]
  <2>1. CASE Trigger(r)
    BY <2>1 DEF Trigger, Becomes, NewRequest
  <2>2. CASE PutSettings(r)
    BY <2>2 DEF PutSettings, Becomes, NewRequest
  <2>3. CASE BeginUpdate(r)
    BY <2>3 DEF BeginUpdate, Becomes, NewRequest
  <2>4. ASSUME NEW op \in Ops, CheckId(r, op)
        PROVE  \E h : /\ h.pc \notin {"apply", "save"} /\ (h.pc = "checked" => h.id = 1)
                      /\ req' = [req EXCEPT ![r] = h]
    <3>1. current = 1
      BY <2>4 DEF CheckId, TypeOK
    <3> QED BY <2>4, <3>1 DEF CheckId, Becomes, NewRequest
  <2> QED BY <2>1, <2>2, <2>3, <2>4 DEF Arrive
<1>2. /\ UNCHANGED <<current, runs, stop, cancelReq, wish, conf, down>>
  BY DEF Arrive, Trigger, PutSettings, BeginUpdate, CheckId, flags
<1>3. (EngineKeepsClients /\ IndexIsSynced)'
  BY <1>2 DEF OnlyRun, EngineKeepsClients, IndexIsSynced, Working
<1>4. \A q \in Requests : /\ req'[q].pc = "checked" => req'[q].id = 1
                          /\ req'[q].pc \in {"apply", "save"} => current = 0
  BY <1>1 DEF TypeOK, OnlyRun
<1> QED BY <1>2, <1>3, <1>4 DEF OnlyRun

LEMMA OnlyHandle ==
  ASSUME MaxRuns = 1, OnlyInv, NEW r \in Requests, Handle(r)
  PROVE  OnlyRun'
<1>. TypeOK /\ OnlyRun /\ Locks /\ RunIds = {1}
  BY OneRun DEF OnlyInv, SaveInv, CountInv
<1>. runs[1] \in Goroutines /\ wish[1] \in Wishes
  BY DEF TypeOK, Wishes
<1>1. CASE Launch(r)
  <2>1. PICK m \in Modes :
          /\ runs' = [runs EXCEPT ![1] = [NoRun EXCEPT !.pc = "running", !.mode = m,
                                                       !.comp = conf.comp]]
          /\ current' = 1
    BY <1>1 DEF Launch
  <2>2. /\ runs'[1].pc = "running" /\ runs'[1].comp = conf.comp /\ ~runs'[1].cancelReq
    BY <2>1 DEF TypeOK, NoRun
  <2>3. \A q \in Requests : /\ req'[q].pc = "checked" => req'[q].id = 1
                            /\ req'[q].pc \notin {"apply", "save"}
    BY <1>1, Values DEF Launch, Goes, Locks, Inside, OnlyRun, TypeOK, Handlers
  <2>4. conf' = conf /\ stop' = "none" /\ cancelReq' = FALSE /\ wish' = wish
    BY <1>1 DEF Launch
  <2>5. (EngineKeepsClients /\ IndexIsSynced)'
    BY <2>2, <2>4 DEF EngineKeepsClients, IndexIsSynced
  <2> QED BY <2>1, <2>2, <2>3, <2>4, <2>5 DEF OnlyRun, Current
<1>2. CASE \/ Refuse(r) \/ LockSettings(r) \/ QueueSettings(r) \/ SaveSettings(r)
           \/ SaveSettingsFail(r) \/ InstallUpdate(r) \/ ApplySettings(r)
  <2>1. UNCHANGED <<current, runs, stop, cancelReq, wish>> /\ (down => down')
    BY <1>2 DEF Refuse, LockSettings, QueueSettings, SaveSettings, SaveSettingsFail,
                InstallUpdate, ApplySettings, flags
  <2>2. \A q \in Requests : /\ req'[q].pc = "checked" => req'[q].id = 1
                            /\ req'[q].pc \in {"apply", "save"} => current = 0
    <3>1. ASSUME NEW pc \in {"queue", "apply", "save", "done"}, Goes(r, pc),
                 pc \in {"apply", "save"} => current = 0
          PROVE  \A q \in Requests : /\ req'[q].pc = "checked" => req'[q].id = 1
                                     /\ req'[q].pc \in {"apply", "save"} => current = 0
      BY <3>1 DEF Goes, OnlyRun, TypeOK, Handlers
    <3>2. CASE Goes(r, "done")
      BY <3>1, <3>2
    <3>3. CASE LockSettings(r)
      BY <3>1, <3>3 DEF LockSettings
    <3>4. CASE ApplySettings(r) /\ Goes(r, "save")
      BY <3>1, <3>4 DEF ApplySettings, At, OnlyRun
    <3> QED BY <1>2, <3>2, <3>3, <3>4 DEF Refuse, QueueSettings, SaveSettings,
               SaveSettingsFail, InstallUpdate, ApplySettings, Unlock
  <2>3. conf'.comp = conf.comp \/ current = 0
    BY <1>2 DEF Refuse, LockSettings, QueueSettings, SaveSettings, SaveSettingsFail,
                InstallUpdate, ApplySettings, At, OnlyRun, TypeOK
  <2>4. Working(1) => current = 1
    BY DEF Working, OnlyRun, Current
  <2>5. (EngineKeepsClients /\ IndexIsSynced)'
    BY <2>1, <2>3, <2>4 DEF OnlyRun, EngineKeepsClients, IndexIsSynced, Working, TypeOK
  <2> QED BY <2>1, <2>2, <2>5 DEF OnlyRun
<1>3. CASE StopRun(r) \/ ContinueRun(r) \/ CancelRun(r)
  <2>1. req[r].id = 1
    BY <1>3 DEF StopRun, ContinueRun, CancelRun, At, OnlyRun
  <2>2. /\ UNCHANGED <<current, conf, down>>
        /\ runs'[1].pc = runs[1].pc /\ runs'[1].comp = runs[1].comp
        /\ runs'[1].mode = runs[1].mode /\ runs'[1].end = runs[1].end
        /\ runs'[1].synced = runs[1].synced /\ runs'[1].cancelReq = runs[1].cancelReq
    BY <1>3 DEF StopRun, ContinueRun, CancelRun, TypeOK, Goroutines
  <2>3. \A q \in Requests : /\ req'[q].pc = "checked" => req'[q].id = 1
                            /\ req'[q].pc \in {"apply", "save"} => current = 0
    BY <1>3 DEF StopRun, ContinueRun, CancelRun, Goes, OnlyRun, TypeOK, Handlers
  <2>4. /\ stop' = "requested" => wish'[1].stop
        /\ cancelReq' \/ runs'[1].cancelReq => wish'[1].cancel
        /\ wish[1].cancel => wish'[1].cancel
    <3>1. CASE StopRun(r)
      BY <2>1, <2>2, <3>1 DEF StopRun, OnlyRun, TypeOK, Wishes
    <3>2. CASE ContinueRun(r)
      BY <2>1, <2>2, <3>2 DEF ContinueRun, OnlyRun, TypeOK, Wishes
    <3>3. CASE CancelRun(r)
      BY <2>1, <2>2, <3>3 DEF CancelRun, OnlyRun, TypeOK, Wishes
    <3> QED BY <1>3, <3>1, <3>2, <3>3
  <2>5. (EngineKeepsClients /\ IndexIsSynced)'
    BY <2>2, <2>4 DEF OnlyRun, EngineKeepsClients, IndexIsSynced, Working
  <2> QED BY <2>2, <2>3, <2>4, <2>5 DEF OnlyRun
<1> QED BY <1>1, <1>2, <1>3 DEF Handle
LEMMA OnlyRunStep ==
  ASSUME MaxRuns = 1, OnlyInv, RunStep(1) \/ SeeStop(1)
  PROVE  OnlyRun'
<1>. TypeOK /\ OnlyRun /\ Locks /\ RunIds = {1}
  BY OneRun DEF OnlyInv, SaveInv, CountInv
<1>. runs[1] \in Goroutines /\ wish[1] \in Wishes
  BY DEF TypeOK, Wishes
<1>1. UNCHANGED <<req, wish, cancelReq, down>> /\ (stop' = "requested" => stop = "requested")
  BY DEF RunStep, SeeStop, EngineEnds, CommitStop, ReadStop, ReadCancel, ClearCurrent,
         DrainPending, ApplyPending, FinishRun, flags
<1>2. CASE EngineEnds(1) \/ SeeStop(1) \/ CommitStop(1) \/ ReadStop(1) \/ ReadCancel(1)
  <2>1. current' = current /\ conf' = conf
    BY <1>2 DEF EngineEnds, SeeStop, CommitStop, ReadStop, ReadCancel
  <2>2. /\ runs[1].pc \in Current /\ runs'[1].pc \in Current
        /\ runs'[1].pc \in {"running", "draining"} => Working(1)
        /\ runs'[1].comp = runs[1].comp
        /\ runs'[1].cancelReq => runs[1].cancelReq \/ cancelReq
    BY <1>2 DEF EngineEnds, SeeStop, CommitStop, ReadStop, ReadCancel, Working, Ends,
                RunGoes, TypeOK, Goroutines, Current
  <2>3. (EngineKeepsClients /\ IndexIsSynced)'
    BY <2>1, <2>2 DEF OnlyRun, EngineKeepsClients, IndexIsSynced, Working, Current
  <2> QED BY <1>1, <2>1, <2>2, <2>3 DEF OnlyRun
<1>3. CASE ClearCurrent(1)
  <2>1. current' = 0 /\ conf' = conf
    BY <1>3 DEF ClearCurrent
  <2>2. runs'[1].pc = "cleared" /\ runs'[1].cancelReq = runs[1].cancelReq
    BY <1>3 DEF ClearCurrent, RunGoes, TypeOK, Goroutines
  <2>3. (EngineKeepsClients /\ IndexIsSynced)'
    BY <2>2 DEF EngineKeepsClients, IndexIsSynced, Working
  <2> QED BY <1>1, <2>1, <2>2, <2>3 DEF OnlyRun, Current
<1>4. CASE DrainPending(1) \/ ApplyPending(1) \/ FinishRun(1)
  <2>1. current' = current
    BY <1>4 DEF DrainPending, ApplyPending, FinishRun
  <2>2. /\ runs[1].pc \notin Current /\ runs'[1].pc \notin Current
        /\ runs'[1].cancelReq = runs[1].cancelReq
    <3>1. CASE DrainPending(1)
      BY <3>1 DEF DrainPending, TypeOK, Goroutines, Current
    <3>2. CASE ApplyPending(1)
      BY <3>2 DEF ApplyPending, RunGoes, TypeOK, Goroutines, Current
    <3>3. CASE FinishRun(1)
      BY <3>3 DEF FinishRun, TypeOK, Goroutines, Current
    <3> QED BY <1>4, <3>1, <3>2, <3>3
  <2>3. EngineKeepsClients'
    BY <2>2 DEF EngineKeepsClients, Working, Current
  <2>4. IndexIsSynced'
    <3>1. CASE FinishRun(1)
      <4>1. /\ runs'[1].synced = (SyncsIndex(1) /\ ~down)
            /\ runs'[1].mode = runs[1].mode /\ runs'[1].end = runs[1].end
        BY <3>1 DEF FinishRun, TypeOK, Goroutines
      <4>2. ~wish[1].cancel => ~runs[1].cancelReq
        BY DEF OnlyRun
      <4> QED BY <1>1, <4>1, <4>2 DEF IndexIsSynced, SyncsIndex
    <3>2. CASE DrainPending(1) \/ ApplyPending(1)
      <4>1. runs'[1].pc # "done"
        BY <3>2 DEF DrainPending, ApplyPending, RunGoes, TypeOK, Goroutines
      <4> QED BY <4>1 DEF IndexIsSynced
    <3> QED BY <1>4, <3>1, <3>2
  <2> QED BY <1>1, <2>1, <2>2, <2>3, <2>4 DEF OnlyRun
<1> QED BY <1>2, <1>3, <1>4 DEF RunStep

LEMMA OnlyServer ==
  ASSUME MaxRuns = 1, OnlyInv, Shutdown \/ CancelForShutdown \/ UNCHANGED vars
  PROVE  OnlyRun'
<1>. TypeOK /\ OnlyRun /\ RunIds = {1}
  BY OneRun DEF OnlyInv, SaveInv, CountInv
<1>1. UNCHANGED <<req, current, stop, cancelReq, wish, conf>> /\ (down => down')
  BY DEF Shutdown, CancelForShutdown, vars, flags
<1>2. /\ runs'[1].pc = runs[1].pc /\ runs'[1].comp = runs[1].comp
      /\ runs'[1].mode = runs[1].mode /\ runs'[1].end = runs[1].end
      /\ runs'[1].synced = runs[1].synced /\ runs'[1].cancelReq = runs[1].cancelReq
  BY DEF Shutdown, CancelForShutdown, vars, TypeOK, Goroutines
<1>3. (EngineKeepsClients /\ IndexIsSynced)'
  BY <1>1, <1>2 DEF OnlyRun, EngineKeepsClients, IndexIsSynced, Working
<1> QED BY <1>1, <1>2, <1>3 DEF OnlyRun

LEMMA OnlyInvariance ==
  ASSUME MaxRuns = 1
  PROVE  Spec => []OnlyInv
<1>1. Init => SaveInv /\ OnlyRun
  <2> SUFFICES ASSUME Init PROVE SaveInv /\ OnlyRun
    OBVIOUS
  <2>1. OnlyRun
    BY OneRun DEF Init, OnlyRun, Current, EngineKeepsClients, IndexIsSynced, Working,
                  NoRun, NewRequest
  <2> QED BY <2>1, InitSaves
<1>2. OnlyInv /\ [Next]_vars => OnlyInv'
  <2> SUFFICES ASSUME OnlyInv, Next \/ UNCHANGED vars PROVE OnlyInv'
    OBVIOUS
  <2>1. SaveInv'
    BY SaveStep DEF OnlyInv
  <2>2. OnlyRun'
    BY OneRun, OnlyArrive, OnlyHandle, OnlyRunStep, OnlyServer DEF Next, Quiet
  <2> QED BY <2>1, <2>2 DEF OnlyInv
<1>3. Init => OnlyInv
  BY <1>1 DEF OnlyInv
<1> QED BY <1>2, <1>3, PTL DEF Spec

(* With one run and any number of requests, failures included: a run that ends
   stopped was last asked to stop, and not to continue (#384). *)
THEOREM StopsAreWished ==
  ASSUME MaxRuns = 1
  PROVE  Spec => StopIsWished
<1>1. OnlyInv /\ [Next]_vars =>
        [\A i \in RunIds :
           runs[i].end = "none" /\ runs'[i].end = "stopped" => wish[i].stop]_vars
  <2> SUFFICES ASSUME OnlyInv, Next, NEW i \in RunIds,
                      runs[i].end = "none", runs'[i].end = "stopped"
               PROVE  wish[i].stop
    BY DEF vars
  <2>. TypeOK /\ OnlyRun /\ RunIds = {1} /\ i = 1
    BY OneRun DEF OnlyInv, SaveInv, CountInv
  <2>. runs[1] \in Goroutines
    BY DEF TypeOK
  <2>1. ASSUME NEW r \in Requests, Arrive(r) \/ Handle(r) PROVE FALSE
    <3>1. CASE Launch(r)
      BY <3>1 DEF Launch, NoRun, TypeOK
    <3>2. CASE ~Launch(r)
      <4>1. runs'[1].end = runs[1].end
        <5>1. CASE Arrive(r)
          BY <5>1 DEF Arrive, Trigger, PutSettings, BeginUpdate, CheckId
        <5>2. CASE CancelRun(r)
          BY <5>2 DEF CancelRun, TypeOK, Goroutines
        <5>3. CASE Handle(r) /\ ~CancelRun(r)
          BY <3>2, <5>3 DEF Handle, Refuse, StopRun, ContinueRun, LockSettings,
             QueueSettings, ApplySettings, SaveSettings, SaveSettingsFail, InstallUpdate
        <5> QED BY <2>1, <5>1, <5>2, <5>3
      <4> QED BY <4>1
    <3> QED BY <3>1, <3>2
  <2>2. CASE Shutdown \/ CancelForShutdown \/ Quiet
    BY <2>2 DEF Shutdown, CancelForShutdown, Quiet, vars, TypeOK, Goroutines
  <2>3. CASE RunStep(1) \/ SeeStop(1)
    <3>1. CASE CommitStop(1)
      BY <3>1 DEF CommitStop, RunGoes, OnlyRun, TypeOK, Goroutines
    <3>2. CASE ~CommitStop(1)
      BY <2>3, <3>2 DEF RunStep, SeeStop, EngineEnds, ReadStop, ReadCancel, ClearCurrent,
         DrainPending, ApplyPending, FinishRun, Ends, RunGoes, TypeOK, Goroutines
    <3> QED BY <3>1, <3>2
  <2> QED BY <2>1, <2>2, <2>3 DEF Next
<1> QED BY <1>1, OnlyInvariance, PTL DEF Spec, StopIsWished

(* With one run and any number of requests: the clients of a working engine are
   not swapped under it. *)
THEOREM ClientsAreKept ==
  ASSUME MaxRuns = 1
  PROVE  Spec => []EngineKeepsClients
<1>1. OnlyInv => EngineKeepsClients
  BY DEF OnlyInv, OnlyRun
<1> QED BY <1>1, OnlyInvariance, PTL

(* With one run and any number of requests: after a run that completed or was
   stopped, and that nobody cancelled, the index is uploaded. *)
THEOREM IndexGetsSynced ==
  ASSUME MaxRuns = 1
  PROVE  Spec => []IndexIsSynced
<1>1. OnlyInv => IndexIsSynced
  BY DEF OnlyInv, OnlyRun
<1> QED BY <1>1, OnlyInvariance, PTL
=============================================================================
