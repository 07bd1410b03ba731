------------------------ MODULE CyndiOperatorProofs ------------------------
(***************************************************************************)
(* Theorems about CyndiOperator, for every value of its constants.         *)
(***************************************************************************)
EXTENDS CyndiOperator, TLAPS

----------------------------------------------------------------------------
(***************************************************************************)
(* Operations on one copy of the resource (PipelineState).                 *)
(***************************************************************************)

\* A verdict keeps the type of a status and touches four fields only.
LEMMA SetValidType ==
  ASSUME NEW s \in PipelineStatus, NEW verdict \in ConditionStatus,
         NEW h \in HostCounts \cup {-1}
  PROVE  SetValid(s, verdict, h) \in PipelineStatus
<1> DEFINE f == IF verdict = "False" THEN s.failed + 1 ELSE 0
           n == s.initsync /\ verdict # "True"
<1>1. f \in Nat
  BY DEF PipelineStatus
<1>2. n \in BOOLEAN
  OBVIOUS
<1>3. SetValid(s, verdict, h) =
        [s EXCEPT !.valid = verdict, !.hosts = h, !.failed = f, !.initsync = n]
  BY DEF SetValid
<1> HIDE DEF f, n
<1> QED
  BY <1>1, <1>2, <1>3 DEF PipelineStatus

LEMMA TransitionToNewType ==
  ASSUME NEW p \in CyndiPipeline
  PROVE  TransitionToNew(p) \in CyndiPipeline
<1>1. p.status \in PipelineStatus
  BY DEF CyndiPipeline
<1>2. ResetValid(p.status) \in PipelineStatus
  BY <1>1, SetValidType DEF ResetValid, ConditionStatus
<1>3. [ResetValid(p.status) EXCEPT !.initsync = FALSE, !.version = Nil] \in PipelineStatus
  BY <1>2 DEF PipelineStatus
<1> QED
  BY <1>3 DEF TransitionToNew, CyndiPipeline

LEMMA NamesType ==
  ASSUME NEW v \in Versions, NEW a \in AppNames
  PROVE  TableName(v) \in Tables /\ ConnectorName(v, a) \in ConnectorNames
  BY DEF Tables, ConnectorNames

LEMMA TransitionToInitialSyncType ==
  ASSUME NEW p \in CyndiPipeline, NEW v \in Versions
  PROVE  TransitionToInitialSync(p, v) \in CyndiPipeline
<1> DEFINE r == ResetValid(p.status)
           s == [r EXCEPT
                   !.initsync = TRUE,
                   !.version = v,
                   !.table = IF ConnectorsManaged(p) \/ @ = Nil THEN TableName(v) ELSE @,
                   !.connector = IF ConnectorsManaged(p) THEN ConnectorName(v, p.spec.app) ELSE @]
<1>1. p.status \in PipelineStatus /\ p.spec.app \in AppNames
  BY DEF CyndiPipeline, PipelineSpec
<1>2. r \in PipelineStatus
  BY <1>1, SetValidType DEF ResetValid, ConditionStatus
<1>3. TableName(v) \in Tables /\ ConnectorName(v, p.spec.app) \in ConnectorNames
  BY <1>1, NamesType
<1> HIDE DEF r
<1>4. s \in PipelineStatus
  BY <1>2, <1>3 DEF PipelineStatus
<1>5. TransitionToInitialSync(p, v) = [p EXCEPT !.status = s]
  BY DEF TransitionToInitialSync, r
<1> QED
  BY <1>4, <1>5 DEF CyndiPipeline
----------------------------------------------------------------------------
(***************************************************************************)
(* The building blocks of the actions keep the types.                      *)
(***************************************************************************)

\* An iteration that is not idle is a record of the right type.
LEMMA BusyType ==
  ASSUME IterTypeOK, NEW c \in Controllers, iter[c].phase # "idle"
  PROVE  iter[c] \in ReconcileIteration
  BY DEF IterTypeOK, Idle

LEMMA IterStepType ==
  ASSUME IterTypeOK, NEW c \in Controllers, NEW i \in ReconcileIteration \cup {Idle},
         iter' = [iter EXCEPT ![c] = i]
  PROVE  IterTypeOK'
  BY DEF IterTypeOK

LEMMA WriteApiType ==
  ASSUME KubeTypeOK, NEW new \in CyndiPipeline, NEW w \in SUBSET Controllers,
         WriteApi(new, w), UNCHANGED <<cache, configMap>>, queue' \subseteq Controllers
  PROVE  KubeTypeOK'
  BY DEF KubeTypeOK, WriteApi

LEMMA DeliverType ==
  ASSUME KubeTypeOK, NEW k \in DOMAIN watch, Deliver(k)
  PROVE  KubeTypeOK'
<1>1. k \in 1..Len(watch) /\ watch[k] \in CyndiPipeline
  BY DEF KubeTypeOK
<1>2. SubSeq(watch, k + 1, Len(watch)) \in Seq(CyndiPipeline)
  BY <1>1 DEF KubeTypeOK
<1>3. queue' \subseteq Controllers
  BY DEF KubeTypeOK, Deliver, Controllers
<1> QED
  BY <1>1, <1>2, <1>3 DEF KubeTypeOK, Deliver

LEMMA DeleteTablesType ==
  ASSUME DbTypeOK, NEW ts, DeleteTables(ts)
  PROVE  DbTypeOK'
  BY DEF DbTypeOK, DeleteTables

LEMMA CreateViewType ==
  ASSUME DbTypeOK, NEW t, CreateView(t)
  PROVE  DbTypeOK'
  BY DEF DbTypeOK, CreateView

LEMMA GetCurrentTableType ==
  ASSUME DbTypeOK, NEW r \in GetCurrentTable
  PROVE  /\ r.table \in Tables \cup {Nil} /\ r.err \in BOOLEAN
         /\ "query" \notin Faults => r.table = view /\ r.err = FALSE
<1>1. CASE r = [table |-> view, err |-> FALSE]
  <2>1. r.table = view /\ r.err = FALSE
    BY <1>1
  <2>2. view \in Tables \cup {Nil}
    BY DEF DbTypeOK
  <2> QED
    BY <2>1, <2>2
<1>2. CASE "query" \in Faults /\ \E e \in BOOLEAN : r = [table |-> Nil, err |-> e]
  <2>1. PICK e \in BOOLEAN : r = [table |-> Nil, err |-> e]
    BY <1>2
  <2>2. r.table = Nil /\ r.err = e
    BY <2>1
  <2> QED
    BY <1>2, <2>1, <2>2
<1>3. \/ r = [table |-> view, err |-> FALSE]
      \/ "query" \in Faults /\ \E e \in BOOLEAN : r = [table |-> Nil, err |-> e]
  <2>1. CASE "query" \in Faults
    BY <2>1 DEF GetCurrentTable
  <2>2. CASE "query" \notin Faults
    BY <2>2 DEF GetCurrentTable
  <2> QED
    BY <2>1, <2>2
<1> QED
  BY <1>1, <1>2, <1>3

LEMMA FailType ==
  ASSUME KubeTypeOK, IterTypeOK, NEW c \in Controllers, Fail(c)
  PROVE  KubeTypeOK' /\ IterTypeOK'
  BY IterStepType DEF KubeTypeOK, Fail

LEMMA GotoType ==
  ASSUME KubeTypeOK, IterTypeOK, NEW c \in Controllers, NEW i \in ReconcileIteration, Goto(c, i)
  PROVE  KubeTypeOK' /\ IterTypeOK'
<1>1. KubeTypeOK'
  BY DEF KubeTypeOK, Goto, kubeVars
<1> QED
  BY <1>1, IterStepType DEF Goto

LEMMA ProceedType ==
  ASSUME KubeTypeOK, IterTypeOK, NEW c \in Controllers, iter[c].phase # "idle",
         NEW next \in Phases, Proceed(c, next)
  PROVE  KubeTypeOK' /\ IterTypeOK'
<1>1. [iter[c] EXCEPT !.phase = next] \in ReconcileIteration
  BY BusyType DEF ReconcileIteration
<1> QED
  BY <1>1, GotoType DEF Proceed

LEMMA SetupType ==
  ASSUME KubeTypeOK, IterTypeOK, NEW c \in Controllers, NEW next \in Phases, NEW ok \in BOOLEAN,
         Setup(c, next, ok)
  PROVE  KubeTypeOK' /\ IterTypeOK'
<1>1. [phase |-> next, inst |-> cache, orig |-> cache.status, config |-> configMap,
       connected |-> ok, errors |-> ~ok, current |-> Nil] \in ReconcileIteration
  BY DEF ReconcileIteration, KubeTypeOK, CyndiPipeline
<1>2. IterTypeOK'
  BY <1>1, IterStepType DEF Setup
<1>3. fresh' \subseteq Controllers
  BY DEF Setup, ReadCache, KubeTypeOK
<1> QED
  BY <1>2, <1>3 DEF Setup, KubeTypeOK

LEMMA SkipRequestType ==
  ASSUME KubeTypeOK, IterTypeOK, NEW c, SkipRequest(c)
  PROVE  KubeTypeOK' /\ IterTypeOK'
  BY DEF SkipRequest, KubeTypeOK, IterTypeOK

\* Refreshing an iteration: TransitionToNew, then updateStatusAndRequeue.
LEMMA RefreshType ==
  ASSUME NEW i \in ReconcileIteration
  PROVE  [i EXCEPT !.inst = TransitionToNew(@), !.phase = "status"] \in ReconcileIteration
<1>1. TransitionToNew(i.inst) \in CyndiPipeline
  BY TransitionToNewType DEF ReconcileIteration
<1> QED
  BY <1>1 DEF ReconcileIteration, Phases

LEMMA DeviationStepType ==
  ASSUME KubeTypeOK, IterTypeOK, NEW c \in Controllers, iter[c].phase # "idle",
         NEW i \in ReconcileIteration, DeviationStep(c, i)
  PROVE  KubeTypeOK' /\ IterTypeOK'
<1>1. iter[c] \in ReconcileIteration
  BY BusyType
<1>2. [iter[c] EXCEPT !.inst = TransitionToNew(@), !.phase = "status"] \in ReconcileIteration
  BY <1>1, RefreshType
<1> QED
  BY <1>2, GotoType, FailType DEF DeviationStep

LEMMA UpdateStatusType ==
  ASSUME KubeTypeOK, DbTypeOK, IterTypeOK, NEW c \in Controllers, UpdateStatusAndRequeue(c)
  PROVE  KubeTypeOK' /\ IterTypeOK'
<1>1. PICK r \in GetCurrentTable :
        IF r.err THEN Fail(c)
        ELSE UpdateStatus(c, [iter[c].inst.status EXCEPT !.active = r.table])
  BY DEF UpdateStatusAndRequeue
<1>2. CASE r.err
  BY <1>1, <1>2, FailType
<1>3. CASE ~r.err
  <2> DEFINE s == [iter[c].inst.status EXCEPT !.active = r.table]
  <2>1. iter[c] \in ReconcileIteration
    BY BusyType DEF UpdateStatusAndRequeue
  <2>2. iter[c].inst.status \in PipelineStatus /\ r.table \in Tables \cup {Nil}
    BY <2>1, GetCurrentTableType DEF ReconcileIteration, CyndiPipeline
  <2>3. s \in PipelineStatus
    BY <2>2 DEF PipelineStatus
  <2>4. UpdateStatus(c, s)
    BY <1>1, <1>3
  <2> HIDE DEF s
  <2>5. IterTypeOK'
    BY <2>4, IterStepType DEF UpdateStatus
  <2>6. [api EXCEPT !.status = s] \in CyndiPipeline
    BY <2>3 DEF KubeTypeOK, CyndiPipeline
  <2>7. CASE s # iter[c].orig /\ c \in fresh
    BY <2>4, <2>5, <2>6, <2>7, WriteApiType DEF UpdateStatus, KubeTypeOK
  <2>8. CASE ~(s # iter[c].orig /\ c \in fresh)
    BY <2>4, <2>5, <2>8 DEF UpdateStatus, KubeTypeOK
  <2> QED
    BY <2>7, <2>8
<1> QED
  BY <1>2, <1>3
LEMMA AfterStateType ==
  ASSUME NEW i \in ReconcileIteration
  PROVE  AfterState(i) \in ReconcileIteration
<1>1. Refresh(i) \in ReconcileIteration
  BY RefreshType DEF Refresh
<1>2. \A next \in Phases : [i EXCEPT !.phase = next] \in ReconcileIteration
  BY DEF ReconcileIteration
<1>3. "view" \in Phases /\ "status" \in Phases /\ "healthier" \in Phases
  BY DEF Phases
<1>4. CASE GetState(i.inst) = "VALID"
  BY <1>2, <1>3, <1>4 DEF AfterState
<1>5. CASE GetState(i.inst) # "VALID"
  BY <1>1, <1>2, <1>3, <1>5 DEF AfterState
<1> QED
  BY <1>4, <1>5

LEMMA NewConnectorType ==
  ASSUME NEW p \in CyndiPipeline, NEW cm \in ConfigMaps, NEW name \in ConnectorNames,
         p.status.table \in Tables, ConnectTypeOK, CreateConnector(name, p, cm)
  PROVE  ConnectTypeOK'
<1> DEFINE k == [name |-> name, config |-> NewConnectorConfig(p, cm),
                 paused |-> p.spec.paused, failed |-> FALSE]
<1>1. p.spec \in PipelineSpec /\ cm.base \in Bases
  BY ConfigMapsAssumption DEF CyndiPipeline
<1>2. p.spec.app \in AppNames /\ p.spec.data \in DataSpecs /\ p.spec.paused \in BOOLEAN
  BY <1>1, ModesAssumption DEF PipelineSpec
<1>3. NewConnectorConfig(p, cm) \in ConnectorConfig
  BY <1>1, <1>2 DEF NewConnectorConfig, ConnectorConfig, SpecHash, ConfigMapHash
<1>4. k \in Connector
  BY <1>2, <1>3 DEF Connector
<1>5. connectors' = connectors \cup {k}
  BY DEF CreateConnector
<1> HIDE DEF k
<1> QED
  BY <1>4, <1>5 DEF ConnectTypeOK

LEMMA SetConnectorStateType ==
  ASSUME NEW name, NEW paused \in BOOLEAN, ConnectTypeOK, SetConnectorState(name, paused)
  PROVE  ConnectTypeOK'
<1>1. \A k \in Connector : [k EXCEPT !.paused = paused] \in Connector
  BY DEF Connector
<1> QED
  BY <1>1 DEF ConnectTypeOK, SetConnectorState
----------------------------------------------------------------------------
(***************************************************************************)
(* Type correctness.  TypeOK alone is not inductive: CreateNewTable and    *)
(* CreateNewConnector build names from the version and the table that the  *)
(* iteration carries, which must not be empty by then.                     *)
(***************************************************************************)

SyncNames ==
  pc.phase \in {"newtable", "newconnector"} =>
    pc.inst.status.version \in Versions /\ pc.inst.status.table \in Tables

\* What the actions keep (disturbed is left to the environment).
TypeInv == KubeTypeOK /\ DbTypeOK /\ ConnectTypeOK /\ IterTypeOK /\ SyncNames

LEMMA PcStep ==
  ASSUME IterTypeOK, NEW i, iter' = [iter EXCEPT !["pipeline"] = i]
  PROVE  pc' = i /\ vc' = vc
  BY DEF IterTypeOK, Controllers, pc, vc

LEMMA VcStep ==
  ASSUME IterTypeOK, NEW i, iter' = [iter EXCEPT !["validation"] = i]
  PROVE  vc' = i /\ pc' = pc
  BY DEF IterTypeOK, Controllers, pc, vc

LEMMA PcType ==
  ASSUME IterTypeOK, pc.phase # "idle"
  PROVE  /\ pc \in ReconcileIteration /\ iter["pipeline"].phase # "idle"
         /\ pc.inst \in CyndiPipeline /\ pc.inst.spec \in PipelineSpec
         /\ pc.inst.status \in PipelineStatus /\ pc.config \in ConfigMaps
<1>1. pc \in ReconcileIteration
  BY BusyType DEF pc, Controllers
<1> QED
  BY <1>1 DEF pc, ReconcileIteration, CyndiPipeline

\* An iteration that leaves the creation of a new table satisfies SyncNames.
LEMMA SyncNamesGoto ==
  ASSUME IterTypeOK, NEW i, Goto("pipeline", i), i.phase \notin {"newtable", "newconnector"}
  PROVE  SyncNames'
<1>1. pc' = i
  BY PcStep DEF Goto
<1> QED
  BY <1>1 DEF SyncNames

\* And so does one that ends, whichever controller's it is.
LEMMA SyncNamesIdle ==
  ASSUME IterTypeOK, SyncNames, NEW c \in Controllers, iter' = [iter EXCEPT ![c] = Idle]
  PROVE  SyncNames'
<1>1. CASE c = "pipeline"
  <2>1. pc' = Idle
    BY <1>1, PcStep
  <2> QED
    BY <2>1 DEF SyncNames, Idle
<1>2. CASE c = "validation"
  <2>1. pc' = pc
    BY <1>2, VcStep
  <2> QED
    BY <2>1 DEF SyncNames
<1> QED
  BY <1>1, <1>2 DEF Controllers

LEMMA PipelineSetupTypes ==
  ASSUME TypeInv, PipelineSetup \/ PipelineSkip
  PROVE  TypeInv'
<1> USE DEF TypeInv
<1>1. CASE PipelineSetup
  <2>1. PICK ok \in BOOLEAN : Setup("pipeline", "connectors", ok)
    BY <1>1 DEF PipelineSetup
  <2>2. KubeTypeOK' /\ IterTypeOK'
    BY <2>1, SetupType DEF Phases, Controllers
  <2>3. pc'.phase = "connectors"
    <3> DEFINE i == [phase |-> "connectors", inst |-> cache, orig |-> cache.status,
                     config |-> configMap, connected |-> ok, errors |-> ~ok, current |-> Nil]
    <3>1. i.phase = "connectors"
      OBVIOUS
    <3>2. iter' = [iter EXCEPT !["pipeline"] = i]
      BY <2>1 DEF Setup
    <3> HIDE DEF i
    <3> QED
      BY <3>1, <3>2, PcStep
  <2> QED
    BY <2>1, <2>2, <2>3 DEF Setup, SyncNames, DbTypeOK, dbVars, ConnectTypeOK
<1>2. CASE PipelineSkip
  <2>1. KubeTypeOK' /\ IterTypeOK'
    BY <1>2, SkipRequestType DEF PipelineSkip
  <2> QED
    BY <1>2, <2>1 DEF PipelineSkip, SkipRequest, SyncNames, pc, DbTypeOK, dbVars, ConnectTypeOK
<1> QED
  BY <1>1, <1>2

LEMMA CleanupTypes ==
  ASSUME TypeInv, DeleteStaleConnectors \/ DeleteStaleTables
  PROVE  TypeInv'
<1> USE DEF TypeInv
<1>1. CASE DeleteStaleConnectors
  <2> DEFINE rs == IF pc.connected THEN GetCurrentTable ELSE {[table |-> Nil, err |-> TRUE]}
             i(r, f) == [pc EXCEPT !.phase = "tables", !.current = r.table,
                                   !.errors = @ \/ r.err \/ f]
  <2>1. PICK r \in rs, f \in CleanupResults :
          /\ \E gone : DeleteConnectors(gone)
          /\ Goto("pipeline", i(r, f))
    BY <1>1 DEF DeleteStaleConnectors
  <2>2. r.table \in Tables \cup {Nil} /\ r.err \in BOOLEAN
    <3>1. CASE pc.connected
      BY <3>1, GetCurrentTableType
    <3>2. CASE ~pc.connected
      <4>1. r = [table |-> Nil, err |-> TRUE]
        BY <3>2
      <4>2. r.table = Nil /\ r.err = TRUE
        BY <4>1
      <4> QED
        BY <4>2
    <3> QED
      BY <3>1, <3>2
  <2>3. f \in BOOLEAN
    BY DEF CleanupResults
  <2>4. pc.phase = "connectors" /\ pc \in ReconcileIteration
    BY <1>1, PcType DEF DeleteStaleConnectors
  <2>5. (pc.errors \/ r.err \/ f) \in BOOLEAN
    OBVIOUS
  <2>6. i(r, f) \in ReconcileIteration /\ i(r, f).phase = "tables"
    BY <2>2, <2>4, <2>5 DEF ReconcileIteration, Phases
  <2> HIDE DEF i, rs
  <2>7. KubeTypeOK' /\ IterTypeOK'
    BY <2>1, <2>6, GotoType DEF Controllers
  <2>8. SyncNames'
    BY <2>1, <2>6, SyncNamesGoto
  <2>9. ConnectTypeOK'
    BY <2>1 DEF ConnectTypeOK, DeleteConnectors
  <2>10. DbTypeOK'
    BY <1>1 DEF DeleteStaleConnectors, DbTypeOK, dbVars
  <2> QED
    BY <2>7, <2>8, <2>9, <2>10
<1>2. CASE DeleteStaleTables
  <2> DEFINE i(f) == [pc EXCEPT !.phase = "dispatch", !.current = Nil, !.errors = @ \/ f]
  <2>1. PICK f, gone : DeleteTables(gone) /\ Goto("pipeline", i(f))
    BY <1>2 DEF DeleteStaleTables
  <2>2. pc.phase = "tables" /\ pc \in ReconcileIteration
    BY <1>2, PcType DEF DeleteStaleTables
  <2>3. (pc.errors \/ f) \in BOOLEAN
    OBVIOUS
  <2>4. i(f) \in ReconcileIteration /\ i(f).phase = "dispatch"
    BY <2>2, <2>3 DEF ReconcileIteration, Phases
  <2> HIDE DEF i
  <2>5. KubeTypeOK' /\ IterTypeOK'
    BY <2>1, <2>4, GotoType DEF Controllers
  <2>6. SyncNames'
    BY <2>1, <2>4, SyncNamesGoto
  <2>7. DbTypeOK'
    BY <2>1, DeleteTablesType
  <2>8. ConnectTypeOK'
    BY <1>2 DEF DeleteStaleTables, ConnectTypeOK
  <2> QED
    BY <2>5, <2>6, <2>7, <2>8
<1> QED
  BY <1>1, <1>2

LEMMA DbUnchanged ==
  ASSUME DbTypeOK, UNCHANGED dbVars
  PROVE  DbTypeOK'
  BY DEF DbTypeOK, dbVars

LEMMA FailUntouchedTypes ==
  ASSUME TypeInv, NEW c \in Controllers, FailUntouched(c)
  PROVE  TypeInv'
<1> USE DEF TypeInv
<1>1. KubeTypeOK' /\ IterTypeOK'
  BY FailType DEF FailUntouched
<1>2. DbTypeOK' /\ ConnectTypeOK'
  BY DbUnchanged DEF FailUntouched, ConnectTypeOK
<1>3. SyncNames'
  BY SyncNamesIdle DEF FailUntouched, Fail
<1> QED
  BY <1>1, <1>2, <1>3

LEMMA RemovalTypes ==
  ASSUME TypeInv, RemoveFinalizer \/ Abort
  PROVE  TypeInv'
<1> USE DEF TypeInv
<1>1. CASE RemoveFinalizer
  <2> DEFINE new == [api EXCEPT !.finalizer = FALSE, !.exists = FALSE]
  <2>1. new \in CyndiPipeline
    BY DEF KubeTypeOK, CyndiPipeline
  <2>2. WriteApi(new, {}) /\ UNCHANGED <<cache, queue, configMap>>
    BY <1>1 DEF RemoveFinalizer
  <2> HIDE DEF new
  <2>3. KubeTypeOK'
    BY <2>1, <2>2, WriteApiType DEF KubeTypeOK
  <2>4. IterTypeOK'
    BY <1>1, IterStepType DEF RemoveFinalizer, Controllers
  <2>6. SyncNames'
    BY <1>1, SyncNamesIdle DEF RemoveFinalizer, Controllers
  <2>7. DbTypeOK' /\ ConnectTypeOK'
    BY <1>1, DbUnchanged DEF RemoveFinalizer, ConnectTypeOK
  <2> QED
    BY <2>3, <2>4, <2>6, <2>7
<1>2. CASE Abort
  BY <1>2, FailUntouchedTypes DEF Abort, Controllers
<1> QED
  BY <1>1, <1>2

LEMMA NewVersionType ==
  ASSUME \E v \in Versions : UnusedVersion(v)
  PROVE  NewVersion \in Versions /\ UnusedVersion(NewVersion)
  BY DEF NewVersion

\* A pipeline in its initial synchronization has a version and a table.
LEMMA InitialSyncNames ==
  ASSUME NEW p \in CyndiPipeline, NEW v \in Versions
  PROVE  /\ TransitionToInitialSync(p, v).status.version \in Versions
         /\ TransitionToInitialSync(p, v).status.table \in Tables
<1> DEFINE r == ResetValid(p.status)
           q == TransitionToInitialSync(p, v)
<1>1. p.status \in PipelineStatus
  BY DEF CyndiPipeline
<1>2. r \in PipelineStatus
  BY <1>1, SetValidType DEF ResetValid, ConditionStatus
<1>3. TableName(v) \in Tables
  BY DEF Tables
<1> HIDE DEF r
<1>4. /\ q.status.version = v
      /\ q.status.table = IF ConnectorsManaged(p) \/ r.table = Nil THEN TableName(v) ELSE r.table
  BY <1>2 DEF TransitionToInitialSync, r, PipelineStatus, CyndiPipeline
<1> QED
  BY <1>2, <1>3, <1>4 DEF PipelineStatus

LEMMA CreationTypes ==
  ASSUME TypeInv, StartInitialSync \/ CreateNewTable \/ CreateNewConnector
  PROVE  TypeInv'
<1> USE DEF TypeInv
<1>1. CASE StartInitialSync
  <2> DEFINE s == [pc.inst.status EXCEPT !.cmver = ConfigMapHash(pc.config),
                                         !.spechash = SpecHash(pc.inst.spec)]
             p == [pc.inst EXCEPT !.finalizer = TRUE,
                                  !.status.cmver = ConfigMapHash(pc.config),
                                  !.status.spechash = SpecHash(pc.inst.spec)]
             q == TransitionToInitialSync(p, NewVersion)
             i == [pc EXCEPT !.inst = q, !.phase = "newtable"]
  <2>1. pc.phase = "dispatch"
    BY <1>1 DEF StartInitialSync, InState
  <2>2. /\ pc \in ReconcileIteration /\ pc.inst \in CyndiPipeline
        /\ pc.inst.spec \in PipelineSpec /\ pc.inst.status \in PipelineStatus
        /\ pc.config \in ConfigMaps
    BY <2>1, PcType
  <2>3. ConfigMapHash(pc.config) \in Bases /\ SpecHash(pc.inst.spec) \in AppNames \X DataSpecs
    BY <2>2, ConfigMapsAssumption DEF ConfigMapHash, SpecHash, PipelineSpec
  <2>4. s \in PipelineStatus
    BY <2>2, <2>3 DEF PipelineStatus
  <2>5. p = [pc.inst EXCEPT !.finalizer = TRUE, !.status = s]
    BY <2>2 DEF CyndiPipeline
  <2> HIDE DEF s
  <2>6. p \in CyndiPipeline
    BY <2>2, <2>4, <2>5 DEF CyndiPipeline
  <2> HIDE DEF p
  <2>7. NewVersion \in Versions
    BY <1>1, NewVersionType DEF StartInitialSync
  <2>8. /\ q \in CyndiPipeline
        /\ q.status.version \in Versions /\ q.status.table \in Tables
    BY <2>6, <2>7, TransitionToInitialSyncType, InitialSyncNames
  <2>9. iter' = [iter EXCEPT !["pipeline"] = i]
    BY <1>1 DEF StartInitialSync, p
  <2> HIDE DEF q
  <2>10. i \in ReconcileIteration /\ i.inst = q
    BY <2>2, <2>8 DEF ReconcileIteration, Phases
  <2> HIDE DEF i
  <2>11. IterTypeOK' /\ pc' = i
    BY <2>9, <2>10, IterStepType, PcStep DEF Controllers
  <2>12. SyncNames'
    BY <2>8, <2>10, <2>11 DEF SyncNames
  <2>13. KubeTypeOK'
    <3>1. CASE pc.inst.finalizer
      BY <1>1, <3>1 DEF StartInitialSync, AddFinalizer, KubeTypeOK, kubeVars
    <3>2. CASE ~pc.inst.finalizer
      <4> DEFINE new == [api EXCEPT !.finalizer = TRUE]
      <4>1. new \in CyndiPipeline
        BY DEF KubeTypeOK, CyndiPipeline
      <4>2. WriteApi(new, {"pipeline"}) /\ UNCHANGED <<cache, queue, configMap>>
        BY <1>1, <3>2 DEF StartInitialSync, AddFinalizer
      <4> HIDE DEF new
      <4> QED
        BY <4>1, <4>2, WriteApiType DEF KubeTypeOK, Controllers
    <3> QED
      BY <3>1, <3>2
  <2>14. DbTypeOK' /\ ConnectTypeOK'
    BY <1>1, DbUnchanged DEF StartInitialSync, ConnectTypeOK
  <2> QED
    BY <2>11, <2>12, <2>13, <2>14
<1>2. CASE CreateNewTable
  <2> DEFINE next == IF ConnectorsManaged(pc.inst) THEN "newconnector" ELSE "status"
             t == pc.inst.status.table
  <2>1. /\ pc.phase = "newtable" /\ Proceed("pipeline", next)
        /\ UNCHANGED dbVars \/ CreateTable(t)
        /\ UNCHANGED connectors
    BY <1>2 DEF CreateNewTable
  <2>2. next \in Phases
    BY DEF Phases
  <2>3. pc.inst.status.version \in Versions /\ t \in Tables
    BY <2>1 DEF SyncNames
  <2>4. pc \in ReconcileIteration /\ iter["pipeline"].phase # "idle"
    BY <2>1, PcType
  <2> HIDE DEF next
  <2>5. KubeTypeOK' /\ IterTypeOK'
    BY <2>1, <2>2, <2>4, ProceedType DEF Controllers
  <2>6. pc' = [pc EXCEPT !.phase = next]
    BY <2>1, PcStep DEF Proceed, Goto, pc
  <2>7. SyncNames'
    BY <2>3, <2>4, <2>6 DEF SyncNames, ReconcileIteration
  <2>8. ConnectTypeOK'
    BY <2>1 DEF ConnectTypeOK
  <2>9. DbTypeOK'
    BY <2>1, <2>3, DbUnchanged DEF DbTypeOK, CreateTable
  <2> QED
    BY <2>5, <2>7, <2>8, <2>9
<1>3. CASE CreateNewConnector
  <2> DEFINE name == ConnectorName(pc.inst.status.version, pc.inst.spec.app)
  <2>1. /\ pc.phase = "newconnector" /\ Proceed("pipeline", "status")
        /\ CreateConnector(name, pc.inst, pc.config) /\ UNCHANGED dbVars
    BY <1>3 DEF CreateNewConnector
  <2>2. /\ pc.inst \in CyndiPipeline /\ pc.config \in ConfigMaps
        /\ pc.inst.spec \in PipelineSpec /\ iter["pipeline"].phase # "idle"
    BY <2>1, PcType
  <2>3. pc.inst.status.version \in Versions /\ pc.inst.status.table \in Tables
    BY <2>1 DEF SyncNames
  <2>4. name \in ConnectorNames
    BY <2>2, <2>3, NamesType DEF PipelineSpec
  <2>5. KubeTypeOK' /\ IterTypeOK'
    BY <2>1, <2>2, ProceedType DEF Controllers, Phases
  <2>6. SyncNames'
    <3>1. pc' = [pc EXCEPT !.phase = "status"]
      BY <2>1, PcStep DEF Proceed, Goto, pc
    <3>2. pc \in ReconcileIteration
      BY <2>1, PcType
    <3> QED
      BY <3>1, <3>2 DEF SyncNames, ReconcileIteration
  <2> HIDE DEF name
  <2>7. ConnectTypeOK'
    BY <2>1, <2>2, <2>3, <2>4, NewConnectorType
  <2> QED
    BY <2>1, <2>5, <2>6, <2>7, DbUnchanged
<1> QED
  BY <1>1, <1>2, <1>3

\* The iteration of the pipeline controller goes on and creates no table.
LEMMA PipelineGoto ==
  ASSUME TypeInv, NEW i \in ReconcileIteration, i.phase \notin {"newtable", "newconnector"},
         Goto("pipeline", i)
  PROVE  KubeTypeOK' /\ IterTypeOK' /\ SyncNames'
  BY GotoType, SyncNamesGoto DEF TypeInv, Controllers

LEMMA PipelineProceed ==
  ASSUME TypeInv, pc.phase # "idle", NEW next \in Phases \ {"newtable", "newconnector"},
         Proceed("pipeline", next)
  PROVE  KubeTypeOK' /\ IterTypeOK' /\ SyncNames'
<1> DEFINE i == [pc EXCEPT !.phase = next]
<1>1. i \in ReconcileIteration /\ i.phase = next
  BY PcType DEF TypeInv, ReconcileIteration
<1>2. Goto("pipeline", i)
  BY DEF Proceed, pc
<1> HIDE DEF i
<1> QED
  BY <1>1, <1>2, PipelineGoto

LEMMA PipelineRefresh ==
  ASSUME TypeInv, pc.phase # "idle"
  PROVE  /\ Refresh(pc) \in ReconcileIteration /\ Refresh(pc).phase = "status"
         /\ AfterState(pc) \in ReconcileIteration
         /\ AfterState(pc).phase \in {"view", "status", "healthier"}
<1>1. pc \in ReconcileIteration
  BY PcType DEF TypeInv
<1>2. Refresh(pc) \in ReconcileIteration /\ AfterState(pc) \in ReconcileIteration
  BY <1>1, RefreshType, AfterStateType DEF Refresh
<1>3. Refresh(pc).phase = "status"
  BY <1>1 DEF Refresh, ReconcileIteration
<1>4. \A next \in Phases : [pc EXCEPT !.phase = next].phase = next
  BY <1>1 DEF ReconcileIteration
<1>5. AfterState(pc).phase \in {"view", "status", "healthier"}
  BY <1>3, <1>4 DEF AfterState, Phases
<1> QED
  BY <1>2, <1>3, <1>5

LEMMA DeviationTypes ==
  ASSUME TypeInv, PipelineDeviation \/ PipelineSetConnectorState
  PROVE  TypeInv'
<1>1. pc.phase \in {"dispatch", "state"} /\ pc \in ReconcileIteration
  BY PcType DEF TypeInv, PipelineDeviation, InState, PipelineSetConnectorState
<1>2. CASE PipelineDeviation
  <2> DEFINE i == IF ConnectorsManaged(pc.inst) THEN [pc EXCEPT !.phase = "state"]
                                                ELSE AfterState(pc)
             j == [iter["pipeline"] EXCEPT !.inst = TransitionToNew(@), !.phase = "status"]
  <2>1. i \in ReconcileIteration /\ i.phase \notin {"newtable", "newconnector"}
    BY <1>1, PipelineRefresh DEF ReconcileIteration, Phases
  <2>2. j \in ReconcileIteration /\ j.phase \notin {"newtable", "newconnector"}
    BY <1>1, PipelineRefresh DEF Refresh, pc
  <2>3. /\ Goto("pipeline", i) \/ Goto("pipeline", j) \/ Fail("pipeline")
        /\ UNCHANGED <<dbVars, connectors>>
    BY <1>2 DEF PipelineDeviation, DeviationStep
  <2> HIDE DEF i, j
  <2>4. CASE Goto("pipeline", i) \/ Goto("pipeline", j)
    BY <2>1, <2>2, <2>3, <2>4, PipelineGoto, DbUnchanged DEF TypeInv, ConnectTypeOK
  <2>5. CASE Fail("pipeline")
    BY <2>3, <2>5, FailUntouchedTypes DEF FailUntouched, Controllers
  <2> QED
    BY <2>3, <2>4, <2>5
<1>3. CASE PipelineSetConnectorState
  <2>1. CASE FailUntouched("pipeline")
    BY <2>1, FailUntouchedTypes DEF Controllers
  <2>2. CASE /\ SetConnectorState(pc.inst.status.connector, pc.inst.spec.paused)
             /\ Goto("pipeline", AfterState(pc)) /\ UNCHANGED dbVars
    <3>1. pc.inst.spec.paused \in BOOLEAN
      BY <1>1, ModesAssumption DEF ReconcileIteration, CyndiPipeline, PipelineSpec
    <3>2. ConnectTypeOK'
      BY <2>2, <3>1, SetConnectorStateType DEF TypeInv
    <3>3. KubeTypeOK' /\ IterTypeOK' /\ SyncNames'
      BY <1>1, <2>2, PipelineRefresh, PipelineGoto
    <3> QED
      BY <2>2, <3>2, <3>3, DbUnchanged DEF TypeInv
  <2> QED
    BY <1>3, <2>1, <2>2 DEF PipelineSetConnectorState
<1> QED
  BY <1>2, <1>3

LEMMA ViewTypes ==
  ASSUME TypeInv,
         RecreateViewIfNeeded \/ GrantView \/ UpdateViewIfHealthier \/ GrantHealthierView
  PROVE  TypeInv'
<1> DEFINE t == pc.inst.status.table
<1>1. pc.phase # "idle"
  BY DEF RecreateViewIfNeeded, GrantView, UpdateViewIfHealthier, GrantHealthierView
<1>2. \/ FailUntouched("pipeline")
      \/ /\ \/ \E next \in {"status", "grant", "healthiergrant"} : Proceed("pipeline", next)
            \/ Goto("pipeline", Refresh(pc))
         /\ UNCHANGED dbVars \/ CreateView(t) \/ GrantSelect
         /\ UNCHANGED connectors
  <2>1. CASE RecreateViewIfNeeded
    BY <2>1 DEF RecreateViewIfNeeded, FailUntouched
  <2>2. CASE GrantView
    BY <2>2 DEF GrantView, FailUntouched
  <2>3. CASE UpdateViewIfHealthier
    BY <2>3 DEF UpdateViewIfHealthier
  <2>4. CASE GrantHealthierView
    BY <2>4 DEF GrantHealthierView
  <2> QED
    BY <2>1, <2>2, <2>3, <2>4
<1>3. CASE FailUntouched("pipeline")
  BY <1>3, FailUntouchedTypes DEF Controllers
<1>4. CASE /\ \/ \E next \in {"status", "grant", "healthiergrant"} : Proceed("pipeline", next)
              \/ Goto("pipeline", Refresh(pc))
           /\ UNCHANGED dbVars \/ CreateView(t) \/ GrantSelect
           /\ UNCHANGED connectors
  <2>1. KubeTypeOK' /\ IterTypeOK' /\ SyncNames'
    <3>1. CASE Goto("pipeline", Refresh(pc))
      BY <1>1, <3>1, PipelineRefresh, PipelineGoto
    <3>2. CASE \E next \in {"status", "grant", "healthiergrant"} : Proceed("pipeline", next)
      BY <1>1, <3>2, PipelineProceed DEF Phases
    <3> QED
      BY <1>4, <3>1, <3>2
  <2>2. DbTypeOK'
    <3>1. CASE GrantSelect
      BY <3>1 DEF TypeInv, DbTypeOK, GrantSelect
    <3> QED
      BY <1>4, <3>1, DbUnchanged, CreateViewType DEF TypeInv
  <2> QED
    BY <1>4, <2>1, <2>2 DEF TypeInv, ConnectTypeOK
<1> QED
  BY <1>2, <1>3, <1>4

LEMMA UpdateStatusTypes ==
  ASSUME TypeInv, NEW c \in Controllers, UpdateStatusAndRequeue(c)
  PROVE  TypeInv'
<1>1. KubeTypeOK' /\ IterTypeOK' /\ DbTypeOK' /\ ConnectTypeOK'
  BY UpdateStatusType, DbUnchanged DEF TypeInv, UpdateStatusAndRequeue, ConnectTypeOK
<1>2. iter' = [iter EXCEPT ![c] = Idle]
  BY DEF UpdateStatusAndRequeue, Fail, UpdateStatus
<1>3. SyncNames'
  BY <1>2, SyncNamesIdle DEF TypeInv
<1> QED
  BY <1>1, <1>3 DEF TypeInv

LEMMA CallFailsTypes ==
  ASSUME TypeInv, NEW c \in Controllers, CallFails(c)
  PROVE  TypeInv'
  BY FailUntouchedTypes DEF CallFails

LEMMA PipelineTypes ==
  ASSUME TypeInv, PipelineNext
  PROVE  TypeInv'
<1>1. CASE PipelineSetup \/ PipelineSkip
  BY <1>1, PipelineSetupTypes
<1>2. CASE DeleteStaleConnectors \/ DeleteStaleTables
  BY <1>2, CleanupTypes
<1>3. CASE RemoveFinalizer \/ Abort
  BY <1>3, RemovalTypes
<1>4. CASE StartInitialSync \/ CreateNewTable \/ CreateNewConnector
  BY <1>4, CreationTypes
<1>5. CASE PipelineDeviation \/ PipelineSetConnectorState
  BY <1>5, DeviationTypes
<1>6. CASE RecreateViewIfNeeded \/ GrantView \/ UpdateViewIfHealthier \/ GrantHealthierView
  BY <1>6, ViewTypes
<1>7. CASE PipelineUpdateStatus
  BY <1>7, UpdateStatusTypes DEF PipelineUpdateStatus, Controllers
<1>8. CASE PipelineCallFails
  BY <1>8, CallFailsTypes DEF PipelineCallFails, Controllers
<1> QED
  BY <1>1, <1>2, <1>3, <1>4, <1>5, <1>6, <1>7, <1>8 DEF PipelineNext

LEMMA VcType ==
  ASSUME IterTypeOK, vc.phase # "idle"
  PROVE  /\ vc \in ReconcileIteration /\ iter["validation"].phase # "idle"
         /\ vc.inst \in CyndiPipeline /\ vc.inst.status \in PipelineStatus
<1>1. vc \in ReconcileIteration
  BY BusyType DEF vc, Controllers
<1> QED
  BY <1>1 DEF vc, ReconcileIteration, CyndiPipeline

LEMMA ValidationGoto ==
  ASSUME TypeInv, NEW i \in ReconcileIteration, Goto("validation", i),
         UNCHANGED <<dbVars, connectors>>
  PROVE  TypeInv'
<1>1. KubeTypeOK' /\ IterTypeOK' /\ DbTypeOK' /\ ConnectTypeOK'
  BY GotoType, DbUnchanged DEF TypeInv, Controllers, ConnectTypeOK
<1>2. pc' = pc
  BY VcStep DEF Goto, TypeInv
<1> QED
  BY <1>1, <1>2 DEF TypeInv, SyncNames

LEMMA ValidationTypes ==
  ASSUME TypeInv, ValidationNext
  PROVE  TypeInv'
<1>1. CASE ValidationSetup
  <2>1. Setup("validation", "deviation", TRUE)
    BY <1>1 DEF ValidationSetup
  <2>2. KubeTypeOK' /\ IterTypeOK'
    BY <2>1, SetupType DEF TypeInv, Phases, Controllers
  <2>3. pc' = pc
    BY <2>1, VcStep DEF Setup, TypeInv
  <2>4. UNCHANGED <<dbVars, connectors>>
    BY <2>1 DEF Setup
  <2> QED
    BY <2>2, <2>3, <2>4, DbUnchanged DEF TypeInv, SyncNames, ConnectTypeOK
<1>2. CASE ValidationSkip
  <2>1. SkipRequest("validation")
    BY <1>2 DEF ValidationSkip
  <2>2. KubeTypeOK' /\ IterTypeOK'
    BY <2>1, SkipRequestType DEF TypeInv
  <2>3. UNCHANGED <<dbVars, connectors, iter>>
    BY <2>1 DEF SkipRequest
  <2> QED
    BY <2>2, <2>3, DbUnchanged DEF TypeInv, SyncNames, ConnectTypeOK, pc
<1>3. CASE ValidationDeviation
  <2> DEFINE i == [vc EXCEPT !.phase = "validate"]
             j == [iter["validation"] EXCEPT !.inst = TransitionToNew(@), !.phase = "status"]
  <2>1. vc \in ReconcileIteration
    BY <1>3, VcType DEF TypeInv, ValidationDeviation
  <2>2. i \in ReconcileIteration
    BY <2>1 DEF ReconcileIteration, Phases
  <2>3. j \in ReconcileIteration
    BY <2>1, RefreshType DEF vc
  <2>4. /\ Goto("validation", i) \/ Goto("validation", j) \/ Fail("validation")
        /\ UNCHANGED <<dbVars, connectors>>
    BY <1>3 DEF ValidationDeviation, DeviationStep
  <2> HIDE DEF i, j
  <2>5. CASE Fail("validation")
    BY <2>4, <2>5, FailUntouchedTypes DEF FailUntouched, Controllers
  <2> QED
    BY <2>2, <2>3, <2>4, <2>5, ValidationGoto
<1>4. CASE Validate
  <2>1. CASE FailUntouched("validation")
    BY <2>1, FailUntouchedTypes DEF Controllers
  <2>2. CASE ~FailUntouched("validation")
    <3> DEFINE i(verdict, h) == [vc EXCEPT !.phase = "status",
                                           !.inst.status = SetValid(@, verdict, h)]
    <3>1. PICK verdict \in Verdicts(vc.inst.status.table), h \in HostCounts :
            Goto("validation", i(verdict, h)) /\ UNCHANGED <<dbVars, connectors>>
      BY <1>4, <2>2 DEF Validate
    <3>2. verdict \in ConditionStatus
      BY DEF Verdicts, ConditionStatus
    <3>3. vc \in ReconcileIteration /\ vc.inst \in CyndiPipeline /\ vc.inst.status \in PipelineStatus
      BY <1>4, VcType DEF TypeInv, Validate
    <3> DEFINE s == SetValid(vc.inst.status, verdict, h)
    <3>4. s \in PipelineStatus
      BY <3>2, <3>3, SetValidType
    <3>5. i(verdict, h) = [vc EXCEPT !.phase = "status", !.inst = [vc.inst EXCEPT !.status = s]]
      BY <3>3 DEF ReconcileIteration, CyndiPipeline
    <3> HIDE DEF s, i
    <3>6. [vc.inst EXCEPT !.status = s] \in CyndiPipeline
      BY <3>3, <3>4 DEF CyndiPipeline
    <3>7. i(verdict, h) \in ReconcileIteration
      BY <3>3, <3>5, <3>6 DEF ReconcileIteration, Phases
    <3> QED
      BY <3>1, <3>7, ValidationGoto
  <2> QED
    BY <2>1, <2>2
<1>5. CASE ValidationUpdateStatus
  BY <1>5, UpdateStatusTypes DEF ValidationUpdateStatus, Controllers
<1>6. CASE ValidationCallFails
  BY <1>6, CallFailsTypes DEF ValidationCallFails, Controllers
<1> QED
  BY <1>1, <1>2, <1>3, <1>4, <1>5, <1>6 DEF ValidationNext

LEMMA DisturbanceTypes ==
  ASSUME TypeInv, UserEdits \/ UserDeletes \/ AdminConfigures
                  \/ TableDropped \/ TableDrifts \/ ConnectorDisturbed
  PROVE  TypeInv'
<1>1. CASE UserEdits
  <2>1. PICK spec \in PipelineSpec : EditSpec(spec)
    BY <1>1 DEF UserEdits
  <2> DEFINE new == [api EXCEPT !.spec = spec]
  <2>2. new \in CyndiPipeline
    BY DEF TypeInv, KubeTypeOK, CyndiPipeline
  <2>3. WriteApi(new, {}) /\ UNCHANGED <<cache, queue, configMap>>
    BY <2>1 DEF EditSpec
  <2> HIDE DEF new
  <2>4. KubeTypeOK'
    BY <2>2, <2>3, WriteApiType DEF TypeInv, KubeTypeOK
  <2> QED
    BY <1>1, <2>4, DbUnchanged DEF UserEdits, TypeInv, ConnectTypeOK, IterTypeOK, SyncNames, pc
<1>2. CASE UserDeletes
  <2> DEFINE new == [api EXCEPT !.deleting = TRUE, !.exists = api.finalizer]
  <2>1. new \in CyndiPipeline
    BY DEF TypeInv, KubeTypeOK, CyndiPipeline
  <2>2. WriteApi(new, {}) /\ UNCHANGED <<cache, queue, configMap>>
    BY <1>2 DEF UserDeletes, DeleteResource
  <2> HIDE DEF new
  <2>3. KubeTypeOK'
    BY <2>1, <2>2, WriteApiType DEF TypeInv, KubeTypeOK
  <2> QED
    BY <1>2, <2>3, DbUnchanged DEF UserDeletes, TypeInv, ConnectTypeOK, IterTypeOK, SyncNames, pc
<1>3. CASE AdminConfigures
  <2>1. KubeTypeOK'
    BY <1>3 DEF AdminConfigures, ConfigMapChange, TypeInv, KubeTypeOK, Controllers
  <2> QED
    BY <1>3, <2>1, DbUnchanged
       DEF AdminConfigures, TypeInv, ConnectTypeOK, IterTypeOK, SyncNames, pc
<1>4. CASE TableDropped \/ TableDrifts
  <2>1. DbTypeOK'
    <3>1. CASE TableDropped
      BY <3>1, DeleteTablesType DEF TableDropped, TypeInv
    <3>2. CASE TableDrifts
      BY <3>2 DEF TableDrifts, Drift, TypeInv, DbTypeOK
    <3> QED
      BY <1>4, <3>1, <3>2
  <2>2. UNCHANGED <<kubeVars, connectors, iter>>
    BY <1>4 DEF TableDropped, TableDrifts
  <2> QED
    BY <2>1, <2>2 DEF TypeInv, KubeTypeOK, kubeVars, ConnectTypeOK, IterTypeOK, SyncNames, pc
<1>5. CASE ConnectorDisturbed
  <2>1. PICK k \in connectors : \/ DeleteConnectors({k.name})
                                \/ ConnectorFails(k)
                                \/ ConnectorReconfigured(k)
    BY <1>5 DEF ConnectorDisturbed
  <2>2. /\ [k EXCEPT !.failed = TRUE] \in Connector
        /\ [k EXCEPT !.config.spec = Nil] \in Connector
    BY DEF TypeInv, ConnectTypeOK, Connector, ConnectorConfig
  <2>3. ConnectTypeOK'
    BY <2>1, <2>2
       DEF TypeInv, ConnectTypeOK, DeleteConnectors, ConnectorFails, ConnectorReconfigured
  <2>4. UNCHANGED <<kubeVars, dbVars, iter>>
    BY <1>5 DEF ConnectorDisturbed
  <2> QED
    BY <2>3, <2>4, DbUnchanged DEF TypeInv, KubeTypeOK, kubeVars, IterTypeOK, SyncNames, pc
<1> QED
  BY <1>1, <1>2, <1>3, <1>4, <1>5

LEMMA EnvironmentTypes ==
  ASSUME TypeInv, TableSeeded \/ EventDelivered \/ Crash
  PROVE  TypeInv'
<1>1. CASE TableSeeded
  <2>1. DbTypeOK' /\ UNCHANGED <<kubeVars, connectors, iter>>
    BY <1>1 DEF TableSeeded, Seed, TypeInv, DbTypeOK
  <2> QED
    BY <2>1 DEF TypeInv, KubeTypeOK, kubeVars, ConnectTypeOK, IterTypeOK, SyncNames, pc
<1>2. CASE EventDelivered
  <2>1. KubeTypeOK' /\ UNCHANGED <<dbVars, connectors, iter>>
    BY <1>2, DeliverType DEF EventDelivered, TypeInv
  <2> QED
    BY <2>1, DbUnchanged DEF TypeInv, ConnectTypeOK, IterTypeOK, SyncNames, pc
<1>3. CASE Crash
  <2>1. KubeTypeOK'
    BY <1>3 DEF Crash, Restart, TypeInv, KubeTypeOK
  <2>2. IterTypeOK' /\ pc' = Idle
    BY <1>3 DEF Crash, IterTypeOK, pc, Controllers
  <2> QED
    BY <1>3, <2>1, <2>2, DbUnchanged DEF Crash, TypeInv, ConnectTypeOK, SyncNames, Idle
<1> QED
  BY <1>1, <1>2, <1>3

LEMMA InitTypes ==
  ASSUME Init
  PROVE  TypeInv /\ disturbed \in 0..MaxDisturbances
<1>1. EmptyStatus \in PipelineStatus
  BY DEF EmptyStatus, PipelineStatus, ConditionStatus
<1>2. KubeTypeOK
  BY <1>1 DEF Init, KubeInit, KubeTypeOK, CyndiPipeline
<1>3. DbTypeOK /\ ConnectTypeOK
  BY DEF Init, DbInit, DbTypeOK, ConnectInit, ConnectTypeOK
<1>4. IterTypeOK /\ pc = Idle
  BY DEF Init, IterInit, IterTypeOK, pc, Controllers
<1>5. SyncNames
  BY <1>4 DEF SyncNames, Idle
<1>6. disturbed \in 0..MaxDisturbances
  BY DisturbanceAssumption DEF Init
<1> QED
  BY <1>2, <1>3, <1>4, <1>5, <1>6 DEF TypeInv

LEMMA NextTypes ==
  ASSUME TypeInv, disturbed \in 0..MaxDisturbances, [Next]_opVars
  PROVE  TypeInv' /\ disturbed' \in 0..MaxDisturbances
<1>1. CASE PipelineStep
  BY <1>1, PipelineTypes DEF PipelineStep
<1>2. CASE ValidationStep
  BY <1>2, ValidationTypes DEF ValidationStep
<1>3. CASE TableSeeded \/ EventDelivered \/ Crash
  BY <1>3, EnvironmentTypes DEF TableSeeded, EventDelivered, Crash
<1>4. CASE Disturb
  <2>1. disturbed < MaxDisturbances /\ disturbed' = disturbed + 1
    BY <1>4 DEF Disturb, UserEdits, UserDeletes, AdminConfigures, TableDropped, TableDrifts,
                ConnectorDisturbed, May
  <2>2. disturbed' \in 0..MaxDisturbances
    BY <2>1, DisturbanceAssumption
  <2> QED
    BY <1>4, <2>2, DisturbanceTypes DEF Disturb
<1>5. CASE UNCHANGED opVars
  BY <1>5 DEF opVars, vars, TypeInv, KubeTypeOK, kubeVars, DbTypeOK, dbVars, ConnectTypeOK,
              IterTypeOK, SyncNames, pc
<1> QED
  BY <1>1, <1>2, <1>3, <1>4, <1>5 DEF Next

\* Type correctness: whatever the faults, the lag and the disturbances, every
\* name in a status, an iteration or a connector is a proper name, and the
\* view selects from a table that exists (DROP ... CASCADE keeps it so).
THEOREM TypeCorrect == Spec => []TypeOK
<1> DEFINE Inv == TypeInv /\ disturbed \in 0..MaxDisturbances
<1>1. Init => Inv
  BY InitTypes
<1>2. Inv /\ [Next]_opVars => Inv'
  BY NextTypes
<1>3. Inv => TypeOK
  BY DEF TypeInv, TypeOK
<1> QED
  BY <1>1, <1>2, <1>3, PTL DEF Spec
============================================================================
