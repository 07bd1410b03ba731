--------------------------- MODULE CyndiOperator ---------------------------
(***************************************************************************)
(* The operator: both controllers, reconciling one CyndiPipeline, and the  *)
(* environment they run in.                                                *)
(***************************************************************************)
EXTENDS PipelineController, ValidationController

CONSTANTS
  Disturbances,     \* what the environment may do, a subset of DisturbanceKinds
  MaxDisturbances   \* and how often in all

VARIABLE disturbed  \* how often it did

opVars == <<vars, disturbed>>

DisturbanceKinds ==
  {"edit", "delete", "config", "drop table", "drop connector",
   "fail connector", "edit connector", "drift"}

ASSUME DisturbanceAssumption ==
  Disturbances \subseteq DisturbanceKinds /\ MaxDisturbances \in Nat

TypeOK ==
  /\ KubeTypeOK /\ DbTypeOK /\ ConnectTypeOK /\ IterTypeOK
  /\ disturbed \in 0..MaxDisturbances

Init == KubeInit /\ DbInit /\ ConnectInit /\ IterInit /\ disturbed = 0
----------------------------------------------------------------------------
May(kind) == kind \in Disturbances /\ disturbed < MaxDisturbances

UserEdits ==
  /\ May("edit")
  /\ \E spec \in PipelineSpec : EditSpec(spec)
  /\ UNCHANGED <<dbVars, connectors, iter>>

UserDeletes == May("delete") /\ DeleteResource /\ UNCHANGED <<dbVars, connectors, iter>>

AdminConfigures ==
  /\ May("config")
  /\ \E new \in ConfigMaps : ConfigMapChange(new)
  /\ UNCHANGED <<dbVars, connectors, iter>>

TableDropped ==
  /\ May("drop table")
  /\ \E t \in tables : DeleteTables({t})
  /\ UNCHANGED <<kubeVars, connectors, iter>>

TableDrifts ==
  /\ May("drift")
  /\ \E t \in synced : Drift(t)
  /\ UNCHANGED <<kubeVars, connectors, iter>>

ConnectorDisturbed ==
  /\ \E k \in connectors :
       \/ May("drop connector") /\ DeleteConnectors({k.name})
       \/ May("fail connector") /\ ~k.failed /\ ConnectorFails(k)
       \/ May("edit connector") /\ k.config.spec # Nil /\ ConnectorReconfigured(k)
  /\ UNCHANGED <<kubeVars, dbVars, iter>>

Disturb ==
  /\ \/ UserEdits \/ UserDeletes \/ AdminConfigures
     \/ TableDropped \/ TableDrifts \/ ConnectorDisturbed
  /\ disturbed' = disturbed + 1
----------------------------------------------------------------------------
\* A table is brought up to date by the connector that feeds it.  Without
\* managed connectors somebody else runs one.
TableSeeded ==
  /\ \E t \in tables \ synced :
       /\ (\E k \in connectors : Feeds(k, t)) \/ (~api.spec.managed /\ t = api.status.table)
       /\ Seed(t)
  /\ UNCHANGED <<kubeVars, connectors, iter, disturbed>>

EventDelivered ==
  /\ \E k \in DOMAIN watch : Deliver(k)
  /\ UNCHANGED <<dbVars, connectors, iter, disturbed>>

\* main() runs again: both iterations are lost wherever they were.
Crash ==
  /\ "crash" \in Faults
  /\ Restart
  /\ iter' = [c \in Controllers |-> Idle]
  /\ UNCHANGED <<dbVars, connectors, disturbed>>

PipelineStep == PipelineNext /\ UNCHANGED disturbed

ValidationStep == ValidationNext /\ UNCHANGED disturbed

Next ==
  \/ PipelineStep \/ ValidationStep
  \/ TableSeeded \/ EventDelivered \/ Crash \/ Disturb

Spec == Init /\ [][Next]_opVars

\* Reconciles are run, timers fire and events arrive.  No fault is fair.
LiveSpec ==
  /\ Spec
  /\ WF_opVars(PipelineStep) /\ WF_opVars(ValidationStep) /\ WF_opVars(EventDelivered)

\* In addition the connectors write what they read from the topic.
FairSpec == LiveSpec /\ WF_opVars(TableSeeded)
----------------------------------------------------------------------------
\* A step of one of the controllers, as opposed to one of the environment.
ControllerSteps == iter' # iter

\* Every status that was ever written lies in a state of the state diagram:
\* PipelineVersion, InitialSyncInProgress, the Valid condition and
\* ValidationFailedCount agree, so GetState never answers UNKNOWN and the
\* count is of the failures since the last success or refresh (state.go).
StatusCoherent ==
  /\ GetState(api) # "UNKNOWN"
  /\ api.status.failed > 0 <=> api.status.valid = "False"
  /\ api.status.version = Nil => ~api.status.initsync /\ api.status.valid = "Unknown"
  /\ api.status.valid = "True" => ~api.status.initsync

\* A status is only replaced by one computed from it, for the definition that
\* is in force: the conflict check of updateStatusAndRequeue keeps the
\* controllers from undoing each other's transitions, whatever they read.
NoLostUpdate ==
  [][api'.status # api.status =>
       \E c \in Controllers :
         /\ iter[c].phase = "status"
         /\ iter[c].orig = api.status
         /\ iter[c].inst.spec = api.spec
         /\ iter[c].inst.deleting = api.deleting]_opVars

\* The view is never taken from its readers: deleteStaleDependencies drops
\* the table it selects from (and with CASCADE the view) only on removal.
ActiveTableKept ==
  [][view # Nil /\ ControllerSteps /\ ~api.deleting => view' # Nil]_opVars

\* The connector that feeds the active table is kept while its successor is
\* seeded (README, "Typical flow"), as long as connectors are managed.
OldConnectorKept ==
  [][ControllerSteps /\ pc.phase = "connectors" /\ ConnectorsManaged(pc.inst) /\ ~pc.inst.deleting =>
       \A k \in connectors : k.config.table = view => \E l \in connectors' : l.name = k.name]_opVars

\* The table that the committed status names is not stale: no reconcile of
\* the pipeline controller drops it.
LiveTableKept ==
  [][/\ ControllerSteps /\ ~api.deleting /\ api.status.version # Nil
     /\ api.status.table \in tables
     => api.status.table \in tables']_opVars

\* The view moves only to a table that matched the inventory at some time
\* since it was created, except where a pipeline ran out of attempts and
\* updateViewIfHealthier picks the lesser evil.
ViewOnlyToSeeded ==
  [][view' \notin {view, Nil} =>
       \/ view' \in seeded
       \/ pc.phase = "healthier" /\ ThresholdReached(pc)]_opVars

\* However often reconciles fail, stop half way or work on an old copy, at
\* most two tables and two connectors exist: the cleanup of one reconcile
\* comes before its creations, and creates nothing when it had an error.
DependenciesBounded == Cardinality(tables) <= 2 /\ Cardinality(connectors) <= 2

\* An external connector writes into the table it was pointed at: as long as
\* connectors are not managed a refresh keeps the name of the table.
UnmanagedTableStable ==
  [][~ConnectorsManaged(api) /\ api.status.table # Nil =>
       api'.status.table = api.status.table]_opVars

\* When the resource is gone so are the tables, the view and the connectors,
\* and no reconcile with an older copy brings one back.
CleanRemoval == ~api.exists => tables = {} /\ connectors = {} /\ view = Nil

\* Nobody is forgotten.  The validation controller returns without requeueing
\* in NEW and REMOVED and counts on eventFilterPredicate to wake it; the
\* pipeline controller stops only when the resource is gone.
NoLostWakeup ==
  /\ vc.phase = "idle" /\ "validation" \notin queue => NothingToValidate(cache)
  /\ pc.phase = "idle" /\ "pipeline" \notin queue => ~api.exists

\* The application can read its hosts: whoever creates the view also grants
\* the select, in the same reconcile (UpdateView).
ViewReadable == view # Nil /\ ~granted => pc.phase \in {"grant", "healthiergrant"}
----------------------------------------------------------------------------
life == INSTANCE Lifecycle WITH
  state <- IF api.exists THEN GetState(api) ELSE "GONE",
  footprint <- tables # {} \/ connectors # {},
  shown <- view # Nil,
  TablesLost <- "drop table" \in Disturbances

\* The two controllers together implement the state diagram: however their
\* reconciles interleave, the committed state moves along its arrows only,
\* the view survives every refresh, and nothing is left or comes back when
\* the resource is gone.
FollowsLifecycle == life!Spec
----------------------------------------------------------------------------
\* The definition and the configuration are what the table was built for.
UpToDate ==
  /\ api.status.cmver = ConfigMapHash(configMap)
  /\ api.status.spechash = SpecHash(api.spec)

\* The goal of the operator.
Settled ==
  IF api.deleting THEN ~api.exists
  ELSE /\ GetState(api) = "VALID" /\ UpToDate
       /\ IF ConnectorsManaged(api)
          THEN /\ tables = {api.status.table}
               /\ view = api.status.table /\ api.status.active = view /\ granted
               /\ {k.name : k \in connectors} = {api.status.connector}
          ELSE api.status.table \in tables /\ connectors = {}

\* Automated recovery: once the environment stops disturbing it the pipeline
\* becomes and stays valid, the view selects from its table, and nothing
\* stale is left; a deleted pipeline goes away.  (A paused connector never
\* seeds its table.)
Converges == <>[](~api.spec.paused) => <>[]Settled

\* A pipeline that used up its attempts is refreshed, unless it recovers.
FailedPipelineRefreshed ==
  (/\ ~api.deleting /\ api.status.valid = "False"
   /\ api.status.failed >= AttemptsThreshold(api, configMap))
  ~> (api.deleting \/ api.status.valid # "False")
============================================================================
