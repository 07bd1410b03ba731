------------------------- MODULE PipelineController -------------------------
(***************************************************************************)
(* CyndiPipelineReconciler.Reconcile of                                    *)
(* controllers/cyndipipeline_controller.go, one action for each step that  *)
(* another actor can observe or interrupt.                                 *)
(***************************************************************************)
EXTENDS Iteration

CONSTANT Ephemeral  \* the EPHEMERAL environment variable

ASSUME EphemeralAssumption == Ephemeral \in BOOLEAN

pc == iter["pipeline"]

\* Removed, with or without errors, the resource is finalized in phase
\* "dispatch"; all other states go on only when there were no errors.
InState(states) == pc.phase = "dispatch" /\ GetState(pc.inst) \in states

PipelineSetup ==
  \E ok \in {TRUE} \cup (IF "setup" \in Faults THEN {FALSE} ELSE {}) :
    Setup("pipeline", "connectors", ok)

PipelineSkip == ~cache.exists /\ SkipRequest("pipeline")
----------------------------------------------------------------------------
\* Mutant of connectorsToKeep: only the pipeline's own connector is kept.
KeepLatestConnector(p, current) ==
  IF GetState(p) = "REMOVED" \/ ~ConnectorsManaged(p) \/ p.status.version = Nil THEN {}
  ELSE {ConnectorName(p.status.version, p.spec.app)}

connectorsToKeep(p, current) ==
  IF GetState(p) = "REMOVED" \/ ~ConnectorsManaged(p) THEN {}
  ELSE {ConnectorName(v, p.spec.app) : v \in {p.status.version} \ {Nil}} \cup
       {TableNameToConnectorName(t, p.spec.app) : t \in {current} \ {Nil}}

\* Mutant of tablesToKeep: only the pipeline's own table is kept.
KeepLatestTable(p, current) ==
  IF GetState(p) = "REMOVED" THEN {}
  ELSE {TableName(v) : v \in {p.status.version} \ {Nil}}

\* Mutant of tablesToKeep: only the active table is kept.
KeepActiveTable(p, current) ==
  IF GetState(p) = "REMOVED" THEN {} ELSE {current} \ {Nil}

\* Mutant of tablesToKeep: tables are deleted on removal only.
KeepAllTables(p, current) ==
  IF GetState(p) = "REMOVED" THEN {} ELSE tables

\* Mutant of tablesToKeep: the active table survives the pipeline.
KeepActiveTableAlways(p, current) ==
  ({current} \ {Nil}) \cup
  (IF GetState(p) = "REMOVED" THEN {}
   ELSE {TableName(v) : v \in {p.status.version} \ {Nil}} \cup ({p.status.table} \ {Nil}))

tablesToKeep(p, current) ==
  IF GetState(p) = "REMOVED" THEN {}
  ELSE {TableName(v) : v \in {p.status.version} \ {Nil}} \cup
       (IF ConnectorsManaged(p) THEN {} ELSE {p.status.table} \ {Nil}) \cup
       ({current} \ {Nil})

\* Which of the stale objects are really deleted when a call may fail.
Deleted(stale, failed) == IF failed THEN SUBSET stale ELSE {stale}

CleanupResults == IF "cleanup" \in Faults THEN BOOLEAN ELSE {FALSE}

\* deleteStaleDependencies up to the loop over the connectors.  It runs after
\* a failed setup too; GetCurrentTable then fails for want of a connection.
DeleteStaleConnectors ==
  /\ pc.phase = "connectors"
  /\ \E r \in IF pc.connected THEN GetCurrentTable ELSE {[table |-> Nil, err |-> TRUE]},
        failed \in CleanupResults :
       LET stale == {k.name : k \in connectors} \ connectorsToKeep(pc.inst, r.table) IN
       /\ \E gone \in Deleted(stale, failed) : DeleteConnectors(gone)
       /\ Goto("pipeline", [pc EXCEPT !.phase = "tables", !.current = r.table,
                                      !.errors = @ \/ r.err \/ failed])
  /\ UNCHANGED dbVars

\* The rest of deleteStaleDependencies.
DeleteStaleTables ==
  /\ pc.phase = "tables"
  /\ \E listed \in IF pc.connected THEN GetCyndiTables ELSE {{}}, failed \in CleanupResults :
       LET stale == listed \ tablesToKeep(pc.inst, pc.current) IN
       /\ \E gone \in Deleted(stale, failed) : DeleteTables(gone)
       /\ Goto("pipeline", [pc EXCEPT !.phase = "dispatch", !.current = Nil,
                                      !.errors = @ \/ failed])
  /\ UNCHANGED connectors
----------------------------------------------------------------------------
\* Mutant of RemoveFinalizer: errors of the cleanup are ignored.
RemoveFinalizerAnyway ==
  /\ InState({"REMOVED"})
  /\ "pipeline" \in fresh
  /\ WriteApi([api EXCEPT !.finalizer = FALSE, !.exists = FALSE], {})
  /\ iter' = [iter EXCEPT !["pipeline"] = Idle]
  /\ UNCHANGED <<cache, queue, configMap, dbVars, connectors>>

\* STATE_REMOVED.  The finalizer goes only after a cleanup without errors,
\* except in an ephemeral environment.
RemoveFinalizer ==
  /\ InState({"REMOVED"})
  /\ ~pc.errors \/ Ephemeral
  /\ "pipeline" \in fresh
  /\ WriteApi([api EXCEPT !.finalizer = FALSE, !.exists = FALSE], {})
  /\ iter' = [iter EXCEPT !["pipeline"] = Idle]
  /\ UNCHANGED <<cache, queue, configMap, dbVars, connectors>>

\* Errors of the cleanup, or a conflict on the update of the finalizers.
Abort ==
  /\ pc.phase = "dispatch"
  /\ IF GetState(pc.inst) = "REMOVED"
     THEN (pc.errors /\ ~Ephemeral) \/ "pipeline" \notin fresh
     ELSE \/ pc.errors
          \/ GetState(pc.inst) = "NEW" /\ ~pc.inst.finalizer /\ "pipeline" \notin fresh
  /\ FailUntouched("pipeline")

\* No copy of the resource and no dependency carries version v: the next
\* timestamp.  Versions that nothing mentions any more are used again.
Mentions(status, v) ==
  \/ status.version = v
  \/ TableName(v) \in {status.table, status.active}
  \/ \E a \in AppNames : status.connector = ConnectorName(v, a)

UnusedVersion(v) ==
  /\ TableName(v) \notin tables
  /\ \A k \in connectors, a \in AppNames : k.name # ConnectorName(v, a)
  /\ \A p \in {api, cache} \cup {watch[n] : n \in DOMAIN watch} : ~Mentions(p.status, v)
  /\ \A c \in Controllers : iter[c].phase # "idle" =>
       (~Mentions(iter[c].orig, v) /\ ~Mentions(iter[c].inst.status, v))

\* Which one is taken makes no difference.
NewVersion == CHOOSE v \in Versions : UnusedVersion(v)

\* addFinalizer, which writes only when there is none yet.
AddFinalizer ==
  IF pc.inst.finalizer THEN UNCHANGED kubeVars
  ELSE /\ "pipeline" \in fresh
       /\ WriteApi([api EXCEPT !.finalizer = TRUE], {"pipeline"})
       /\ UNCHANGED <<cache, queue, configMap>>

\* STATE_NEW: the finalizer is added and the new version chosen, in memory.
StartInitialSync ==
  /\ InState({"NEW"}) /\ ~pc.errors
  /\ AddFinalizer
  /\ \E v \in Versions : UnusedVersion(v)
  /\ LET p == [pc.inst EXCEPT !.finalizer = TRUE,
                              !.status.cmver = ConfigMapHash(pc.config),
                              !.status.spechash = SpecHash(pc.inst.spec)]
     IN  iter' = [iter EXCEPT !["pipeline"] =
                    [pc EXCEPT !.inst = TransitionToInitialSync(p, NewVersion),
                               !.phase = "newtable"]]
  /\ UNCHANGED <<dbVars, connectors>>

CreateNewTable ==
  /\ pc.phase = "newtable"
  /\ IF CheckIfTableExists(pc.inst.status.table)
     THEN UNCHANGED dbVars ELSE CreateTable(pc.inst.status.table)
  /\ Proceed("pipeline", IF ConnectorsManaged(pc.inst) THEN "newconnector" ELSE "status")
  /\ UNCHANGED connectors

CreateNewConnector ==
  /\ pc.phase = "newconnector"
  /\ CreateConnector(ConnectorName(pc.inst.status.version, pc.inst.spec.app), pc.inst, pc.config)
  /\ Proceed("pipeline", "status")
  /\ UNCHANGED dbVars
----------------------------------------------------------------------------
ThresholdReached(i) ==
  i.inst.status.valid = "False" /\ i.inst.status.failed >= AttemptsThreshold(i.inst, i.config)

Refresh(i) == [i EXCEPT !.inst = TransitionToNew(@), !.phase = "status"]

\* Mutant of AfterState: an invalid pipeline waits to become valid again.
AfterStateWaits(i) ==
  IF GetState(i.inst) = "VALID"
  THEN [i EXCEPT !.phase = IF ConnectorsManaged(i.inst) THEN "view" ELSE "status"]
  ELSE IF GetState(i.inst) = "INITIAL_SYNC" /\ ConnectorsManaged(i.inst) /\ ThresholdReached(i)
  THEN [i EXCEPT !.phase = "healthier"]
  ELSE [i EXCEPT !.phase = "status"]

\* How Reconcile goes on after the connector's state was set.
\* recreateViewIfNeeded and updateViewIfHealthier do nothing when the
\* connectors are not managed.
AfterState(i) ==
  IF GetState(i.inst) = "VALID"
  THEN [i EXCEPT !.phase = IF ConnectorsManaged(i.inst) THEN "view" ELSE "status"]
  ELSE IF ~ThresholdReached(i) THEN [i EXCEPT !.phase = "status"]
  ELSE IF GetState(i.inst) = "INITIAL_SYNC" /\ ConnectorsManaged(i.inst)
  THEN [i EXCEPT !.phase = "healthier"]
  ELSE Refresh(i)

PipelineDeviation ==
  /\ InState({"INITIAL_SYNC", "VALID", "INVALID", "UNKNOWN"}) /\ ~pc.errors
  /\ DeviationStep("pipeline", IF ConnectorsManaged(pc.inst)
                               THEN [pc EXCEPT !.phase = "state"] ELSE AfterState(pc))

\* SetConnectorState; the connector may be gone since the deviation check.
PipelineSetConnectorState ==
  /\ pc.phase = "state"
  /\ IF GetConnector(pc.inst.status.connector) = {}
     THEN FailUntouched("pipeline")
     ELSE /\ SetConnectorState(pc.inst.status.connector, pc.inst.spec.paused)
          /\ Goto("pipeline", AfterState(pc))
          /\ UNCHANGED dbVars

\* Mutant of RecreateViewIfNeeded: an existing view is left alone.
CreateViewOnce ==
  /\ pc.phase = "view"
  /\ IF view # Nil THEN Proceed("pipeline", "status") /\ UNCHANGED dbVars
     ELSE IF ~CheckIfTableExists(pc.inst.status.table) THEN Fail("pipeline") /\ UNCHANGED dbVars
     ELSE CreateView(pc.inst.status.table) /\ Proceed("pipeline", "grant")
  /\ UNCHANGED connectors

\* Mutant of RecreateViewIfNeeded: no privilege is granted on a new view.
RecreateViewUngranted ==
  /\ pc.phase = "view"
  /\ IF CheckIfTableExists(pc.inst.status.table)
     THEN CreateView(pc.inst.status.table) /\ Proceed("pipeline", "status")
     ELSE Fail("pipeline") /\ UNCHANGED dbVars
  /\ UNCHANGED connectors

\* recreateViewIfNeeded up to the statement that creates the view.
RecreateViewIfNeeded ==
  /\ pc.phase = "view"
  /\ \E r \in GetCurrentTable :
       IF r.err THEN Fail("pipeline") /\ UNCHANGED dbVars
       ELSE IF r.table = pc.inst.status.table
       THEN Proceed("pipeline", "status") /\ UNCHANGED dbVars
       ELSE IF ~CheckIfTableExists(pc.inst.status.table)
       THEN Fail("pipeline") /\ UNCHANGED dbVars
       ELSE CreateView(pc.inst.status.table) /\ Proceed("pipeline", "grant")
  /\ UNCHANGED connectors

\* The rest of UpdateView; the view may be gone with its table.
GrantView ==
  /\ pc.phase = "grant"
  /\ IF view = Nil THEN Fail("pipeline") /\ UNCHANGED dbVars
     ELSE GrantSelect /\ Proceed("pipeline", "status")
  /\ UNCHANGED connectors

\* updateViewIfHealthier.  The comparison of host counts may go either way;
\* there is none without a view.  Its errors do not stop the refresh.
UpdateViewIfHealthier ==
  /\ pc.phase = "healthier"
  /\ \/ /\ \E r \in GetCurrentTable : r.err \/ r.table # Nil \/ ~CheckIfTableExists(pc.inst.status.table)
                                            \/ "call" \in Faults
        /\ Goto("pipeline", Refresh(pc))
        /\ UNCHANGED dbVars
     \/ /\ \E r \in GetCurrentTable : ~r.err /\ r.table # pc.inst.status.table
        /\ CreateView(pc.inst.status.table)
        /\ Proceed("pipeline", "healthiergrant")
  /\ UNCHANGED connectors

GrantHealthierView ==
  /\ pc.phase = "healthiergrant"
  /\ \/ view # Nil /\ GrantSelect
     \/ (view = Nil \/ "call" \in Faults) /\ UNCHANGED dbVars
  /\ Goto("pipeline", Refresh(pc))
  /\ UNCHANGED connectors

PipelineUpdateStatus == UpdateStatusAndRequeue("pipeline")

PipelineCallFails == CallFails("pipeline")

PipelineNext ==
  \/ PipelineSetup \/ PipelineSkip
  \/ DeleteStaleConnectors \/ DeleteStaleTables
  \/ RemoveFinalizer \/ Abort
  \/ StartInitialSync \/ CreateNewTable \/ CreateNewConnector
  \/ PipelineDeviation \/ PipelineSetConnectorState
  \/ RecreateViewIfNeeded \/ GrantView
  \/ UpdateViewIfHealthier \/ GrantHealthierView
  \/ PipelineUpdateStatus \/ PipelineCallFails
============================================================================
