----------------------------- MODULE ViewProofs -----------------------------
(***************************************************************************)
(* The cleanup of the pipeline controller never takes the view from its    *)
(* readers, provided that no query fails unnoticed.                        *)
(***************************************************************************)
EXTENDS StatusProofs

\* What GetCurrentTable answered still holds when the stale tables are
\* dropped, two calls later: nobody else moves the view, although somebody
\* may have dropped it.
CurrentInv ==
  pc.phase = "tables" /\ pc.connected => view \in {pc.current, Nil}

LEMMA CurrentFrame ==
  ASSUME CurrentInv, pc' = pc, view' \in {view, Nil}
  PROVE  CurrentInv'
  BY DEF CurrentInv

LEMMA CurrentElsewhere ==
  ASSUME pc'.phase # "tables"
  PROVE  CurrentInv'
  BY DEF CurrentInv

\* The pipeline controller reaches phase "tables" through
\* DeleteStaleConnectors only.
LEMMA OtherPhases ==
  ASSUME TypeInv, PipelineNext, ~DeleteStaleConnectors, ~PipelineSkip
  PROVE  pc'.phase # "tables"
<1> USE DEF TypeInv
<1>1. ASSUME iter' = [iter EXCEPT !["pipeline"] = Idle]
      PROVE  pc'.phase # "tables"
  <2>1. pc' = Idle
    BY <1>1, PcStep
  <2> QED
    BY <2>1 DEF Idle
<1>2. ASSUME NEW i, iter' = [iter EXCEPT !["pipeline"] = i], i.phase # "tables"
      PROVE  pc'.phase # "tables"
  BY <1>2, PcStep
<1>3. ASSUME pc.phase # "idle", NEW next, next # "tables", Proceed("pipeline", next)
      PROVE  pc'.phase # "tables"
  <2>1. [pc EXCEPT !.phase = next].phase = next
    BY <1>3, PcType DEF ReconcileIteration
  <2> QED
    BY <1>2, <1>3, <2>1 DEF Proceed, Goto, pc
<1>4. ASSUME pc.phase # "idle", Goto("pipeline", AfterState(pc)) \/ Goto("pipeline", Refresh(pc))
      PROVE  pc'.phase # "tables"
  BY <1>2, <1>4, PipelineRefresh DEF Goto
<1>5. CASE PipelineSetup
  <2>1. PICK ok : Setup("pipeline", "connectors", ok)
    BY <1>5 DEF PipelineSetup
  <2> DEFINE i == [phase |-> "connectors", inst |-> cache, orig |-> cache.status,
                   config |-> configMap, connected |-> ok, errors |-> ~ok, current |-> Nil]
  <2>2. i.phase = "connectors"
    OBVIOUS
  <2>3. iter' = [iter EXCEPT !["pipeline"] = i]
    BY <2>1 DEF Setup
  <2> HIDE DEF i
  <2> QED
    BY <1>2, <2>2, <2>3
<1>6. CASE DeleteStaleTables
  <2>1. pc \in ReconcileIteration
    BY <1>6, PcType DEF DeleteStaleTables
  <2>2. PICK f : Goto("pipeline", [pc EXCEPT !.phase = "dispatch", !.current = Nil,
                                             !.errors = @ \/ f])
    BY <1>6 DEF DeleteStaleTables
  <2> DEFINE e == pc.errors \/ f
             i == [pc EXCEPT !.phase = "dispatch", !.current = Nil, !.errors = e]
  <2>3. Goto("pipeline", i)
    BY <2>2
  <2> HIDE DEF e
  <2>4. i.phase = "dispatch"
    BY <2>1 DEF ReconcileIteration
  <2> QED
    BY <1>2, <2>3, <2>4 DEF Goto
<1>7. CASE RemoveFinalizer \/ Abort \/ PipelineUpdateStatus \/ PipelineCallFails
  BY <1>1, <1>7 DEF RemoveFinalizer, Abort, PipelineUpdateStatus, UpdateStatusAndRequeue,
                    UpdateStatus, PipelineCallFails, CallFails, FailUntouched, Fail
<1>8. CASE StartInitialSync
  <2>1. pc \in ReconcileIteration
    BY <1>8, PcType DEF StartInitialSync, InState
  <2>2. PICK q : iter' = [iter EXCEPT !["pipeline"] = [pc EXCEPT !.inst = q, !.phase = "newtable"]]
    BY <1>8 DEF StartInitialSync
  <2>3. [pc EXCEPT !.inst = q, !.phase = "newtable"].phase = "newtable"
    BY <2>1 DEF ReconcileIteration
  <2> QED
    BY <1>2, <2>2, <2>3
<1>9. CASE CreateNewTable \/ CreateNewConnector
  BY <1>3, <1>9 DEF CreateNewTable, CreateNewConnector
<1>10. CASE PipelineDeviation
  <2>1. pc.phase # "idle"
    BY <1>10 DEF PipelineDeviation, InState
  <2>2. \/ Goto("pipeline", Refresh(pc)) \/ Goto("pipeline", AfterState(pc))
        \/ Proceed("pipeline", "state") \/ Fail("pipeline")
    BY <1>10 DEF PipelineDeviation, DeviationStep, Refresh, Proceed, pc
  <2> QED
    BY <1>1, <1>3, <1>4, <2>1, <2>2 DEF Fail
<1>11. CASE PipelineSetConnectorState
  BY <1>1, <1>4, <1>11 DEF PipelineSetConnectorState, FailUntouched, Fail
<1>12. CASE RecreateViewIfNeeded
  BY <1>1, <1>3, <1>12 DEF RecreateViewIfNeeded, Fail
<1>13. CASE GrantView \/ UpdateViewIfHealthier \/ GrantHealthierView
  BY <1>1, <1>3, <1>4, <1>13 DEF GrantView, UpdateViewIfHealthier, GrantHealthierView, Fail
<1> QED
  BY <1>5, <1>6, <1>7, <1>8, <1>9, <1>10, <1>11, <1>12, <1>13 DEF PipelineNext

LEMMA CleanupRecordsView ==
  ASSUME TypeInv, "query" \notin Faults, DeleteStaleConnectors
  PROVE  CurrentInv' /\ UNCHANGED view
<1>1. pc.phase # "idle" /\ pc \in ReconcileIteration
  BY PcType DEF TypeInv, DeleteStaleConnectors
<1>2. PICK r \in IF pc.connected THEN GetCurrentTable ELSE {[table |-> Nil, err |-> TRUE]},
           f \in CleanupResults :
        Goto("pipeline", [pc EXCEPT !.phase = "tables", !.current = r.table,
                                    !.errors = @ \/ r.err \/ f])
  BY DEF DeleteStaleConnectors
<1> DEFINE e == pc.errors \/ r.err \/ f
           i == [pc EXCEPT !.phase = "tables", !.current = r.table, !.errors = e]
<1>3. Goto("pipeline", i)
  BY <1>2
<1> HIDE DEF e
<1>4. i.current = r.table /\ i.connected = pc.connected
  BY <1>1 DEF ReconcileIteration
<1>5. UNCHANGED view
  BY DEF DeleteStaleConnectors, dbVars
<1>6. pc' = i
  BY <1>3, PcStep DEF Goto, TypeInv
<1> HIDE DEF i
<1>7. pc.connected => r.table = view
  BY <1>2, GetCurrentTableType DEF TypeInv
<1> QED
  BY <1>4, <1>5, <1>6, <1>7 DEF CurrentInv

\* The table that the view selects from is not stale.
LEMMA CleanupKeepsView ==
  ASSUME CoreInv, CurrentInv, "query" \notin Faults, DeleteStaleTables,
         view # Nil, ~api.deleting
  PROVE  view' # Nil
<1>1. pc.phase = "tables"
  BY DEF DeleteStaleTables
<1>2. ~pc.inst.deleting
  BY <1>1 DEF CoreInv, CopyInv, DeletingInv, Controllers, pc
<1>3. PICK listed \in IF pc.connected THEN GetCyndiTables ELSE {{}}, f \in CleanupResults :
        \E gone \in Deleted(listed \ tablesToKeep(pc.inst, pc.current), f) : DeleteTables(gone)
  BY DEF DeleteStaleTables
<1>4. PICK gone \in Deleted(listed \ tablesToKeep(pc.inst, pc.current), f) : DeleteTables(gone)
  BY <1>3
<1>5. gone \subseteq listed \ tablesToKeep(pc.inst, pc.current)
  BY <1>4 DEF Deleted
<1>6. view \notin gone
  <2>1. CASE pc.connected
    <3>1. view = pc.current
      BY <1>1, <2>1 DEF CurrentInv
    <3>2. GetState(pc.inst) # "REMOVED"
      BY <1>2 DEF GetState
    <3>3. view \in tablesToKeep(pc.inst, pc.current)
      BY <3>1, <3>2 DEF tablesToKeep
    <3> QED
      BY <1>5, <3>3
  <2>2. CASE ~pc.connected
    BY <1>3, <1>5, <2>2
  <2> QED
    BY <2>1, <2>2
<1> QED
  BY <1>4, <1>6 DEF DeleteTables

LEMMA CreatedViewIsTable ==
  ASSUME TypeInv, NEW t, CreateView(t)
  PROVE  view' # Nil
  BY NilAssumption DEF TypeInv, DbTypeOK, CreateView

LEMMA PipelineKeepsView ==
  ASSUME CoreInv, CurrentInv, "query" \notin Faults, PipelineNext
  PROVE  CurrentInv' /\ (view # Nil /\ ~api.deleting => view' # Nil)
<1> USE DEF CoreInv
<1>1. CASE DeleteStaleConnectors
  BY <1>1, CleanupRecordsView
<1>2. CASE PipelineSkip
  BY <1>2 DEF PipelineSkip, SkipRequest, dbVars, pc, CurrentInv
<1>3. CASE ~DeleteStaleConnectors /\ ~PipelineSkip
  <2>1. CurrentInv'
    BY <1>3, OtherPhases, CurrentElsewhere
  <2>2. CASE DeleteStaleTables
    BY <2>1, <2>2, CleanupKeepsView
  <2>3. CASE ~DeleteStaleTables
    <3>1. UNCHANGED view \/ \E t : CreateView(t)
      BY <1>3, <2>3 DEF PipelineNext, PipelineSetup, Setup, RemoveFinalizer, Abort,
           FailUntouched, StartInitialSync, CreateNewTable, CreateTable, CreateNewConnector,
           PipelineDeviation, DeviationStep, PipelineSetConnectorState, RecreateViewIfNeeded,
           GrantView, GrantSelect, UpdateViewIfHealthier, GrantHealthierView,
           PipelineUpdateStatus, UpdateStatusAndRequeue, PipelineCallFails, CallFails, dbVars
    <3> QED
      BY <2>1, <3>1, CreatedViewIsTable
  <2> QED
    BY <2>2, <2>3
<1> QED
  BY <1>1, <1>2, <1>3

LEMMA ValidationKeepsView ==
  ASSUME TypeInv, CurrentInv, ValidationNext
  PROVE  CurrentInv' /\ UNCHANGED view
<1>1. UNCHANGED view
  BY DEF ValidationNext, ValidationSetup, Setup, ValidationSkip, SkipRequest,
         ValidationDeviation, DeviationStep, Validate, ValidationUpdateStatus,
         UpdateStatusAndRequeue, ValidationCallFails, CallFails, FailUntouched, dbVars
<1>2. UNCHANGED iter \/ \E i : iter' = [iter EXCEPT !["validation"] = i]
  BY DEF ValidationNext, ValidationSetup, Setup, ValidationSkip, SkipRequest,
         ValidationDeviation, DeviationStep, Validate, ValidationUpdateStatus,
         UpdateStatusAndRequeue, UpdateStatus, ValidationCallFails, CallFails, FailUntouched,
         Fail, Goto
<1>3. pc' = pc
  <2>1. CASE UNCHANGED iter
    BY <2>1 DEF pc
  <2> QED
    BY <1>2, <2>1, VcStep DEF TypeInv
<1> QED
  BY <1>1, <1>3, CurrentFrame

LEMMA EnvironmentKeepsView ==
  ASSUME CurrentInv, TableSeeded \/ EventDelivered \/ Crash \/ Disturb
  PROVE  CurrentInv' /\ (ControllerSteps => UNCHANGED view)
<1>1. CASE Crash
  <2>1. pc'.phase = "idle" /\ UNCHANGED view
    BY <1>1 DEF Crash, Controllers, Idle, pc, dbVars
  <2> QED
    BY <2>1, CurrentElsewhere
<1>2. CASE ~Crash
  <2>1. UNCHANGED iter
    BY <1>2 DEF TableSeeded, EventDelivered, Disturb, UserEdits, UserDeletes, AdminConfigures,
                TableDropped, TableDrifts, ConnectorDisturbed
  <2>2. view' \in {view, Nil}
    BY <1>2 DEF TableSeeded, Seed, EventDelivered, Disturb, UserEdits, UserDeletes,
                AdminConfigures, TableDropped, DeleteTables, TableDrifts, Drift,
                ConnectorDisturbed, dbVars
  <2> QED
    BY <2>1, <2>2, CurrentFrame DEF pc, ControllerSteps
<1> QED
  BY <1>1, <1>2

LEMMA ViewStep ==
  ASSUME CoreInv, CurrentInv, "query" \notin Faults, [Next]_opVars
  PROVE  /\ CurrentInv'
         /\ view # Nil /\ ControllerSteps /\ ~api.deleting => view' # Nil
<1>1. CASE PipelineStep
  BY <1>1, PipelineKeepsView DEF PipelineStep
<1>2. CASE ValidationStep
  BY <1>2, ValidationKeepsView DEF ValidationStep, CoreInv
<1>3. CASE TableSeeded \/ EventDelivered \/ Crash \/ Disturb
  BY <1>3, EnvironmentKeepsView
<1>4. CASE UNCHANGED opVars
  BY <1>4 DEF opVars, vars, dbVars, pc, CurrentInv
<1> QED
  BY <1>1, <1>2, <1>3, <1>4 DEF Next

\* The view is never taken from its readers.  For any lag of the informer,
\* any crashes and failing calls and any disturbance, a step of the operator
\* drops the view only when the resource is being deleted.  The assumption is
\* needed: GetCurrentTable answers "no view" when its query fails unnoticed.
THEOREM ViewIsKept ==
  ASSUME "query" \notin Faults
  PROVE  Spec => ActiveTableKept
<1> DEFINE A == view # Nil /\ ControllerSteps /\ ~api.deleting => view' # Nil
           Inv == CoreInv /\ CurrentInv
<1>1. Init => Inv
  <2> SUFFICES ASSUME Init
               PROVE  Inv
    OBVIOUS
  <2>1. pc.phase = "idle"
    BY DEF Init, IterInit, Controllers, Idle, pc
  <2> QED
    BY <2>1, InitTypes, CopyInit DEF CoreInv, CurrentInv
<1>2. Inv /\ [Next]_opVars => Inv' /\ [A]_opVars
  BY ViewStep, NextTypes, CopyStep DEF CoreInv
<1> QED
  BY <1>1, <1>2, PTL DEF Spec, ActiveTableKept
----------------------------------------------------------------------------
(***************************************************************************)
(* Who creates the view also grants the select on it.                      *)
(***************************************************************************)

Readable == view # Nil => granted

LEMMA DropsReadable ==
  ASSUME TypeInv, Readable, (\E ts : DeleteTables(ts)) \/ UNCHANGED <<view, granted>>
  PROVE  Readable'
  BY DEF Readable, DeleteTables

LEMMA PipelineReadable ==
  ASSUME TypeInv, ViewReadable, "call" \notin Faults, PipelineNext
  PROVE  ViewReadable'
<1> USE DEF TypeInv
<1>1. ASSUME pc.phase \notin {"grant", "healthiergrant"},
             (\E ts : DeleteTables(ts)) \/ UNCHANGED <<view, granted>>
      PROVE  ViewReadable'
  BY <1>1, DropsReadable DEF ViewReadable, Readable
<1>2. CASE Readable'
  BY <1>2 DEF ViewReadable, Readable
<1>3. ASSUME pc.phase # "idle", NEW next, Proceed("pipeline", next)
      PROVE  pc'.phase = next
  <2>1. pc' = [pc EXCEPT !.phase = next] /\ pc \in ReconcileIteration
    BY <1>3, PcStep, PcType DEF Proceed, Goto, pc
  <2> QED
    BY <2>1 DEF ReconcileIteration
<1>4. CASE RecreateViewIfNeeded
  <2>1. pc.phase = "view"
    BY <1>4 DEF RecreateViewIfNeeded
  <2>2. CASE Proceed("pipeline", "grant")
    <3>1. pc'.phase = "grant"
      BY <1>3, <2>1, <2>2
    <3> QED
      BY <3>1 DEF ViewReadable
  <2>3. CASE UNCHANGED dbVars
    BY <1>1, <2>1, <2>3 DEF dbVars
  <2> QED
    BY <1>4, <2>2, <2>3 DEF RecreateViewIfNeeded
<1>5. CASE UpdateViewIfHealthier
  <2>1. pc.phase = "healthier"
    BY <1>5 DEF UpdateViewIfHealthier
  <2>2. CASE Proceed("pipeline", "healthiergrant")
    <3>1. pc'.phase = "healthiergrant"
      BY <1>3, <2>1, <2>2
    <3> QED
      BY <3>1 DEF ViewReadable
  <2>3. CASE UNCHANGED dbVars
    BY <1>1, <2>1, <2>3 DEF dbVars
  <2> QED
    BY <1>5, <2>2, <2>3 DEF UpdateViewIfHealthier
<1>6. CASE GrantView \/ GrantHealthierView
  <2>1. Readable'
    BY <1>6 DEF GrantView, GrantHealthierView, GrantSelect, Readable, dbVars
  <2> QED
    BY <1>2, <2>1
<1>7. CASE DeleteStaleTables
  BY <1>1, <1>7 DEF DeleteStaleTables
<1>8. CASE \/ PipelineSetup \/ PipelineSkip \/ DeleteStaleConnectors \/ RemoveFinalizer \/ Abort
           \/ StartInitialSync \/ CreateNewTable \/ CreateNewConnector
           \/ PipelineDeviation \/ PipelineSetConnectorState \/ PipelineUpdateStatus
  <2>1. pc.phase \notin {"grant", "healthiergrant"}
    BY <1>8 DEF PipelineSetup, Setup, PipelineSkip, SkipRequest, DeleteStaleConnectors,
         RemoveFinalizer, Abort, StartInitialSync, InState, CreateNewTable, CreateNewConnector,
         PipelineDeviation, PipelineSetConnectorState, PipelineUpdateStatus,
         UpdateStatusAndRequeue, pc
  <2>2. UNCHANGED <<view, granted>>
    BY <1>8 DEF PipelineSetup, Setup, PipelineSkip, SkipRequest, DeleteStaleConnectors,
         RemoveFinalizer, Abort, FailUntouched, StartInitialSync, CreateNewTable, CreateTable,
         CreateNewConnector, PipelineDeviation, DeviationStep, PipelineSetConnectorState,
         PipelineUpdateStatus, UpdateStatusAndRequeue, dbVars
  <2> QED
    BY <1>1, <2>1, <2>2
<1> QED
  BY <1>4, <1>5, <1>6, <1>7, <1>8 DEF PipelineNext, PipelineCallFails, CallFails

LEMMA OthersReadable ==
  ASSUME TypeInv, ViewReadable, "crash" \notin Faults,
         ValidationNext \/ TableSeeded \/ EventDelivered \/ Crash \/ Disturb
  PROVE  ViewReadable'
<1>1. pc' = pc
  <2>1. CASE ValidationNext
    <3>1. UNCHANGED iter \/ \E i : iter' = [iter EXCEPT !["validation"] = i]
      BY <2>1 DEF ValidationNext, ValidationSetup, Setup, ValidationSkip, SkipRequest,
           ValidationDeviation, DeviationStep, Validate, ValidationUpdateStatus,
           UpdateStatusAndRequeue, UpdateStatus, ValidationCallFails, CallFails,
           FailUntouched, Fail, Goto
    <3>2. CASE UNCHANGED iter
      BY <3>2 DEF pc
    <3> QED
      BY <3>1, <3>2, VcStep DEF TypeInv
  <2>2. CASE TableSeeded \/ EventDelivered \/ Disturb
    BY <2>2 DEF TableSeeded, EventDelivered, Disturb, UserEdits, UserDeletes, AdminConfigures,
                TableDropped, TableDrifts, ConnectorDisturbed, pc
  <2> QED
    BY <2>1, <2>2 DEF Crash
<1>2. (\E ts : DeleteTables(ts)) \/ UNCHANGED <<view, granted>>
  BY DEF ValidationNext, ValidationSetup, Setup, ValidationSkip, SkipRequest,
         ValidationDeviation, DeviationStep, Validate, ValidationUpdateStatus,
         UpdateStatusAndRequeue, ValidationCallFails, CallFails, FailUntouched, TableSeeded,
         Seed, EventDelivered, Crash, Disturb, UserEdits, UserDeletes, AdminConfigures,
         TableDropped, TableDrifts, Drift, ConnectorDisturbed, dbVars
<1>3. CASE Readable
  BY <1>2, <1>3, DropsReadable DEF ViewReadable, Readable
<1>4. CASE ~Readable
  BY <1>1, <1>4 DEF ViewReadable, Readable
<1> QED
  BY <1>3, <1>4

\* The application can read its hosts: a view without the select privilege is
\* seen only between the two statements of UpdateView.  The assumptions are
\* needed: when the second statement fails, or the operator stops before it,
\* recreateViewIfNeeded finds the view in place and does not try again.
THEOREM ViewIsReadable ==
  ASSUME "call" \notin Faults, "crash" \notin Faults
  PROVE  Spec => []ViewReadable
<1> DEFINE Inv == TypeInv /\ disturbed \in 0..MaxDisturbances /\ ViewReadable
<1>1. Init => Inv
  BY InitTypes DEF Init, DbInit, ViewReadable
<1>2. Inv /\ [Next]_opVars => Inv'
  <2> SUFFICES ASSUME Inv, [Next]_opVars
               PROVE  Inv'
    OBVIOUS
  <2>1. CASE PipelineStep
    BY <2>1, PipelineReadable, NextTypes DEF PipelineStep
  <2>2. CASE ValidationStep \/ TableSeeded \/ EventDelivered \/ Crash \/ Disturb
    BY <2>2, OthersReadable, NextTypes DEF ValidationStep
  <2>3. CASE UNCHANGED opVars
    BY <2>3, NextTypes DEF opVars, vars, dbVars, pc, ViewReadable
  <2> QED
    BY <2>1, <2>2, <2>3 DEF Next
<1> QED
  BY <1>1, <1>2, PTL DEF Spec
============================================================================
