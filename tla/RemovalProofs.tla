---------------------------- MODULE RemovalProofs ----------------------------
(***************************************************************************)
(* Tables and connectors: there are never more than two of either, none is *)
(* left when the resource is gone, and the operator implements Lifecycle.  *)
(***************************************************************************)
EXTENDS ViewProofs, WakeupProofs, FiniteSetTheorems

\* A copy that carries the finalizer and is not being deleted is of a
\* resource that still has it.
FinalizedBy(p, a) == p.finalizer /\ ~p.deleting => a.exists /\ a.finalizer

FinalizedInv ==
  /\ FinalizedBy(cache, api)
  /\ \A n \in DOMAIN watch : FinalizedBy(watch[n], api)
  /\ pc.phase # "idle" => FinalizedBy(pc.inst, api)

\* The validation controller works on pipelines that have a version.
ValidatesInv == vc.phase # "idle" => vc.orig.version # Nil

\* A pipeline without the finalizer was never refreshed ...
VersionInv == api.exists /\ api.status.version # Nil => api.finalizer

\* ... and has neither tables nor connectors.
FootprintInv == tables # {} \/ connectors # {} => api.exists /\ api.finalizer

\* What a cleanup without errors leaves of a pipeline that is removed.
SweptInv ==
  /\ pc.phase \in {"connectors", "tables"} /\ ~pc.errors => pc.connected
  /\ pc.phase \in {"tables", "dispatch"} /\ ~pc.errors /\ pc.inst.deleting => connectors = {}
  /\ pc.phase = "dispatch" /\ ~pc.errors /\ pc.inst.deleting => tables = {}

RemovalInv == FinalizedInv /\ ValidatesInv /\ VersionInv /\ FootprintInv /\ SweptInv
----------------------------------------------------------------------------
(***************************************************************************)
(* Who creates and who deletes.                                            *)
(***************************************************************************)

Shrinks == tables' \subseteq tables /\ (connectors = {} => connectors' = {})

LEMMA PipelineShrinks ==
  ASSUME TypeInv, PipelineNext, ~CreateNewTable, ~CreateNewConnector
  PROVE  Shrinks
<1>1. CASE Skips \/ Ends \/ Continues
  BY <1>1 DEF Skips, Ends, Continues, Shrinks, dbVars
<1>2. CASE Pauses
  BY <1>2 DEF Pauses, PipelineSetConnectorState, FailUntouched, SetConnectorState, Shrinks, dbVars
<1>3. CASE PipelineSetup \/ StartInitialSync
  BY <1>3 DEF PipelineSetup, Setup, StartInitialSync, Shrinks, dbVars
<1>4. CASE DeleteStaleConnectors
  BY <1>4 DEF DeleteStaleConnectors, DeleteConnectors, Shrinks, dbVars
<1>5. CASE DeleteStaleTables
  BY <1>5 DEF DeleteStaleTables, DeleteTables, Shrinks
<1> QED
  BY <1>1, <1>2, <1>3, <1>4, <1>5, PipelineCourse

\* A step of anybody else: the iteration of the pipeline controller stays
\* where it is, or is lost in a crash.
LEMMA OthersShrink ==
  ASSUME TypeInv, ValidationNext \/ TableSeeded \/ EventDelivered \/ Crash \/ Disturb \/ UNCHANGED opVars
  PROVE  Shrinks /\ (pc' = pc \/ pc'.phase = "idle")
<1>1. CASE ValidationNext
  <2>1. UNCHANGED <<dbVars, connectors>>
    BY <1>1 DEF ValidationNext, ValidationSetup, Setup, ValidationSkip, SkipRequest,
         ValidationDeviation, DeviationStep, Validate, ValidationUpdateStatus,
         UpdateStatusAndRequeue, ValidationCallFails, CallFails, FailUntouched
  <2>2. UNCHANGED iter \/ \E i : iter' = [iter EXCEPT !["validation"] = i]
    BY <1>1 DEF ValidationNext, ValidationSetup, Setup, ValidationSkip, SkipRequest,
         ValidationDeviation, DeviationStep, Validate, ValidationUpdateStatus,
         UpdateStatusAndRequeue, UpdateStatus, ValidationCallFails, CallFails,
         FailUntouched, Fail, Goto
  <2>3. CASE UNCHANGED iter
    BY <2>1, <2>3 DEF pc, Shrinks, dbVars
  <2> QED
    BY <2>1, <2>2, <2>3, VcStep DEF TypeInv, Shrinks, dbVars
<1>2. CASE Crash
  BY <1>2 DEF Crash, pc, Controllers, Idle, Shrinks, dbVars
<1>3. CASE TableSeeded \/ EventDelivered \/ UNCHANGED opVars
  BY <1>3 DEF TableSeeded, Seed, EventDelivered, opVars, vars, dbVars, pc, Shrinks
<1>4. CASE Disturb
  <2>1. pc' = pc
    BY <1>4 DEF Disturb, UserEdits, UserDeletes, AdminConfigures, TableDropped, TableDrifts,
                ConnectorDisturbed, pc
  <2>2. CASE UserEdits \/ UserDeletes \/ AdminConfigures
    BY <2>1, <2>2 DEF UserEdits, UserDeletes, AdminConfigures, dbVars, Shrinks
  <2>3. CASE TableDropped \/ TableDrifts
    BY <2>1, <2>3 DEF TableDropped, DeleteTables, TableDrifts, Drift, Shrinks
  <2>4. CASE ConnectorDisturbed
    BY <2>1, <2>4 DEF ConnectorDisturbed, dbVars, Shrinks
  <2> QED
    BY <1>4, <2>2, <2>3, <2>4 DEF Disturb
<1> QED
  BY <1>1, <1>2, <1>3, <1>4
----------------------------------------------------------------------------
(***************************************************************************)
(* RemovalInv is inductive.                                                *)
(***************************************************************************)

LEMMA FinalizedKept ==
  ASSUME WakeupInv, [Next]_opVars, ~RemoveFinalizer, NEW p, FinalizedBy(p, api)
  PROVE  FinalizedBy(p, api')
<1>1. TypeInv /\ CopyInv /\ OutcomeInv /\ GoneInv
  BY DEF WakeupInv, StatusInv, CoreInv, ChainInv
<1>2. CASE UNCHANGED api
  BY <1>2
<1>3. CASE ResourceWrite
  <2>1. CASE \E c \in Controllers : StatusWrite(c)
    BY <1>1, <2>1, WrittenStatus DEF FinalizedBy
  <2>2. CASE FinalizerAdded
    BY <1>1, <2>2, OtherWrites DEF FinalizedBy, GoneInv
  <2>3. CASE Edited
    BY <1>1, <2>3, OtherWrites DEF FinalizedBy
  <2>4. CASE UserDeletes
    BY <1>1, <2>4, OtherWrites DEF FinalizedBy
  <2> QED
    BY <1>3, <2>1, <2>2, <2>3, <2>4 DEF ResourceWrite
<1> QED
  BY <1>1, <1>2, <1>3, KubeSteps DEF Quiet, Reads, Deliver, Restart

\* When the finalizer is removed every copy knows of the deletion.
LEMMA AllDeleting ==
  ASSUME WakeupInv, RemoveFinalizer
  PROVE  /\ api.exists /\ api.deleting /\ cache.deleting /\ pc.inst.deleting
         /\ \A n \in DOMAIN watch : watch[n].deleting
         /\ pc' = Idle /\ api'.deleting /\ api'.status = api.status
<1>1. TypeInv /\ CopyInv /\ GoneInv /\ SeenInv
  BY DEF WakeupInv, StatusInv, CoreInv, ChainInv
<1>2. pc.phase = "dispatch" /\ pc.inst.deleting /\ "pipeline" \in fresh
  BY DEF RemoveFinalizer, InState, GetState
<1>3. api.exists /\ api.deleting
  BY <1>1, <1>2 DEF CopyInv, FreshInv, GoneInv, pc
<1>4. pc' = Idle
  BY <1>1, PcStep DEF RemoveFinalizer, TypeInv
<1>5. api'.deleting = api.deleting /\ api'.status = api.status
  BY <1>1, OtherWrites
<1> QED
  BY <1>1, <1>2, <1>3, <1>4, <1>5 DEF SeenInv

LEMMA PipelineFinalized ==
  ASSUME WakeupInv, FinalizedInv, PipelineNext, ~RemoveFinalizer,
         \A p : FinalizedBy(p, api) => FinalizedBy(p, api')
  PROVE  pc'.phase # "idle" => FinalizedBy(pc'.inst, api')
<1>1. TypeInv /\ CopyInv /\ OutcomeInv /\ GoneInv
  BY DEF WakeupInv, StatusInv, CoreInv, ChainInv
<1>2. ASSUME pc.phase # "idle", SameResource(pc'.inst, pc.inst)
      PROVE  FinalizedBy(pc'.inst, api')
  BY <1>2 DEF FinalizedInv, FinalizedBy, SameResource, SameDefinition
<1>3. CASE Skips
  BY <1>3 DEF Skips, FinalizedInv
<1>4. CASE Ends
  BY <1>4 DEF Ends, Idle
<1>5. CASE Continues \/ Pauses
  BY <1>2, <1>5 DEF Continues, Pauses, PipelineSetConnectorState
<1>6. CASE PipelineSetup
  BY <1>1, <1>6, SetupFields DEF FinalizedInv
<1>7. CASE DeleteStaleConnectors
  <2>1. pc'.inst = pc.inst /\ pc.phase # "idle"
    BY <1>1, <1>7, StaleConnectorsFields DEF DeleteStaleConnectors
  <2> QED
    BY <2>1 DEF FinalizedInv
<1>8. CASE DeleteStaleTables
  <2>1. pc'.inst = pc.inst /\ pc.phase # "idle"
    BY <1>1, <1>8, StaleTablesFields DEF DeleteStaleTables
  <2> QED
    BY <2>1 DEF FinalizedInv
<1>9. CASE StartInitialSync
  <2>1. api'.exists /\ api'.finalizer
    <3>1. CASE pc.inst.finalizer
      <4>1. pc.phase # "idle" /\ ~pc.inst.deleting /\ UNCHANGED api
        BY <1>9, <3>1 DEF StartInitialSync, InState, GetState, AddFinalizer, kubeVars
      <4> QED
        BY <3>1, <4>1 DEF FinalizedInv, FinalizedBy
    <3>2. CASE ~pc.inst.finalizer
      <4>1. FinalizerAdded
        BY <1>9, <3>2 DEF StartInitialSync, AddFinalizer, FinalizerAdded
      <4> QED
        BY <1>1, <4>1, OtherWrites DEF GoneInv
    <3> QED
      BY <3>1, <3>2
  <2> QED
    BY <2>1 DEF FinalizedBy
<1>10. CASE CreateNewTable \/ CreateNewConnector
  <2>1. pc'.inst = pc.inst /\ pc.phase # "idle"
    BY <1>1, <1>10, CreationFields
  <2> QED
    BY <2>1 DEF FinalizedInv
<1> QED
  BY <1>1, <1>3, <1>4, <1>5, <1>6, <1>7, <1>8, <1>9, <1>10, PipelineCourse

LEMMA FinalizedStep ==
  ASSUME WakeupInv, FinalizedInv, [Next]_opVars
  PROVE  FinalizedInv'
<1>1. TypeInv /\ CopyInv /\ OutcomeInv /\ GoneInv
  BY DEF WakeupInv, StatusInv, CoreInv, ChainInv
<1>2. CASE RemoveFinalizer
  <2>1. ResourceWrite
    BY <1>2 DEF ResourceWrite, RemoveFinalizer
  <2>2. /\ UNCHANGED cache
        /\ \A n \in DOMAIN watch' : \/ n \in DOMAIN watch /\ watch'[n] = watch[n]
                                    \/ watch'[n] = api'
    BY <1>1, <2>1, WatchAfterWrite
  <2> QED
    BY <1>2, <2>2, AllDeleting DEF FinalizedInv, FinalizedBy, Idle
<1>3. CASE ~RemoveFinalizer
  <2>1. \A p : FinalizedBy(p, api) => FinalizedBy(p, api')
    BY <1>3, FinalizedKept
  <2>2. FinalizedBy(cache', api') /\ \A n \in DOMAIN watch' : FinalizedBy(watch'[n], api')
    <3>1. CASE Quiet \/ Reads
      BY <2>1, <3>1 DEF Quiet, Reads, FinalizedInv
    <3>2. CASE ResourceWrite
      <4>1. /\ UNCHANGED cache
            /\ \A n \in DOMAIN watch' : \/ n \in DOMAIN watch /\ watch'[n] = watch[n]
                                        \/ watch'[n] = api'
        BY <1>1, <3>2, WatchAfterWrite
      <4>2. FinalizedBy(api', api')
        <5>1. CASE UserDeletes
          BY <1>1, <5>1, OtherWrites DEF FinalizedBy
        <5>2. CASE ~UserDeletes
          <6>1. api'.exists
            BY <1>1, <1>3, <3>2, <5>2, WrittenStatus, OtherWrites DEF ResourceWrite, GoneInv
          <6> QED
            BY <6>1 DEF FinalizedBy
        <5> QED
          BY <5>1, <5>2
      <4> QED
        BY <2>1, <4>1, <4>2 DEF FinalizedInv
    <3>3. CASE \E k \in DOMAIN watch : Deliver(k)
      <4>1. PICK k \in DOMAIN watch : Deliver(k)
        BY <3>3
      <4>2. /\ cache' = watch[k] /\ UNCHANGED api
            /\ \A n \in DOMAIN watch' : k + n \in DOMAIN watch /\ watch'[n] = watch[k + n]
        BY <1>1, <4>1, TakenEvent
      <4> QED
        BY <4>2 DEF FinalizedInv
    <3>4. CASE Restart
      <4>1. FinalizedBy(api, api)
        <5>1. CASE watch = <<>>
          BY <1>1, <5>1 DEF CopyInv, WatchInv, FinalizedInv
        <5>2. CASE watch # <<>>
          BY <1>1, <5>2, WatchDomain DEF CopyInv, WatchInv, FinalizedInv
        <5> QED
          BY <5>1, <5>2
      <4> QED
        BY <3>4, <4>1 DEF Restart
    <3> QED
      BY <1>1, <3>1, <3>2, <3>3, <3>4, KubeSteps
  <2>3. pc'.phase # "idle" => FinalizedBy(pc'.inst, api')
    <3>1. CASE PipelineNext
      BY <1>3, <2>1, <3>1, PipelineFinalized
    <3>2. CASE ~PipelineNext
      <4>1. pc' = pc \/ pc'.phase = "idle"
        BY <1>1, <3>2, OthersShrink DEF Next, PipelineStep, ValidationStep
      <4> QED
        BY <2>1, <4>1 DEF FinalizedInv
    <3> QED
      BY <3>1, <3>2
  <2> QED
    BY <2>2, <2>3 DEF FinalizedInv
<1> QED
  BY <1>2, <1>3

LEMMA ValidatesStep ==
  ASSUME TypeInv, ValidatesInv, [Next]_opVars
  PROVE  ValidatesInv'
<1>1. CASE PipelineNext
  BY <1>1, PipelineCourse DEF ValidatesInv
<1>2. CASE ValidationSetup
  <2> DEFINE i == [phase |-> "deviation", inst |-> cache, orig |-> cache.status,
                   config |-> configMap, connected |-> TRUE, errors |-> ~TRUE, current |-> Nil]
  <2>1. i.orig = cache.status
    OBVIOUS
  <2>2. iter' = [iter EXCEPT !["validation"] = i] /\ cache.status.version # Nil
    BY <1>2 DEF ValidationSetup, Setup, NothingToValidate, GetState
  <2> HIDE DEF i
  <2> QED
    BY <2>1, <2>2, VcStep DEF TypeInv, ValidatesInv
<1>3. CASE ValidationNext /\ ~ValidationSetup
  <2>1. NoneReads
    BY <1>3, ValidationReads
  <2> QED
    BY <2>1 DEF NoneReads, SameCopy, ValidatesInv, vc, Controllers
<1>4. CASE Crash
  BY <1>4 DEF Crash, Controllers, Idle, vc, ValidatesInv
<1>5. CASE TableSeeded \/ EventDelivered \/ Disturb \/ UNCHANGED opVars
  BY <1>5 DEF TableSeeded, EventDelivered, Disturb, UserEdits, UserDeletes, AdminConfigures,
              TableDropped, TableDrifts, ConnectorDisturbed, opVars, vars, vc, ValidatesInv
<1> QED
  BY <1>1, <1>2, <1>3, <1>4, <1>5 DEF Next, PipelineStep, ValidationStep

\* The finalizer is there before the first version is.
LEMMA VersionStep ==
  ASSUME WakeupInv, FinalizedInv, ValidatesInv, VersionInv, [Next]_opVars
  PROVE  VersionInv'
<1>1. TypeInv /\ CopyInv /\ OutcomeInv /\ GoneInv
  BY DEF WakeupInv, StatusInv, CoreInv, ChainInv
<1>2. CASE UNCHANGED api
  BY <1>2 DEF VersionInv
<1>3. CASE ResourceWrite
  <2>1. CASE \E c \in Controllers : StatusWrite(c)
    <3>1. PICK c \in Controllers : StatusWrite(c)
      BY <2>1
    <3>2. /\ iter[c].phase = "status" /\ Outcome(iter[c]) /\ iter[c].orig = api.status
          /\ api'.status.version = iter[c].inst.status.version
          /\ api'.exists = api.exists /\ api'.finalizer = api.finalizer
      BY <1>1, <3>1, WrittenStatus
    <3>3. CASE Started(iter[c])
      <4>1. iter[c].orig.version = Nil /\ iter[c].inst.finalizer /\ ~iter[c].inst.deleting
        BY <3>3 DEF Started
      <4>2. c = "pipeline"
        BY <3>2, <4>1 DEF Controllers, ValidatesInv, vc
      <4> QED
        BY <3>2, <4>1, <4>2 DEF FinalizedInv, FinalizedBy, pc, VersionInv
    <3>4. CASE ~Started(iter[c])
      BY <3>2, <3>4 DEF Outcome, Renewed, Judged, VersionInv
    <3> QED
      BY <3>3, <3>4
  <2>2. CASE FinalizerAdded \/ RemoveFinalizer \/ Edited
    BY <1>1, <2>2, OtherWrites DEF VersionInv
  <2>3. CASE UserDeletes
    BY <1>1, <2>3, OtherWrites DEF VersionInv
  <2> QED
    BY <1>3, <2>1, <2>2, <2>3 DEF ResourceWrite
<1> QED
  BY <1>1, <1>2, <1>3, KubeSteps DEF Quiet, Reads, Deliver, Restart

\* A cleanup without errors of a pipeline that is removed deletes everything.
LEMMA SweptStep ==
  ASSUME TypeInv, SweptInv, "query" \notin Faults, [Next]_opVars
  PROVE  SweptInv'
<1>1. ASSUME pc' = pc \/ pc'.phase \notin {"connectors", "tables", "dispatch"}, Shrinks
      PROVE  SweptInv'
  BY <1>1 DEF SweptInv, Shrinks
<1>2. CASE PipelineNext
  <2>1. CASE Skips \/ Ends \/ Continues \/ Pauses
    <3>1. pc' = pc \/ pc'.phase \notin {"connectors", "tables", "dispatch"}
      BY <2>1 DEF Skips, Ends, Idle, Continues, Pauses, LaterPhases
    <3>2. Shrinks
      <4>1. CASE Pauses
        BY <4>1 DEF Pauses, PipelineSetConnectorState, FailUntouched, SetConnectorState,
                    Shrinks, dbVars
      <4> QED
        BY <2>1, <4>1 DEF Skips, Ends, Continues, Shrinks, dbVars
    <3> QED
      BY <1>1, <3>1, <3>2
  <2>2. CASE PipelineSetup
    BY <2>2, SetupFields DEF SweptInv
  <2>3. CASE DeleteStaleConnectors
    <3>1. PICK r \in IF pc.connected THEN GetCurrentTable ELSE {[table |-> Nil, err |-> TRUE]},
               f \in CleanupResults :
            /\ pc'.phase = "tables" /\ pc'.inst = pc.inst /\ pc'.connected = pc.connected
            /\ pc'.errors = (pc.errors \/ r.err \/ f)
            /\ \E gone \in Deleted({k.name : k \in connectors} \ connectorsToKeep(pc.inst, r.table), f) :
                 DeleteConnectors(gone)
      BY <2>3, StaleConnectorsFields
    <3>2. pc.phase = "connectors"
      BY <2>3 DEF DeleteStaleConnectors
    <3>3. ~pc'.errors => pc'.connected
      BY <3>1, <3>2 DEF SweptInv
    <3>4. ASSUME ~pc'.errors, pc'.inst.deleting
          PROVE  connectors' = {}
      <4>1. connectorsToKeep(pc.inst, r.table) = {}
        BY <3>1, <3>4 DEF connectorsToKeep, GetState
      <4>2. ~f
        BY <3>1, <3>4
      <4>3. DeleteConnectors({k.name : k \in connectors})
        BY <3>1, <4>1, <4>2 DEF Deleted
      <4> QED
        BY <4>3 DEF DeleteConnectors
    <3> QED
      BY <3>1, <3>3, <3>4 DEF SweptInv
  <2>4. CASE DeleteStaleTables
    <3>1. PICK listed \in IF pc.connected THEN GetCyndiTables ELSE {{}}, f \in CleanupResults :
            /\ pc'.phase = "dispatch" /\ pc'.inst = pc.inst /\ pc'.errors = (pc.errors \/ f)
            /\ \E gone \in Deleted(listed \ tablesToKeep(pc.inst, pc.current), f) :
                 DeleteTables(gone)
      BY <2>4, StaleTablesFields
    <3>2. pc.phase = "tables" /\ UNCHANGED connectors
      BY <2>4 DEF DeleteStaleTables
    <3>3. ASSUME ~pc'.errors, pc'.inst.deleting
          PROVE  tables' = {} /\ connectors' = {}
      <4>1. tablesToKeep(pc.inst, pc.current) = {}
        BY <3>1, <3>3 DEF tablesToKeep, GetState
      <4>2. ~f /\ ~pc.errors
        BY <3>1, <3>3
      <4>3. pc.connected /\ connectors = {}
        BY <3>1, <3>2, <3>3, <4>2 DEF SweptInv
      <4>4. listed = tables
        BY <3>1, <4>3 DEF GetCyndiTables
      <4>5. DeleteTables(tables)
        BY <3>1, <4>1, <4>2, <4>4 DEF Deleted
      <4> QED
        BY <3>2, <4>3, <4>5 DEF DeleteTables
    <3> QED
      BY <3>1, <3>3 DEF SweptInv
  <2>5. CASE StartInitialSync
    <3>1. PICK q : iter' = [iter EXCEPT !["pipeline"] = [pc EXCEPT !.inst = q, !.phase = "newtable"]]
      BY <2>5 DEF StartInitialSync
    <3>2. pc \in ReconcileIteration
      BY <2>5, PcType DEF StartInitialSync, InState, TypeInv
    <3>3. pc' = [pc EXCEPT !.inst = q, !.phase = "newtable"]
      BY <3>1, PcStep DEF TypeInv
    <3>4. pc'.phase = "newtable"
      BY <3>2, <3>3 DEF ReconcileIteration
    <3> QED
      BY <3>4 DEF SweptInv
  <2>6. CASE CreateNewTable \/ CreateNewConnector
    <3>1. pc'.phase \in {"newconnector", "status"}
      BY <2>6, CreationFields
    <3> QED
      BY <3>1 DEF SweptInv
  <2> QED
    BY <1>2, <2>1, <2>2, <2>3, <2>4, <2>5, <2>6, PipelineCourse
<1>3. CASE ~PipelineNext
  BY <1>1, <1>3, OthersShrink DEF Next, PipelineStep, ValidationStep
<1> QED
  BY <1>2, <1>3

LEMMA FootprintStep ==
  ASSUME WakeupInv, RemovalInv, ~Ephemeral, [Next]_opVars
  PROVE  FootprintInv'
<1>1. TypeInv /\ CopyInv /\ OutcomeInv /\ GoneInv
  BY DEF WakeupInv, StatusInv, CoreInv, ChainInv
<1>2. FootprintInv /\ FinalizedInv /\ SweptInv
  BY DEF RemovalInv
<1>3. CASE CreateNewTable \/ CreateNewConnector
  <2>1. pc.phase \in {"newtable", "newconnector"} /\ UNCHANGED api
    BY <1>3 DEF CreateNewTable, CreateNewConnector, Proceed, Goto, kubeVars
  <2>2. Started(pc)
    BY <1>1, <2>1 DEF OutcomeInv, Outcome, pc, Controllers
  <2> QED
    BY <1>2, <2>1, <2>2 DEF Started, FinalizedInv, FinalizedBy, FootprintInv
<1>4. CASE RemoveFinalizer
  <2>1. pc.phase = "dispatch" /\ ~pc.errors /\ UNCHANGED <<dbVars, connectors>>
    BY <1>4 DEF RemoveFinalizer, InState
  <2>2. tables = {} /\ connectors = {}
    BY <1>2, <1>4, <2>1, AllDeleting DEF SweptInv
  <2> QED
    BY <2>1, <2>2 DEF FootprintInv, dbVars
<1>5. CASE ~CreateNewTable /\ ~CreateNewConnector /\ ~RemoveFinalizer
  <2>1. Shrinks
    BY <1>1, <1>5, PipelineShrinks, OthersShrink DEF Next, PipelineStep, ValidationStep
  <2>2. api.exists /\ api.finalizer => api'.exists /\ api'.finalizer
    <3>1. CASE UNCHANGED api
      BY <3>1
    <3>2. CASE ResourceWrite
      BY <1>1, <1>5, <3>2, WrittenStatus, OtherWrites DEF ResourceWrite
    <3> QED
      BY <1>1, <3>1, <3>2, KubeSteps DEF Quiet, Reads, Deliver, Restart
  <2> QED
    BY <1>2, <2>1, <2>2 DEF Shrinks, FootprintInv
<1> QED
  BY <1>3, <1>4, <1>5

LEMMA RemovalInit ==
  ASSUME Init
  PROVE  RemovalInv
<1>1. /\ ~api.finalizer /\ ~cache.finalizer /\ watch = <<>> /\ api.status.version = Nil
      /\ tables = {} /\ connectors = {}
  BY DEF Init, KubeInit, DbInit, ConnectInit, EmptyStatus
<1>2. pc.phase = "idle" /\ vc.phase = "idle"
  BY DEF Init, IterInit, Controllers, Idle, pc, vc
<1> QED
  BY <1>1, <1>2 DEF RemovalInv, FinalizedInv, FinalizedBy, ValidatesInv, VersionInv,
                    FootprintInv, SweptInv

LEMMA RemovalStep ==
  ASSUME WakeupInv, RemovalInv, "query" \notin Faults, ~Ephemeral, [Next]_opVars
  PROVE  RemovalInv'
<1>1. TypeInv
  BY DEF WakeupInv, StatusInv, CoreInv
<1> QED
  BY <1>1, FinalizedStep, ValidatesStep, VersionStep, SweptStep, FootprintStep DEF RemovalInv

\* A removed pipeline leaves nothing behind, and no reconcile that works on
\* an older copy of it brings a table, a view or a connector back, for any lag
\* of the informer, any crash and any call that fails with an error.  Both
\* assumptions are needed: a list of tables cut short by a failed query that
\* nobody notices leaves the rest of them, and in an ephemeral environment the
\* finalizer goes although the cleanup had errors.
THEOREM RemovalIsClean ==
  ASSUME "query" \notin Faults, ~Ephemeral
  PROVE  Spec => []CleanRemoval
<1> DEFINE Inv == WakeupInv /\ RemovalInv
<1>1. Init => Inv
  BY WakeupInit, RemovalInit
<1>2. Inv /\ [Next]_opVars => Inv'
  BY WakeupStep, RemovalStep
<1>3. Inv => CleanRemoval
  <2> SUFFICES ASSUME Inv, ~api.exists
               PROVE  tables = {} /\ connectors = {} /\ view = Nil
    BY DEF CleanRemoval
  <2>1. tables = {} /\ connectors = {}
    BY DEF RemovalInv, FootprintInv
  <2> QED
    BY <2>1 DEF WakeupInv, StatusInv, CoreInv, TypeInv, DbTypeOK
<1> QED
  BY <1>1, <1>2, <1>3, PTL DEF Spec
----------------------------------------------------------------------------
(***************************************************************************)
(* The operator implements Lifecycle.                                      *)
(***************************************************************************)

\* The refinement mapping.
StateNow == IF api.exists THEN GetState(api) ELSE "GONE"

FootprintNow == tables # {} \/ connectors # {}

ShownNow == view # Nil

\* Whoever writes the resource does nothing else in that step.
LEMMA WritesAlone ==
  ASSUME TypeInv, [Next]_opVars, api' # api
  PROVE  UNCHANGED <<dbVars, connectors>>
<1>1. CASE PipelineNext
  BY <1>1 DEF PipelineNext, PipelineSetup, Setup, PipelineSkip, SkipRequest, DeleteStaleConnectors,
       DeleteStaleTables, RemoveFinalizer, Abort, FailUntouched, Fail, StartInitialSync,
       CreateNewTable, CreateNewConnector, Proceed, Goto, PipelineDeviation, DeviationStep,
       PipelineSetConnectorState, RecreateViewIfNeeded, GrantView, UpdateViewIfHealthier,
       GrantHealthierView, PipelineUpdateStatus, UpdateStatusAndRequeue,
       PipelineCallFails, CallFails, kubeVars
<1>2. CASE ValidationNext
  BY <1>2 DEF ValidationNext, ValidationSetup, Setup, ValidationSkip, SkipRequest,
       ValidationDeviation, DeviationStep, Validate, ValidationUpdateStatus,
       UpdateStatusAndRequeue, ValidationCallFails, CallFails, FailUntouched
<1>3. CASE TableSeeded \/ EventDelivered \/ Crash \/ UNCHANGED opVars
  BY <1>3 DEF TableSeeded, EventDelivered, Deliver, Crash, Restart, opVars, vars, kubeVars
<1>4. CASE Disturb
  BY <1>4 DEF Disturb, UserEdits, UserDeletes, AdminConfigures, ConfigMapChange, TableDropped,
              TableDrifts, ConnectorDisturbed, kubeVars
<1> QED
  BY <1>1, <1>2, <1>3, <1>4 DEF Next, PipelineStep, ValidationStep

\* A status write moves the state along an arrow of the diagram, or not.
LEMMA StatusWriteMoves ==
  ASSUME TypeInv, CopyInv, OutcomeInv, NEW c \in Controllers, StatusWrite(c)
  PROVE  \/ StateNow' = StateNow
         \/ StateNow = "NEW" /\ StateNow' = "INITIAL_SYNC"
         \/ StateNow \in {"INITIAL_SYNC", "INVALID"} /\ StateNow' = "VALID"
         \/ StateNow = "VALID" /\ StateNow' = "INVALID"
         \/ StateNow \in {"INITIAL_SYNC", "VALID", "INVALID"} /\ StateNow' = "NEW"
<1>1. /\ Outcome(iter[c]) /\ iter[c].orig = api.status /\ iter[c].phase = "status"
      /\ api'.status.version = iter[c].inst.status.version
      /\ api'.status.initsync = iter[c].inst.status.initsync
      /\ api'.status.valid = iter[c].inst.status.valid
      /\ api'.deleting = api.deleting /\ api'.exists = api.exists
  BY WrittenStatus
<1>2. Coherent(api.status)
  BY <1>1 DEF Outcome
<1>3. CASE iter[c].inst.status = iter[c].orig
  BY <1>1, <1>3 DEF StateNow, GetState
<1>4. CASE Renewed(iter[c].orig, iter[c].inst.status)
  BY <1>1, <1>2, <1>4 DEF StateNow, GetState, Renewed, Coherent
<1>5. CASE Started(iter[c])
  BY <1>1, <1>5 DEF StateNow, GetState, Started
<1>6. CASE Judged(iter[c].orig, iter[c].inst.status)
  BY <1>1, <1>2, <1>6 DEF StateNow, GetState, Judged, Coherent
<1> QED
  BY <1>1, <1>3, <1>4, <1>5, <1>6 DEF Outcome

\* Everything the refinement needs to know of a state.
LifeInv == WakeupInv /\ RemovalInv /\ CurrentInv

LEMMA LifeInit ==
  ASSUME Init
  PROVE  LifeInv
<1>1. pc.phase = "idle"
  BY DEF Init, IterInit, Controllers, Idle, pc
<1> QED
  BY <1>1, WakeupInit, RemovalInit DEF LifeInv, CurrentInv

LEMMA LifeStep ==
  ASSUME LifeInv, "query" \notin Faults, ~Ephemeral, [Next]_opVars
  PROVE  LifeInv'
<1>1. CoreInv
  BY DEF LifeInv, WakeupInv, StatusInv
<1> QED
  BY <1>1, WakeupStep, RemovalStep, ViewStep DEF LifeInv

\* A step that writes the resource.
LEMMA WriteMoves ==
  ASSUME LifeInv, ~Ephemeral, ResourceWrite, UNCHANGED <<dbVars, connectors>>
  PROVE  [life!Next]_life!lifeVars
<1>1. TypeInv /\ CopyInv /\ OutcomeInv /\ GoneInv /\ CopiesCoherent
  BY DEF LifeInv, WakeupInv, StatusInv, CoreInv, ChainInv
<1>2. FootprintNow' = FootprintNow /\ ShownNow' = ShownNow
  BY DEF FootprintNow, ShownNow, dbVars
<1>3. ASSUME StateNow' = StateNow
      PROVE  [life!Next]_life!lifeVars
  BY <1>2, <1>3 DEF life!lifeVars, StateNow, FootprintNow, ShownNow
<1>4. ASSUME NEW from, NEW to, StateNow \in from, StateNow' = to
      PROVE  life!Move(from, to)
  BY <1>2, <1>4 DEF life!Move, StateNow, FootprintNow, ShownNow
<1>5. CASE \E c \in Controllers : StatusWrite(c)
  <2>1. \/ StateNow' = StateNow
        \/ StateNow = "NEW" /\ StateNow' = "INITIAL_SYNC"
        \/ StateNow \in {"INITIAL_SYNC", "INVALID"} /\ StateNow' = "VALID"
        \/ StateNow = "VALID" /\ StateNow' = "INVALID"
        \/ StateNow \in {"INITIAL_SYNC", "VALID", "INVALID"} /\ StateNow' = "NEW"
    BY <1>1, <1>5, StatusWriteMoves
  <2> QED
    BY <1>3, <1>4, <2>1 DEF life!Next, life!StartInitialSync, life!BecomeValid,
                            life!BecomeInvalid, life!Refresh
<1>6. CASE FinalizerAdded \/ Edited
  <2>1. /\ api'.status = api.status /\ api'.deleting = api.deleting
        /\ api'.exists = api.exists
    BY <1>1, <1>6, OtherWrites
  <2> QED
    BY <1>3, <2>1 DEF StateNow, GetState
<1>7. CASE RemoveFinalizer
  <2>1. api.exists /\ api.deleting /\ pc.inst.deleting /\ ~api'.exists
    BY <1>1, <1>7, AllDeleting, OtherWrites DEF LifeInv
  <2>2. pc.phase = "dispatch" /\ ~pc.errors
    BY <1>7 DEF RemoveFinalizer, InState
  <2>3. ~FootprintNow
    BY <2>1, <2>2 DEF LifeInv, RemovalInv, SweptInv, FootprintNow
  <2>4. life!Move({"REMOVED"}, "GONE")
    BY <1>4, <2>1 DEF StateNow, GetState
  <2> QED
    BY <2>3, <2>4 DEF life!Next, life!Finish, FootprintNow
<1>8. CASE UserDeletes
  <2>1. /\ api.exists /\ ~api.deleting /\ api'.deleting /\ api'.status = api.status
        /\ api'.exists = api.finalizer
    BY <1>1, <1>8, OtherWrites
  <2>2. CASE api.finalizer
    <3>1. StateNow' = "REMOVED" /\ StateNow \in life!States \ {"REMOVED", "GONE"}
      BY <1>1, <2>1, <2>2 DEF StateNow, GetState, CopiesCoherent, Coherent, life!States
    <3>2. life!Move(life!States \ {"REMOVED", "GONE"}, "REMOVED")
      BY <1>4, <3>1
    <3> QED
      BY <3>2 DEF life!Next, life!Remove
  <2>3. CASE ~api.finalizer
    <3>1. ~FootprintNow /\ api.status.version = Nil
      BY <2>1, <2>3 DEF LifeInv, RemovalInv, VersionInv, FootprintInv, FootprintNow
    <3>2. life!Move({"NEW"}, "GONE")
      BY <1>4, <2>1, <2>3, <3>1 DEF StateNow, GetState
    <3> QED
      BY <3>1, <3>2 DEF life!Next, life!RemoveUntouched, FootprintNow
  <2> QED
    BY <2>2, <2>3
<1> QED
  BY <1>5, <1>6, <1>7, <1>8 DEF ResourceWrite

\* A step that leaves the resource alone.
LEMMA WorkMoves ==
  ASSUME LifeInv, LifeInv', "query" \notin Faults, [Next]_opVars, UNCHANGED api
  PROVE  [life!Next]_life!lifeVars
<1>1. TypeInv /\ CoreInv /\ CurrentInv /\ CopiesCoherent
  BY DEF LifeInv, WakeupInv, StatusInv, CoreInv
<1>2. DbTypeOK /\ DbTypeOK' /\ FootprintInv /\ FootprintInv'
  BY DEF LifeInv, WakeupInv, StatusInv, CoreInv, TypeInv, RemovalInv
<1>3. StateNow' = StateNow
  BY DEF StateNow, GetState
<1>4. CASE ~api.exists
  <2>1. tables = {} /\ connectors = {} /\ tables' = {} /\ connectors' = {}
    BY <1>2, <1>4 DEF FootprintInv
  <2>2. view = Nil /\ view' = Nil
    BY <1>2, <2>1 DEF DbTypeOK
  <2> QED
    BY <1>3, <2>1, <2>2 DEF life!lifeVars, StateNow
<1>5. CASE api.exists
  <2>1. StateNow # "GONE"
    BY <1>5 DEF StateNow, GetState
  <2>2. ShownNow' => FootprintNow'
    BY <1>2 DEF DbTypeOK, ShownNow, FootprintNow
  <2>3. ShownNow /\ ~ShownNow' => StateNow = "REMOVED" \/ "drop table" \in Disturbances
    <3>1. SUFFICES ASSUME view # Nil, view' = Nil, ~api.deleting
                   PROVE  "drop table" \in Disturbances
      BY <1>5 DEF StateNow, GetState, ShownNow
    <3>2. ~PipelineStep
      BY <1>1, <3>1, PipelineKeepsView DEF PipelineStep
    <3>3. ~ValidationStep
      BY <1>1, <3>1, ValidationKeepsView DEF ValidationStep
    <3>4. CASE TableSeeded \/ EventDelivered \/ Crash \/ UNCHANGED opVars
      BY <3>1, <3>4 DEF TableSeeded, Seed, EventDelivered, Crash, opVars, vars, dbVars
    <3>5. CASE Disturb
      BY <3>1, <3>5 DEF Disturb, UserEdits, UserDeletes, AdminConfigures, TableDropped, May,
                        TableDrifts, Drift, ConnectorDisturbed, dbVars
    <3> QED
      BY <3>2, <3>3, <3>4, <3>5 DEF Next
  <2> QED
    BY <1>3, <2>1, <2>2, <2>3 DEF life!Next, life!Work, StateNow, FootprintNow, ShownNow
<1> QED
  BY <1>4, <1>5

\* The operator implements Lifecycle: every step of either controller and of
\* the environment is a step of the state diagram or changes nothing that it
\* shows, for any lag of the informer, any crash, any call that fails with an
\* error and any disturbance.  The assumptions are those of RemovalIsClean and
\* ViewIsKept.
THEOREM ImplementsLifecycle ==
  ASSUME "query" \notin Faults, ~Ephemeral
  PROVE  Spec => FollowsLifecycle
<1>1. Init => LifeInv
  BY LifeInit
<1>2. LifeInv /\ [Next]_opVars => LifeInv'
  BY LifeStep
<1>3. Init => life!Init
  <2> SUFFICES ASSUME Init
               PROVE  life!Init
    OBVIOUS
  <2>1. api.exists /\ ~api.deleting /\ api.status.version = Nil
    BY DEF Init, KubeInit, EmptyStatus
  <2>2. tables = {} /\ view = Nil /\ connectors = {}
    BY DEF Init, DbInit, ConnectInit
  <2> QED
    BY <2>1, <2>2 DEF life!Init, GetState
<1>4. LifeInv /\ LifeInv' /\ [Next]_opVars => [life!Next]_life!lifeVars
  <2> SUFFICES ASSUME LifeInv, LifeInv', [Next]_opVars
               PROVE  [life!Next]_life!lifeVars
    OBVIOUS
  <2>1. TypeInv
    BY DEF LifeInv, WakeupInv, StatusInv, CoreInv
  <2>2. CASE UNCHANGED api
    BY <2>2, WorkMoves
  <2>3. CASE api' # api
    <3>1. ResourceWrite
      BY <2>1, <2>3, KubeSteps DEF Quiet, Reads, Deliver, Restart
    <3> QED
      BY <2>1, <2>3, <3>1, WritesAlone, WriteMoves
  <2> QED
    BY <2>2, <2>3
<1> QED
  BY <1>1, <1>2, <1>3, <1>4, PTL DEF Spec, FollowsLifecycle, life!Spec
----------------------------------------------------------------------------
(***************************************************************************)
(* At most two tables and two connectors.                                  *)
(***************************************************************************)

Names == {k.name : k \in connectors}

\* Connector names are unique at the API server.
NamesUnique == \A k, l \in connectors : k.name = l.name => k = l

WithinOne(S) == \E a : S \subseteq {a}

WithinTwo(S) == \E a, b : S \subseteq {a, b}

\* A pipeline in state NEW, in the middle or at the end of a cleanup that had
\* no error so far.
CleanedUp(phases) == pc.phase \in phases /\ ~pc.errors /\ GetState(pc.inst) = "NEW"

\* The table that the next TransitionToInitialSync will take over, if any.
TakenOver(p) == IF ConnectorsManaged(p) THEN {} ELSE {p.status.table} \ {Nil}

\* One reconcile creates at most one of each, and before that its cleanup left
\* at most one other.
BoundInv ==
  /\ NamesUnique /\ WithinTwo(tables) /\ WithinTwo(Names)
  /\ CleanedUp({"tables", "dispatch"}) => WithinOne(Names)
  /\ CleanedUp({"dispatch"}) => WithinOne(tables \ TakenOver(pc.inst))
  /\ pc.phase \in {"newtable", "newconnector"} => WithinOne(Names)
  /\ pc.phase = "newtable" => WithinOne(tables \ {pc.inst.status.table})

NamesShrink == Names' \subseteq Names /\ (NamesUnique => NamesUnique')

LEMMA DeletedNames ==
  ASSUME NEW ns, DeleteConnectors(ns)
  PROVE  NamesShrink /\ Names' = Names \ ns
  BY DEF DeleteConnectors, NamesShrink, Names, NamesUnique

LEMMA ChangedNames ==
  ASSUME TypeInv,
         \/ UNCHANGED connectors
         \/ \E n, v : SetConnectorState(n, v)
         \/ \E k \in connectors : ConnectorFails(k) \/ ConnectorReconfigured(k)
  PROVE  NamesShrink
<1>1. connectors \subseteq Connector
  BY DEF TypeInv, ConnectTypeOK
<1>2. CASE UNCHANGED connectors
  BY <1>2 DEF NamesShrink, Names, NamesUnique
<1>3. CASE \E n, v : SetConnectorState(n, v)
  <2>1. PICK n, v : SetConnectorState(n, v)
    BY <1>3
  <2> DEFINE f(k) == IF k.name = n THEN [k EXCEPT !.paused = v] ELSE k
  <2>2. \A k \in connectors : f(k).name = k.name
    BY <1>1 DEF Connector
  <2>3. connectors' = {f(k) : k \in connectors}
    BY <2>1 DEF SetConnectorState
  <2> HIDE DEF f
  <2> QED
    BY <2>2, <2>3 DEF NamesShrink, Names, NamesUnique
<1>4. CASE \E k \in connectors : ConnectorFails(k) \/ ConnectorReconfigured(k)
  <2>1. PICK k \in connectors : ConnectorFails(k) \/ ConnectorReconfigured(k)
    BY <1>4
  <2>2. \E l : l.name = k.name /\ connectors' = (connectors \ {k}) \cup {l}
    BY <1>1, <2>1 DEF ConnectorFails, ConnectorReconfigured, Connector
  <2> QED
    BY <2>2 DEF NamesShrink, Names, NamesUnique
<1> QED
  BY <1>2, <1>3, <1>4

LEMMA OthersNames ==
  ASSUME TypeInv, ValidationNext \/ TableSeeded \/ EventDelivered \/ Crash \/ Disturb \/ UNCHANGED opVars
  PROVE  NamesShrink
<1>1. CASE ValidationNext
  BY <1>1, ChangedNames DEF ValidationNext, ValidationSetup, Setup, ValidationSkip, SkipRequest,
       ValidationDeviation, DeviationStep, Validate, ValidationUpdateStatus,
       UpdateStatusAndRequeue, ValidationCallFails, CallFails, FailUntouched
<1>2. CASE TableSeeded \/ EventDelivered \/ Crash \/ UNCHANGED opVars
  BY <1>2, ChangedNames DEF TableSeeded, EventDelivered, Crash, opVars, vars
<1>3. CASE Disturb
  <2>1. CASE ConnectorDisturbed
    BY <2>1, ChangedNames, DeletedNames DEF ConnectorDisturbed
  <2> QED
    BY <1>3, <2>1, ChangedNames DEF Disturb, UserEdits, UserDeletes, AdminConfigures,
                                    TableDropped, TableDrifts
<1> QED
  BY <1>1, <1>2, <1>3

\* The cleanup of a pipeline in state NEW keeps the connector of the active
\* table, at most, ...
LEMMA CleanupNames ==
  ASSUME TypeInv, BoundInv, DeleteStaleConnectors
  PROVE  /\ NamesShrink /\ tables' = tables /\ pc'.phase = "tables"
         /\ CleanedUp({"tables"})' => WithinOne(Names')
<1>1. PICK r, f :
        /\ pc'.phase = "tables" /\ pc'.inst = pc.inst /\ f \in BOOLEAN
        /\ pc'.errors = (pc.errors \/ r.err \/ f)
        /\ \E gone \in Deleted(Names \ connectorsToKeep(pc.inst, r.table), f) : DeleteConnectors(gone)
  BY StaleConnectorsFields DEF Names, CleanupResults
<1>2. PICK gone \in Deleted(Names \ connectorsToKeep(pc.inst, r.table), f) : DeleteConnectors(gone)
  BY <1>1
<1>3. NamesShrink /\ Names' = Names \ gone
  BY <1>2, DeletedNames
<1>4. tables' = tables
  BY DEF DeleteStaleConnectors, dbVars
<1>5. ASSUME CleanedUp({"tables"})'
      PROVE  WithinOne(Names')
  <2>1. ~f /\ ~pc.inst.deleting /\ pc.inst.status.version = Nil
    BY <1>1, <1>5 DEF CleanedUp, GetState
  <2>2. Names' \subseteq connectorsToKeep(pc.inst, r.table)
    BY <1>2, <1>3, <2>1 DEF Deleted
  <2>3. connectorsToKeep(pc.inst, r.table) \subseteq {TableNameToConnectorName(r.table, pc.inst.spec.app)}
    BY <2>1 DEF connectorsToKeep
  <2> QED
    BY <2>2, <2>3 DEF WithinOne
<1> QED
  BY <1>1, <1>3, <1>4, <1>5

\* ... and the active table and the one that is taken over.
LEMMA CleanupTables ==
  ASSUME TypeInv, BoundInv, SweptInv, "query" \notin Faults, DeleteStaleTables
  PROVE  /\ NamesShrink /\ tables' \subseteq tables /\ pc'.phase = "dispatch"
         /\ CleanedUp({"dispatch"})' => /\ CleanedUp({"tables"})
                                       /\ WithinOne(tables' \ TakenOver(pc'.inst))
<1>1. PICK listed \in IF pc.connected THEN GetCyndiTables ELSE {{}}, f \in BOOLEAN :
        /\ pc'.phase = "dispatch" /\ pc'.inst = pc.inst /\ pc'.errors = (pc.errors \/ f)
        /\ \E gone \in Deleted(listed \ tablesToKeep(pc.inst, pc.current), f) : DeleteTables(gone)
  BY StaleTablesFields DEF CleanupResults
<1>2. PICK gone \in Deleted(listed \ tablesToKeep(pc.inst, pc.current), f) : DeleteTables(gone)
  BY <1>1
<1>3. pc.phase = "tables" /\ UNCHANGED connectors
  BY DEF DeleteStaleTables
<1>4. NamesShrink /\ tables' = tables \ gone
  BY <1>2, <1>3, ChangedNames DEF DeleteTables
<1>5. ASSUME CleanedUp({"dispatch"})'
      PROVE  CleanedUp({"tables"}) /\ WithinOne(tables' \ TakenOver(pc'.inst))
  <2>1. /\ ~f /\ ~pc.errors /\ GetState(pc.inst) = "NEW"
        /\ ~pc.inst.deleting /\ pc.inst.status.version = Nil
    BY <1>1, <1>5 DEF CleanedUp, GetState
  <2>2. listed = tables
    BY <1>1, <1>3, <2>1 DEF SweptInv, GetCyndiTables
  <2>3. tables' \subseteq tablesToKeep(pc.inst, pc.current)
    BY <1>2, <1>4, <2>1, <2>2 DEF Deleted
  <2>4. tablesToKeep(pc.inst, pc.current) \subseteq TakenOver(pc.inst) \cup {pc.current}
    BY <2>1 DEF tablesToKeep, TakenOver
  <2>5. tables' \ TakenOver(pc.inst) \subseteq {pc.current}
    BY <2>3, <2>4
  <2> QED
    BY <1>1, <1>3, <2>1, <2>5 DEF WithinOne, CleanedUp
<1> QED
  BY <1>1, <1>4, <1>5

\* TransitionToInitialSync names the table that is created next.
LEMMA StartedTable ==
  ASSUME TypeInv, StartInitialSync
  PROVE  /\ pc'.phase = "newtable" /\ TakenOver(pc.inst) \subseteq {pc'.inst.status.table}
         /\ CleanedUp({"dispatch"}) /\ UNCHANGED <<tables, connectors>>
<1>1. /\ pc.phase = "dispatch" /\ GetState(pc.inst) = "NEW" /\ ~pc.errors
      /\ UNCHANGED <<tables, connectors>>
  BY DEF StartInitialSync, InState, dbVars
<1>2. pc \in ReconcileIteration
  BY <1>1, PcType DEF TypeInv
<1>3. pc.inst \in CyndiPipeline /\ pc.config \in ConfigMaps
  BY <1>2 DEF ReconcileIteration
<1> DEFINE p == [pc.inst EXCEPT !.finalizer = TRUE,
                                !.status.cmver = ConfigMapHash(pc.config),
                                !.status.spechash = SpecHash(pc.inst.spec)]
           q == TransitionToInitialSync(p, NewVersion)
           i == [pc EXCEPT !.inst = q, !.phase = "newtable"]
<1>4. iter' = [iter EXCEPT !["pipeline"] = i]
  BY DEF StartInitialSync
<1>5. NewVersion \in Versions
  BY DEF StartInitialSync, NewVersion
<1>6. p \in CyndiPipeline /\ p.spec = pc.inst.spec /\ p.status.table = pc.inst.status.table
  BY <1>3, ConfigMapsAssumption
     DEF CyndiPipeline, PipelineStatus, PipelineSpec, ConfigMapHash, SpecHash
<1> HIDE DEF p
<1>7. q.status.table = IF ConnectorsManaged(p) \/ p.status.table = Nil
                       THEN TableName(NewVersion) ELSE p.status.table
  BY <1>5, <1>6, StartedStatus
<1> HIDE DEF q
<1>8. pc' = i
  BY <1>4, PcStep DEF TypeInv
<1>9. pc'.phase = "newtable" /\ pc'.inst = q
  BY <1>2, <1>8 DEF ReconcileIteration
<1> QED
  BY <1>1, <1>6, <1>7, <1>9 DEF TakenOver, ConnectorsManaged, CleanedUp

LEMMA WithinSubset ==
  ASSUME NEW S, NEW T, S \subseteq T
  PROVE  (WithinOne(T) => WithinOne(S)) /\ (WithinTwo(T) => WithinTwo(S))
  BY DEF WithinOne, WithinTwo

LEMMA WithinAdd ==
  ASSUME NEW S, NEW T, NEW a, WithinOne(S), T \subseteq S \cup {a}
  PROVE  WithinTwo(T)
  BY DEF WithinOne, WithinTwo

LEMMA BoundStep ==
  ASSUME TypeInv, BoundInv, SweptInv, "query" \notin Faults, [Next]_opVars
  PROVE  BoundInv'
<1>1. ASSUME NamesShrink, tables' \subseteq tables,
             \/ pc' = pc
             \/ pc'.phase \notin {"tables", "dispatch", "newtable", "newconnector"}
      PROVE  BoundInv'
  <2>1. NamesUnique' /\ WithinTwo(tables') /\ WithinTwo(Names')
    BY <1>1, WithinSubset DEF BoundInv, NamesShrink
  <2>2. CASE pc' = pc
    <3>1. /\ WithinOne(Names) => WithinOne(Names')
          /\ \A S : WithinOne(tables \ S) => WithinOne(tables' \ S)
      BY <1>1, WithinSubset DEF NamesShrink
    <3> QED
      BY <2>1, <2>2, <3>1 DEF BoundInv, CleanedUp
  <2>3. CASE pc'.phase \notin {"tables", "dispatch", "newtable", "newconnector"}
    BY <2>1, <2>3 DEF BoundInv, CleanedUp
  <2> QED
    BY <1>1, <2>2, <2>3
<1>2. CASE ~PipelineNext
  BY <1>1, <1>2, OthersShrink, OthersNames DEF Next, PipelineStep, ValidationStep, Shrinks, Idle
<1>3. CASE Skips \/ Ends \/ Continues \/ PipelineSetup
  <2>1. UNCHANGED <<tables, connectors>>
    BY <1>3 DEF Skips, Ends, Continues, PipelineSetup, Setup, dbVars
  <2>2. pc' = pc \/ pc'.phase \notin {"tables", "dispatch", "newtable", "newconnector"}
    BY <1>3, SetupFields DEF Skips, Ends, Idle, Continues, LaterPhases
  <2> QED
    BY <1>1, <2>1, <2>2, ChangedNames
<1>4. CASE Pauses
  BY <1>1, <1>4, ChangedNames DEF Pauses, PipelineSetConnectorState, FailUntouched, LaterPhases, dbVars
<1>5. CASE DeleteStaleConnectors
  <2>1. /\ NamesShrink /\ tables' = tables /\ pc'.phase = "tables"
        /\ CleanedUp({"tables"})' => WithinOne(Names')
    BY <1>5, CleanupNames
  <2>2. NamesUnique' /\ WithinTwo(tables') /\ WithinTwo(Names')
    BY <2>1, WithinSubset DEF BoundInv, NamesShrink
  <2> QED
    BY <2>1, <2>2 DEF BoundInv, CleanedUp
<1>6. CASE DeleteStaleTables
  <2>1. /\ NamesShrink /\ tables' \subseteq tables /\ pc'.phase = "dispatch"
        /\ CleanedUp({"dispatch"})' => /\ CleanedUp({"tables"})
                                      /\ WithinOne(tables' \ TakenOver(pc'.inst))
    BY <1>6, CleanupTables
  <2>2. NamesUnique' /\ WithinTwo(tables') /\ WithinTwo(Names')
    BY <2>1, WithinSubset DEF BoundInv, NamesShrink
  <2>3. CleanedUp({"dispatch"})' => WithinOne(Names')
    BY <2>1, WithinSubset DEF BoundInv, NamesShrink, CleanedUp
  <2> QED
    BY <2>1, <2>2, <2>3 DEF BoundInv, CleanedUp
<1>7. CASE StartInitialSync
  <2>1. /\ pc'.phase = "newtable" /\ TakenOver(pc.inst) \subseteq {pc'.inst.status.table}
        /\ CleanedUp({"dispatch"}) /\ UNCHANGED <<tables, connectors>>
    BY <1>7, StartedTable
  <2>2. WithinOne(Names) /\ WithinOne(tables \ TakenOver(pc.inst))
    BY <2>1 DEF BoundInv, CleanedUp
  <2>3. WithinOne(tables \ {pc'.inst.status.table})
    BY <2>1, <2>2, WithinSubset
  <2>4. Names' = Names /\ (NamesUnique => NamesUnique')
    BY <2>1 DEF Names, NamesUnique
  <2> QED
    BY <2>1, <2>2, <2>3, <2>4 DEF BoundInv, CleanedUp
<1>8. CASE CreateNewTable
  <2>1. /\ pc.phase = "newtable" /\ pc'.phase \in {"newconnector", "status"}
        /\ tables' \subseteq tables \cup {pc.inst.status.table} /\ UNCHANGED connectors
    BY <1>8, CreationFields DEF CreateNewTable, CreateTable, dbVars
  <2>2. WithinOne(Names) /\ WithinOne(tables \ {pc.inst.status.table})
    BY <2>1 DEF BoundInv
  <2>3. WithinTwo(tables')
    BY <2>1, <2>2, WithinAdd
  <2>4. Names' = Names /\ (NamesUnique => NamesUnique')
    BY <2>1 DEF Names, NamesUnique
  <2> QED
    BY <2>1, <2>2, <2>3, <2>4 DEF BoundInv, CleanedUp
<1>9. CASE CreateNewConnector
  <2>1. /\ pc.phase = "newconnector" /\ pc'.phase = "status" /\ tables' = tables
    BY <1>9, CreationFields DEF CreateNewConnector, dbVars
  <2> DEFINE n == ConnectorName(pc.inst.status.version, pc.inst.spec.app)
  <2>2. PICK k : k.name = n /\ connectors' = connectors \cup {k} /\ GetConnector(n) = {}
    BY <1>9 DEF CreateNewConnector, CreateConnector
  <2> HIDE DEF n
  <2>3. Names' \subseteq Names \cup {n}
    BY <2>2 DEF Names
  <2>4. NamesUnique'
    BY <2>2 DEF BoundInv, NamesUnique, GetConnector
  <2>5. WithinTwo(Names')
    BY <2>1, <2>3, WithinAdd DEF BoundInv
  <2> QED
    BY <2>1, <2>4, <2>5 DEF BoundInv, CleanedUp
<1> QED
  BY <1>2, <1>3, <1>4, <1>5, <1>6, <1>7, <1>8, <1>9, PipelineCourse

LEMMA TwoElements ==
  ASSUME NEW S, WithinTwo(S)
  PROVE  Cardinality(S) <= 2
<1>1. PICK a, b : S \subseteq {a, b}
  BY DEF WithinTwo
<1>2. IsFiniteSet({a}) /\ Cardinality({a}) = 1
  BY FS_Singleton
<1>3. IsFiniteSet({a} \cup {b}) /\ Cardinality({a} \cup {b}) \in {1, 2}
  BY <1>2, FS_AddElement
<1>4. S \subseteq {a} \cup {b}
  BY <1>1
<1>5. Cardinality(S) <= Cardinality({a} \cup {b}) /\ Cardinality(S) \in Nat
  BY <1>3, <1>4, FS_Subset, FS_CardinalityType
<1> QED
  BY <1>3, <1>5

LEMMA TwoConnectors ==
  ASSUME NamesUnique, WithinTwo(Names)
  PROVE  WithinTwo(connectors)
<1>1. PICK a, b : Names \subseteq {a, b}
  BY DEF WithinTwo
<1> DEFINE the(n) == CHOOSE k \in connectors : k.name = n
<1>2. \A k \in connectors : k = the(k.name)
  BY DEF NamesUnique
<1>3. connectors \subseteq {the(a), the(b)}
  <2> SUFFICES ASSUME NEW k \in connectors
               PROVE  k \in {the(a), the(b)}
    OBVIOUS
  <2>1. k.name \in {a, b}
    BY <1>1 DEF Names
  <2> HIDE DEF the
  <2> QED
    BY <1>2, <2>1
<1> QED
  BY <1>3 DEF WithinTwo

\* At most two tables and two connectors exist at any time, however many
\* refreshes there were, whatever failed in them and however old the copies
\* were that they worked on.  A failed query that nobody notices would hide
\* stale tables from the cleanup.
THEOREM DependenciesAreBounded ==
  ASSUME "query" \notin Faults
  PROVE  Spec => []DependenciesBounded
<1> DEFINE Inv == TypeInv /\ disturbed \in 0..MaxDisturbances /\ SweptInv /\ BoundInv
<1>1. Init => Inv
  <2> SUFFICES ASSUME Init
               PROVE  Inv
    OBVIOUS
  <2>1. tables = {} /\ connectors = {}
    BY DEF Init, DbInit, ConnectInit
  <2>2. pc.phase = "idle"
    BY DEF Init, IterInit, Controllers, Idle, pc
  <2>3. BoundInv
    BY <2>1, <2>2 DEF BoundInv, NamesUnique, Names, WithinTwo, CleanedUp
  <2> QED
    BY <2>2, <2>3, InitTypes, RemovalInit DEF RemovalInv, Init
<1>2. Inv /\ [Next]_opVars => Inv'
  BY NextTypes, SweptStep, BoundStep
<1>3. Inv => DependenciesBounded
  BY TwoElements, TwoConnectors DEF BoundInv, DependenciesBounded
<1> QED
  BY <1>1, <1>2, <1>3, PTL DEF Spec
=============================================================================
