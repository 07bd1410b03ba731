---------------------------- MODULE WakeupProofs ----------------------------
(***************************************************************************)
(* No controller stops while there is something left for it to do, in     *)
(* spite of the events that eventFilterPredicate keeps from it and of the  *)
(* versions that the informer never sees.                                  *)
(***************************************************************************)
EXTENDS StatusProofs

\* The validation controller, asleep because it saw p in state NEW, is woken
\* by q: a version after p is NEW itself or in its initial sync.
Wakes(p, q) == p.status.version = Nil => q.status.version = Nil \/ q.status.initsync

\* Nothing happens to a resource that is gone.
GoneInv ==
  /\ fresh # {} => api.exists
  /\ watch # <<>> => /\ cache.exists
                     /\ \A n \in DOMAIN watch : n < Len(watch) => watch[n].exists

\* While an iteration holds the current resourceVersion, nothing but a
\* finalizer of its own is on its way to the informer.
SeenInv ==
  fresh # {} => /\ cache.status = api.status /\ cache.deleting = api.deleting
                /\ \A n \in DOMAIN watch :
                     watch[n].status = api.status /\ watch[n].deleting = api.deleting

WakesInv ==
  /\ \A n \in DOMAIN watch : Wakes(cache, watch[n])
  /\ \A m, n \in DOMAIN watch : m < n => Wakes(watch[m], watch[n])

ChainInv == GoneInv /\ SeenInv /\ WakesInv
----------------------------------------------------------------------------
LEMMA WatchDomain ==
  ASSUME TypeInv
  PROVE  /\ Len(watch) \in Nat /\ DOMAIN watch = 1..Len(watch)
         /\ watch # <<>> => Len(watch) \in DOMAIN watch
         /\ \A n \in DOMAIN watch : n = Len(watch) \/ n < Len(watch)
  BY DEF TypeInv, KubeTypeOK

\* While the resource is there all copies of it are of an existing one.
LEMMA AllExist ==
  ASSUME TypeInv, CopyInv, GoneInv, api.exists
  PROVE  cache.exists /\ \A n \in DOMAIN watch : watch[n].exists
<1>1. CASE watch = <<>>
  BY <1>1 DEF CopyInv, WatchInv
<1>2. CASE watch # <<>>
  BY <1>2, WatchDomain DEF CopyInv, WatchInv, GoneInv
<1> QED
  BY <1>1, <1>2

\* Every copy is followed by the resource itself.
LEMMA LastWakes ==
  ASSUME TypeInv, CopyInv, WakesInv
  PROVE  Wakes(cache, api) /\ \A n \in DOMAIN watch : Wakes(watch[n], api)
<1>1. Wakes(api, api)
  BY DEF Wakes
<1>2. CASE watch = <<>>
  BY <1>1, <1>2 DEF CopyInv, WatchInv
<1>3. CASE watch # <<>>
  <2>1. watch[Len(watch)] = api /\ Len(watch) \in DOMAIN watch
    BY <1>3, WatchDomain DEF CopyInv, WatchInv
  <2>2. Wakes(cache, api)
    BY <2>1 DEF WakesInv
  <2>3. ASSUME NEW n \in DOMAIN watch
        PROVE  Wakes(watch[n], api)
    BY <1>1, <2>1, <2>3, WatchDomain DEF WakesInv
  <2> QED
    BY <2>2, <2>3
<1> QED
  BY <1>2, <1>3

\* The status that a controller writes wakes whoever slept on the old one.
LEMMA WriteWakes ==
  ASSUME TypeInv, CopyInv, OutcomeInv, SeenInv, NEW c \in Controllers, StatusWrite(c)
  PROVE  Wakes(cache, api') /\ \A n \in DOMAIN watch : Wakes(watch[n], api')
<1>1. /\ Outcome(iter[c]) /\ iter[c].orig = api.status /\ fresh # {}
      /\ api'.status.version = iter[c].inst.status.version
      /\ api'.status.initsync = iter[c].inst.status.initsync
  BY WrittenStatus
<1>2. api.status.version = Nil => api'.status.version = Nil \/ api'.status.initsync
  BY <1>1 DEF Outcome, Renewed, Started, Judged
<1> QED
  BY <1>1, <1>2 DEF SeenInv, Wakes

LEMMA ChainWrite ==
  ASSUME TypeInv, CopyInv, OutcomeInv, ChainInv, ResourceWrite
  PROVE  ChainInv'
<1> USE DEF ChainInv
<1>1. /\ UNCHANGED cache
      /\ Len(watch) \in Nat /\ Len(watch') = Len(watch) + 1
      /\ DOMAIN watch = 1..Len(watch) /\ DOMAIN watch' = 1..Len(watch')
      /\ \A n \in DOMAIN watch' :
           \/ n \in DOMAIN watch /\ watch'[n] = watch[n]
           \/ n = Len(watch') /\ n \notin DOMAIN watch /\ watch'[n] = api'
      /\ \A n \in DOMAIN watch : n < Len(watch')
  BY WatchAfterWrite
<1>2. api.exists
  BY WrittenStatus, OtherWrites DEF ResourceWrite, GoneInv
<1>3. cache.exists /\ \A n \in DOMAIN watch : watch[n].exists
  BY <1>2, AllExist
<1>4. GoneInv'
  <2>1. fresh' # {} => api'.exists
    BY <1>2, WrittenStatus, OtherWrites DEF ResourceWrite
  <2>2. ASSUME NEW n \in DOMAIN watch', n < Len(watch')
        PROVE  watch'[n].exists
    <3>1. n # Len(watch')
      BY <1>1, <2>2
    <3> QED
      BY <1>1, <1>3, <2>2, <3>1
  <2> QED
    BY <1>1, <1>3, <2>1, <2>2 DEF GoneInv
<1>5. SeenInv'
  <2>1. CASE FinalizerAdded
    BY <1>1, <2>1, OtherWrites DEF SeenInv
  <2>2. CASE ~FinalizerAdded
    <3>1. fresh' = {}
      BY <2>2, WrittenStatus, OtherWrites DEF ResourceWrite
    <3> QED
      BY <3>1 DEF SeenInv
  <2> QED
    BY <2>1, <2>2
<1>6. Wakes(cache, api') /\ \A n \in DOMAIN watch : Wakes(watch[n], api')
  <2>1. CASE \E c \in Controllers : StatusWrite(c)
    BY <2>1, WriteWakes
  <2>2. CASE ~\E c \in Controllers : StatusWrite(c)
    <3>1. api'.status = api.status
      BY <2>2, OtherWrites DEF ResourceWrite
    <3> QED
      BY <3>1, LastWakes DEF Wakes
  <2> QED
    BY <2>1, <2>2
<1>7. WakesInv'
  <2>1. ASSUME NEW n \in DOMAIN watch'
        PROVE  Wakes(cache', watch'[n])
    BY <1>1, <1>6, <2>1 DEF WakesInv
  <2>2. ASSUME NEW m \in DOMAIN watch', NEW n \in DOMAIN watch', m < n
        PROVE  Wakes(watch'[m], watch'[n])
    <3>1. m \in DOMAIN watch
      BY <1>1, <2>2
    <3>2. watch'[m] = watch[m]
      BY <1>1, <3>1
    <3> QED
      BY <1>1, <1>6, <2>2, <3>1, <3>2 DEF WakesInv
  <2> QED
    BY <2>1, <2>2 DEF WakesInv
<1> QED
  BY <1>4, <1>5, <1>7

LEMMA ChainDeliver ==
  ASSUME TypeInv, ChainInv, NEW k \in DOMAIN watch, Deliver(k)
  PROVE  ChainInv'
<1> USE DEF ChainInv
<1>1. /\ cache' = watch[k] /\ UNCHANGED <<api, fresh>>
      /\ k \in 1..Len(watch) /\ Len(watch) \in Nat /\ DOMAIN watch = 1..Len(watch)
      /\ Len(watch') = Len(watch) - k /\ DOMAIN watch' = 1..Len(watch')
      /\ watch' # <<>> => k < Len(watch)
      /\ \A n \in DOMAIN watch' : k + n \in DOMAIN watch /\ watch'[n] = watch[k + n]
  BY TakenEvent
<1>2. watch # <<>>
  BY <1>1
<1>3. GoneInv'
  <2>1. watch' # <<>> => cache'.exists
    BY <1>1, <1>2 DEF GoneInv
  <2>2. ASSUME NEW n \in DOMAIN watch', n < Len(watch')
        PROVE  watch'[n].exists
    <3>1. k + n < Len(watch) /\ k + n \in DOMAIN watch /\ watch'[n] = watch[k + n]
      BY <1>1, <2>2
    <3> QED
      BY <1>2, <3>1 DEF GoneInv
  <2> QED
    BY <1>1, <2>1, <2>2 DEF GoneInv
<1>4. SeenInv'
  BY <1>1 DEF SeenInv
<1>5. WakesInv'
  <2>1. ASSUME NEW n \in DOMAIN watch'
        PROVE  Wakes(cache', watch'[n])
    <3>1. k < k + n /\ k + n \in DOMAIN watch /\ watch'[n] = watch[k + n]
      BY <1>1, <2>1
    <3> QED
      BY <1>1, <3>1 DEF WakesInv
  <2>2. ASSUME NEW m \in DOMAIN watch', NEW n \in DOMAIN watch', m < n
        PROVE  Wakes(watch'[m], watch'[n])
    <3>1. k + m < k + n
      BY <1>1, <2>2
    <3> QED
      BY <1>1, <2>2, <3>1 DEF WakesInv
  <2> QED
    BY <2>1, <2>2 DEF WakesInv
<1> QED
  BY <1>3, <1>4, <1>5

LEMMA ChainStep ==
  ASSUME TypeInv, CopyInv, OutcomeInv, ChainInv, [Next]_opVars
  PROVE  ChainInv'
<1>1. CASE Quiet
  BY <1>1 DEF Quiet, ChainInv, GoneInv, SeenInv, WakesInv
<1>2. CASE Reads
  <2>1. CASE watch = <<>>
    <3>1. cache = api /\ api.exists
      BY <1>2, <2>1 DEF Reads, CopyInv, WatchInv
    <3> QED
      BY <1>2, <2>1, <3>1 DEF Reads, ChainInv, GoneInv, SeenInv, WakesInv
  <2>2. CASE watch # <<>>
    BY <1>2, <2>2 DEF Reads, ChainInv, GoneInv, SeenInv, WakesInv
  <2> QED
    BY <2>1, <2>2
<1>3. CASE ResourceWrite
  BY <1>3, ChainWrite
<1>4. CASE \E k \in DOMAIN watch : Deliver(k)
  BY <1>4, ChainDeliver
<1>5. CASE Restart
  BY <1>5 DEF Restart, ChainInv, GoneInv, SeenInv, WakesInv
<1> QED
  BY <1>1, <1>2, <1>3, <1>4, <1>5, KubeSteps
----------------------------------------------------------------------------
(***************************************************************************)
(* The queues.                                                             *)
(***************************************************************************)

\* The validation controller stays or is woken up by the event.
LEMMA EventWakes ==
  ASSUME TypeInv, CopiesCoherent, ChainInv, NEW k \in DOMAIN watch, NothingToValidate(cache)
  PROVE  eventFilterPredicate(cache, watch[k]) \/ NothingToValidate(watch[k])
<1>1. cache.exists /\ Wakes(cache, watch[k])
  <2>1. watch # <<>>
    BY DEF TypeInv, KubeTypeOK
  <2> QED
    BY <2>1 DEF ChainInv, GoneInv, WakesInv
<1>2. Coherent(cache.status)
  BY DEF CopiesCoherent
<1>3. cache \in CyndiPipeline /\ watch[k] \in CyndiPipeline
  BY DEF TypeInv, KubeTypeOK
<1>4. cache.deleting \in BOOLEAN /\ watch[k].deleting \in BOOLEAN
  BY <1>3 DEF CyndiPipeline
<1>5. CASE cache.deleting
  BY <1>4, <1>5 DEF eventFilterPredicate, NothingToValidate, GetState
<1>6. CASE ~cache.deleting
  <2>1. cache.status.version = Nil
    BY <1>1, <1>6 DEF NothingToValidate, GetState
  <2>2. ~cache.status.initsync
    BY <1>2, <2>1 DEF Coherent
  <2>3. CASE watch[k].status.initsync
    BY <2>2, <2>3 DEF eventFilterPredicate
  <2>4. CASE watch[k].status.version = Nil
    BY <2>4 DEF NothingToValidate, GetState
  <2> QED
    BY <1>1, <2>1, <2>3, <2>4 DEF Wakes
<1> QED
  BY <1>5, <1>6

LEMMA PipelineQueues ==
  ASSUME TypeInv, CopyInv, ChainInv, NoLostWakeup, PipelineNext
  PROVE  NoLostWakeup'
<1>1. vc' = vc
  BY PipelineCourse
<1>2. "validation" \in queue' <=> "validation" \in queue
  BY DEF PipelineNext, PipelineSetup, Setup, PipelineSkip, SkipRequest, DeleteStaleConnectors,
         DeleteStaleTables, RemoveFinalizer, Abort, FailUntouched, Fail, StartInitialSync,
         AddFinalizer, kubeVars, CreateNewTable, CreateNewConnector, Proceed, Goto,
         PipelineDeviation, DeviationStep, PipelineSetConnectorState, RecreateViewIfNeeded,
         GrantView, UpdateViewIfHealthier, GrantHealthierView, PipelineUpdateStatus,
         UpdateStatusAndRequeue, UpdateStatus, PipelineCallFails, CallFails
<1>3. UNCHANGED cache
  BY PipelineWrites DEF Quiet, Reads, StatusWrite, FinalizerAdded
<1>4. pc'.phase = "idle" /\ "pipeline" \notin queue' => ~api'.exists
  <2>1. CASE Skips
    <3>1. ~cache.exists /\ UNCHANGED api
      BY <2>1 DEF Skips, PipelineSkip, SkipRequest
    <3>2. watch = <<>>
      BY <3>1 DEF ChainInv, GoneInv
    <3> QED
      BY <3>1, <3>2 DEF CopyInv, WatchInv
  <2>2. CASE Ends
    BY <2>2, OtherWrites DEF Ends
  <2>3. CASE Continues \/ Pauses
    BY <2>3 DEF Continues, Pauses, LaterPhases
  <2>4. CASE PipelineSetup
    BY <2>4, SetupFields
  <2>5. CASE DeleteStaleConnectors
    BY <2>5, StaleConnectorsFields
  <2>6. CASE DeleteStaleTables
    BY <2>6, StaleTablesFields
  <2>7. CASE StartInitialSync
    <3>1. PICK q : iter' = [iter EXCEPT !["pipeline"] = [pc EXCEPT !.inst = q, !.phase = "newtable"]]
      BY <2>7 DEF StartInitialSync
    <3>2. pc \in ReconcileIteration
      BY <2>7, PcType DEF StartInitialSync, InState, TypeInv
    <3>3. pc' = [pc EXCEPT !.inst = q, !.phase = "newtable"]
      BY <3>1, PcStep DEF TypeInv
    <3>4. pc'.phase = "newtable"
      BY <3>2, <3>3 DEF ReconcileIteration
    <3> QED
      BY <3>4
  <2>8. CASE CreateNewTable \/ CreateNewConnector
    BY <2>8, CreationFields
  <2> QED
    BY <2>1, <2>2, <2>3, <2>4, <2>5, <2>6, <2>7, <2>8, PipelineCourse
<1> QED
  BY <1>1, <1>2, <1>3, <1>4 DEF NoLostWakeup, NothingToValidate

LEMMA ValidationQueues ==
  ASSUME TypeInv, NoLostWakeup, ValidationNext
  PROVE  NoLostWakeup'
<1> USE DEF TypeInv
<1>1. UNCHANGED iter \/ \E i : iter' = [iter EXCEPT !["validation"] = i]
  BY DEF ValidationNext, ValidationSetup, Setup, ValidationSkip, SkipRequest,
         ValidationDeviation, DeviationStep, Validate, ValidationUpdateStatus,
         UpdateStatusAndRequeue, UpdateStatus, ValidationCallFails, CallFails, FailUntouched,
         Fail, Goto
<1>2. pc' = pc
  <2>1. CASE UNCHANGED iter
    BY <2>1 DEF pc
  <2> QED
    BY <1>1, <2>1, VcStep
<1>3. "pipeline" \in queue' <=> "pipeline" \in queue
  BY DEF ValidationNext, ValidationSetup, Setup, ValidationSkip, SkipRequest,
         ValidationDeviation, DeviationStep, Validate, ValidationUpdateStatus,
         UpdateStatusAndRequeue, UpdateStatus, ValidationCallFails, CallFails, FailUntouched,
         Fail, Goto, kubeVars
<1>4. UNCHANGED cache /\ api'.exists = api.exists
  <2>1. CASE StatusWrite("validation")
    BY <2>1 DEF StatusWrite, WriteApi, KubeTypeOK, CyndiPipeline
  <2> QED
    BY <2>1, ValidationWrites DEF Quiet, Reads
<1>5. vc'.phase = "idle" /\ "validation" \notin queue' => NothingToValidate(cache)
  <2>1. CASE ValidationSetup
    <3> DEFINE i == [phase |-> "deviation", inst |-> cache, orig |-> cache.status,
                     config |-> configMap, connected |-> TRUE, errors |-> ~TRUE, current |-> Nil]
    <3>1. i.phase = "deviation"
      OBVIOUS
    <3>2. iter' = [iter EXCEPT !["validation"] = i]
      BY <2>1 DEF ValidationSetup, Setup
    <3> HIDE DEF i
    <3> QED
      BY <3>1, <3>2, VcStep
  <2>2. CASE ValidationSkip
    BY <2>2 DEF ValidationSkip
  <2>3. CASE ValidationUpdateStatus \/ ValidationCallFails \/ Fail("validation")
    BY <2>3 DEF ValidationUpdateStatus, UpdateStatusAndRequeue, UpdateStatus,
                ValidationCallFails, CallFails, FailUntouched, Fail
  <2>4. CASE ValidationDeviation
    <3>1. vc \in ReconcileIteration
      BY <2>4, VcType DEF ValidationDeviation
    <3>2. CASE Goto("validation", Refresh(vc)) \/ Goto("validation", [vc EXCEPT !.phase = "validate"])
      <4>1. Refresh(vc).phase = "status" /\ [vc EXCEPT !.phase = "validate"].phase = "validate"
        BY <3>1 DEF Refresh, ReconcileIteration
      <4>2. vc' = Refresh(vc) \/ vc' = [vc EXCEPT !.phase = "validate"]
        BY <3>2, VcStep DEF Goto
      <4> QED
        BY <4>1, <4>2
    <3> QED
      BY <2>3, <2>4, <3>2 DEF ValidationDeviation, DeviationStep, Refresh, vc
  <2>5. CASE Validate
    <3>1. vc \in ReconcileIteration
      BY <2>5, VcType DEF Validate
    <3>2. CASE \E verdict, h :
                 Goto("validation", [vc EXCEPT !.phase = "status",
                                               !.inst.status = SetValid(@, verdict, h)])
      <4>1. PICK verdict, h :
              Goto("validation", [vc EXCEPT !.phase = "status",
                                            !.inst.status = SetValid(@, verdict, h)])
        BY <3>2
      <4> DEFINE s == SetValid(vc.inst.status, verdict, h)
      <4>2. vc' = [vc EXCEPT !.phase = "status", !.inst.status = s]
        BY <4>1, VcStep DEF Goto
      <4> HIDE DEF s
      <4>3. vc'.phase = "status"
        BY <3>1, <4>2 DEF ReconcileIteration
      <4> QED
        BY <4>3
    <3> QED
      BY <2>3, <2>5, <3>2 DEF Validate, FailUntouched
  <2> QED
    BY <2>1, <2>2, <2>3, <2>4, <2>5 DEF ValidationNext
<1> QED
  BY <1>2, <1>3, <1>4, <1>5 DEF NoLostWakeup, NothingToValidate

LEMMA EnvironmentQueues ==
  ASSUME TypeInv, CopiesCoherent, ChainInv, NoLostWakeup,
         TableSeeded \/ EventDelivered \/ Crash \/ Disturb
  PROVE  NoLostWakeup'
<1>1. CASE Crash
  BY <1>1 DEF Crash, Restart, Controllers, NoLostWakeup
<1>2. CASE EventDelivered
  <2>1. PICK k \in DOMAIN watch : Deliver(k)
    BY <1>2 DEF EventDelivered
  <2>2. /\ cache' = watch[k] /\ queue \subseteq queue' /\ "pipeline" \in queue'
        /\ eventFilterPredicate(cache, watch[k]) => "validation" \in queue'
    BY <2>1 DEF Deliver
  <2>3. vc' = vc
    BY <1>2 DEF EventDelivered, vc
  <2>4. NothingToValidate(cache) => eventFilterPredicate(cache, watch[k])
                                    \/ NothingToValidate(watch[k])
    BY EventWakes
  <2> QED
    BY <2>2, <2>3, <2>4 DEF NoLostWakeup, NothingToValidate
<1>3. CASE ~Crash /\ ~EventDelivered
  <2>1. UNCHANGED <<iter, cache>> /\ queue \subseteq queue'
    BY <1>3 DEF TableSeeded, Disturb, UserEdits, EditSpec, UserDeletes, DeleteResource,
                AdminConfigures, ConfigMapChange, TableDropped, TableDrifts,
                ConnectorDisturbed, kubeVars
  <2>2. api'.exists => api.exists
    <3>1. CASE UserEdits \/ UserDeletes
      BY <3>1 DEF UserEdits, EditSpec, UserDeletes, DeleteResource
    <3>2. CASE UNCHANGED api
      BY <3>2
    <3> QED
      BY <1>3, <3>1, <3>2 DEF TableSeeded, Disturb, AdminConfigures, ConfigMapChange,
           TableDropped, TableDrifts, ConnectorDisturbed, kubeVars
  <2> QED
    BY <2>1, <2>2 DEF NoLostWakeup, NothingToValidate, pc, vc
<1> QED
  BY <1>1, <1>2, <1>3

WakeupInv == StatusInv /\ ChainInv /\ NoLostWakeup

LEMMA WakeupInit ==
  ASSUME Init
  PROVE  WakeupInv
<1>1. StatusInv
  BY StatusInit
<1>2. cache = api /\ watch = <<>> /\ fresh = {} /\ queue = Controllers
  BY DEF Init, KubeInit
<1>3. ChainInv
  BY <1>2 DEF ChainInv, GoneInv, SeenInv, WakesInv
<1> QED
  BY <1>1, <1>2, <1>3 DEF WakeupInv, NoLostWakeup, Controllers

LEMMA WakeupStep ==
  ASSUME WakeupInv, [Next]_opVars
  PROVE  WakeupInv'
<1>1. TypeInv /\ CopyInv /\ OutcomeInv /\ CopiesCoherent /\ ChainInv /\ NoLostWakeup
  BY DEF WakeupInv, StatusInv, CoreInv
<1>2. StatusInv' /\ ChainInv'
  BY <1>1, StatusStep, ChainStep DEF WakeupInv
<1>3. CASE PipelineStep \/ ValidationStep
  BY <1>1, <1>2, <1>3, PipelineQueues, ValidationQueues DEF PipelineStep, ValidationStep, WakeupInv
<1>4. CASE TableSeeded \/ EventDelivered \/ Crash \/ Disturb
  BY <1>1, <1>2, <1>4, EnvironmentQueues DEF WakeupInv
<1>5. CASE UNCHANGED opVars
  <2>1. NoLostWakeup'
    BY <1>1, <1>5 DEF opVars, vars, kubeVars, NoLostWakeup, NothingToValidate, pc, vc
  <2> QED
    BY <1>2, <2>1 DEF WakeupInv
<1> QED
  BY <1>3, <1>4, <1>5 DEF Next

\* WakeupInv is an invariant of the operator, its queues and the informer.
THEOREM WakeupInvariant == Spec => []WakeupInv
<1>1. Init => WakeupInv
  BY WakeupInit
<1>2. WakeupInv /\ [Next]_opVars => WakeupInv'
  BY WakeupStep
<1> QED
  BY <1>1, <1>2, PTL DEF Spec

\* Nobody is forgotten, for any lag of the informer, any versions that it
\* skips and any faults: a validation controller without a pending request
\* knows of nothing to validate, although eventFilterPredicate drops most
\* updates of the status, and the pipeline controller stops only when the
\* resource is gone.
THEOREM NoWakeupIsLost == Spec => []NoLostWakeup
<1>1. WakeupInv => NoLostWakeup
  BY DEF WakeupInv
<1> QED
  BY <1>1, WakeupInvariant, PTL
=============================================================================
