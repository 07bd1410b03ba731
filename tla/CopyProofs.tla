----------------------------- MODULE CopyProofs -----------------------------
(***************************************************************************)
(* What the copies of the resource (in the informer, in undelivered events *)
(* and in the iterations) have to do with the resource itself, and the     *)
(* safety properties that rest on it: NoLostUpdate and ActiveTableKept.    *)
(***************************************************************************)
EXTENDS CyndiOperatorProofs

\* The informer catches up with the API server when all events are delivered.
WatchInv ==
  /\ watch = <<>> => cache = api
  /\ watch # <<>> => watch[Len(watch)] = api

\* A deletion is not undone, so no copy is ahead of the resource.
DeletingInv ==
  /\ cache.deleting => api.deleting
  /\ \A n \in DOMAIN watch : watch[n].deleting => api.deleting
  /\ \A c \in Controllers : iter[c].phase # "idle" /\ iter[c].inst.deleting => api.deleting

\* An iteration that holds the current resourceVersion holds the current
\* resource.
FreshInv ==
  \A c \in fresh : iter[c].phase # "idle" =>
    /\ iter[c].orig = api.status
    /\ iter[c].inst.spec = api.spec
    /\ iter[c].inst.deleting = api.deleting

CopyInv == WatchInv /\ DeletingInv /\ FreshInv
----------------------------------------------------------------------------
\* After a step the iteration of c works on what it read before it.
SameCopy(c) ==
  /\ iter[c].phase # "idle"
  /\ iter'[c].orig = iter[c].orig
  /\ iter'[c].inst.spec = iter[c].inst.spec
  /\ iter'[c].inst.deleting = iter[c].inst.deleting

NoneReads == \A c \in Controllers : iter'[c].phase = "idle" \/ SameCopy(c)

LEMMA UnchangedReads ==
  ASSUME UNCHANGED iter
  PROVE  NoneReads
  BY DEF NoneReads, SameCopy

LEMMA StepReads ==
  ASSUME IterTypeOK, NEW c \in Controllers, NEW i, iter' = [iter EXCEPT ![c] = i],
         i.phase = "idle" \/ /\ iter[c].phase # "idle"
                             /\ i.orig = iter[c].orig
                             /\ i.inst.spec = iter[c].inst.spec
                             /\ i.inst.deleting = iter[c].inst.deleting
  PROVE  NoneReads
<1> SUFFICES ASSUME NEW d \in Controllers
             PROVE  iter'[d].phase = "idle" \/ SameCopy(d)
  BY DEF NoneReads
<1>1. CASE d = c
  <2>1. iter'[d] = i
    BY <1>1 DEF IterTypeOK
  <2> QED
    BY <1>1, <2>1 DEF SameCopy
<1>2. CASE d # c
  <2>1. iter'[d] = iter[d]
    BY <1>2 DEF IterTypeOK
  <2> QED
    BY <2>1 DEF SameCopy
<1> QED
  BY <1>1, <1>2

LEMMA IdleReads ==
  ASSUME IterTypeOK, NEW c \in Controllers, iter' = [iter EXCEPT ![c] = Idle]
  PROVE  NoneReads
<1>1. Idle.phase = "idle"
  BY DEF Idle
<1> QED
  BY <1>1, StepReads

\* Nothing is written at the API server.
LEMMA CopyFrame ==
  ASSUME TypeInv, CopyInv, NoneReads, UNCHANGED <<api, cache, watch>>, fresh' \subseteq fresh
  PROVE  CopyInv'
<1>1. WatchInv'
  BY DEF CopyInv, WatchInv
<1>2. DeletingInv'
  BY DEF CopyInv, DeletingInv, NoneReads, SameCopy
<1>3. FreshInv'
  BY DEF CopyInv, FreshInv, NoneReads, SameCopy, TypeInv, KubeTypeOK
<1> QED
  BY <1>1, <1>2, <1>3 DEF CopyInv

\* A write that does not undo a deletion and whose writer, if it goes on,
\* has read what it wrote.
LEMMA CopyWrite ==
  ASSUME TypeInv, CopyInv, NoneReads, NEW new \in CyndiPipeline, NEW w \in SUBSET Controllers,
         WriteApi(new, w), UNCHANGED cache, api.deleting => new.deleting,
         \A c \in w : /\ c \in fresh
                      /\ new.status = api.status /\ new.spec = api.spec
                      /\ new.deleting = api.deleting
  PROVE  CopyInv'
<1>1. api' = new /\ watch' = Append(watch, new) /\ fresh' = w
  BY DEF WriteApi
<1>2. watch \in Seq(CyndiPipeline)
  BY DEF TypeInv, KubeTypeOK
<1>3. /\ watch' # <<>> /\ watch'[Len(watch')] = new
      /\ \A n \in DOMAIN watch' : (n \in DOMAIN watch /\ watch'[n] = watch[n]) \/ watch'[n] = new
  BY <1>1, <1>2
<1>4. WatchInv'
  BY <1>1, <1>3 DEF WatchInv
<1>5. DeletingInv'
  BY <1>1, <1>3 DEF CopyInv, DeletingInv, NoneReads, SameCopy
<1>6. FreshInv'
  BY <1>1 DEF CopyInv, FreshInv, NoneReads, SameCopy
<1> QED
  BY <1>4, <1>5, <1>6 DEF CopyInv
----------------------------------------------------------------------------
(***************************************************************************)
(* The controllers work on the status of their copy, never on the rest.    *)
(***************************************************************************)

SameDefinition(p, q) == p.spec = q.spec /\ p.deleting = q.deleting

LEMMA TransitionsKeepDefinition ==
  ASSUME NEW p \in CyndiPipeline, NEW v
  PROVE  /\ SameDefinition(TransitionToNew(p), p)
         /\ SameDefinition(TransitionToInitialSync(p, v), p)
<1>1. \A s : SameDefinition([p EXCEPT !.status = s], p)
  BY DEF SameDefinition, CyndiPipeline
<1> QED
  BY <1>1 DEF TransitionToNew, TransitionToInitialSync

\* An iteration that goes on as i.
KeepsCopy(i, j) == j.orig = i.orig /\ SameDefinition(j.inst, i.inst)

LEMMA PhaseKeepsCopy ==
  ASSUME NEW i \in ReconcileIteration, NEW next
  PROVE  KeepsCopy(i, [i EXCEPT !.phase = next])
  BY DEF KeepsCopy, SameDefinition, ReconcileIteration

LEMMA InstKeepsCopy ==
  ASSUME NEW i \in ReconcileIteration, NEW next, NEW p, SameDefinition(p, i.inst)
  PROVE  KeepsCopy(i, [i EXCEPT !.inst = p, !.phase = next])
  BY DEF KeepsCopy, SameDefinition, ReconcileIteration

LEMMA RefreshKeepsCopy ==
  ASSUME NEW i \in ReconcileIteration
  PROVE  KeepsCopy(i, Refresh(i)) /\ KeepsCopy(i, AfterState(i))
<1>1. SameDefinition(TransitionToNew(i.inst), i.inst)
  BY TransitionsKeepDefinition DEF ReconcileIteration
<1>2. KeepsCopy(i, Refresh(i))
  BY <1>1, InstKeepsCopy DEF Refresh
<1> QED
  BY <1>2, PhaseKeepsCopy DEF AfterState

LEMMA GotoReads ==
  ASSUME IterTypeOK, NEW c \in Controllers, iter[c].phase # "idle", NEW i,
         KeepsCopy(iter[c], i), iter' = [iter EXCEPT ![c] = i]
  PROVE  NoneReads
  BY StepReads DEF KeepsCopy, SameDefinition

\* Every step of the pipeline controller but the first.
LEMMA PipelineReads ==
  ASSUME TypeInv, PipelineNext, ~PipelineSetup
  PROVE  NoneReads
<1> USE DEF TypeInv
<1>1. ASSUME iter' = [iter EXCEPT !["pipeline"] = Idle]
      PROVE  NoneReads
  BY <1>1, IdleReads DEF Controllers
<1>2. ASSUME NEW i, KeepsCopy(pc, i), pc.phase # "idle", iter' = [iter EXCEPT !["pipeline"] = i]
      PROVE  NoneReads
  BY <1>2, GotoReads DEF Controllers, pc
<1>3. ASSUME NEW next, pc.phase # "idle", Proceed("pipeline", next)
      PROVE  NoneReads
  BY <1>2, <1>3, PcType, PhaseKeepsCopy DEF Proceed, Goto, pc
<1>4. CASE PipelineSkip
  BY <1>4, UnchangedReads DEF PipelineSkip, SkipRequest
<1>5. CASE DeleteStaleConnectors
  <2>1. pc.phase # "idle" /\ pc \in ReconcileIteration
    BY <1>5, PcType DEF DeleteStaleConnectors
  <2>2. PICK r, f : Goto("pipeline", [pc EXCEPT !.phase = "tables", !.current = r.table,
                                                !.errors = @ \/ r.err \/ f])
    BY <1>5 DEF DeleteStaleConnectors
  <2> DEFINE e == pc.errors \/ r.err \/ f
             i == [pc EXCEPT !.phase = "tables", !.current = r.table, !.errors = e]
  <2>3. Goto("pipeline", i)
    BY <2>2
  <2> HIDE DEF e
  <2>4. KeepsCopy(pc, i)
    BY <2>1 DEF KeepsCopy, SameDefinition, ReconcileIteration
  <2> QED
    BY <1>2, <2>1, <2>3, <2>4 DEF Goto
<1>6. CASE DeleteStaleTables
  <2>1. pc.phase # "idle" /\ pc \in ReconcileIteration
    BY <1>6, PcType DEF DeleteStaleTables
  <2>2. PICK f : Goto("pipeline", [pc EXCEPT !.phase = "dispatch", !.current = Nil,
                                             !.errors = @ \/ f])
    BY <1>6 DEF DeleteStaleTables
  <2> DEFINE e == pc.errors \/ f
             i == [pc EXCEPT !.phase = "dispatch", !.current = Nil, !.errors = e]
  <2>3. Goto("pipeline", i)
    BY <2>2
  <2> HIDE DEF e
  <2>4. KeepsCopy(pc, i)
    BY <2>1 DEF KeepsCopy, SameDefinition, ReconcileIteration
  <2> QED
    BY <1>2, <2>1, <2>3, <2>4 DEF Goto
<1>7. CASE RemoveFinalizer \/ Abort \/ PipelineUpdateStatus \/ PipelineCallFails
  BY <1>1, <1>7 DEF RemoveFinalizer, Abort, PipelineUpdateStatus, UpdateStatusAndRequeue,
                    UpdateStatus, PipelineCallFails, CallFails, FailUntouched, Fail
<1>8. CASE StartInitialSync
  <2> DEFINE p == [pc.inst EXCEPT !.finalizer = TRUE,
                                  !.status.cmver = ConfigMapHash(pc.config),
                                  !.status.spechash = SpecHash(pc.inst.spec)]
             q == TransitionToInitialSync(p, NewVersion)
             i == [pc EXCEPT !.inst = q, !.phase = "newtable"]
  <2>1. pc.phase # "idle" /\ pc \in ReconcileIteration /\ pc.inst \in CyndiPipeline
    BY <1>8, PcType DEF StartInitialSync, InState
  <2>2. SameDefinition(p, pc.inst)
    BY <2>1 DEF SameDefinition, CyndiPipeline
  <2>3. SameDefinition(q, p)
    <3>1. \A s : SameDefinition([p EXCEPT !.status = s], p)
      BY <2>1 DEF SameDefinition, CyndiPipeline
    <3> QED
      BY <3>1 DEF TransitionToInitialSync
  <2>4. iter' = [iter EXCEPT !["pipeline"] = i]
    BY <1>8 DEF StartInitialSync
  <2> HIDE DEF p, q
  <2>5. KeepsCopy(pc, i)
    BY <2>1, <2>2, <2>3, InstKeepsCopy DEF SameDefinition
  <2> QED
    BY <1>2, <2>1, <2>4, <2>5
<1>9. CASE CreateNewTable \/ CreateNewConnector
  BY <1>3, <1>9 DEF CreateNewTable, CreateNewConnector
<1>10. ASSUME pc.phase # "idle", Goto("pipeline", AfterState(pc)) \/ Goto("pipeline", Refresh(pc))
       PROVE  NoneReads
  <2>1. pc \in ReconcileIteration
    BY <1>10, PcType
  <2> QED
    BY <1>2, <1>10, <2>1, RefreshKeepsCopy DEF Goto
<1>11. CASE PipelineDeviation
  <2>1. pc.phase # "idle"
    BY <1>11 DEF PipelineDeviation, InState
  <2>2. \/ Goto("pipeline", Refresh(pc)) \/ Goto("pipeline", AfterState(pc))
        \/ Proceed("pipeline", "state") \/ Fail("pipeline")
    BY <1>11 DEF PipelineDeviation, DeviationStep, Refresh, Proceed, pc
  <2> QED
    BY <1>1, <1>3, <1>10, <2>1, <2>2 DEF Fail
<1>12. CASE PipelineSetConnectorState
  BY <1>1, <1>10, <1>12 DEF PipelineSetConnectorState, FailUntouched, Fail
<1>13. CASE RecreateViewIfNeeded
  BY <1>1, <1>3, <1>13 DEF RecreateViewIfNeeded, Fail
<1>14. CASE GrantView \/ UpdateViewIfHealthier \/ GrantHealthierView
  BY <1>1, <1>3, <1>10, <1>14 DEF GrantView, UpdateViewIfHealthier, GrantHealthierView, Fail
<1> QED
  BY <1>4, <1>5, <1>6, <1>7, <1>8, <1>9, <1>11, <1>12, <1>13, <1>14 DEF PipelineNext

\* Every step of the validation controller but the first.
LEMMA ValidationReads ==
  ASSUME TypeInv, ValidationNext, ~ValidationSetup
  PROVE  NoneReads
<1> USE DEF TypeInv
<1>1. ASSUME iter' = [iter EXCEPT !["validation"] = Idle]
      PROVE  NoneReads
  BY <1>1, IdleReads DEF Controllers
<1>2. ASSUME NEW i, KeepsCopy(vc, i), vc.phase # "idle", iter' = [iter EXCEPT !["validation"] = i]
      PROVE  NoneReads
  BY <1>2, GotoReads DEF Controllers, vc
<1>3. CASE ValidationSkip
  BY <1>3, UnchangedReads DEF ValidationSkip, SkipRequest
<1>4. CASE ValidationDeviation
  <2>1. vc.phase # "idle" /\ vc \in ReconcileIteration
    BY <1>4, VcType DEF ValidationDeviation
  <2>2. \/ Goto("validation", Refresh(vc)) \/ Goto("validation", [vc EXCEPT !.phase = "validate"])
        \/ Fail("validation")
    BY <1>4 DEF ValidationDeviation, DeviationStep, Refresh, vc
  <2> QED
    BY <1>1, <1>2, <2>1, <2>2, RefreshKeepsCopy, PhaseKeepsCopy DEF Fail, Goto
<1>5. CASE Validate
  <2>1. vc.phase # "idle" /\ vc \in ReconcileIteration /\ vc.inst \in CyndiPipeline
    BY <1>5, VcType DEF Validate
  <2>2. CASE FailUntouched("validation")
    BY <1>1, <2>2 DEF FailUntouched, Fail
  <2>3. CASE ~FailUntouched("validation")
    <3>1. PICK verdict, h :
            Goto("validation", [vc EXCEPT !.phase = "status",
                                          !.inst.status = SetValid(@, verdict, h)])
      BY <1>5, <2>3 DEF Validate
    <3> DEFINE s == SetValid(vc.inst.status, verdict, h)
               i == [vc EXCEPT !.phase = "status", !.inst.status = s]
    <3>2. Goto("validation", i)
      BY <3>1
    <3> HIDE DEF s
    <3>3. KeepsCopy(vc, i)
      BY <2>1 DEF KeepsCopy, SameDefinition, ReconcileIteration, CyndiPipeline
    <3> QED
      BY <1>2, <2>1, <3>2, <3>3 DEF Goto
  <2> QED
    BY <2>2, <2>3
<1>6. CASE ValidationUpdateStatus \/ ValidationCallFails
  BY <1>1, <1>6 DEF ValidationUpdateStatus, UpdateStatusAndRequeue, UpdateStatus,
                    ValidationCallFails, CallFails, FailUntouched, Fail
<1> QED
  BY <1>3, <1>4, <1>5, <1>6 DEF ValidationNext
----------------------------------------------------------------------------
(***************************************************************************)
(* CopyInv is inductive, and NoLostUpdate follows.                         *)
(***************************************************************************)

LEMMA SetupCopies ==
  ASSUME TypeInv, CopyInv, NEW c \in Controllers, NEW next, NEW ok, Setup(c, next, ok)
  PROVE  CopyInv'
<1> DEFINE i == [phase |-> next, inst |-> cache, orig |-> cache.status, config |-> configMap,
                 connected |-> ok, errors |-> ~ok, current |-> Nil]
<1>1. i.inst = cache /\ i.orig = cache.status
  OBVIOUS
<1>2. iter' = [iter EXCEPT ![c] = i]
  BY DEF Setup
<1> HIDE DEF i
<1>3. iter'[c] = i /\ \A d \in Controllers \ {c} : iter'[d] = iter[d]
  BY <1>2 DEF TypeInv, IterTypeOK
<1>4. /\ UNCHANGED <<api, cache, watch>>
      /\ fresh' = IF watch = <<>> THEN fresh \cup {c} ELSE fresh \ {c}
  BY DEF Setup, ReadCache
<1>5. WatchInv'
  BY <1>4 DEF CopyInv, WatchInv
<1>6. DeletingInv'
  BY <1>1, <1>3, <1>4 DEF CopyInv, DeletingInv
<1>7. FreshInv'
  <2>1. fresh \subseteq Controllers
    BY DEF TypeInv, KubeTypeOK
  <2>2. CASE watch = <<>>
    BY <1>1, <1>3, <1>4, <2>1, <2>2 DEF CopyInv, WatchInv, FreshInv
  <2>3. CASE watch # <<>>
    BY <1>3, <1>4, <2>1, <2>3 DEF CopyInv, FreshInv
  <2> QED
    BY <2>2, <2>3
<1> QED
  BY <1>5, <1>6, <1>7 DEF CopyInv

\* updateStatusAndRequeue, for either controller.
LEMMA UpdateStatusCopies ==
  ASSUME TypeInv, CopyInv, NoneReads, NEW c \in Controllers, UpdateStatusAndRequeue(c)
  PROVE  /\ CopyInv'
         /\ api'.status # api.status => c \in fresh /\ iter[c].phase = "status"
<1>1. iter[c].phase = "status"
  BY DEF UpdateStatusAndRequeue
<1>2. PICK r \in GetCurrentTable :
        IF r.err THEN Fail(c)
        ELSE UpdateStatus(c, [iter[c].inst.status EXCEPT !.active = r.table])
  BY DEF UpdateStatusAndRequeue
<1>3. CASE r.err
  BY <1>2, <1>3, CopyFrame DEF Fail
<1>4. CASE ~r.err
  <2> DEFINE s == [iter[c].inst.status EXCEPT !.active = r.table]
  <2>1. UpdateStatus(c, s)
    BY <1>2, <1>4
  <2>2. s \in PipelineStatus
    <3>1. iter[c] \in ReconcileIteration
      BY <1>1, BusyType DEF TypeInv
    <3>2. iter[c].inst.status \in PipelineStatus /\ r.table \in Tables \cup {Nil}
      BY <3>1, GetCurrentTableType DEF TypeInv, ReconcileIteration, CyndiPipeline
    <3> QED
      BY <3>2 DEF PipelineStatus
  <2> HIDE DEF s
  <2>3. CASE s # iter[c].orig /\ c \in fresh
    <3> DEFINE new == [api EXCEPT !.status = s]
    <3>1. new \in CyndiPipeline /\ new.deleting = api.deleting
      BY <2>2 DEF TypeInv, KubeTypeOK, CyndiPipeline
    <3>2. WriteApi(new, {}) /\ UNCHANGED cache
      BY <2>1, <2>3 DEF UpdateStatus
    <3> HIDE DEF new
    <3>3. CopyInv'
      BY <3>1, <3>2, CopyWrite
    <3> QED
      BY <1>1, <2>3, <3>3
  <2>4. CASE ~(s # iter[c].orig /\ c \in fresh)
    BY <2>1, <2>4, CopyFrame DEF UpdateStatus
  <2> QED
    BY <2>3, <2>4
<1> QED
  BY <1>3, <1>4

\* A status changes by an update of a controller that holds the current copy.
GuardedUpdate ==
  api'.status # api.status => \E c \in Controllers : c \in fresh /\ iter[c].phase = "status"

LEMMA PipelineCopies ==
  ASSUME TypeInv, CopyInv, PipelineNext
  PROVE  CopyInv' /\ GuardedUpdate
<1>1. CASE PipelineSetup
  <2>1. PICK ok : Setup("pipeline", "connectors", ok)
    BY <1>1 DEF PipelineSetup
  <2>2. CopyInv'
    BY <2>1, SetupCopies DEF Controllers
  <2> QED
    BY <2>1, <2>2 DEF Setup, GuardedUpdate
<1>2. CASE ~PipelineSetup
  <2>1. NoneReads
    BY <1>2, PipelineReads
  <2>2. CASE PipelineUpdateStatus
    BY <2>1, <2>2, UpdateStatusCopies DEF PipelineUpdateStatus, Controllers, GuardedUpdate
  <2>3. CASE RemoveFinalizer
    <3> DEFINE new == [api EXCEPT !.finalizer = FALSE, !.exists = FALSE]
    <3>1. new \in CyndiPipeline /\ new.deleting = api.deleting /\ new.status = api.status
      BY DEF TypeInv, KubeTypeOK, CyndiPipeline
    <3>2. WriteApi(new, {}) /\ UNCHANGED cache
      BY <2>3 DEF RemoveFinalizer
    <3> HIDE DEF new
    <3>3. CopyInv'
      BY <2>1, <3>1, <3>2, CopyWrite
    <3> QED
      BY <3>1, <3>2, <3>3 DEF WriteApi, GuardedUpdate
  <2>4. CASE StartInitialSync
    <3>1. CASE pc.inst.finalizer
      <4>1. UNCHANGED kubeVars
        BY <2>4, <3>1 DEF StartInitialSync, AddFinalizer
      <4> QED
        BY <2>1, <4>1, CopyFrame DEF kubeVars, GuardedUpdate
    <3>2. CASE ~pc.inst.finalizer
      <4> DEFINE new == [api EXCEPT !.finalizer = TRUE]
      <4>1. /\ new \in CyndiPipeline /\ new.deleting = api.deleting
            /\ new.status = api.status /\ new.spec = api.spec
        BY DEF TypeInv, KubeTypeOK, CyndiPipeline
      <4>2. WriteApi(new, {"pipeline"}) /\ UNCHANGED cache /\ "pipeline" \in fresh
        BY <2>4, <3>2 DEF StartInitialSync, AddFinalizer
      <4> HIDE DEF new
      <4>3. CopyInv'
        BY <2>1, <4>1, <4>2, CopyWrite DEF Controllers
      <4> QED
        BY <4>1, <4>2, <4>3 DEF WriteApi, GuardedUpdate
    <3> QED
      BY <3>1, <3>2
  <2>5. CASE /\ UNCHANGED <<api, cache, watch>>
             /\ fresh' \subseteq fresh
    BY <2>1, <2>5, CopyFrame DEF GuardedUpdate
  <2>6. CASE PipelineSkip \/ Abort \/ PipelineCallFails
    BY <2>5, <2>6 DEF PipelineSkip, SkipRequest, Abort, PipelineCallFails, CallFails,
                      FailUntouched, Fail
  <2>7. ASSUME NEW i, Goto("pipeline", i)
        PROVE  CopyInv' /\ GuardedUpdate
    BY <2>5, <2>7 DEF Goto, kubeVars
  <2>8. CASE DeleteStaleConnectors \/ DeleteStaleTables
    BY <2>7, <2>8 DEF DeleteStaleConnectors, DeleteStaleTables
  <2>9. CASE CreateNewTable \/ CreateNewConnector
    BY <2>7, <2>9 DEF CreateNewTable, CreateNewConnector, Proceed
  <2>10. CASE Fail("pipeline")
    BY <2>5, <2>10 DEF Fail
  <2>11. CASE PipelineDeviation \/ PipelineSetConnectorState
    BY <2>7, <2>10, <2>11
       DEF PipelineDeviation, DeviationStep, PipelineSetConnectorState, FailUntouched
  <2>12. CASE RecreateViewIfNeeded \/ GrantView \/ UpdateViewIfHealthier \/ GrantHealthierView
    BY <2>7, <2>10, <2>12
       DEF RecreateViewIfNeeded, GrantView, UpdateViewIfHealthier, GrantHealthierView, Proceed
  <2> QED
    BY <1>2, <2>2, <2>3, <2>4, <2>6, <2>8, <2>9, <2>11, <2>12 DEF PipelineNext
<1> QED
  BY <1>1, <1>2

LEMMA ValidationCopies ==
  ASSUME TypeInv, CopyInv, ValidationNext
  PROVE  CopyInv' /\ GuardedUpdate
<1>1. CASE ValidationSetup
  <2>1. Setup("validation", "deviation", TRUE)
    BY <1>1 DEF ValidationSetup
  <2>2. CopyInv'
    BY <2>1, SetupCopies DEF Controllers
  <2> QED
    BY <2>1, <2>2 DEF Setup, GuardedUpdate
<1>2. CASE ~ValidationSetup
  <2>1. NoneReads
    BY <1>2, ValidationReads
  <2>2. CASE ValidationUpdateStatus
    BY <2>1, <2>2, UpdateStatusCopies DEF ValidationUpdateStatus, Controllers, GuardedUpdate
  <2>3. CASE ~ValidationUpdateStatus
    <3>1. UNCHANGED <<api, cache, watch>> /\ fresh' \subseteq fresh
      BY <1>2, <2>3 DEF ValidationNext, ValidationSkip, SkipRequest, ValidationDeviation,
           DeviationStep, Validate, ValidationCallFails, CallFails, FailUntouched, Fail,
           Goto, kubeVars
    <3> QED
      BY <2>1, <3>1, CopyFrame DEF GuardedUpdate
  <2> QED
    BY <2>2, <2>3
<1> QED
  BY <1>1, <1>2

LEMMA DeliverCopies ==
  ASSUME TypeInv, CopyInv, EventDelivered
  PROVE  CopyInv' /\ UNCHANGED api
<1>1. PICK k \in DOMAIN watch : Deliver(k)
  BY DEF EventDelivered
<1>2. /\ cache' = watch[k] /\ watch' = SubSeq(watch, k + 1, Len(watch))
      /\ UNCHANGED <<api, fresh, iter>>
  BY <1>1 DEF Deliver, EventDelivered
<1>3. watch \in Seq(CyndiPipeline) /\ k \in 1..Len(watch)
  BY DEF TypeInv, KubeTypeOK
<1>4. watch # <<>> /\ watch[Len(watch)] = api
  BY <1>3 DEF CopyInv, WatchInv
<1>5. /\ Len(watch') = Len(watch) - k
      /\ \A n \in 1..Len(watch') : k + n \in DOMAIN watch /\ watch'[n] = watch[k + n]
  BY <1>2, <1>3
<1>6. watch' \in Seq(CyndiPipeline)
  BY <1>2, <1>3
<1>7. WatchInv'
  <2>1. CASE k = Len(watch)
    BY <1>2, <1>3, <1>4, <1>5, <1>6, <2>1 DEF WatchInv
  <2>2. CASE k # Len(watch)
    <3>1. Len(watch) \in Nat /\ k \in Nat /\ 1 <= k /\ k < Len(watch)
      BY <1>3, <2>2
    <3>2. Len(watch') = Len(watch) - k
      BY <1>5
    <3>3. Len(watch') \in 1..Len(watch') /\ k + Len(watch') = Len(watch)
      <4> DEFINE m == Len(watch)
                 n == Len(watch')
      <4>1. m \in Nat /\ k \in Nat /\ 1 <= k /\ k < m /\ n = m - k
        BY <3>1, <3>2
      <4> HIDE DEF m, n
      <4>2. n \in 1..n /\ k + n = m
        BY <4>1
      <4> QED
        BY <4>2 DEF m, n
    <3>4. watch'[Len(watch')] = watch[k + Len(watch')]
      BY <1>5, <3>3
    <3>5. watch'[Len(watch')] = api'
      BY <1>2, <1>4, <3>3, <3>4
    <3>6. watch' # <<>>
      BY <3>1, <3>2
    <3> QED
      BY <3>5, <3>6 DEF WatchInv
  <2> QED
    BY <2>1, <2>2
<1>8. DeletingInv'
  BY <1>2, <1>3, <1>5, <1>6 DEF CopyInv, DeletingInv
<1>9. FreshInv'
  BY <1>2 DEF CopyInv, FreshInv
<1> QED
  BY <1>2, <1>7, <1>8, <1>9 DEF CopyInv

LEMMA EnvironmentCopies ==
  ASSUME TypeInv, CopyInv, TableSeeded \/ EventDelivered \/ Crash \/ Disturb
  PROVE  CopyInv' /\ api'.status = api.status
<1>1. CASE EventDelivered
  BY <1>1, DeliverCopies
<1>2. CASE Crash
  <2>1. cache' = api /\ watch' = <<>> /\ fresh' = {} /\ UNCHANGED api
    BY <1>2 DEF Crash, Restart
  <2>2. \A c \in Controllers : iter'[c].phase = "idle"
    BY <1>2 DEF Crash, Idle
  <2> QED
    BY <2>1, <2>2 DEF CopyInv, WatchInv, DeletingInv, FreshInv
<1>3. ASSUME UNCHANGED <<api, cache, watch, fresh, iter>>
      PROVE  CopyInv' /\ api'.status = api.status
  BY <1>3, UnchangedReads, CopyFrame
<1>4. CASE TableSeeded
  BY <1>3, <1>4 DEF TableSeeded, kubeVars
<1>5. CASE AdminConfigures \/ TableDropped \/ TableDrifts \/ ConnectorDisturbed
  BY <1>3, <1>5 DEF AdminConfigures, ConfigMapChange, TableDropped, TableDrifts,
                    ConnectorDisturbed, kubeVars
<1>6. CASE UserEdits
  <2>1. PICK spec \in PipelineSpec : EditSpec(spec)
    BY <1>6 DEF UserEdits
  <2> DEFINE new == [api EXCEPT !.spec = spec]
  <2>2. new \in CyndiPipeline /\ new.deleting = api.deleting /\ new.status = api.status
    BY DEF TypeInv, KubeTypeOK, CyndiPipeline
  <2>3. WriteApi(new, {}) /\ UNCHANGED cache
    BY <2>1 DEF EditSpec
  <2>4. NoneReads
    BY <1>6, UnchangedReads DEF UserEdits
  <2> HIDE DEF new
  <2>5. CopyInv'
    BY <2>2, <2>3, <2>4, CopyWrite
  <2> QED
    BY <2>2, <2>3, <2>5 DEF WriteApi
<1>7. CASE UserDeletes
  <2> DEFINE new == [api EXCEPT !.deleting = TRUE, !.exists = api.finalizer]
  <2>1. new \in CyndiPipeline /\ new.deleting /\ new.status = api.status
    BY DEF TypeInv, KubeTypeOK, CyndiPipeline
  <2>2. WriteApi(new, {}) /\ UNCHANGED cache
    BY <1>7 DEF UserDeletes, DeleteResource
  <2>3. NoneReads
    BY <1>7, UnchangedReads DEF UserDeletes
  <2> HIDE DEF new
  <2>4. CopyInv'
    BY <2>1, <2>2, <2>3, CopyWrite
  <2> QED
    BY <2>1, <2>2, <2>4 DEF WriteApi
<1> QED
  BY <1>1, <1>2, <1>4, <1>5, <1>6, <1>7 DEF Disturb

LEMMA CopyInit ==
  ASSUME Init
  PROVE  CopyInv
<1>1. cache = api /\ watch = <<>> /\ fresh = {} /\ ~api.deleting
  BY DEF Init, KubeInit
<1>2. \A c \in Controllers : iter[c].phase = "idle"
  BY DEF Init, IterInit, Idle
<1> QED
  BY <1>1, <1>2 DEF CopyInv, WatchInv, DeletingInv, FreshInv

LEMMA CopyStep ==
  ASSUME TypeInv, CopyInv, [Next]_opVars
  PROVE  CopyInv' /\ GuardedUpdate
<1>1. CASE PipelineStep
  BY <1>1, PipelineCopies DEF PipelineStep
<1>2. CASE ValidationStep
  BY <1>2, ValidationCopies DEF ValidationStep
<1>3. CASE TableSeeded \/ EventDelivered \/ Crash \/ Disturb
  BY <1>3, EnvironmentCopies DEF GuardedUpdate
<1>4. CASE UNCHANGED opVars
  <2>1. UNCHANGED <<api, cache, watch, fresh, iter>>
    BY <1>4 DEF opVars, vars, kubeVars
  <2> QED
    BY <2>1, UnchangedReads, CopyFrame DEF GuardedUpdate
<1> QED
  BY <1>1, <1>2, <1>3, <1>4 DEF Next

\* Both invariants, for the theorems below and for later ones.
CoreInv == TypeInv /\ disturbed \in 0..MaxDisturbances /\ CopyInv

\* Types and copies, for any lag, faults and disturbances.
THEOREM CoreInvariant == Spec => []CoreInv
<1>1. Init => CoreInv
  BY InitTypes, CopyInit DEF CoreInv
<1>2. CoreInv /\ [Next]_opVars => CoreInv'
  BY NextTypes, CopyStep DEF CoreInv
<1> QED
  BY <1>1, <1>2, PTL DEF Spec

\* No lost update, for any lag of the informer, any faults and any number of
\* edits: a status is only replaced by one that was computed from it, for the
\* definition that is in force (updateStatusAndRequeue).
THEOREM UpdatesAreNotLost == Spec => NoLostUpdate
<1> DEFINE A == api'.status # api.status =>
                  \E c \in Controllers :
                    /\ iter[c].phase = "status"
                    /\ iter[c].orig = api.status
                    /\ iter[c].inst.spec = api.spec
                    /\ iter[c].inst.deleting = api.deleting
<1>1. CoreInv /\ [Next]_opVars => [A]_opVars
  <2> SUFFICES ASSUME CoreInv, [Next]_opVars
               PROVE  A
    OBVIOUS
  <2>1. GuardedUpdate
    BY CopyStep DEF CoreInv
  <2> QED
    BY <2>1 DEF CoreInv, CopyInv, FreshInv, GuardedUpdate
<1> QED
  BY <1>1, CoreInvariant, PTL DEF Spec, NoLostUpdate
============================================================================
