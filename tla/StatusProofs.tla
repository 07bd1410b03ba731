---------------------------- MODULE StatusProofs ----------------------------
(***************************************************************************)
(* What an iteration makes of the status it read, and the properties of    *)
(* the committed status that follow: StatusCoherent, UnmanagedTableStable  *)
(* and NoLostWakeup.                                                       *)
(***************************************************************************)
EXTENDS CopyProofs

\* The status lies in a state of the state diagram.
Coherent(s) ==
  /\ s.version = Nil => ~s.initsync /\ s.valid = "Unknown"
  /\ s.version # Nil => s.initsync \/ s.valid \in {"True", "False"}
  /\ s.failed > 0 <=> s.valid = "False"
  /\ s.valid = "True" => ~s.initsync

\* An iteration read the status o and will write s.  It asks for a refresh ...
Renewed(o, s) ==
  /\ s.version = Nil /\ ~s.initsync /\ s.valid = "Unknown" /\ s.failed = 0
  /\ s.table = o.table

\* ... begins the initial sync ...
Started(i) ==
  /\ i.orig.version = Nil /\ i.inst.status.version # Nil
  /\ i.inst.status.initsync /\ i.inst.status.valid = "Unknown" /\ i.inst.status.failed = 0
  /\ ~ConnectorsManaged(i.inst) /\ i.orig.table # Nil => i.inst.status.table = i.orig.table
  /\ i.inst.finalizer /\ ~i.inst.deleting

\* ... or has a verdict.
Judged(o, s) ==
  /\ o.version # Nil /\ s.version = o.version /\ s.table = o.table
  /\ \/ s.valid = "True" /\ ~s.initsync /\ s.failed = 0
     \/ s.valid = "False" /\ s.initsync = o.initsync /\ s.failed > 0

\* What a reconcile does with its copy of the status.
Outcome(i) ==
  /\ Coherent(i.orig)
  /\ \/ i.inst.status = i.orig /\ i.phase \notin {"newtable", "newconnector"}
     \/ i.phase = "status" /\ Renewed(i.orig, i.inst.status)
     \/ i.phase \in {"newtable", "newconnector", "status"} /\ Started(i)
     \/ i.phase = "status" /\ Judged(i.orig, i.inst.status)
  /\ i.phase \in {"deviation", "validate"} => i.orig.version # Nil

OutcomeInv == \A c \in Controllers : iter[c].phase # "idle" => Outcome(iter[c])

\* What the API server and the informer hold.
CopiesCoherent ==
  /\ Coherent(api.status) /\ Coherent(cache.status)
  /\ \A n \in DOMAIN watch : Coherent(watch[n].status)
----------------------------------------------------------------------------
(***************************************************************************)
(* The transitions of state.go.                                            *)
(***************************************************************************)

LEMMA OutcomeCoherent ==
  ASSUME NEW i, Outcome(i)
  PROVE  Coherent(i.inst.status)
  BY DEF Outcome, Coherent, Renewed, Started, Judged

LEMMA RefreshedStatus ==
  ASSUME NEW p \in CyndiPipeline
  PROVE  Renewed(p.status, TransitionToNew(p).status)
<1> DEFINE r == ResetValid(p.status)
           s == [r EXCEPT !.initsync = FALSE, !.version = Nil]
<1>1. p.status \in PipelineStatus
  BY DEF CyndiPipeline
<1>2. r \in PipelineStatus /\ r.table = p.status.table /\ r.valid = "Unknown" /\ r.failed = 0
  <2>1. r \in PipelineStatus
    BY <1>1, SetValidType DEF ResetValid, ConditionStatus
  <2>2. r.table = p.status.table /\ r.valid = "Unknown" /\ r.failed = 0
    BY <1>1 DEF ResetValid, SetValid, PipelineStatus
  <2> QED
    BY <2>1, <2>2
<1> HIDE DEF r
<1>3. Renewed(p.status, s)
  BY <1>2 DEF Renewed, PipelineStatus
<1>4. TransitionToNew(p).status = s
  BY DEF TransitionToNew, CyndiPipeline, r
<1> QED
  BY <1>3, <1>4

LEMMA StartedStatus ==
  ASSUME NEW p \in CyndiPipeline, NEW v \in Versions, NEW q, q = TransitionToInitialSync(p, v)
  PROVE  /\ q.status.version = v /\ q.status.initsync /\ q.status.valid = "Unknown"
         /\ q.status.failed = 0
         /\ q.status.table = IF ConnectorsManaged(p) \/ p.status.table = Nil
                             THEN TableName(v) ELSE p.status.table
         /\ q.finalizer = p.finalizer /\ q.spec = p.spec /\ q.deleting = p.deleting
<1> DEFINE r == ResetValid(p.status)
           tb == IF ConnectorsManaged(p) \/ r.table = Nil THEN TableName(v) ELSE r.table
           cn == IF ConnectorsManaged(p) THEN ConnectorName(v, p.spec.app) ELSE r.connector
           s == [r EXCEPT !.initsync = TRUE, !.version = v, !.table = tb, !.connector = cn]
<1>1. p.status \in PipelineStatus
  BY DEF CyndiPipeline
<1>2. r \in PipelineStatus /\ r.table = p.status.table /\ r.valid = "Unknown" /\ r.failed = 0
  <2>1. r \in PipelineStatus
    BY <1>1, SetValidType DEF ResetValid, ConditionStatus
  <2>2. r.table = p.status.table /\ r.valid = "Unknown" /\ r.failed = 0
    BY <1>1 DEF ResetValid, SetValid, PipelineStatus
  <2> QED
    BY <2>1, <2>2
<1>3. q = [p EXCEPT !.status = s]
  BY DEF TransitionToInitialSync
<1>4. tb = IF ConnectorsManaged(p) \/ p.status.table = Nil THEN TableName(v) ELSE p.status.table
  BY <1>2
<1> HIDE DEF r, tb, cn
<1>5. /\ s.version = v /\ s.initsync = TRUE /\ s.valid = "Unknown" /\ s.failed = 0
      /\ s.table = tb
  BY <1>2 DEF PipelineStatus
<1> HIDE DEF s
<1>6. /\ q.status = s
      /\ q.finalizer = p.finalizer /\ q.spec = p.spec /\ q.deleting = p.deleting
  BY <1>3 DEF CyndiPipeline
<1> QED
  BY <1>4, <1>5, <1>6

LEMMA JudgedStatus ==
  ASSUME NEW o \in PipelineStatus, NEW verdict \in {"True", "False"}, NEW h, o.version # Nil
  PROVE  Judged(o, SetValid(o, verdict, h))
<1> DEFINE f == IF verdict = "False" THEN o.failed + 1 ELSE 0
           n == o.initsync /\ verdict # "True"
           s == [o EXCEPT !.valid = verdict, !.hosts = h, !.failed = f, !.initsync = n]
<1>1. SetValid(o, verdict, h) = s
  BY DEF SetValid
<1>2. /\ verdict = "False" => f > 0
      /\ verdict = "True" => f = 0
  BY DEF PipelineStatus
<1>3. /\ verdict = "False" => n = o.initsync
      /\ verdict = "True" => n = FALSE
  BY DEF PipelineStatus
<1> HIDE DEF f, n
<1>4. /\ s.valid = verdict /\ s.failed = f /\ s.initsync = n
      /\ s.version = o.version /\ s.table = o.table
  BY DEF PipelineStatus
<1> HIDE DEF s
<1> QED
  BY <1>1, <1>2, <1>3, <1>4 DEF Judged
----------------------------------------------------------------------------
(***************************************************************************)
(* Every step of an iteration has one of these outcomes.                   *)
(***************************************************************************)

LEMMA OutcomeStep ==
  ASSUME IterTypeOK, OutcomeInv, NEW c \in Controllers, NEW i, iter' = [iter EXCEPT ![c] = i],
         i.phase = "idle" \/ Outcome(i)
  PROVE  OutcomeInv'
  BY DEF IterTypeOK, OutcomeInv

LEMMA OutcomeIdle ==
  ASSUME IterTypeOK, OutcomeInv, NEW c \in Controllers, iter' = [iter EXCEPT ![c] = Idle]
  PROVE  OutcomeInv'
<1>1. Idle.phase = "idle"
  BY DEF Idle
<1> QED
  BY <1>1, OutcomeStep

LEMMA UntouchedOutcome ==
  ASSUME NEW i \in ReconcileIteration, Outcome(i),
         i.phase \notin {"newtable", "newconnector", "status"}
  PROVE  i.inst.status = i.orig /\ Coherent(i.orig)
  BY DEF Outcome

LEMMA PhaseOutcome ==
  ASSUME NEW i \in ReconcileIteration, Outcome(i),
         i.phase \notin {"newtable", "newconnector", "status"},
         NEW next, next \notin {"newtable", "newconnector", "deviation", "validate"}
  PROVE  Outcome([i EXCEPT !.phase = next])
<1> DEFINE j == [i EXCEPT !.phase = next]
<1>1. j.phase = next /\ j.orig = i.orig /\ j.inst = i.inst
  BY DEF ReconcileIteration
<1> HIDE DEF j
<1>2. Outcome(j)
  BY <1>1, UntouchedOutcome DEF Outcome
<1> QED
  BY <1>2 DEF j

LEMMA RefreshOutcome ==
  ASSUME NEW i \in ReconcileIteration, Outcome(i),
         i.phase \notin {"newtable", "newconnector", "status"}
  PROVE  Outcome(Refresh(i)) /\ Outcome(AfterState(i))
<1> DEFINE p == TransitionToNew(i.inst)
           j == [i EXCEPT !.inst = p, !.phase = "status"]
<1>1. i.inst \in CyndiPipeline
  BY DEF ReconcileIteration
<1>2. Renewed(i.inst.status, p.status)
  BY <1>1, RefreshedStatus
<1> HIDE DEF p
<1>3. j.phase = "status" /\ j.orig = i.orig /\ j.inst = p
  BY DEF ReconcileIteration
<1>4. Refresh(i) = j
  BY DEF Refresh, p
<1> HIDE DEF j
<1>5. Outcome(Refresh(i))
  BY <1>2, <1>3, <1>4, UntouchedOutcome DEF Outcome
<1>6. \A next \in {"view", "status", "healthier"} : Outcome([i EXCEPT !.phase = next])
  BY PhaseOutcome
<1> QED
  BY <1>5, <1>6 DEF AfterState

\* Setup of either controller: the status is the one of the informer.
LEMMA SetupOutcome ==
  ASSUME TypeInv, OutcomeInv, CopiesCoherent, NEW c \in Controllers, NEW next, NEW ok,
         Setup(c, next, ok), next \notin {"newtable", "newconnector"},
         next = "deviation" => cache.status.version # Nil, next # "validate"
  PROVE  OutcomeInv'
<1> DEFINE i == [phase |-> next, inst |-> cache, orig |-> cache.status, config |-> configMap,
                 connected |-> ok, errors |-> ~ok, current |-> Nil]
<1>1. i.inst = cache /\ i.orig = cache.status /\ i.phase = next
  OBVIOUS
<1>2. iter' = [iter EXCEPT ![c] = i]
  BY DEF Setup
<1> HIDE DEF i
<1>3. Outcome(i)
  BY <1>1 DEF Outcome, CopiesCoherent
<1> QED
  BY <1>2, <1>3, OutcomeStep DEF TypeInv

\* StartInitialSync: an unmanaged pipeline that has a table keeps it.
LEMMA StartOutcome ==
  ASSUME TypeInv, OutcomeInv, StartInitialSync
  PROVE  OutcomeInv' /\ pc'.phase = "newtable" /\ Started(pc')
<1> DEFINE p == [pc.inst EXCEPT !.finalizer = TRUE,
                                !.status.cmver = ConfigMapHash(pc.config),
                                !.status.spechash = SpecHash(pc.inst.spec)]
           q == TransitionToInitialSync(p, NewVersion)
           i == [pc EXCEPT !.inst = q, !.phase = "newtable"]
<1>1. /\ pc.phase = "dispatch" /\ GetState(pc.inst) = "NEW" /\ pc \in ReconcileIteration
      /\ pc.inst \in CyndiPipeline /\ pc.inst.status \in PipelineStatus
      /\ pc.inst.spec \in PipelineSpec /\ pc.config \in ConfigMaps
  BY PcType DEF StartInitialSync, InState, TypeInv
<1>2. ~pc.inst.deleting /\ pc.inst.status.version = Nil
  BY <1>1 DEF GetState
<1>3. Outcome(pc)
  BY <1>1 DEF OutcomeInv, pc, Controllers
<1>4. pc.inst.status = pc.orig /\ Coherent(pc.orig)
  BY <1>1, <1>3, UntouchedOutcome
<1>5. NewVersion \in Versions /\ NewVersion # Nil
  BY NewVersionType, NilAssumption DEF StartInitialSync
<1>6. /\ p \in CyndiPipeline /\ p.finalizer = TRUE /\ p.deleting = pc.inst.deleting
      /\ p.spec = pc.inst.spec /\ p.status.table = pc.inst.status.table
  <2> DEFINE b == ConfigMapHash(pc.config)
             h == SpecHash(pc.inst.spec)
             s == [[pc.inst.status EXCEPT !.cmver = b] EXCEPT !.spechash = h]
  <2>1. b \in Bases /\ h \in AppNames \X DataSpecs
    BY <1>1, ConfigMapsAssumption DEF ConfigMapHash, SpecHash, PipelineSpec
  <2> HIDE DEF b, h
  <2>2. s \in PipelineStatus /\ s.table = pc.inst.status.table
    BY <1>1, <2>1 DEF PipelineStatus
  <2>3. p = [pc.inst EXCEPT !.finalizer = TRUE, !.status = s]
    BY <1>1 DEF CyndiPipeline, b, h
  <2> HIDE DEF s, p
  <2> QED
    BY <1>1, <2>2, <2>3 DEF CyndiPipeline
<1> HIDE DEF p
<1>7. /\ q.status.version = NewVersion /\ q.status.initsync /\ q.status.valid = "Unknown"
      /\ q.status.failed = 0
      /\ q.status.table = IF ConnectorsManaged(p) \/ p.status.table = Nil
                          THEN TableName(NewVersion) ELSE p.status.table
      /\ q.finalizer = p.finalizer /\ q.spec = p.spec /\ q.deleting = p.deleting
  BY <1>5, <1>6, StartedStatus
<1>8. iter' = [iter EXCEPT !["pipeline"] = i]
  BY DEF StartInitialSync, p
<1> HIDE DEF q
<1>9. i.phase = "newtable" /\ i.orig = pc.orig /\ i.inst = q
  BY <1>1 DEF ReconcileIteration
<1> HIDE DEF i
<1>10. Started(i)
  BY <1>2, <1>4, <1>5, <1>6, <1>7, <1>9 DEF Started, ConnectorsManaged
<1>11. Outcome(i)
  BY <1>4, <1>9, <1>10 DEF Outcome
<1> QED
  BY <1>8, <1>9, <1>10, <1>11, OutcomeStep, PcStep DEF TypeInv, Controllers

LEMMA PipelineOutcomes ==
  ASSUME TypeInv, OutcomeInv, CopiesCoherent, PipelineNext
  PROVE  OutcomeInv'
<1> USE DEF TypeInv
<1>1. ASSUME iter' = [iter EXCEPT !["pipeline"] = Idle]
      PROVE  OutcomeInv'
  BY <1>1, OutcomeIdle DEF Controllers
<1>2. ASSUME NEW i, Outcome(i), iter' = [iter EXCEPT !["pipeline"] = i]
      PROVE  OutcomeInv'
  BY <1>2, OutcomeStep DEF Controllers
<1>3. ASSUME pc.phase # "idle"
      PROVE  pc \in ReconcileIteration /\ Outcome(pc)
  BY <1>3, PcType DEF OutcomeInv, pc, Controllers
<1>4. ASSUME pc.phase \notin {"idle", "newtable", "newconnector", "status"}, NEW next,
             next \notin {"newtable", "newconnector", "deviation", "validate"},
             Proceed("pipeline", next)
      PROVE  OutcomeInv'
  BY <1>2, <1>3, <1>4, PhaseOutcome DEF Proceed, Goto, pc
<1>5. ASSUME pc.phase \notin {"idle", "newtable", "newconnector", "status"},
             Goto("pipeline", AfterState(pc)) \/ Goto("pipeline", Refresh(pc))
      PROVE  OutcomeInv'
  BY <1>2, <1>3, <1>5, RefreshOutcome DEF Goto
<1>6. CASE PipelineSetup
  <2>1. PICK ok : Setup("pipeline", "connectors", ok)
    BY <1>6 DEF PipelineSetup
  <2> QED
    BY <2>1, SetupOutcome DEF Controllers
<1>7. CASE PipelineSkip
  BY <1>7 DEF PipelineSkip, SkipRequest, OutcomeInv
<1>8. CASE DeleteStaleConnectors
  <2>1. pc.phase = "connectors" /\ pc \in ReconcileIteration /\ Outcome(pc)
    BY <1>3, <1>8 DEF DeleteStaleConnectors
  <2>2. PICK r, f : Goto("pipeline", [pc EXCEPT !.phase = "tables", !.current = r.table,
                                                !.errors = @ \/ r.err \/ f])
    BY <1>8 DEF DeleteStaleConnectors
  <2> DEFINE e == pc.errors \/ r.err \/ f
             i == [pc EXCEPT !.phase = "tables", !.current = r.table, !.errors = e]
  <2>3. Goto("pipeline", i)
    BY <2>2
  <2> HIDE DEF e
  <2>4. i.phase = "tables" /\ i.orig = pc.orig /\ i.inst = pc.inst
    BY <2>1 DEF ReconcileIteration
  <2> HIDE DEF i
  <2>5. Outcome(i)
    BY <2>1, <2>4 DEF Outcome
  <2> QED
    BY <1>2, <2>3, <2>5 DEF Goto
<1>9. CASE DeleteStaleTables
  <2>1. pc.phase = "tables" /\ pc \in ReconcileIteration /\ Outcome(pc)
    BY <1>3, <1>9 DEF DeleteStaleTables
  <2>2. PICK f : Goto("pipeline", [pc EXCEPT !.phase = "dispatch", !.current = Nil,
                                             !.errors = @ \/ f])
    BY <1>9 DEF DeleteStaleTables
  <2> DEFINE e == pc.errors \/ f
             i == [pc EXCEPT !.phase = "dispatch", !.current = Nil, !.errors = e]
  <2>3. Goto("pipeline", i)
    BY <2>2
  <2> HIDE DEF e
  <2>4. i.phase = "dispatch" /\ i.orig = pc.orig /\ i.inst = pc.inst
    BY <2>1 DEF ReconcileIteration
  <2> HIDE DEF i
  <2>5. Outcome(i)
    BY <2>1, <2>4 DEF Outcome
  <2> QED
    BY <1>2, <2>3, <2>5 DEF Goto
<1>10. CASE RemoveFinalizer \/ Abort \/ PipelineUpdateStatus \/ PipelineCallFails
  BY <1>1, <1>10 DEF RemoveFinalizer, Abort, PipelineUpdateStatus, UpdateStatusAndRequeue,
                     UpdateStatus, PipelineCallFails, CallFails, FailUntouched, Fail
<1>11. CASE StartInitialSync
  BY <1>11, StartOutcome
<1>12. CASE CreateNewTable \/ CreateNewConnector
  <2>1. pc.phase \in {"newtable", "newconnector"} /\ pc \in ReconcileIteration /\ Outcome(pc)
    BY <1>3, <1>12 DEF CreateNewTable, CreateNewConnector
  <2>2. PICK next \in {"newconnector", "status"} : Proceed("pipeline", next)
    BY <1>12 DEF CreateNewTable, CreateNewConnector
  <2> DEFINE i == [pc EXCEPT !.phase = next]
  <2>3. i.phase = next /\ i.orig = pc.orig /\ i.inst = pc.inst
    BY <2>1 DEF ReconcileIteration
  <2>4. iter' = [iter EXCEPT !["pipeline"] = i]
    BY <2>2 DEF Proceed, Goto, pc
  <2> HIDE DEF i
  <2>5. Started(i)
    BY <2>1, <2>3 DEF Outcome, Started
  <2>6. Outcome(i)
    BY <2>1, <2>3, <2>5 DEF Outcome
  <2> QED
    BY <1>2, <2>4, <2>6
<1>13. CASE PipelineDeviation
  <2>1. pc.phase = "dispatch"
    BY <1>13 DEF PipelineDeviation, InState
  <2>2. \/ Goto("pipeline", Refresh(pc)) \/ Goto("pipeline", AfterState(pc))
        \/ Proceed("pipeline", "state") \/ Fail("pipeline")
    BY <1>13 DEF PipelineDeviation, DeviationStep, Refresh, Proceed, pc
  <2> QED
    BY <1>1, <1>4, <1>5, <2>1, <2>2 DEF Fail
<1>14. CASE PipelineSetConnectorState
  BY <1>1, <1>5, <1>14 DEF PipelineSetConnectorState, FailUntouched, Fail
<1>15. CASE RecreateViewIfNeeded \/ GrantView
  BY <1>1, <1>4, <1>15 DEF RecreateViewIfNeeded, GrantView, Fail
<1>16. CASE UpdateViewIfHealthier \/ GrantHealthierView
  BY <1>4, <1>5, <1>16 DEF UpdateViewIfHealthier, GrantHealthierView
<1> QED
  BY <1>6, <1>7, <1>8, <1>9, <1>10, <1>11, <1>12, <1>13, <1>14, <1>15, <1>16 DEF PipelineNext

LEMMA ValidationOutcomes ==
  ASSUME TypeInv, OutcomeInv, CopiesCoherent, ValidationNext
  PROVE  OutcomeInv'
<1> USE DEF TypeInv
<1>1. ASSUME iter' = [iter EXCEPT !["validation"] = Idle]
      PROVE  OutcomeInv'
  BY <1>1, OutcomeIdle DEF Controllers
<1>2. ASSUME NEW i, Outcome(i), iter' = [iter EXCEPT !["validation"] = i]
      PROVE  OutcomeInv'
  BY <1>2, OutcomeStep DEF Controllers
<1>3. ASSUME vc.phase # "idle"
      PROVE  vc \in ReconcileIteration /\ Outcome(vc)
  BY <1>3, VcType DEF OutcomeInv, vc, Controllers
<1>4. CASE ValidationSetup
  <2>1. Setup("validation", "deviation", TRUE) /\ cache.status.version # Nil
    BY <1>4 DEF ValidationSetup, NothingToValidate, GetState
  <2> QED
    BY <2>1, SetupOutcome DEF Controllers
<1>5. CASE ValidationSkip
  BY <1>5 DEF ValidationSkip, SkipRequest, OutcomeInv
<1>6. CASE ValidationDeviation
  <2>1. vc.phase = "deviation" /\ vc \in ReconcileIteration /\ Outcome(vc)
    BY <1>3, <1>6 DEF ValidationDeviation
  <2> DEFINE i == [vc EXCEPT !.phase = "validate"]
  <2>2. \/ Goto("validation", Refresh(vc)) \/ Goto("validation", i) \/ Fail("validation")
    BY <1>6 DEF ValidationDeviation, DeviationStep, Refresh, vc
  <2>3. i.phase = "validate" /\ i.orig = vc.orig /\ i.inst = vc.inst
    BY <2>1 DEF ReconcileIteration
  <2> HIDE DEF i
  <2>4. Outcome(i)
    BY <2>1, <2>3 DEF Outcome
  <2> QED
    BY <1>1, <1>2, <2>1, <2>2, <2>4, RefreshOutcome DEF Fail, Goto
<1>7. CASE Validate
  <2>1. vc.phase = "validate" /\ vc \in ReconcileIteration /\ Outcome(vc)
    BY <1>3, <1>7 DEF Validate
  <2>2. CASE FailUntouched("validation")
    BY <1>1, <2>2 DEF FailUntouched, Fail
  <2>3. CASE ~FailUntouched("validation")
    <3>1. PICK verdict \in Verdicts(vc.inst.status.table), h \in HostCounts :
            Goto("validation", [vc EXCEPT !.phase = "status",
                                          !.inst.status = SetValid(@, verdict, h)])
      BY <1>7, <2>3 DEF Validate
    <3> DEFINE s == SetValid(vc.inst.status, verdict, h)
               i == [vc EXCEPT !.phase = "status", !.inst.status = s]
    <3>2. Goto("validation", i)
      BY <3>1
    <3>3. verdict \in {"True", "False"}
      BY DEF Verdicts
    <3>4. vc.inst \in CyndiPipeline /\ vc.inst.status \in PipelineStatus
      BY <2>1, VcType
    <3>5. vc.inst.status = vc.orig /\ vc.orig.version # Nil
      BY <2>1 DEF Outcome
    <3>6. Judged(vc.orig, s)
      BY <3>3, <3>4, <3>5, JudgedStatus
    <3> HIDE DEF s
    <3>7. i.phase = "status" /\ i.orig = vc.orig /\ i.inst.status = s
      BY <2>1, <3>4 DEF ReconcileIteration, CyndiPipeline
    <3> HIDE DEF i
    <3>8. Outcome(i)
      BY <2>1, <3>6, <3>7 DEF Outcome
    <3> QED
      BY <1>2, <3>2, <3>8 DEF Goto
  <2> QED
    BY <2>2, <2>3
<1>8. CASE ValidationUpdateStatus \/ ValidationCallFails
  BY <1>1, <1>8 DEF ValidationUpdateStatus, UpdateStatusAndRequeue, UpdateStatus,
                    ValidationCallFails, CallFails, FailUntouched, Fail
<1> QED
  BY <1>4, <1>5, <1>6, <1>7, <1>8 DEF ValidationNext

LEMMA OutcomesStep ==
  ASSUME TypeInv, OutcomeInv, CopiesCoherent, [Next]_opVars
  PROVE  OutcomeInv'
<1>1. CASE PipelineStep \/ ValidationStep
  BY <1>1, PipelineOutcomes, ValidationOutcomes DEF PipelineStep, ValidationStep
<1>2. CASE Crash
  <2>1. \A c \in Controllers : iter'[c].phase = "idle"
    BY <1>2 DEF Crash, Idle
  <2> QED
    BY <2>1 DEF OutcomeInv
<1>3. CASE UNCHANGED iter
  BY <1>3 DEF OutcomeInv
<1>4. CASE TableSeeded \/ EventDelivered \/ Disturb \/ UNCHANGED opVars
  BY <1>3, <1>4 DEF TableSeeded, EventDelivered, Disturb, UserEdits, UserDeletes,
       AdminConfigures, TableDropped, TableDrifts, ConnectorDisturbed, opVars, vars
<1> QED
  BY <1>1, <1>2, <1>4 DEF Next
----------------------------------------------------------------------------
(***************************************************************************)
(* What a step can do to the resource and to the informer.                 *)
(***************************************************************************)

Quiet == UNCHANGED <<api, cache, watch>> /\ fresh' \subseteq fresh

Reads ==
  /\ UNCHANGED <<api, cache, watch>> /\ cache.exists
  /\ \E c \in Controllers : fresh' = IF watch = <<>> THEN fresh \cup {c} ELSE fresh \ {c}

\* Controller c ends its iteration with an update of the status.
StatusWrite(c) ==
  /\ c \in fresh /\ iter[c].phase = "status"
  /\ \E t \in Tables \cup {Nil} :
       WriteApi([api EXCEPT !.status = [iter[c].inst.status EXCEPT !.active = t]], {})
  /\ UNCHANGED cache

FinalizerAdded ==
  /\ "pipeline" \in fresh /\ StartInitialSync
  /\ WriteApi([api EXCEPT !.finalizer = TRUE], {"pipeline"})
  /\ UNCHANGED cache

Edited ==
  /\ api.exists
  /\ \E spec \in PipelineSpec : WriteApi([api EXCEPT !.spec = spec], {})
  /\ UNCHANGED cache

ResourceWrite ==
  /\ \/ \E c \in Controllers : StatusWrite(c)
     \/ FinalizerAdded \/ RemoveFinalizer
     \/ Edited \/ UserDeletes
  /\ UNCHANGED cache

LEMMA UpdateStatusWrites ==
  ASSUME TypeInv, NEW c \in Controllers, UpdateStatusAndRequeue(c)
  PROVE  Quiet \/ StatusWrite(c)
<1>1. PICK r \in GetCurrentTable :
        IF r.err THEN Fail(c)
        ELSE UpdateStatus(c, [iter[c].inst.status EXCEPT !.active = r.table])
  BY DEF UpdateStatusAndRequeue
<1>2. r.table \in Tables \cup {Nil}
  BY GetCurrentTableType DEF TypeInv
<1>3. iter[c].phase = "status"
  BY DEF UpdateStatusAndRequeue
<1>4. CASE r.err
  BY <1>1, <1>4 DEF Fail, Quiet
<1>5. CASE ~r.err
  BY <1>1, <1>2, <1>3, <1>5 DEF UpdateStatus, Quiet, StatusWrite
<1> QED
  BY <1>4, <1>5

LEMMA PipelineWrites ==
  ASSUME TypeInv, PipelineNext
  PROVE  \/ Quiet \/ Reads \/ StatusWrite("pipeline") \/ FinalizerAdded
         \/ (RemoveFinalizer /\ UNCHANGED cache)
<1>1. CASE PipelineSetup
  <2>1. PICK ok : Setup("pipeline", "connectors", ok)
    BY <1>1 DEF PipelineSetup
  <2> QED
    BY <2>1 DEF Setup, ReadCache, Reads, Controllers
<1>2. CASE PipelineUpdateStatus
  BY <1>2, UpdateStatusWrites DEF PipelineUpdateStatus, Controllers
<1>3. CASE RemoveFinalizer
  BY <1>3 DEF RemoveFinalizer
<1>4. CASE StartInitialSync
  BY <1>4 DEF StartInitialSync, AddFinalizer, kubeVars, Quiet, FinalizerAdded
<1>5. CASE PipelineSkip \/ Abort \/ PipelineCallFails
  BY <1>5 DEF PipelineSkip, SkipRequest, Abort, PipelineCallFails, CallFails,
              FailUntouched, Fail, Quiet
<1>6. ASSUME NEW i, Goto("pipeline", i)
      PROVE  Quiet
  BY <1>6 DEF Goto, kubeVars, Quiet
<1>7. CASE Fail("pipeline")
  BY <1>7 DEF Fail, Quiet
<1>8. CASE DeleteStaleConnectors \/ DeleteStaleTables \/ CreateNewTable \/ CreateNewConnector
  BY <1>6, <1>8 DEF DeleteStaleConnectors, DeleteStaleTables, CreateNewTable,
                    CreateNewConnector, Proceed
<1>9. CASE PipelineDeviation \/ PipelineSetConnectorState
  BY <1>6, <1>7, <1>9
     DEF PipelineDeviation, DeviationStep, PipelineSetConnectorState, FailUntouched
<1>10. CASE RecreateViewIfNeeded \/ GrantView \/ UpdateViewIfHealthier \/ GrantHealthierView
  BY <1>6, <1>7, <1>10
     DEF RecreateViewIfNeeded, GrantView, UpdateViewIfHealthier, GrantHealthierView, Proceed
<1> QED
  BY <1>1, <1>2, <1>3, <1>4, <1>5, <1>8, <1>9, <1>10 DEF PipelineNext

LEMMA ValidationWrites ==
  ASSUME TypeInv, ValidationNext
  PROVE  Quiet \/ Reads \/ StatusWrite("validation")
<1>1. CASE ValidationSetup
  BY <1>1 DEF ValidationSetup, Setup, ReadCache, Reads, Controllers
<1>2. CASE ValidationUpdateStatus
  BY <1>2, UpdateStatusWrites DEF ValidationUpdateStatus, Controllers
<1>3. CASE ~ValidationSetup /\ ~ValidationUpdateStatus
  BY <1>3 DEF ValidationNext, ValidationSkip, SkipRequest, ValidationDeviation,
       DeviationStep, Validate, ValidationCallFails, CallFails, FailUntouched, Fail,
       Goto, kubeVars, Quiet
<1> QED
  BY <1>1, <1>2, <1>3

LEMMA KubeSteps ==
  ASSUME TypeInv, [Next]_opVars
  PROVE  \/ Quiet \/ Reads \/ ResourceWrite
         \/ \E k \in DOMAIN watch : Deliver(k)
         \/ Restart
<1>1. CASE PipelineStep
  BY <1>1, PipelineWrites DEF PipelineStep, ResourceWrite, StatusWrite, FinalizerAdded, Controllers
<1>2. CASE ValidationStep
  BY <1>2, ValidationWrites DEF ValidationStep, ResourceWrite, StatusWrite, Controllers
<1>3. CASE TableSeeded \/ EventDelivered \/ Crash
  BY <1>3 DEF TableSeeded, EventDelivered, Crash, kubeVars, Quiet
<1>4. CASE Disturb
  <2>1. CASE UserEdits
    BY <2>1 DEF UserEdits, EditSpec, Edited, ResourceWrite
  <2>2. CASE UserDeletes
    BY <2>2 DEF UserDeletes, DeleteResource, ResourceWrite
  <2>3. CASE AdminConfigures \/ TableDropped \/ TableDrifts \/ ConnectorDisturbed
    BY <2>3 DEF AdminConfigures, ConfigMapChange, TableDropped, TableDrifts,
                ConnectorDisturbed, kubeVars, Quiet
  <2> QED
    BY <1>4, <2>1, <2>2, <2>3 DEF Disturb
<1>5. CASE UNCHANGED opVars
  BY <1>5 DEF opVars, vars, kubeVars, Quiet
<1> QED
  BY <1>1, <1>2, <1>3, <1>4, <1>5 DEF Next

\* What a write leaves to be delivered.
LEMMA AppendedEvent ==
  ASSUME TypeInv, NEW new, NEW w, WriteApi(new, w)
  PROVE  /\ api' = new /\ fresh' = w
         /\ watch' # <<>> /\ Len(watch') = Len(watch) + 1 /\ watch'[Len(watch')] = new
         /\ Len(watch) \in Nat /\ DOMAIN watch = 1..Len(watch) /\ DOMAIN watch' = 1..Len(watch')
         /\ \A n \in DOMAIN watch : watch'[n] = watch[n]
  BY DEF WriteApi, TypeInv, KubeTypeOK

\* The informer takes an event.
LEMMA TakenEvent ==
  ASSUME TypeInv, NEW k \in DOMAIN watch, Deliver(k)
  PROVE  /\ cache' = watch[k] /\ UNCHANGED <<api, fresh>>
         /\ k \in 1..Len(watch) /\ Len(watch) \in Nat /\ DOMAIN watch = 1..Len(watch)
         /\ Len(watch') = Len(watch) - k /\ DOMAIN watch' = 1..Len(watch')
         /\ watch' # <<>> => k < Len(watch)
         /\ \A n \in DOMAIN watch' : k + n \in DOMAIN watch /\ watch'[n] = watch[k + n]
<1>1. watch \in Seq(CyndiPipeline) /\ k \in 1..Len(watch)
  BY DEF TypeInv, KubeTypeOK
<1>2. cache' = watch[k] /\ watch' = SubSeq(watch, k + 1, Len(watch)) /\ UNCHANGED <<api, fresh>>
  BY DEF Deliver
<1> QED
  BY <1>1, <1>2
----------------------------------------------------------------------------
(***************************************************************************)
(* The writes, field by field.                                             *)
(***************************************************************************)

\* A controller that updates the status holds the current resource, and
\* changes nothing but the status.
LEMMA WrittenStatus ==
  ASSUME TypeInv, CopyInv, OutcomeInv, NEW c \in Controllers, StatusWrite(c)
  PROVE  /\ iter[c].phase = "status" /\ Outcome(iter[c])
         /\ iter[c].orig = api.status /\ iter[c].inst.spec = api.spec
         /\ iter[c].inst.deleting = api.deleting
         /\ api'.status.version = iter[c].inst.status.version
         /\ api'.status.table = iter[c].inst.status.table
         /\ api'.status.initsync = iter[c].inst.status.initsync
         /\ api'.status.valid = iter[c].inst.status.valid
         /\ api'.status.failed = iter[c].inst.status.failed
         /\ api'.spec = api.spec /\ api'.deleting = api.deleting
         /\ api'.exists = api.exists /\ api'.finalizer = api.finalizer
         /\ fresh' = {} /\ fresh # {}
<1>1. iter[c].phase = "status" /\ c \in fresh
  BY DEF StatusWrite
<1>2. Outcome(iter[c])
  BY <1>1 DEF OutcomeInv
<1>3. /\ iter[c].orig = api.status /\ iter[c].inst.spec = api.spec
      /\ iter[c].inst.deleting = api.deleting
  BY <1>1 DEF CopyInv, FreshInv
<1>4. PICK t \in Tables \cup {Nil} :
        WriteApi([api EXCEPT !.status = [iter[c].inst.status EXCEPT !.active = t]], {})
  BY DEF StatusWrite
<1> DEFINE s == [iter[c].inst.status EXCEPT !.active = t]
<1>5. api' = [api EXCEPT !.status = s] /\ fresh' = {}
  BY <1>4 DEF WriteApi
<1>6. iter[c].inst.status \in PipelineStatus
  BY <1>1, BusyType DEF TypeInv, ReconcileIteration, CyndiPipeline
<1>7. /\ s.version = iter[c].inst.status.version /\ s.table = iter[c].inst.status.table
      /\ s.initsync = iter[c].inst.status.initsync /\ s.valid = iter[c].inst.status.valid
      /\ s.failed = iter[c].inst.status.failed
  BY <1>6 DEF PipelineStatus
<1> HIDE DEF s
<1>8. /\ api'.status = s /\ api'.spec = api.spec /\ api'.deleting = api.deleting
      /\ api'.exists = api.exists /\ api'.finalizer = api.finalizer
  BY <1>5 DEF TypeInv, KubeTypeOK, CyndiPipeline
<1> QED
  BY <1>1, <1>2, <1>3, <1>5, <1>7, <1>8

\* All other writes leave the status alone.
LEMMA OtherWrites ==
  ASSUME TypeInv, FinalizerAdded \/ RemoveFinalizer \/ Edited \/ UserDeletes
  PROVE  /\ api'.status = api.status
         /\ FinalizerAdded => /\ api'.finalizer /\ fresh' = {"pipeline"} /\ "pipeline" \in fresh
                              /\ api'.exists = api.exists /\ api'.deleting = api.deleting
                              /\ api'.spec = api.spec
         /\ RemoveFinalizer => /\ ~api'.exists /\ fresh' = {} /\ "pipeline" \in fresh
                               /\ api'.deleting = api.deleting
         /\ Edited => /\ api.exists /\ api'.exists /\ fresh' = {}
                      /\ api'.finalizer = api.finalizer /\ api'.deleting = api.deleting
         /\ UserDeletes => /\ api.exists /\ ~api.deleting /\ api'.deleting /\ fresh' = {}
                           /\ api'.exists = api.finalizer /\ api'.finalizer = api.finalizer
<1> USE DEF TypeInv, KubeTypeOK, CyndiPipeline, WriteApi
<1>1. FinalizerAdded => /\ api'.status = api.status
                        /\ api'.finalizer /\ fresh' = {"pipeline"} /\ "pipeline" \in fresh
                        /\ api'.exists = api.exists /\ api'.deleting = api.deleting
                        /\ api'.spec = api.spec
  BY DEF FinalizerAdded
<1>2. RemoveFinalizer => /\ api'.status = api.status
                         /\ ~api'.exists /\ fresh' = {} /\ "pipeline" \in fresh
                         /\ api'.deleting = api.deleting
  BY DEF RemoveFinalizer
<1>3. Edited => /\ api'.status = api.status
                /\ api.exists /\ api'.exists /\ fresh' = {}
                /\ api'.finalizer = api.finalizer /\ api'.deleting = api.deleting
  BY DEF Edited
<1>4. UserDeletes => /\ api'.status = api.status
                     /\ api.exists /\ ~api.deleting /\ api'.deleting /\ fresh' = {}
                     /\ api'.exists = api.finalizer /\ api'.finalizer = api.finalizer
  BY DEF UserDeletes, DeleteResource
<1> QED
  BY <1>1, <1>2, <1>3, <1>4

LEMMA WritesAppend ==
  ASSUME TypeInv, ResourceWrite
  PROVE  \E new, w : WriteApi(new, w) /\ UNCHANGED cache
  BY DEF ResourceWrite, StatusWrite, FinalizerAdded, RemoveFinalizer, Edited, UserDeletes,
         DeleteResource

\* The events of the watch after a write.
LEMMA WatchAfterWrite ==
  ASSUME TypeInv, ResourceWrite
  PROVE  /\ UNCHANGED cache /\ watch' # <<>>
         /\ Len(watch) \in Nat /\ Len(watch') = Len(watch) + 1
         /\ DOMAIN watch = 1..Len(watch) /\ DOMAIN watch' = 1..Len(watch')
         /\ \A n \in DOMAIN watch' :
              \/ n \in DOMAIN watch /\ watch'[n] = watch[n]
              \/ n = Len(watch') /\ n \notin DOMAIN watch /\ watch'[n] = api'
         /\ \A n \in DOMAIN watch : n < Len(watch')
<1>1. PICK new, w : WriteApi(new, w) /\ UNCHANGED cache
  BY WritesAppend
<1> HIDE DEF ResourceWrite
<1>2. /\ api' = new /\ watch' # <<>> /\ Len(watch') = Len(watch) + 1 /\ watch'[Len(watch')] = new
      /\ Len(watch) \in Nat /\ DOMAIN watch = 1..Len(watch) /\ DOMAIN watch' = 1..Len(watch')
      /\ \A n \in DOMAIN watch : watch'[n] = watch[n]
  BY <1>1, AppendedEvent
<1> QED
  BY <1>1, <1>2
----------------------------------------------------------------------------
(***************************************************************************)
(* Every status is coherent.                                               *)
(***************************************************************************)

LEMMA WriteCoherent ==
  ASSUME TypeInv, CopyInv, OutcomeInv, CopiesCoherent, ResourceWrite
  PROVE  Coherent(api'.status)
<1>1. CASE \E c \in Controllers : StatusWrite(c)
  <2>1. PICK c \in Controllers : StatusWrite(c)
    BY <1>1
  <2>2. /\ Outcome(iter[c])
        /\ api'.status.version = iter[c].inst.status.version
        /\ api'.status.initsync = iter[c].inst.status.initsync
        /\ api'.status.valid = iter[c].inst.status.valid
        /\ api'.status.failed = iter[c].inst.status.failed
    BY <2>1, WrittenStatus
  <2>3. Coherent(iter[c].inst.status)
    BY <2>2, OutcomeCoherent
  <2> QED
    BY <2>2, <2>3 DEF Coherent
<1>2. CASE FinalizerAdded \/ RemoveFinalizer \/ Edited \/ UserDeletes
  BY <1>2, OtherWrites DEF CopiesCoherent
<1> QED
  BY <1>1, <1>2 DEF ResourceWrite

LEMMA CoherentStep ==
  ASSUME TypeInv, CopyInv, OutcomeInv, CopiesCoherent, [Next]_opVars
  PROVE  CopiesCoherent'
<1>1. CASE Quiet \/ Reads
  BY <1>1 DEF Quiet, Reads, CopiesCoherent
<1>2. CASE ResourceWrite
  BY <1>2, WriteCoherent, WatchAfterWrite DEF CopiesCoherent
<1>3. CASE \E k \in DOMAIN watch : Deliver(k)
  <2>1. PICK k \in DOMAIN watch : Deliver(k)
    BY <1>3
  <2>2. /\ cache' = watch[k] /\ UNCHANGED api
        /\ \A n \in DOMAIN watch' : k + n \in DOMAIN watch /\ watch'[n] = watch[k + n]
    BY <2>1, TakenEvent
  <2> QED
    BY <2>2 DEF CopiesCoherent
<1>4. CASE Restart
  BY <1>4 DEF Restart, CopiesCoherent
<1> QED
  BY <1>1, <1>2, <1>3, <1>4, KubeSteps

StatusInv == CoreInv /\ OutcomeInv /\ CopiesCoherent

LEMMA StatusInit ==
  ASSUME Init
  PROVE  StatusInv
<1>1. CoreInv
  BY InitTypes, CopyInit DEF CoreInv
<1>2. OutcomeInv
  BY DEF Init, IterInit, Idle, OutcomeInv
<1>3. api.status = EmptyStatus /\ cache = api /\ watch = <<>>
  BY DEF Init, KubeInit
<1>4. Coherent(EmptyStatus)
  BY DEF Coherent, EmptyStatus
<1> QED
  BY <1>1, <1>2, <1>3, <1>4 DEF StatusInv, CopiesCoherent

LEMMA StatusStep ==
  ASSUME StatusInv, [Next]_opVars
  PROVE  StatusInv'
  BY NextTypes, CopyStep, OutcomesStep, CoherentStep DEF StatusInv, CoreInv

\* StatusInv is an invariant of the operator: what an iteration carries is the
\* outcome of one transition of what it read (updateStatusAndRequeue).
THEOREM StatusInvariant == Spec => []StatusInv
<1>1. Init => StatusInv
  BY StatusInit
<1>2. StatusInv /\ [Next]_opVars => StatusInv'
  BY StatusStep
<1> QED
  BY <1>1, <1>2, PTL DEF Spec

\* The committed status always lies in the state diagram, for any lag of the
\* informer, any faults and any disturbance: GetState never answers UNKNOWN,
\* and the count of failed validations is that of the current table.
THEOREM StatusIsCoherent == Spec => []StatusCoherent
<1>1. StatusInv => StatusCoherent
  <2> SUFFICES ASSUME StatusInv
               PROVE  StatusCoherent
    OBVIOUS
  <2>1. Coherent(api.status)
    BY DEF StatusInv, CopiesCoherent
  <2>2. GetState(api) # "UNKNOWN"
    BY <2>1 DEF Coherent, GetState
  <2> QED
    BY <2>1, <2>2 DEF Coherent, StatusCoherent
<1> QED
  BY <1>1, StatusInvariant, PTL

\* An external connector keeps its table: as long as the connectors are not
\* managed no transition of either controller renames it, whatever copy of
\* the resource the transition was computed from.
THEOREM UnmanagedTableIsStable == Spec => UnmanagedTableStable
<1> DEFINE A == ~ConnectorsManaged(api) /\ api.status.table # Nil =>
                  api'.status.table = api.status.table
<1>1. StatusInv /\ [Next]_opVars => [A]_opVars
  <2> SUFFICES ASSUME StatusInv, [Next]_opVars
               PROVE  A
    OBVIOUS
  <2>1. TypeInv /\ CopyInv /\ OutcomeInv
    BY DEF StatusInv, CoreInv
  <2>2. CASE \E c \in Controllers : StatusWrite(c)
    <3>1. PICK c \in Controllers : StatusWrite(c)
      BY <2>2
    <3>2. /\ Outcome(iter[c]) /\ iter[c].orig = api.status /\ iter[c].inst.spec = api.spec
          /\ api'.status.table = iter[c].inst.status.table
      BY <2>1, <3>1, WrittenStatus
    <3> QED
      BY <3>2 DEF Outcome, Renewed, Started, Judged, ConnectorsManaged
  <2>3. CASE ~\E c \in Controllers : StatusWrite(c)
    <3>1. api'.status = api.status
      BY <2>1, <2>3, KubeSteps, OtherWrites DEF Quiet, Reads, ResourceWrite, Deliver, Restart
    <3> QED
      BY <3>1
  <2> QED
    BY <2>2, <2>3
<1> QED
  BY <1>1, StatusInvariant, PTL DEF Spec, UnmanagedTableStable
----------------------------------------------------------------------------
(***************************************************************************)
(* The course of a reconcile.                                              *)
(***************************************************************************)

\* The phases after the cleanup in which no table and no connector is made.
LaterPhases == {"state", "view", "grant", "healthier", "healthiergrant", "status"}

SameResource(p, q) == SameDefinition(p, q) /\ p.finalizer = q.finalizer

LEMMA LaterGoto ==
  ASSUME TypeInv, pc.phase # "idle", NEW next \in LaterPhases,
         \/ Goto("pipeline", [pc EXCEPT !.phase = next])
         \/ Goto("pipeline", AfterState(pc)) \/ Goto("pipeline", Refresh(pc))
  PROVE  pc'.phase \in LaterPhases /\ SameResource(pc'.inst, pc.inst)
<1>1. pc \in ReconcileIteration /\ pc.inst \in CyndiPipeline
  BY PcType DEF TypeInv
<1>2. ASSUME NEW n \in LaterPhases
      PROVE  LET i == [pc EXCEPT !.phase = n]
             IN  i.phase = n /\ SameResource(i.inst, pc.inst)
  BY <1>1 DEF SameResource, SameDefinition, ReconcileIteration
<1>3. Refresh(pc).phase = "status" /\ SameResource(Refresh(pc).inst, pc.inst)
  <2> DEFINE p == TransitionToNew(pc.inst)
  <2>1. SameResource(p, pc.inst)
    <3>1. \A s : SameResource([pc.inst EXCEPT !.status = s], pc.inst)
      BY <1>1 DEF SameResource, SameDefinition, CyndiPipeline
    <3> QED
      BY <3>1 DEF TransitionToNew
  <2>2. Refresh(pc) = [pc EXCEPT !.inst = p, !.phase = "status"]
    BY DEF Refresh
  <2> HIDE DEF p
  <2>3. Refresh(pc).phase = "status" /\ Refresh(pc).inst = p
    BY <1>1, <2>2 DEF ReconcileIteration
  <2> QED
    BY <2>1, <2>3
<1>4. AfterState(pc).phase \in LaterPhases /\ SameResource(AfterState(pc).inst, pc.inst)
  BY <1>2, <1>3 DEF AfterState, LaterPhases
<1> QED
  BY <1>2, <1>3, <1>4, PcStep DEF Goto, TypeInv, LaterPhases

LEMMA SetupFields ==
  ASSUME TypeInv, PipelineSetup
  PROVE  /\ pc'.phase = "connectors" /\ pc'.inst = cache /\ pc'.errors = ~pc'.connected
         /\ pc.phase = "idle" /\ vc' = vc
<1>1. PICK ok \in BOOLEAN : Setup("pipeline", "connectors", ok)
  BY DEF PipelineSetup
<1> DEFINE i == [phase |-> "connectors", inst |-> cache, orig |-> cache.status,
                 config |-> configMap, connected |-> ok, errors |-> ~ok, current |-> Nil]
<1>2. i.phase = "connectors" /\ i.inst = cache /\ i.errors = ~i.connected
  OBVIOUS
<1>3. iter' = [iter EXCEPT !["pipeline"] = i]
  BY <1>1 DEF Setup
<1> HIDE DEF i
<1> QED
  BY <1>1, <1>2, <1>3, PcStep DEF TypeInv, Setup, pc

\* deleteStaleDependencies, first half: what it found, and what is left.
LEMMA StaleConnectorsFields ==
  ASSUME TypeInv, DeleteStaleConnectors
  PROVE  \E r \in IF pc.connected THEN GetCurrentTable ELSE {[table |-> Nil, err |-> TRUE]},
            f \in CleanupResults :
           /\ pc'.phase = "tables" /\ pc'.inst = pc.inst /\ pc'.connected = pc.connected
           /\ pc'.current = r.table /\ pc'.errors = (pc.errors \/ r.err \/ f)
           /\ \E gone \in Deleted({k.name : k \in connectors} \ connectorsToKeep(pc.inst, r.table), f) :
                DeleteConnectors(gone)
<1>1. pc \in ReconcileIteration
  BY PcType DEF TypeInv, DeleteStaleConnectors
<1>2. PICK r \in IF pc.connected THEN GetCurrentTable ELSE {[table |-> Nil, err |-> TRUE]},
           f \in CleanupResults :
        /\ \E gone \in Deleted({k.name : k \in connectors} \ connectorsToKeep(pc.inst, r.table), f) :
             DeleteConnectors(gone)
        /\ Goto("pipeline", [pc EXCEPT !.phase = "tables", !.current = r.table,
                                       !.errors = @ \/ r.err \/ f])
  BY DEF DeleteStaleConnectors
<1> DEFINE e == pc.errors \/ r.err \/ f
           i == [pc EXCEPT !.phase = "tables", !.current = r.table, !.errors = e]
<1>3. Goto("pipeline", i)
  BY <1>2
<1>4. pc' = i
  BY <1>3, PcStep DEF Goto, TypeInv
<1> HIDE DEF e
<1>5. /\ i.phase = "tables" /\ i.inst = pc.inst /\ i.connected = pc.connected
      /\ i.current = r.table /\ i.errors = e
  BY <1>1 DEF ReconcileIteration
<1> QED
  BY <1>2, <1>4, <1>5 DEF e

\* Second half.
LEMMA StaleTablesFields ==
  ASSUME TypeInv, DeleteStaleTables
  PROVE  \E listed \in IF pc.connected THEN GetCyndiTables ELSE {{}}, f \in CleanupResults :
           /\ pc'.phase = "dispatch" /\ pc'.inst = pc.inst /\ pc'.errors = (pc.errors \/ f)
           /\ \E gone \in Deleted(listed \ tablesToKeep(pc.inst, pc.current), f) :
                DeleteTables(gone)
<1>1. pc \in ReconcileIteration
  BY PcType DEF TypeInv, DeleteStaleTables
<1>2. PICK listed \in IF pc.connected THEN GetCyndiTables ELSE {{}}, f \in CleanupResults :
        /\ \E gone \in Deleted(listed \ tablesToKeep(pc.inst, pc.current), f) : DeleteTables(gone)
        /\ Goto("pipeline", [pc EXCEPT !.phase = "dispatch", !.current = Nil,
                                       !.errors = @ \/ f])
  BY DEF DeleteStaleTables
<1> DEFINE e == pc.errors \/ f
           i == [pc EXCEPT !.phase = "dispatch", !.current = Nil, !.errors = e]
<1>3. Goto("pipeline", i)
  BY <1>2
<1>4. pc' = i
  BY <1>3, PcStep DEF Goto, TypeInv
<1> HIDE DEF e
<1>5. i.phase = "dispatch" /\ i.inst = pc.inst /\ i.errors = e
  BY <1>1 DEF ReconcileIteration
<1> QED
  BY <1>2, <1>4, <1>5 DEF e

\* createTable and createConnector of state NEW.
LEMMA CreationFields ==
  ASSUME TypeInv, CreateNewTable \/ CreateNewConnector
  PROVE  /\ pc'.inst = pc.inst /\ vc' = vc
         /\ CreateNewTable => /\ pc.phase = "newtable"
                              /\ pc'.phase = IF ConnectorsManaged(pc.inst)
                                             THEN "newconnector" ELSE "status"
         /\ CreateNewConnector => pc.phase = "newconnector" /\ pc'.phase = "status"
<1>1. pc \in ReconcileIteration
  BY PcType DEF TypeInv, CreateNewTable, CreateNewConnector
<1>2. ASSUME NEW next, Proceed("pipeline", next)
      PROVE  pc'.phase = next /\ pc'.inst = pc.inst /\ vc' = vc
  <2>1. pc' = [pc EXCEPT !.phase = next] /\ vc' = vc
    BY <1>2, PcStep DEF Proceed, Goto, TypeInv, pc
  <2> QED
    BY <1>1, <2>1 DEF ReconcileIteration
<1>3. CASE CreateNewTable
  BY <1>2, <1>3 DEF CreateNewTable, CreateNewConnector
<1>4. CASE CreateNewConnector
  BY <1>2, <1>4 DEF CreateNewTable, CreateNewConnector
<1> QED
  BY <1>3, <1>4

\* One of these holds of every step of the pipeline controller.
Skips == PipelineSkip /\ pc' = pc /\ UNCHANGED <<dbVars, connectors>>

Ends ==
  /\ pc' = Idle /\ UNCHANGED <<dbVars, connectors>>
  /\ RemoveFinalizer \/ "pipeline" \in queue'

Continues ==
  /\ pc'.phase \in LaterPhases /\ pc.phase # "idle" /\ SameResource(pc'.inst, pc.inst)
  /\ UNCHANGED <<tables, connectors>>

Pauses ==
  /\ PipelineSetConnectorState
  /\ pc'.phase \in LaterPhases /\ SameResource(pc'.inst, pc.inst) /\ UNCHANGED dbVars

LEMMA PipelineCourse ==
  ASSUME TypeInv, PipelineNext
  PROVE  /\ vc' = vc
         /\ \/ Skips \/ Ends \/ Continues
            \/ PipelineSetup \/ DeleteStaleConnectors \/ DeleteStaleTables
            \/ StartInitialSync \/ CreateNewTable \/ CreateNewConnector
            \/ Pauses
<1> DEFINE Goal == /\ vc' = vc
                   /\ \/ Skips \/ Ends \/ Continues
                      \/ PipelineSetup \/ DeleteStaleConnectors \/ DeleteStaleTables
                      \/ StartInitialSync \/ CreateNewTable \/ CreateNewConnector
                      \/ Pauses
<1> USE DEF TypeInv
<1>0. UNCHANGED iter \/ \E i : iter' = [iter EXCEPT !["pipeline"] = i]
  BY DEF PipelineNext, PipelineSetup, Setup, PipelineSkip, SkipRequest, DeleteStaleConnectors,
         DeleteStaleTables, RemoveFinalizer, Abort, FailUntouched, Fail, StartInitialSync,
         CreateNewTable, CreateNewConnector, Proceed, Goto, PipelineDeviation, DeviationStep,
         PipelineSetConnectorState, RecreateViewIfNeeded, GrantView, UpdateViewIfHealthier,
         GrantHealthierView, PipelineUpdateStatus, UpdateStatusAndRequeue, UpdateStatus,
         PipelineCallFails, CallFails
<1>1. vc' = vc
  <2>1. CASE UNCHANGED iter
    BY <2>1 DEF vc
  <2> QED
    BY <1>0, <2>1, PcStep
<1>2. ASSUME iter' = [iter EXCEPT !["pipeline"] = Idle], UNCHANGED <<dbVars, connectors>>,
             RemoveFinalizer \/ "pipeline" \in queue'
      PROVE  Goal
  BY <1>1, <1>2, PcStep DEF Ends
<1>3. ASSUME pc.phase # "idle", NEW next \in LaterPhases, UNCHANGED <<tables, connectors>>,
             \/ Proceed("pipeline", next)
             \/ Goto("pipeline", AfterState(pc)) \/ Goto("pipeline", Refresh(pc))
      PROVE  Goal
  BY <1>1, <1>3, LaterGoto DEF Continues, Proceed, pc
<1>4. CASE PipelineSkip
  BY <1>1, <1>4 DEF PipelineSkip, SkipRequest, Skips, pc
<1>5. CASE FailUntouched("pipeline")
  BY <1>2, <1>5 DEF FailUntouched, Fail
<1>6. CASE Abort \/ PipelineCallFails
  BY <1>5, <1>6 DEF Abort, PipelineCallFails, CallFails
<1>7. CASE RemoveFinalizer
  BY <1>2, <1>7 DEF RemoveFinalizer
<1>8. CASE PipelineUpdateStatus
  BY <1>2, <1>8 DEF PipelineUpdateStatus, UpdateStatusAndRequeue, UpdateStatus, Fail
<1>9. CASE PipelineDeviation
  <2>1. pc.phase # "idle" /\ UNCHANGED <<dbVars, connectors>>
    BY <1>9 DEF PipelineDeviation, InState, DeviationStep
  <2>2. \/ Goto("pipeline", Refresh(pc)) \/ Goto("pipeline", AfterState(pc))
        \/ Proceed("pipeline", "state") \/ Fail("pipeline")
    BY <1>9 DEF PipelineDeviation, DeviationStep, Refresh, Proceed, pc
  <2> QED
    BY <1>3, <1>5, <2>1, <2>2 DEF FailUntouched, LaterPhases, dbVars
<1>10. CASE PipelineSetConnectorState
  <2>1. CASE FailUntouched("pipeline")
    BY <1>5, <2>1
  <2>2. CASE pc.phase # "idle" /\ Goto("pipeline", AfterState(pc)) /\ UNCHANGED dbVars
    BY <1>1, <1>10, <2>2, LaterGoto DEF LaterPhases, Pauses
  <2> QED
    BY <1>10, <2>1, <2>2 DEF PipelineSetConnectorState
<1>11. CASE RecreateViewIfNeeded \/ GrantView
  BY <1>3, <1>5, <1>11 DEF RecreateViewIfNeeded, GrantView, GrantSelect, CreateView,
                           FailUntouched, LaterPhases, dbVars
<1>12. CASE UpdateViewIfHealthier \/ GrantHealthierView
  BY <1>3, <1>12 DEF UpdateViewIfHealthier, GrantHealthierView, GrantSelect, CreateView,
                     LaterPhases, dbVars
<1> QED
  BY <1>1, <1>4, <1>6, <1>7, <1>8, <1>9, <1>10, <1>11, <1>12 DEF PipelineNext
=============================================================================
