----------------------------- MODULE Iteration -----------------------------
(***************************************************************************)
(* A ReconcileIteration (controllers/iteration.go): what one reconcile of  *)
(* a controller carries from step to step, and the steps that both         *)
(* controllers share: setup, checkForDeviation and updateStatusAndRequeue. *)
(*                                                                         *)
(* A reconcile is a sequence of actions, one for each call that changes    *)
(* something outside the process; iter[c].phase names the next one.        *)
(***************************************************************************)
EXTENDS KubeApi, AppDatabase, Connect, FiniteSets

CONSTANT MaxLag  \* a reconcile starts with at most this many undelivered events

ASSUME MaxLagAssumption == MaxLag \in Nat

VARIABLE iter

vars == <<kubeVars, dbVars, connectors, iter>>

Phases ==
  {"connectors", "tables", "dispatch", "newtable", "newconnector", "state", "view",
   "grant", "healthier", "healthiergrant", "deviation", "validate", "status"}

ReconcileIteration ==
  [phase     : Phases,
   inst      : CyndiPipeline,      \* Instance
   orig      : PipelineStatus,     \* OriginalInstance.Status
   config    : ConfigMaps,
   connected : BOOLEAN,            \* AppDb has a connection
   errors    : BOOLEAN,            \* setupErrors is not empty
   current   : Tables \cup {Nil}]  \* currentTable of deleteStaleDependencies

Idle == [phase |-> "idle", inst |-> Nil, orig |-> Nil, config |-> Nil,
         connected |-> FALSE, errors |-> FALSE, current |-> Nil]

IterTypeOK == iter \in [Controllers -> ReconcileIteration \cup {Idle}]

IterInit == iter = [c \in Controllers |-> Idle]
----------------------------------------------------------------------------
\* Reconcile begins.  The instance comes from the informer; when setup fails
\* after that there is no database connection and one error is pending.
Setup(c, next, ok) ==
  /\ iter[c].phase = "idle"
  /\ c \in queue
  /\ Len(watch) <= MaxLag
  /\ cache.exists
  /\ iter' = [iter EXCEPT ![c] =
                [phase |-> next, inst |-> cache, orig |-> cache.status, config |-> configMap,
                 connected |-> ok, errors |-> ~ok, current |-> Nil]]
  /\ queue' = queue \ {c}
  /\ ReadCache(c)
  /\ UNCHANGED <<api, cache, watch, configMap, dbVars, connectors>>

\* Reconcile ends without requeueing because there is nothing to do.
SkipRequest(c) ==
  /\ iter[c].phase = "idle"
  /\ c \in queue
  /\ Len(watch) <= MaxLag
  /\ queue' = queue \ {c}
  /\ UNCHANGED <<api, cache, watch, fresh, configMap, dbVars, connectors, iter>>

\* Reconcile goes on; nothing changes at the API server.
Goto(c, it) ==
  /\ iter' = [iter EXCEPT ![c] = it]
  /\ UNCHANGED kubeVars

Proceed(c, next) == Goto(c, [iter[c] EXCEPT !.phase = next])

\* Reconcile returns an error, and the request is queued again.
Fail(c) ==
  /\ iter' = [iter EXCEPT ![c] = Idle]
  /\ queue' = queue \cup {c}
  /\ fresh' = fresh \ {c}
  /\ UNCHANGED <<api, cache, watch, configMap>>

FailUntouched(c) == Fail(c) /\ UNCHANGED <<dbVars, connectors>>
----------------------------------------------------------------------------
\* checkForDeviation.  Reading a connector by an empty name is refused by the
\* client with an error that is not NotFound.
CheckForDeviation(it) ==
  LET p == it.inst IN
  IF \/ p.status.cmver # ConfigMapHash(it.config)
     \/ p.status.spechash # SpecHash(p.spec)
     \/ ~CheckIfTableExists(p.status.table)
  THEN "problem"
  ELSE IF ~ConnectorsManaged(p) THEN "none"
  ELSE IF p.status.connector = Nil THEN "error"
  ELSE IF \E k \in GetConnector(p.status.connector) :
            ~IsFailed(k) /\ k.config = NewConnectorConfig(p, it.config)
       THEN "none" ELSE "problem"

\* The step of a controller that calls checkForDeviation; `next` is how its
\* iteration goes on when nothing is wrong.
DeviationStep(c, next) ==
  /\ LET found == CheckForDeviation(iter[c]) IN
     \/ /\ found = "problem"
        /\ Goto(c, [iter[c] EXCEPT !.inst = TransitionToNew(@), !.phase = "status"])
     \/ found = "error" /\ Fail(c)
     \/ found = "none" /\ Goto(c, next)
  /\ UNCHANGED <<dbVars, connectors>>

\* Mutant of UpdateStatus: the write is not guarded by the resourceVersion.
UpdateStatusUnguarded(c, status) ==
  /\ iter' = [iter EXCEPT ![c] = Idle]
  /\ queue' = queue \cup {c}
  /\ IF status = iter[c].orig
     THEN fresh' = fresh \ {c} /\ UNCHANGED <<api, watch>>
     ELSE WriteApi([api EXCEPT !.status = status], {})
  /\ UNCHANGED <<cache, configMap>>

\* The status is written if it changed, and the request is queued again:
\* after the interval, or at once when the write met a conflict.
UpdateStatus(c, status) ==
  /\ iter' = [iter EXCEPT ![c] = Idle]
  /\ queue' = queue \cup {c}
  /\ IF status # iter[c].orig /\ c \in fresh
     THEN WriteApi([api EXCEPT !.status = status], {})
     ELSE fresh' = fresh \ {c} /\ UNCHANGED <<api, watch>>
  /\ UNCHANGED <<cache, configMap>>

UpdateStatusAndRequeue(c) ==
  /\ iter[c].phase = "status"
  /\ \E r \in GetCurrentTable :
       IF r.err THEN Fail(c)
       ELSE UpdateStatus(c, [iter[c].inst.status EXCEPT !.active = r.table])
  /\ UNCHANGED <<dbVars, connectors>>

\* A call of the step that comes next fails and the reconcile returns the error.
CallFails(c) ==
  /\ "call" \in Faults
  /\ iter[c].phase \notin {"idle", "connectors", "tables", "healthier", "healthiergrant"}
  /\ FailUntouched(c)
============================================================================
