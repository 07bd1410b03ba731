------------------------ MODULE ValidationController ------------------------
(***************************************************************************)
(* ValidationReconciler.Reconcile of controllers/validation_controller.go. *)
(* A setup that fails leaves only the request in the queue, as it was.     *)
(***************************************************************************)
EXTENDS Iteration

CONSTANT MaxFailed  \* bound of status.validationFailedCount

ASSUME MaxFailedAssumption == MaxFailed \in Nat

vc == iter["validation"]

NothingToValidate(p) == ~p.exists \/ GetState(p) \in {"REMOVED", "NEW"}

ValidationSetup == ~NothingToValidate(cache) /\ Setup("validation", "deviation", TRUE)

ValidationSkip == NothingToValidate(cache) /\ SkipRequest("validation")

ValidationDeviation ==
  /\ vc.phase = "deviation"
  /\ DeviationStep("validation", [vc EXCEPT !.phase = "validate"])

\* The verdict of validate(): whether the table matches the inventory within
\* the threshold.  A query that fails unnoticed counts as no rows, in either
\* database, so that the verdict may be wrong either way.
Verdicts(t) == IF "query" \in Faults THEN {"True", "False"}
               ELSE {IF t \in synced THEN "True" ELSE "False"}

\* Mutant of Validate: a table with rows counts as valid.
ValidateAnyTable ==
  /\ vc.phase = "validate"
  /\ IF ~CheckIfTableExists(vc.inst.status.table) THEN FailUntouched("validation")
     ELSE \E h \in HostCounts :
            /\ Goto("validation", [vc EXCEPT !.phase = "status",
                                             !.inst.status = SetValid(@, "True", h)])
            /\ UNCHANGED <<dbVars, connectors>>

\* validate() and SetValid.  The queries fail when the table is gone.  The
\* bound holds for counts that can still be written: beyond it the code goes on
\* counting, and each write would turn a status update of the pipeline
\* controller that runs meanwhile into a conflict.
Validate ==
  /\ vc.phase = "validate"
  /\ IF ~CheckIfTableExists(vc.inst.status.table) THEN FailUntouched("validation")
     ELSE \E verdict \in Verdicts(vc.inst.status.table), h \in HostCounts :
            /\ verdict = "False" /\ "validation" \in fresh => vc.inst.status.failed < MaxFailed
            /\ Goto("validation", [vc EXCEPT !.phase = "status",
                                             !.inst.status = SetValid(@, verdict, h)])
            /\ UNCHANGED <<dbVars, connectors>>

ValidationUpdateStatus == UpdateStatusAndRequeue("validation")

ValidationCallFails == CallFails("validation")

ValidationNext ==
  \/ ValidationSetup \/ ValidationSkip \/ ValidationDeviation \/ Validate
  \/ ValidationUpdateStatus \/ ValidationCallFails
============================================================================
