------------------------------ MODULE Failures ------------------------------
(***************************************************************************)
(* The failures a run lets happen.  Each kind is a call that returns an    *)
(* error (or, for "query", that fails without returning one) at any time.  *)
(***************************************************************************)
CONSTANT Faults

\* setup:   configuration or a secret cannot be loaded, or the application's
\*          database refuses the connection
\* cleanup: listing or deleting a connector or a table fails
\* query:   one query fails, with an error or with an unread rows.Err()
\* call:    any other call of a reconcile fails
\* crash:   the operator's process stops and is started again
FaultKinds == {"setup", "cleanup", "query", "call", "crash"}

ASSUME FaultsAssumption == Faults \subseteq FaultKinds
=============================================================================
