----------------------------- MODULE Lifecycle -----------------------------
(***************************************************************************)
(* What the operator promises about one pipeline, as the README's state    *)
(* diagram draws it ("States"): which state may follow which, that the     *)
(* application keeps its hosts view across refreshes, and that a removed   *)
(* pipeline leaves nothing behind.  CyndiOperator implements it.           *)
(***************************************************************************)
CONSTANT TablesLost  \* tables may disappear under the operator

VARIABLES
  state,      \* the state of the pipeline, "GONE" once it is removed
  footprint,  \* there are tables or connectors
  shown       \* there is a hosts view

lifeVars == <<state, footprint, shown>>

States == {"NEW", "INITIAL_SYNC", "VALID", "INVALID", "REMOVED", "GONE"}

Init == state = "NEW" /\ footprint = FALSE /\ shown = FALSE
----------------------------------------------------------------------------
Move(from, to) == state \in from /\ state' = to /\ UNCHANGED <<footprint, shown>>

StartInitialSync == Move({"NEW"}, "INITIAL_SYNC")

BecomeValid == Move({"INITIAL_SYNC", "INVALID"}, "VALID")

BecomeInvalid == Move({"VALID"}, "INVALID")

Refresh == Move({"INITIAL_SYNC", "VALID", "INVALID"}, "NEW")

Remove == Move(States \ {"REMOVED", "GONE"}, "REMOVED")

\* Without anything to clean up the resource goes at once.
RemoveUntouched == ~footprint /\ Move({"NEW"}, "GONE")

Finish == ~footprint /\ Move({"REMOVED"}, "GONE")

\* Tables and connectors come and go, and the view with its table; nobody
\* takes the view away before the pipeline is removed.
Work ==
  /\ state # "GONE"
  /\ footprint' \in BOOLEAN
  /\ shown' \in BOOLEAN /\ (shown' => footprint')
  /\ shown /\ ~shown' => state = "REMOVED" \/ TablesLost
  /\ UNCHANGED state

Next ==
  \/ StartInitialSync \/ BecomeValid \/ BecomeInvalid \/ Refresh
  \/ Remove \/ RemoveUntouched \/ Finish \/ Work

Spec == Init /\ [][Next]_lifeVars
============================================================================
