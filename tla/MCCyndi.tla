------------------------------ MODULE MCCyndi ------------------------------
(***************************************************************************)
(* Instances of CyndiOperator for TLC.                                     *)
(***************************************************************************)
EXTENDS CyndiOperator, TLC

\* One ConfigMap; a refresh after two failed validations.
OneConfig == {[base |-> "base1", init |-> 2, attempts |-> 2]}

\* A refresh after the first failed validation.
QuickConfig == {[base |-> "base1", init |-> 1, attempts |-> 1]}

\* The second ConfigMap changes a key that requires a refresh, the third one
\* only a threshold.
ThreeConfigs ==
  {[base |-> "base1", init |-> 2, attempts |-> 2],
   [base |-> "base2", init |-> 2, attempts |-> 2],
   [base |-> "base1", init |-> 1, attempts |-> 1]}

\* Validation succeeds before the attempts are used up (they exceed MaxFailed).
PatientConfigs ==
  {[base |-> "base1", init |-> 9, attempts |-> 9],
   [base |-> "base2", init |-> 9, attempts |-> 9]}

Symmetry == Permutations(Versions)
============================================================================
