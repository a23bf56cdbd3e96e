------------------------------- MODULE Admission -------------------------------
(***************************************************************************)
(* What a request passes before its handler runs (services/api/app/deps.py *)
(* and auth): get_principal finds out whose it is, enforce_rate_limit      *)
(* spends a token of that caller. The two share no state.                  *)
(***************************************************************************)
EXTENDS TokenGate, RequestBudget

AdmissionSpec == GateSpec /\ BudgetSpec

\* A request gets in with a caller that is current, within the lives of the caches of the
\* keys and the groups, and within its caller's budget, over all replicas.
AdmissionIsSound == []BudgetIsKept /\ CallersAreCurrent
=============================================================================
