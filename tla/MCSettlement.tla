---------------------------- MODULE MCSettlement ----------------------------
(* Model values for Settlement: one runner for both sagas, or one for each.  *)
EXTENDS Settlement

CONSTANTS r1, r2

OneRunner == {r1}
TwoRunners == {r1, r2}
AllSagas == [r \in Runners |-> Sagas]
RefundAmounts == {1, 2}
=============================================================================
