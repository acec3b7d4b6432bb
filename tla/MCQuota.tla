------------------------------- MODULE MCQuota -------------------------------
(* Model values for Quota: windows of a few instants, and a ladder of one    *)
(* rung.                                                                     *)
EXTENDS Quota, TLC

CONSTANTS n1, n2, c1, c2

OneNumber == {n1}
TwoCallers == {c1, c2}
ShortWindows == [kind \in Kinds |-> IF kind = "hour" THEN 2 ELSE 3]
SmallLimits == [kind \in Kinds |-> IF kind = "global" THEN 1 ELSE 2]
OneRung == <<1>>
CallersSymmetry == Permutations(TwoCallers)
=============================================================================
