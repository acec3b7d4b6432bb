----------------------------- MODULE MCDispatch -----------------------------
(* Model values for Dispatch: a walk of two channels, an empty one, and a    *)
(* restaurant that dispatches itself.                                        *)
EXTENDS Dispatch

CONSTANTS r1, r2, s1

OneRunner == {r1}
TwoRunners == {r1, r2}
OneSweeper == {s1}
Walk(n) == [selfDispatched |-> FALSE, channels |-> n]
TwoChannels == {Walk(2)}
SomeReports == {"PICKED_UP", "DELIVERED"}
EveryPlan == {Walk(0), Walk(2), [selfDispatched |-> TRUE, channels |-> 0]}
=============================================================================
