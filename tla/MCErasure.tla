----------------------------- MODULE MCErasure -----------------------------
(* Model values for Erasure: one order, whose read models also fold its     *)
(* payment, and a group of its own that folds payments too and starts with  *)
(* no checkpoint row.                                                       *)
EXTENDS Erasure

CONSTANTS placed, expired, paid, order, payment, Order, Network, w1

OrderAndPayment == {placed, expired, paid}
FactBirths == {placed, paid}
OrderExpiry == {expired}
StreamOfFact == [f \in Facts |-> IF f = paid THEN payment ELSE order]

OneWorker == {w1}
OrderGroup == {Order}
BothGroups == {Order, Network}
NoGroups == {}
NewGroup == {Network}

AllGroups == [w \in Workers |-> Groups]
ReadsOf == [g \in Groups |-> IF g = Order THEN {order, payment} ELSE {payment}]
=============================================================================
