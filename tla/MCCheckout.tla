----------------------------- MODULE MCCheckout -----------------------------
(* Model values for Checkout: two attempts at one cart, on two lanes or one. *)
EXTENDS Checkout

CONSTANTS o1, o2, o3, l1, l2

OneAttempt == {o1}
TwoAttempts == {o1, o2}
ThreeAttempts == {o1, o2, o3}
OneLane == {l1}
TwoLanes == {l1, l2}

\* The first two attempts share a lane, the third has another one.
Shared == [o \in Orders |-> IF o = o3 THEN l2 ELSE l1]
Apart == [o \in Orders |-> IF o = o1 THEN l1 ELSE l2]
=============================================================================
