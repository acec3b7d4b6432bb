---------------------------- MODULE MCRebalance ----------------------------
(* Model values for Rebalance. *)
EXTENDS Rebalance

CONSTANTS w1, w2, w3

TwoWorkers == {w1, w2}
ThreeWorkers == {w1, w2, w3}
=============================================================================
