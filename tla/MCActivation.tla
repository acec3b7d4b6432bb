---------------------------- MODULE MCActivation ----------------------------
(* Model values for Activation: one worker, or two that share the cache.     *)
EXTENDS Activation

CONSTANTS w1, w2

OneWorker == {w1}
TwoWorkers == {w1, w2}
=============================================================================
