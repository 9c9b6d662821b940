---------------------------- MODULE MCLifecycle ----------------------------
(* Instances of Lifecycle for TLC. *)
EXTENDS Lifecycle
CONSTANTS d1, d2, w1, w2
=============================================================================
