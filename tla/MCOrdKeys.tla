------------------------------ MODULE MCOrdKeys ------------------------------
(* An instance of OrdKeys for TLC: a float just fine enough for every operation
   of the behaviour. *)
EXTENDS OrdKeys
=============================================================================
