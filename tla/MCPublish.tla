------------------------------ MODULE MCPublish ------------------------------
(* Instances of Publish for TLC, one or two connected clients. *)
EXTENDS Publish
CONSTANTS h1, h2
=============================================================================
