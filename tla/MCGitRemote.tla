----------------------------- MODULE MCGitRemote -----------------------------
(* Instances of GitRemote and Profile for TLC. *)
EXTENDS Profile
CONSTANTS c1, c2, u1, u2
=============================================================================
