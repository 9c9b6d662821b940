---------------------------- MODULE SyncService ----------------------------
(***************************************************************************)
(* What commits, pushes and pulls promise: histories that only grow, each  *)
(* by a commit of its own or by what another one has more.  A pull or a    *)
(* push takes one step here, however often the network is asked, and goes  *)
(* to whichever remote the configuration names.                            *)
(***************************************************************************)
EXTENDS Integers, Sequences, SequencesExt

CONSTANTS Remotes, Commits

VARIABLES mine, theirs    \* HEAD of this profile, and the branch of each remote

Init == mine \in Seq(Commits) /\ theirs \in [Remotes -> Seq(Commits)]

Fresh(c) == c \notin Range(mine) /\ \A r \in Remotes : c \notin Range(theirs[r])

Commit == \E c \in Commits :
    Fresh(c) /\ mine' = Append(mine, c) /\ UNCHANGED theirs

CommitElsewhere == \E c \in Commits, r \in Remotes :
    Fresh(c) /\ theirs' = [theirs EXCEPT ![r] = Append(@, c)] /\ UNCHANGED mine

Push == \E r \in Remotes :
    /\ IsStrictPrefix(theirs[r], mine)
    /\ theirs' = [theirs EXCEPT ![r] = mine] /\ UNCHANGED mine

(* The remote may have grown since it was asked. *)
Pull == \E r \in Remotes :
    /\ IsStrictPrefix(mine, mine') /\ IsPrefix(mine', theirs[r])
    /\ UNCHANGED theirs

Next == Commit \/ CommitElsewhere \/ Push \/ Pull

Spec == Init /\ [][Next]_<<mine, theirs>>
=============================================================================
