----------------------------- MODULE GitRemote -----------------------------
(***************************************************************************)
(* vcs_push, vcs_pull and vcs_status (cmd/bmd/rpc.go:82-151) over Push,    *)
(* Pull and compareRemote (pkg/vcs/git/git.go), while apply_ops commits    *)
(* and another machine pushes.  Module Profile adds the database file.     *)
(*                                                                         *)
(* Nothing here merges, so a history is the sequence of its commits, and   *)
(* <<>> a branch or a reference that does not exist.  `s0f remote set` may *)
(* name another remote: its URL replaces the one of origin, and            *)
(* refs/remotes/origin keeps what the old one had.  What go-git does       *)
(* inside fetch, push and wt.Pull is external.                             *)
(***************************************************************************)
EXTENDS Integers, Sequences, SequencesExt

CONSTANTS
    Urls, None,  \* URLs of remotes, and no URL
    Alone,       \* one client is connected: no apply_ops runs inside a pull
    MaxCommits   \* bound: batches applied here and there

ASSUME RemoteConstants ==
    None \notin Urls /\ Alone \in BOOLEAN /\ MaxCommits \in Nat \ {0}

VARIABLES
    cfg,      \* the configuration the daemon read when it started
    local,    \* history of HEAD
    remotes,  \* history of the branch each remote has
    track,    \* refs/remotes/origin/<branch> as last fetched or pushed
    of,       \* the remote it was fetched from or pushed to (auxiliary)
    target,   \* what wt.Pull is about to move HEAD to
    origin,   \* URL of the repository's remote named origin
    changes,  \* what the index and the work tree have that HEAD has not
    made,     \* batches applied so far, here and there (bounded by MaxCommits)
    pc,       \* where the pull or push request is
    reply     \* its outcome

repo == <<local, track, of, origin, changes>>
vars == <<cfg, repo, remotes, target, made, pc, reply>>

(* git: the repository could be opened, without which the rest is not read; tracked:
   vcs.branch names the branch fetch updates. *)
Configs == [git : {TRUE}, url : Urls \cup {None}, tracked : BOOLEAN]
              \cup [git : {FALSE}, url : {None}, tracked : {FALSE}]
Replies == {"none", "ok", "VCS_ERROR", "VCS_REMOTE_NOT_CONFIGURED", "VCS_NOT_FAST_FORWARD",
            "VCS_LOCAL_CHANGES_PRESENT", "STORAGE_ERROR", "same", "ahead", "behind", "diverged"}
(* staged: in the index as well; unstaged: the index and the work tree differ *)
Changes == {"none", "staged", "unstaged"}

Init ==
    /\ cfg \in Configs
    /\ local \in {<<>>, <<1>>} /\ remotes \in [Urls -> {<<>>, <<1>>}] /\ made = 1
    /\ track = <<>> /\ of = None /\ target = <<>> /\ origin = None /\ changes = "none"
    /\ pc = "idle" /\ reply = "none"

-----------------------------------------------------------------------------
HasCommit(a, b) == IsPrefix(b, a)       \* commitContains(start a, target b)

(* compareRemote: "ahead" is set when HEAD does not contain the remote, and
   "behind" when the remote does not contain HEAD. *)
Ahead(l, t) == t # <<>> /\ l # t /\ ~HasCommit(l, t)
Behind(l, t) == t # <<>> /\ l # t /\ ~HasCommit(t, l)

(* The remote of a request, and the reference of vcs.branch compareRemote reads. *)
There == remotes[origin]
Seen  == IF cfg.tracked THEN track ELSE <<>>

(* fetch: the reference is the remote's branch, whatever it was before. *)
Fetched ==
    IF There = <<>> THEN UNCHANGED <<track, of>> ELSE track' = There /\ of' = origin

Answer(code) == pc' = "idle" /\ reply' = code

(* apply_ops commits, or changes state.db and fails to write the snapshot, to
   stage (unstaged) or to commit (staged). *)
CommitLocally ==
    /\ cfg.git /\ (Alone => pc = "idle")
    /\ made < MaxCommits /\ made' = made + 1
    /\ local' = Append(local, made + 1)
    /\ changes' = "none"
    /\ UNCHANGED <<cfg, remotes, track, of, target, origin, pc, reply>>
LeavePending ==
    /\ Alone => pc = "idle"
    /\ made < MaxCommits /\ made' = made + 1
    /\ changes' \in IF cfg.git THEN {"staged", "unstaged"} ELSE {"unstaged"}
    /\ UNCHANGED <<cfg, local, remotes, track, of, target, origin, pc, reply>>

(* Another clone pushes a commit. *)
PushElsewhere(u) ==
    /\ made < MaxCommits /\ made' = made + 1
    /\ remotes' = [remotes EXCEPT ![u] = Append(@, made + 1)]
    /\ UNCHANGED <<cfg, repo, target, pc, reply>>

-----------------------------------------------------------------------------
(* handleVCSPush and handleVCSPull up to EnsureRemote, which gives origin the URL of
   the configuration; when that fails, origin is as it was or, deleted and not
   created again, is not there. *)
RequestKeepsUrl(op) ==                                          \* mutant
    /\ pc = "idle"
    /\ cfg.git /\ cfg.url # None
    /\ origin' = (IF origin = None THEN cfg.url ELSE origin) /\ pc' = op /\ reply' = "none"
    /\ UNCHANGED <<cfg, local, track, of, target, changes, remotes, made>>
Request(op) ==
    /\ pc = "idle"
    /\ \/ ~cfg.git /\ Answer("VCS_ERROR") /\ UNCHANGED origin
       \/ cfg.git /\ cfg.url = None /\ Answer("VCS_REMOTE_NOT_CONFIGURED") /\ UNCHANGED origin
       \/ /\ cfg.git /\ cfg.url # None
          /\ \/ origin' = cfg.url /\ pc' = op /\ reply' = "none"
             \/ /\ origin' \in {origin} \cup (IF origin = cfg.url THEN {} ELSE {None})
                /\ Answer("VCS_ERROR")
    /\ UNCHANGED <<cfg, local, track, of, target, changes, remotes, made>>

(* Push moves the remote's branch forward or not at all; go-git's refusal may
   or may not be recognised by errors.Is. *)
PushForced ==                                                   \* mutant
    /\ pc = "push"
    /\ local # <<>>
    /\ remotes' = [remotes EXCEPT ![origin] = local] /\ track' = local /\ of' = origin
    /\ Answer("ok")
    /\ UNCHANGED <<cfg, local, target, origin, changes, made>>
Accepted ==
    /\ local # There /\ HasCommit(local, There)
    /\ remotes' = [remotes EXCEPT ![origin] = local]
Push ==
    /\ pc = "push"
    /\ \/ /\ local \in {<<>>, There}
          /\ Answer("ok") /\ UNCHANGED <<remotes, track, of>>
       \/ /\ Accepted
          /\ track' = local /\ of' = origin
          /\ Answer("ok")
       \/ /\ local # <<>> /\ ~HasCommit(local, There)
          /\ Answer("VCS_NOT_FAST_FORWARD") \/ Answer("VCS_ERROR")
          /\ UNCHANGED <<remotes, track, of>>
    /\ UNCHANGED <<cfg, local, target, origin, changes, made>>

(* Pull: fetch; an empty remote is an error. *)
Fetch ==
    /\ pc = "fetch"
    /\ IF There = <<>> THEN Answer("VCS_ERROR") ELSE pc' = "compare" /\ UNCHANGED reply
    /\ Fetched
    /\ UNCHANGED <<cfg, local, target, origin, changes, remotes, made>>

(* Pull: compareRemote; repo.Head fails before the first commit. *)
CompareSaysDone ==                                              \* mutant
    /\ pc = "compare"
    /\ \/ local = <<>> /\ Answer("VCS_ERROR")
       \/ local # <<>> /\ Ahead(local, Seen) /\ pc' = "load" /\ UNCHANGED reply
       \/ local # <<>> /\ ~Ahead(local, Seen) /\ pc' = "merge" /\ UNCHANGED reply
    /\ UNCHANGED <<cfg, repo, target, remotes, made>>
CompareIgnoresUnborn ==                                         \* mutant
    /\ pc = "compare" /\ local # <<>>
    /\ IF Ahead(local, Seen) THEN Answer("VCS_LOCAL_CHANGES_PRESENT")
                              ELSE pc' = "merge" /\ UNCHANGED reply
    /\ UNCHANGED <<cfg, repo, target, remotes, made>>
Compare ==
    /\ pc = "compare"
    /\ \/ local = <<>> /\ Answer("VCS_ERROR")
       \/ local # <<>> /\ Ahead(local, Seen) /\ Answer("VCS_LOCAL_CHANGES_PRESENT")
       \/ local # <<>> /\ ~Ahead(local, Seen) /\ pc' = "merge" /\ UNCHANGED reply
    /\ UNCHANGED <<cfg, repo, target, remotes, made>>

(* Pull: wt.Pull fetches again; it has nothing to do when HEAD has the remote's
   commit, refuses when neither history continues the other, and otherwise
   moves HEAD and resets the work tree. *)
MergeAnyway ==                                                  \* mutant
    /\ pc = "merge"
    /\ Fetched
    /\ target' = There /\ pc' = "move" /\ UNCHANGED reply
    /\ UNCHANGED <<cfg, local, origin, changes, remotes, made>>
Merge ==
    /\ pc = "merge"
    /\ Fetched
    /\ \/ HasCommit(local, There) /\ pc' = "load" /\ UNCHANGED <<target, reply>>
       \/ local # There /\ HasCommit(There, local)
          /\ target' = There /\ pc' = "move" /\ UNCHANGED reply
       \/ ~HasCommit(There, local) /\ ~HasCommit(local, There)
          /\ Answer("VCS_NOT_FAST_FORWARD") /\ UNCHANGED target
    /\ UNCHANGED <<cfg, local, origin, changes, remotes, made>>

(* go-git moves HEAD, resets the index and then the work tree, one file after the
   other; what is staged goes without a word. *)
MoveHead ==
    /\ pc = "move"
    /\ changes # "unstaged"
    /\ local' = target /\ changes' = "none" /\ target' = <<>>
    /\ pc' = "load" /\ UNCHANGED reply
    /\ UNCHANGED <<cfg, remotes, track, of, origin, made>>

(* What a move that does not end leaves: nothing of it, or HEAD moved, and the old
   content still staged against it (staged), or the index of the new HEAD over a work
   tree that is not (unstaged), or all of the new HEAD.  A work tree with changes the
   index has not is left alone. *)
MoveCut ==
    \/ UNCHANGED <<local, changes>>
    \/ /\ local' = target
       /\ IF changes = "unstaged" THEN UNCHANGED changes ELSE changes' \in Changes

(* wt.Pull fails in the move: such changes are refused when HEAD has moved already,
   and the disk may fail at any file. *)
MoveFails ==
    /\ pc = "move"
    /\ MoveCut /\ target' = <<>>
    /\ Answer("VCS_ERROR")
    /\ UNCHANGED <<cfg, remotes, track, of, origin, made>>

(* handleVCSPull: LoadTree for the answer *)
Load ==
    /\ pc = "load"
    /\ Answer("ok") \/ Answer("STORAGE_ERROR")
    /\ UNCHANGED <<cfg, repo, remotes, target, made>>

(* handleVCSStatus *)
Status ==
    /\ pc = "idle" /\ pc' = "idle"
    /\ reply' = IF ~cfg.git \/ local = <<>> THEN "VCS_ERROR"
                ELSE IF Ahead(local, Seen)
                     THEN IF Behind(local, Seen) THEN "diverged" ELSE "ahead"
                     ELSE IF Behind(local, Seen) THEN "behind" ELSE "same"
    /\ UNCHANGED <<cfg, repo, remotes, target, made>>

(* The network, the remote or the disk fails, a push or a fetch that did its work
   included. *)
Fails ==
    /\ \/ pc = "push" /\ (Accepted \/ UNCHANGED remotes) /\ UNCHANGED <<track, of>>
       \/ pc \in {"fetch", "merge"} /\ (Fetched \/ UNCHANGED <<track, of>>) /\ UNCHANGED remotes
    /\ Answer("VCS_ERROR")
    /\ UNCHANGED <<cfg, local, origin, changes, target, made>>

(* The daemon dies, and another one reads the configuration, which `s0f remote
   set` may have changed. *)
Restart ==
    /\ cfg' \in Configs
    /\ pc' = "idle" /\ reply' = "none" /\ target' = <<>>
    /\ UNCHANGED <<local, changes>> \/ (pc = "move" /\ MoveCut)
    /\ UNCHANGED <<track, of, origin, remotes, made>>

Step == Push \/ Fetch \/ Compare \/ Merge \/ MoveHead \/ MoveFails \/ Load \/ Fails

Next ==
    \/ CommitLocally \/ LeavePending \/ Status \/ Restart
    \/ \E u \in Urls : PushElsewhere(u)
    \/ \E op \in {"push", "fetch"} : Request(op)
    \/ Step

Spec == Init /\ [][Next]_vars
FairSpec == Spec /\ WF_vars(Step)

-----------------------------------------------------------------------------
(* The repository and the request have the types of what they stand for, and a
   request that talks to a remote talks to the one the configuration names, also
   when an earlier daemon used another one. *)
TypeOK ==
    /\ cfg \in Configs
    /\ {local, track, target} \subseteq Seq(1 .. MaxCommits)
    /\ remotes \in [Urls -> Seq(1 .. MaxCommits)]
    /\ {of, origin} \subseteq Urls \cup {None}
    /\ changes \in Changes /\ made \in 1 .. MaxCommits
    /\ pc \in {"idle", "push", "fetch", "compare", "merge", "move", "load"}
    /\ reply \in Replies
    /\ pc # "idle" => origin = cfg.url /\ origin # None

(* Once there is a commit, a pull or push answered ok leaves nothing fetched from its
   remote that HEAD does not have, whatever other machines pushed meanwhile. *)
OkMeansCaughtUp ==
    [][pc # "idle" /\ reply' = "ok" /\ local' # <<>> /\ of' = origin'
          => HasCommit(local', track')]_vars

(* docs/remote_workflows.md:21: a pull is refused with VCS_LOCAL_CHANGES_PRESENT
   because local commits are ahead of the fetched branch. *)
RefusedOnlyWhenAhead ==
    reply = "VCS_LOCAL_CHANGES_PRESENT" => ~HasCommit(track, local)

(* Every push and pull is answered, also before the first commit. *)
EveryRequestEnds == pc # "idle" ~> pc = "idle"
=============================================================================
