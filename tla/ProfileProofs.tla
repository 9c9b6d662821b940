--------------------------- MODULE ProfileProofs ---------------------------
(***************************************************************************)
(* Proofs about GitRemote and Profile: pulls and pushes, the histories     *)
(* they move and the state.db a pull replaces, with the daemon dying at    *)
(* any step, the other machine pushing at any time, and any number of      *)
(* connections.  What needs the client to be alone is said to.             *)
(***************************************************************************)
EXTENDS Profile, SequenceTheorems, TLAPS

-----------------------------------------------------------------------------
(* Histories *)

LEMMA PrefixIff ==
  ASSUME NEW S, NEW s \in Seq(S), NEW t \in Seq(S)
  PROVE  IsPrefix(s, t) <=> Len(s) <= Len(t) /\ \A k \in 1 .. Len(s) : s[k] = t[k]
  <1>1. ASSUME IsPrefix(s, t) PROVE Len(s) <= Len(t) /\ \A k \in 1 .. Len(s) : s[k] = t[k]
    <2>1. Len(s) <= Len(t) /\ SubSeq(s, 1, Len(s)) = SubSeq(t, 1, Len(s))
      BY <1>1 DEF IsPrefix
    <2>2. \A k \in 1 .. Len(s) : SubSeq(s, 1, Len(s))[k] = s[k] /\ SubSeq(t, 1, Len(s))[k] = t[k]
      BY <2>1
    <2> QED BY <2>1, <2>2
  <1>2. ASSUME Len(s) <= Len(t), \A k \in 1 .. Len(s) : s[k] = t[k] PROVE IsPrefix(s, t)
    <2>1. SubSeq(s, 1, Len(s)) = SubSeq(t, 1, Len(s))
      BY <1>2
    <2> QED BY <1>2, <2>1 DEF IsPrefix
  <1> QED BY <1>1, <1>2

LEMMA PrefixSelf == ASSUME NEW S, NEW s \in Seq(S) PROVE IsPrefix(s, s) /\ IsPrefix(<<>>, s)
  BY DEF IsPrefix

LEMMA PrefixTrans ==
  ASSUME NEW S, NEW s \in Seq(S), NEW t \in Seq(S), NEW u \in Seq(S), IsPrefix(s, t), IsPrefix(t, u)
  PROVE  IsPrefix(s, u)
  BY PrefixIff

LEMMA PrefixAppend ==
  ASSUME NEW S, NEW s \in Seq(S), NEW t \in Seq(S), NEW x \in S, IsPrefix(s, t)
  PROVE  IsPrefix(s, Append(t, x)) /\ t # Append(t, x) /\ Append(t, x) \in Seq(S)
  <1>1. Append(t, x) \in Seq(S) /\ Len(Append(t, x)) = Len(t) + 1
    OBVIOUS
  <1>2. \A k \in 1 .. Len(t) : Append(t, x)[k] = t[k]
    OBVIOUS
  <1>3. Len(s) <= Len(t) /\ \A k \in 1 .. Len(s) : s[k] = t[k]
    BY PrefixIff
  <1>4. IsPrefix(s, Append(t, x))
    <2>1. Len(s) <= Len(Append(t, x)) /\ \A k \in 1 .. Len(s) : s[k] = Append(t, x)[k]
      BY <1>1, <1>2, <1>3
    <2> DEFINE u == Append(t, x)
    <2> HIDE DEF u
    <2>2. u \in Seq(S) /\ Len(s) <= Len(u) /\ \A k \in 1 .. Len(s) : s[k] = u[k]
      BY <1>1, <2>1 DEF u
    <2>3. IsPrefix(s, u)
      BY <2>2, PrefixIff
    <2> QED BY <2>3 DEF u
  <1> QED BY <1>1, <1>4

(* A history that ends with a new commit begins no history without it, and what begins
   a history after a new commit began it before, unless it has the new commit too. *)
LEMMA AppendNew ==
  ASSUME NEW m \in Nat, NEW s \in Seq(1 .. m), NEW t \in Seq(1 .. m)
  PROVE  /\ Append(s, m + 1) \in Seq(1 .. m + 1) /\ t \in Seq(1 .. m + 1)
         /\ ~ IsPrefix(Append(s, m + 1), t)
         /\ t # Append(s, m + 1) /\ Append(s, m + 1) # <<>>
         /\ IsPrefix(t, Append(s, m + 1)) => IsPrefix(t, s)
  <1>1. s \in Seq(1 .. m + 1) /\ t \in Seq(1 .. m + 1) /\ m + 1 \in 1 .. m + 1
    <2>1. 1 .. m \subseteq 1 .. m + 1
      OBVIOUS
    <2> QED BY <2>1, SeqMonotonic
  <1> DEFINE u == Append(s, m + 1)
  <1>2. u \in Seq(1 .. m + 1) /\ Len(u) = Len(s) + 1
    BY <1>1
  <1>3. u[Len(s) + 1] = m + 1 /\ \A k \in 1 .. Len(s) : u[k] = s[k]
    BY <1>1
  <1>4. Len(s) \in Nat /\ Len(t) \in Nat /\ \A k \in 1 .. Len(t) : t[k] # m + 1
    OBVIOUS
  <1> HIDE DEF u
  <1>5. ~ IsPrefix(u, t)
    <2>1. SUFFICES ASSUME IsPrefix(u, t) PROVE FALSE
      OBVIOUS
    <2>2. Len(u) <= Len(t) /\ \A k \in 1 .. Len(u) : u[k] = t[k]
      BY <1>1, <1>2, <2>1, PrefixIff
    <2>3. Len(s) + 1 \in 1 .. Len(u) /\ Len(s) + 1 \in 1 .. Len(t)
      BY <1>2, <1>4, <2>2
    <2> QED BY <1>3, <1>4, <2>2, <2>3
  <1>6. ASSUME IsPrefix(t, u) PROVE IsPrefix(t, s)
    <2>1. Len(t) <= Len(s) + 1 /\ \A k \in 1 .. Len(t) : t[k] = u[k]
      BY <1>1, <1>2, <1>6, PrefixIff
    <2>2. ASSUME Len(t) = Len(s) + 1 PROVE FALSE
      <3>1. Len(s) + 1 \in 1 .. Len(t)
        BY <1>4, <2>2
      <3> QED BY <1>3, <1>4, <2>1, <3>1
    <2>3. Len(t) <= Len(s) /\ \A k \in 1 .. Len(t) : t[k] = s[k]
      BY <1>3, <1>4, <2>1, <2>2
    <2> QED BY <2>3, PrefixIff
  <1>7. t # u /\ u # <<>>
    BY <1>1, <1>2, <1>5, PrefixSelf
  <1> QED BY <1>1, <1>2, <1>5, <1>6, <1>7 DEF u

(* Requests and histories. *)
Known    == /\ {local, track, target} \subseteq Seq(1 .. made)
            /\ remotes \in [Urls -> Seq(1 .. made)]
Unsaid   == pc # "idle" => reply = "none"
Followed == of \in Urls => IsPrefix(track, remotes[of])
Found    == pc \in {"compare", "merge"} => There # <<>>
Moving   ==
    /\ pc # "move" => target = <<>>
    /\ pc = "move" => /\ IsPrefix(track, target) /\ IsPrefix(target, There)
                      /\ target # local
                      /\ Alone => IsPrefix(local, target)
Merged   == pc = "load" => IsPrefix(track, local)

(* What the type invariant says beside the histories. *)
Requests ==
    /\ cfg \in Configs /\ {of, origin} \subseteq Urls \cup {None}
    /\ changes \in Changes /\ made \in 1 .. MaxCommits
    /\ pc \in {"idle", "push", "fetch", "compare", "merge", "move", "load"}
    /\ reply \in Replies
    /\ pc # "idle" => origin = cfg.url /\ origin # None

RemoteInv == Requests /\ Known /\ Unsaid /\ Followed /\ Found /\ Moving /\ Merged

(* The files, and what the commits hold; a file that is not whole is a change that is not
   in the index. *)
StoreTyped ==
    /\ files \in Seq(SUBSET Batches) /\ files # <<>> /\ file \in {"whole", "gone", "torn"}
    /\ file # "whole" => changes = "unstaged"
    /\ at \in [Conns -> 0 .. Len(files)]
    /\ holds \in [Batches -> SUBSET Batches] /\ acked \subseteq 1 .. made

(* One client: what is committed here is only added to elsewhere, so of two histories
   that continue HEAD the longer one holds more; and no committed batch is in the file
   only. *)
Histories == {local, target} \cup {remotes[u] : u \in Urls}
Carried ==
    \A x, y \in Histories :
        IsPrefix(local, x) /\ IsPrefix(x, y) => HoldsOf(x) \subseteq HoldsOf(y)
Kept == acked \cap File \subseteq HoldsOf(local)

StoreInv == StoreTyped /\ RestartServesHead
AloneInv == CommittedIsRecoverable /\ Carried /\ Kept

LEMMA Typed == RemoteInv => TypeOK
  <1> SUFFICES ASSUME Requests, Known PROVE TypeOK
    BY DEF RemoteInv
  <1>1. 1 .. made \subseteq 1 .. MaxCommits
    BY RemoteConstants DEF Requests
  <1>2. Seq(1 .. made) \subseteq Seq(1 .. MaxCommits)
    BY <1>1, SeqMonotonic
  <1>3. {local, track, target} \subseteq Seq(1 .. MaxCommits) /\ remotes \in [Urls -> Seq(1 .. MaxCommits)]
    BY <1>2 DEF Known
  <1> QED BY <1>3 DEF Requests, TypeOK

LEMMA InitRemote == Init => RemoteInv
  <1> SUFFICES ASSUME Init PROVE RemoteInv
    OBVIOUS
  <1>1. Requests
    <2>1. made \in 1 .. MaxCommits
      BY RemoteConstants DEF Init
    <2> QED BY <2>1 DEF Init, Requests, Changes, Replies
  <1>2. 1 \in 1 .. made
    BY DEF Init
  <1>3. <<>> \in Seq(1 .. made) /\ <<1>> \in Seq(1 .. made)
    <2>1. <<1>> = Append(<<>>, 1)
      OBVIOUS
    <2> QED BY <1>2, <2>1, EmptySeq, AppendProperties
  <1>4. Known
    BY <1>3 DEF Init, Known
  <1>5. Unsaid /\ Found /\ Moving /\ Merged
    BY DEF Init, Unsaid, Found, Moving, Merged
  <1>6. Followed
    BY RemoteConstants DEF Init, Followed
  <1> QED BY <1>1, <1>4, <1>5, <1>6 DEF RemoteInv

(* A request talks to a remote there is. *)
LEMMA Asked ==
  ASSUME RemoteInv, pc # "idle" PROVE origin \in Urls /\ There \in Seq(1 .. made)
  BY DEF RemoteInv, Requests, Known, There

(* A new batch, here or on another machine. *)
LEMMA MadeGrows ==
  ASSUME Requests, made < MaxCommits, made' = made + 1
  PROVE  /\ made \in Nat /\ made' \in 1 .. MaxCommits
         /\ \A s \in Seq(1 .. made) :
               /\ s \in Seq(1 .. made') /\ Append(s, made + 1) \in Seq(1 .. made')
               /\ IsPrefix(s, Append(s, made + 1))
  <1>1. made \in Nat /\ made' \in 1 .. MaxCommits
    BY RemoteConstants DEF Requests
  <1>2. ASSUME NEW s \in Seq(1 .. made)
        PROVE  /\ s \in Seq(1 .. made') /\ Append(s, made + 1) \in Seq(1 .. made')
               /\ IsPrefix(s, Append(s, made + 1))
    <2>1. s \in Seq(1 .. made + 1) /\ Append(s, made + 1) \in Seq(1 .. made + 1) /\ made + 1 \in 1 .. made + 1
      BY <1>1, AppendNew
    <2>2. IsPrefix(s, s)
      BY PrefixSelf
    <2> QED BY <2>1, <2>2, PrefixAppend
  <1> QED BY <1>1, <1>2

LEMMA RemoteCommitLocally == ASSUME RemoteInv, CommitLocally PROVE RemoteInv'
  <1> USE DEF CommitLocally
  <1>1. UNCHANGED <<cfg, remotes, track, of, target, origin, pc, reply>> /\ local' = Append(local, made + 1)
    OBVIOUS
  <1>2. Requests'
    BY MadeGrows DEF RemoteInv, Requests, Changes
  <1>3. Known'
    BY MadeGrows DEF RemoteInv, Known
  <1>4. made \in Nat /\ {local, track, target} \subseteq Seq(1 .. made)
    BY MadeGrows DEF RemoteInv, Known
  <1>5. Unsaid' /\ Followed' /\ Found'
    BY <1>1 DEF RemoteInv, Unsaid, Followed, Found, There
  <1>6. Moving'
    <2>1. target # local'
      BY <1>1, <1>4, AppendNew
    <2> QED BY <1>1, <2>1 DEF RemoteInv, Moving, There
  <1>7. Merged'
    <2> SUFFICES ASSUME pc = "load" PROVE IsPrefix(track, Append(local, made + 1))
      BY <1>1 DEF Merged
    <2>1. IsPrefix(track, local) /\ IsPrefix(local, Append(local, made + 1))
      BY <1>4, MadeGrows DEF RemoteInv, Merged
    <2>2. {track, local, Append(local, made + 1)} \subseteq Seq(1 .. made + 1)
      BY <1>4, AppendNew
    <2> QED BY <2>1, <2>2, PrefixTrans
  <1> QED BY <1>2, <1>3, <1>5, <1>6, <1>7 DEF RemoteInv

LEMMA RemoteLeavePending == ASSUME RemoteInv, LeavePending PROVE RemoteInv'
  <1> USE DEF LeavePending
  <1>1. UNCHANGED <<cfg, local, remotes, track, of, target, origin, pc, reply>>
    OBVIOUS
  <1>2. Requests'
    BY MadeGrows DEF RemoteInv, Requests, Changes
  <1>3. Known'
    BY MadeGrows DEF RemoteInv, Known
  <1> QED BY <1>1, <1>2, <1>3 DEF RemoteInv, Unsaid, Followed, Found, There, Moving, Merged

LEMMA RemotePushElsewhere == ASSUME RemoteInv, NEW u \in Urls, PushElsewhere(u) PROVE RemoteInv'
  <1>1. /\ UNCHANGED <<cfg, local, track, of, target, origin, changes, pc, reply>>
        /\ remotes' = [remotes EXCEPT ![u] = Append(remotes[u], made + 1)]
        /\ made < MaxCommits /\ made' = made + 1
    BY DEF PushElsewhere, repo
  <1>2. Requests'
    BY <1>1, MadeGrows DEF RemoteInv, Requests
  <1>3. Known'
    BY <1>1, MadeGrows DEF RemoteInv, Known
  <1>4. made \in Nat /\ {track, target} \subseteq Seq(1 .. made)
    BY <1>1, MadeGrows DEF RemoteInv, Known
  <1>5. \A v \in Urls : /\ remotes[v] \in Seq(1 .. made)
                        /\ remotes'[v] \in {remotes[v], Append(remotes[v], made + 1)}
    BY <1>1 DEF RemoteInv, Known
  <1>6. ASSUME NEW v \in Urls, NEW s \in {track, target}, IsPrefix(s, remotes[v])
        PROVE  IsPrefix(s, remotes'[v])
    <2>1. CASE remotes'[v] = Append(remotes[v], made + 1)
      <3>1. remotes[v] \in Seq(1 .. made) /\ s \in Seq(1 .. made) /\ Requests
        BY <1>4, <1>5 DEF RemoteInv
      <3>2. IsPrefix(remotes[v], Append(remotes[v], made + 1))
        BY <1>1, <3>1, MadeGrows
      <3>3. {s, remotes[v], Append(remotes[v], made + 1)} \subseteq Seq(1 .. made + 1)
        BY <1>4, <3>1, AppendNew
      <3>4. IsPrefix(s, Append(remotes[v], made + 1))
        BY <1>6, <3>2, <3>3, PrefixTrans
      <3> QED BY <2>1, <3>4
    <2> QED BY <1>5, <1>6, <2>1
  <1>7. \A v \in Urls : remotes[v] # <<>> => remotes'[v] # <<>>
    BY <1>4, <1>5, AppendNew
  <1>8. pc # "idle" => origin \in Urls
    BY Asked
  <1>9. Followed' /\ Found' /\ Moving'
    BY <1>1, <1>6, <1>7, <1>8 DEF RemoteInv, Followed, Found, There, Moving
  <1>10. Unsaid' /\ Merged'
    BY <1>1 DEF RemoteInv, Unsaid, Merged
  <1> QED BY <1>2, <1>3, <1>9, <1>10 DEF RemoteInv

(* The steps of a request, the answer of vcs_status, and a restart. *)
LEMMA RemoteRequest == ASSUME RemoteInv, NEW op \in {"push", "fetch"}, Request(op) PROVE RemoteInv'
  <1>1. UNCHANGED <<cfg, local, track, of, target, changes, remotes, made>> /\ pc = "idle" /\ pc' \in {"idle", op}
    BY DEF Request, Answer
  <1>2. /\ origin' \in {origin, None, cfg.url} /\ reply' \in Replies
        /\ pc' # "idle" => origin' = cfg.url /\ cfg.url # None /\ reply' = "none"
    BY DEF Request, Answer, Replies
  <1>3. cfg.url \in Urls \cup {None}
    BY DEF RemoteInv, Requests, Configs
  <1>4. Requests' /\ Unsaid'
    BY <1>1, <1>2, <1>3 DEF RemoteInv, Requests, Unsaid
  <1> QED BY <1>1, <1>4 DEF RemoteInv, Known, Followed, Found, Moving, Merged

LEMMA RemoteAccepted ==
  ASSUME RemoteInv, pc # "idle", Accepted
  PROVE  /\ remotes' = [remotes EXCEPT ![origin] = local] /\ remotes'[origin] = local
         /\ remotes' \in [Urls -> Seq(1 .. made)]
         /\ local # <<>> /\ IsPrefix(There, local)
         /\ of \in Urls => IsPrefix(track, remotes'[of])
  <1>1. /\ remotes' = [remotes EXCEPT ![origin] = local] /\ IsPrefix(There, local) /\ local # There
        /\ origin \in Urls /\ {There, track, local} \subseteq Seq(1 .. made)
    BY Asked DEF Accepted, HasCommit, RemoteInv, Known
  <1>2. remotes' \in [Urls -> Seq(1 .. made)] /\ remotes'[origin] = local
        /\ \A v \in Urls : v # origin => remotes'[v] = remotes[v]
    BY <1>1 DEF RemoteInv, Known
  <1>3. local # <<>>
    <2>1. SUFFICES ASSUME local = <<>> PROVE There = <<>>
      BY <1>1
    <2>2. Len(There) <= 0 /\ Len(There) \in Nat
      <3>1. Len(There) <= Len(local) /\ Len(local) = 0
        BY <1>1, <2>1, PrefixIff
      <3> QED BY <1>1, <3>1
    <2> QED BY <1>1, <2>2
  <1>4. ASSUME of \in Urls PROVE IsPrefix(track, remotes'[of])
    <2>1. IsPrefix(track, remotes[of])
      BY <1>4 DEF RemoteInv, Followed
    <2>2. CASE of = origin
      <3>1. IsPrefix(track, There)
        BY <2>1, <2>2 DEF There
      <3>2. IsPrefix(track, local)
        BY <1>1, <3>1, PrefixTrans
      <3> QED BY <1>2, <2>2, <3>2
    <2> QED BY <1>2, <1>4, <2>1, <2>2
  <1> QED BY <1>1, <1>2, <1>3, <1>4

LEMMA RemotePush ==
  ASSUME RemoteInv, Push
  PROVE  RemoteInv' /\ (reply' = "ok" /\ local' # <<>> /\ of' = origin' => IsPrefix(track', local'))
  <1>1. UNCHANGED <<cfg, local, target, origin, changes, made>> /\ pc = "push" /\ pc' = "idle" /\ reply' \in Replies
    BY DEF Push, Answer, Replies
  <1>2. origin \in Urls /\ local \in Seq(1 .. made)
    BY <1>1, Asked DEF RemoteInv, Known
  <1>3. /\ track' \in {local, track} /\ of' \in {of, origin} /\ remotes' \in [Urls -> Seq(1 .. made)]
        /\ of' \in Urls => IsPrefix(track', remotes'[of'])
        /\ reply' = "ok" /\ local' # <<>> /\ of' = origin' => IsPrefix(track', local')
    <2>1. CASE UNCHANGED <<remotes, track, of>>
      <3>1. Accepted => local = There
        BY <1>1, <2>1, RemoteAccepted DEF There
      <3>2. reply' = "ok" /\ local # <<>> => local = There
        BY <3>1 DEF Push, Answer
      <3> QED BY <1>1, <1>2, <2>1, <3>2 DEF RemoteInv, Known, Followed, There
    <2>2. CASE Accepted /\ track' = local /\ of' = origin
      <3>1. IsPrefix(local, local)
        BY <1>2, PrefixSelf
      <3> QED BY <1>1, <1>2, <2>2, <3>1, RemoteAccepted
    <2> QED BY <2>1, <2>2 DEF Push
  <1>4. Requests' /\ Unsaid' /\ Known'
    BY <1>1, <1>2, <1>3 DEF RemoteInv, Requests, Unsaid, Known
  <1> QED BY <1>1, <1>3, <1>4 DEF RemoteInv, Followed, Found, Moving, Merged

(* Whatever a fetch leaves of the reference, it is one of its remote. *)
LEMMA RemoteFetched ==
  ASSUME RemoteInv, pc # "idle", Fetched \/ UNCHANGED <<track, of>>, UNCHANGED <<origin, remotes, made>>
  PROVE  /\ track' \in Seq(1 .. made) /\ of' \in Urls \cup {None}
         /\ of' \in Urls => IsPrefix(track', remotes[of'])
         /\ Fetched /\ There # <<>> => IsPrefix(track', There) /\ track' = There
  <1>1. origin \in Urls /\ There \in Seq(1 .. made) /\ IsPrefix(There, There)
    BY Asked, PrefixSelf
  <1>2. CASE UNCHANGED <<track, of>>
    BY <1>1, <1>2 DEF RemoteInv, Requests, Known, Followed, Fetched
  <1>3. CASE track' = There /\ of' = origin
    BY <1>1, <1>3 DEF There
  <1> QED BY <1>2, <1>3 DEF Fetched

LEMMA RemoteFetch == ASSUME RemoteInv, Fetch PROVE RemoteInv'
  <1>1. /\ UNCHANGED <<cfg, local, target, origin, changes, remotes, made>> /\ pc = "fetch" /\ Fetched
        /\ \/ pc' = "idle" /\ reply' \in Replies
           \/ pc' = "compare" /\ reply' = reply /\ There # <<>>
    BY DEF Fetch, Answer, Replies
  <1>2. /\ track' \in Seq(1 .. made) /\ of' \in Urls \cup {None}
        /\ of' \in Urls => IsPrefix(track', remotes[of'])
    BY <1>1, RemoteFetched
  <1>3. Requests' /\ Unsaid'
    BY <1>1, <1>2 DEF RemoteInv, Requests, Unsaid
  <1>4. Known' /\ Followed' /\ Found'
    BY <1>1, <1>2 DEF RemoteInv, Known, Followed, Found, There
  <1> QED BY <1>1, <1>3, <1>4 DEF RemoteInv, Moving, Merged

LEMMA RemoteCompare == ASSUME RemoteInv, Compare PROVE RemoteInv'
  <1>1. UNCHANGED <<cfg, repo, target, remotes, made>> /\ pc = "compare" /\ pc' \in {"idle", "merge"}
    BY DEF Compare, Answer
  <1>2. Requests' /\ Unsaid'
    BY <1>1 DEF RemoteInv, Requests, Unsaid, Compare, Answer, Replies, repo
  <1> QED BY <1>1, <1>2 DEF RemoteInv, Known, Followed, Found, There, Moving, Merged, repo

LEMMA RemoteMerge == ASSUME RemoteInv, Merge PROVE RemoteInv'
  <1>1. /\ UNCHANGED <<cfg, local, origin, changes, remotes, made>> /\ pc = "merge" /\ Fetched
        /\ \/ HasCommit(local, There) /\ pc' = "load" /\ UNCHANGED <<target, reply>>
           \/ /\ local # There /\ HasCommit(There, local)
              /\ target' = There /\ pc' = "move" /\ UNCHANGED reply
           \/ pc' = "idle" /\ reply' \in Replies /\ UNCHANGED target
    BY DEF Merge, Answer, Replies
  <1>2. /\ track' \in Seq(1 .. made) /\ of' \in Urls \cup {None}
        /\ of' \in Urls => IsPrefix(track', remotes[of'])
        /\ IsPrefix(track', There)
    BY <1>1, RemoteFetched DEF RemoteInv, Found
  <1>3. /\ There \in Seq(1 .. made) /\ local \in Seq(1 .. made) /\ target \in Seq(1 .. made)
        /\ IsPrefix(There, There) /\ There' = There
    BY <1>1, Asked, PrefixSelf DEF RemoteInv, Known, There
  <1>4. Requests' /\ Unsaid'
    BY <1>1, <1>2 DEF RemoteInv, Requests, Unsaid
  <1>5. Known' /\ Followed' /\ Found'
    BY <1>1, <1>2, <1>3 DEF RemoteInv, Known, Followed, Found
  <1>6. Merged'
    <2>1. ASSUME HasCommit(local, There) PROVE IsPrefix(track', local)
      BY <1>2, <1>3, <2>1, PrefixTrans DEF HasCommit
    <2> QED BY <1>1, <2>1 DEF Merged
  <1>7. Moving'
    BY <1>1, <1>2, <1>3 DEF RemoteInv, Moving, HasCommit
  <1> QED BY <1>4, <1>5, <1>6, <1>7 DEF RemoteInv

LEMMA CutLeaves ==
  ASSUME RemoteInv, MoveCut
  PROVE  local' \in {local, target} /\ changes' \in Changes
  BY DEF RemoteInv, Requests, MoveCut

LEMMA RemoteMove == ASSUME RemoteInv, MoveHead \/ MoveFails PROVE RemoteInv'
  <1>1. /\ UNCHANGED <<cfg, remotes, track, of, origin, made>>
        /\ pc = "move" /\ target' = <<>>
        /\ local' \in {local, target} /\ changes' \in Changes
        /\ \/ pc' = "idle" /\ reply' \in Replies
           \/ pc' = "load" /\ reply' = reply /\ local' = target
    BY CutLeaves DEF MoveHead, MoveFails, Answer, Replies, Changes
  <1>2. Requests' /\ Unsaid'
    BY <1>1 DEF RemoteInv, Requests, Unsaid
  <1>3. Known'
    BY <1>1, EmptySeq DEF RemoteInv, Known
  <1> QED BY <1>1, <1>2, <1>3 DEF RemoteInv, Followed, Found, Moving, Merged

LEMMA RemoteLoad ==
  ASSUME RemoteInv, Load
  PROVE  RemoteInv' /\ IsPrefix(track', local')
  <1>1. UNCHANGED <<cfg, repo, remotes, target, made>> /\ pc = "load" /\ pc' = "idle"
    BY DEF Load, Answer
  <1>2. Requests' /\ Unsaid'
    BY <1>1 DEF RemoteInv, Requests, Unsaid, Load, Answer, Replies, repo
  <1> QED BY <1>1, <1>2 DEF RemoteInv, Known, Followed, Found, Moving, Merged, repo

LEMMA RemoteStatus == ASSUME RemoteInv, Status PROVE RemoteInv'
  <1>1. UNCHANGED <<cfg, repo, remotes, target, made>> /\ pc = "idle" /\ pc' = "idle"
    BY DEF Status
  <1>2. Requests' /\ Unsaid'
    BY <1>1 DEF RemoteInv, Requests, Unsaid, Status, Replies, repo
  <1> QED BY <1>1, <1>2 DEF RemoteInv, Known, Followed, Found, Moving, Merged, repo

LEMMA RemoteFails == ASSUME RemoteInv, Fails PROVE RemoteInv'
  <1>1. /\ UNCHANGED <<cfg, local, origin, changes, target, made>> /\ pc # "idle" /\ pc # "move" /\ pc' = "idle"
        /\ reply' \in Replies
    BY DEF Fails, Answer, Replies
  <1>2. /\ track' \in Seq(1 .. made) /\ of' \in Urls \cup {None}
        /\ remotes' \in [Urls -> Seq(1 .. made)]
        /\ of' \in Urls => IsPrefix(track', remotes'[of'])
    <2>1. CASE Accepted /\ UNCHANGED <<track, of>>
      BY <1>1, <2>1, RemoteAccepted DEF RemoteInv, Requests, Known
    <2>2. CASE UNCHANGED remotes /\ (Fetched \/ UNCHANGED <<track, of>>)
      BY <1>1, <2>2, RemoteFetched DEF RemoteInv, Known
    <2> QED BY <2>1, <2>2 DEF Fails
  <1>3. Requests' /\ Unsaid' /\ Known'
    BY <1>1, <1>2 DEF RemoteInv, Requests, Unsaid, Known
  <1> QED BY <1>1, <1>2, <1>3 DEF RemoteInv, Followed, Found, Moving, Merged

LEMMA RemoteRestart == ASSUME RemoteInv, Restart PROVE RemoteInv'
  <1>1. /\ UNCHANGED <<track, of, origin, remotes, made>> /\ pc' = "idle" /\ target' = <<>>
        /\ cfg' \in Configs /\ reply' = "none"
        /\ local' \in {local, target} /\ changes' \in Changes
    BY CutLeaves DEF Restart, RemoteInv, Requests
  <1>2. Requests' /\ Unsaid'
    BY <1>1 DEF RemoteInv, Requests, Unsaid, Replies
  <1>3. Known'
    BY <1>1, EmptySeq DEF RemoteInv, Known
  <1> QED BY <1>1, <1>2, <1>3 DEF RemoteInv, Followed, Found, Moving, Merged

LEMMA RemoteStep == RemoteInv /\ [Next]_vars => RemoteInv'
  <1> SUFFICES ASSUME RemoteInv, [Next]_vars PROVE RemoteInv'
    OBVIOUS
  <1>1. CASE UNCHANGED vars
    BY <1>1 DEF vars, repo, RemoteInv, Requests, Known, Unsaid, Followed, Found, There, Moving, Merged
  <1>2. CASE Next
    BY <1>2, RemoteCommitLocally, RemoteLeavePending, RemotePushElsewhere, RemoteRequest, RemotePush,
       RemoteFetch, RemoteCompare, RemoteMerge, RemoteMove, RemoteLoad, RemoteStatus, RemoteFails,
       RemoteRestart DEF Next, Step
  <1> QED BY <1>1, <1>2

-----------------------------------------------------------------------------
(* Any number of clients: the types, what an answer of ok means, and the file a restarted
   daemon opens. *)

LEMMA ProfileStepIsStep == ProfileNext => [Next]_vars
  BY DEF ProfileNext, ApplyCommitted, ApplyPending, Connect, ElsewhereApplied, CheckedOut,
         CheckoutFailed, Restarted, Beside, Next, Step

(* The type invariant of GitRemote, in every behaviour of the profile. *)
LEMMA RemoteInvariant == ProfileSpec => []RemoteInv
  <1>1. ProfileInit => RemoteInv
    BY InitRemote DEF ProfileInit
  <1>2. RemoteInv /\ [ProfileNext]_<<vars, store>> => RemoteInv'
    BY ProfileStepIsStep, RemoteStep
  <1> QED BY <1>1, <1>2, PTL DEF ProfileSpec

THEOREM ProfileTypeCorrect == ProfileSpec => []TypeOK
  BY RemoteInvariant, Typed, PTL

(* A pull or a push that is answered ok left nothing fetched from its remote that HEAD has
   not, whatever other machines pushed and other clients committed meanwhile. *)
THEOREM OkIsCaughtUp == ProfileSpec => OkMeansCaughtUp
  <1>1. RemoteInv /\ [ProfileNext]_<<vars, store>>
           => [pc # "idle" /\ reply' = "ok" /\ local' # <<>> /\ of' = origin'
                  => HasCommit(local', track')]_vars
    <2> SUFFICES ASSUME RemoteInv, Next, pc # "idle", reply' = "ok", local' # <<>>,
                        of' = origin'
                 PROVE  IsPrefix(track', local')
      BY ProfileStepIsStep DEF HasCommit
    <2>1. reply = "none"
      BY DEF RemoteInv, Unsaid
    <2>2. Push \/ Load
      BY <2>1 DEF Next, Step, CommitLocally, LeavePending, PushElsewhere, Status, Restart, Request,
                  Fetch, Compare, Merge, MoveHead, MoveFails, Fails, Answer
    <2> QED BY <2>2, RemotePush, RemoteLoad
  <1> QED BY <1>1, RemoteInvariant, PTL DEF ProfileSpec, OkMeansCaughtUp

(* A new commit changes what no older history holds. *)
LEMMA MadeHolds ==
  ASSUME RemoteInv, StoreTyped, NEW X, holds' = [holds EXCEPT ![made + 1] = X],
         NEW s \in Seq(1 .. made)
  PROVE  /\ s # <<>> => holds'[Last(s)] = holds[Last(s)]
         /\ \A k \in DOMAIN s : holds'[s[k]] = holds[s[k]]
  <1>1. made \in Nat /\ 1 .. made \subseteq Batches
    BY RemoteConstants DEF RemoteInv, Requests, Batches
  <1>2. \A b \in 1 .. made : b \in Batches /\ b # made + 1
    BY <1>1
  <1>3. \A b \in 1 .. made : holds'[b] = holds[b]
    BY <1>2 DEF StoreTyped
  <1>4. \A k \in DOMAIN s : s[k] \in 1 .. made
    BY LenProperties
  <1>5. s # <<>> => Len(s) \in DOMAIN s
    BY LenProperties, EmptySeq
  <1> QED BY <1>3, <1>4, <1>5 DEF Last

LEMMA KnownHistories ==
  ASSUME RemoteInv
  PROVE  /\ Histories \subseteq Seq(1 .. made) /\ local \in Histories /\ target \in Histories
         /\ \A u \in Urls : remotes[u] \in Histories
  BY DEF RemoteInv, Known, Histories

LEMMA LastHistory ==
  ASSUME RemoteInv, StoreTyped, NEW s \in Histories
  PROVE  HoldsOf(s) \in SUBSET Batches
  <1>1. made \in Nat /\ made <= MaxCommits /\ MaxCommits \in Nat /\ s \in Seq(1 .. made)
    BY RemoteConstants, KnownHistories DEF RemoteInv, Requests
  <1>2. s # <<>> => Last(s) \in 1 .. made
    <2>1. s # <<>> => Len(s) \in 1 .. Len(s)
      BY <1>1
    <2> QED BY <1>1, <2>1, ElementOfSeq DEF Last
  <1>3. 1 .. made \subseteq Batches
    BY <1>1 DEF Batches
  <1> QED BY <1>2, <1>3 DEF HoldsOf, StoreTyped

(* Writing into the file at the path, and putting another file there. *)
LEMMA Written ==
  ASSUME StoreTyped, NEW c \in Conns, Write(c), made + 1 \in Batches
  PROVE  /\ files' \in Seq(SUBSET Batches) /\ files' # <<>> /\ Len(files') = Len(files)
         /\ File' = File \cup {made + 1} /\ File' \subseteq Batches
  <1>1. files \in Seq(SUBSET Batches) /\ Len(files) \in 1 .. Len(files)
    BY DEF StoreTyped
  <1>2. files[Len(files)] \cup {made + 1} \in SUBSET Batches
    BY <1>1
  <1>3. files' = [files EXCEPT ![Len(files)] = files[Len(files)] \cup {made + 1}]
    BY DEF Write, Path
  <1>4. files' \in Seq(SUBSET Batches) /\ Len(files') = Len(files)
        /\ files'[Len(files)] = files[Len(files)] \cup {made + 1}
    BY <1>1, <1>2, <1>3, ExceptSeq
  <1> QED BY <1>1, <1>2, <1>4 DEF File, Last

LEMMA Replaced ==
  ASSUME StoreTyped, NEW X \in SUBSET Batches
  PROVE  /\ Append(files, X) \in Seq(SUBSET Batches) /\ Append(files, X) # <<>>
         /\ Len(Append(files, X)) = Len(files) + 1 /\ Last(Append(files, X)) = X
         /\ Len(files) \in Nat
  BY AppendProperties DEF StoreTyped, Last

(* What each action does to the files and to what commits hold. *)
LEMMA AppliedEffect ==
  ASSUME RemoteInv, StoreTyped, NEW c \in Conns, ApplyCommitted(c)
  PROVE  /\ made \in Nat /\ made + 1 \in Batches /\ File' = File \cup {made + 1}
         /\ local' = Append(local, made + 1)
         /\ holds' = [holds EXCEPT ![made + 1] = File'] /\ acked' = acked \cup {made + 1}
         /\ UNCHANGED <<remotes, pc, target, file>>
         /\ local' # <<>> /\ Last(local') = made + 1 /\ HoldsOf(local)' = File'
         /\ file = "whole" /\ StoreTyped'
  <1>1. made \in Nat /\ made + 1 \in Batches /\ made' = made + 1
    BY RemoteConstants DEF ApplyCommitted, CommitLocally, RemoteInv, Requests, Batches
  <1>2. /\ files' \in Seq(SUBSET Batches) /\ files' # <<>> /\ Len(files') = Len(files)
        /\ File' = File \cup {made + 1} /\ File' \subseteq Batches
    BY <1>1, Written DEF ApplyCommitted
  <1>3. /\ holds' = [holds EXCEPT ![made + 1] = File'] /\ acked' = acked \cup {made + 1}
        /\ UNCHANGED <<at, remotes, pc, target, file>> /\ local' = Append(local, made + 1)
        /\ file = "whole"
    BY DEF ApplyCommitted, CommitLocally, File, Write
  <1>4. acked' \subseteq 1 .. made'
    BY <1>1, <1>3 DEF StoreTyped
  <1>5. holds' \in [Batches -> SUBSET Batches] /\ holds'[made + 1] = File'
    BY <1>1, <1>2, <1>3 DEF StoreTyped
  <1>6. local' # <<>> /\ Last(local') = made + 1
    <2>1. local \in Seq(Nat)
      BY <1>1, SeqMonotonic DEF RemoteInv, Known
    <2> QED BY <1>1, <1>3, <2>1, AppendProperties DEF Last
  <1>7. HoldsOf(local)' = File'
    BY <1>5, <1>6 DEF HoldsOf
  <1>8. at' \in [Conns -> 0 .. Len(files')]
    BY <1>2, <1>3 DEF StoreTyped
  <1> QED BY <1>1, <1>2, <1>3, <1>4, <1>5, <1>6, <1>7, <1>8 DEF StoreTyped

LEMMA PendingEffect ==
  ASSUME RemoteInv, StoreTyped, NEW c \in Conns, ApplyPending(c)
  PROVE  /\ File' = File \cup {made + 1} /\ made + 1 \notin acked
         /\ changes' # "none"
         /\ UNCHANGED <<local, remotes, target, pc, holds, acked>>
         /\ StoreTyped'
  <1>1. made \in Nat /\ made + 1 \in Batches /\ made' = made + 1
    BY RemoteConstants DEF ApplyPending, LeavePending, RemoteInv, Requests, Batches
  <1>2. /\ files' \in Seq(SUBSET Batches) /\ files' # <<>> /\ Len(files') = Len(files)
        /\ File' = File \cup {made + 1} /\ File' \subseteq Batches
    BY <1>1, Written DEF ApplyPending
  <1>3. UNCHANGED <<local, remotes, target, pc, file, at, holds, acked>> /\ changes' # "none"
        /\ file = "whole"
    BY DEF ApplyPending, LeavePending, Write
  <1>4. acked' \subseteq 1 .. made' /\ made + 1 \notin acked
    BY <1>1, <1>3 DEF StoreTyped
  <1> QED BY <1>2, <1>3, <1>4 DEF StoreTyped

LEMMA ElsewhereEffect ==
  ASSUME RemoteInv, StoreTyped, NEW u \in Urls, ElsewhereApplied(u)
  PROVE  /\ made \in Nat /\ made + 1 \in Batches
         /\ remotes' = [remotes EXCEPT ![u] = Append(remotes[u], made + 1)]
         /\ holds' = [holds EXCEPT ![made + 1] = {made + 1} \cup HoldsOf(remotes[u])]
         /\ UNCHANGED <<local, target, pc, changes, files, file, acked>>
         /\ StoreTyped'
  <1>1. made \in Nat /\ made + 1 \in Batches /\ made' = made + 1
    BY RemoteConstants DEF ElsewhereApplied, PushElsewhere, RemoteInv, Requests, Batches
  <1>2. /\ UNCHANGED <<local, target, pc, changes, files, file, at, acked>>
        /\ remotes' = [remotes EXCEPT ![u] = Append(remotes[u], made + 1)]
        /\ holds' = [holds EXCEPT ![made + 1] = {made + 1} \cup HoldsOf(remotes[u])]
    BY DEF ElsewhereApplied, PushElsewhere, repo
  <1>3. {made + 1} \cup HoldsOf(remotes[u]) \in SUBSET Batches
    BY <1>1, LastHistory, KnownHistories
  <1>4. holds' \in [Batches -> SUBSET Batches]
    BY <1>1, <1>2, <1>3 DEF StoreTyped
  <1>5. acked' \subseteq 1 .. made'
    BY <1>1, <1>2 DEF StoreTyped
  <1> QED BY <1>1, <1>2, <1>4, <1>5 DEF StoreTyped

(* Another file at the path keeps the types of the store. *)
LEMMA Placed ==
  ASSUME StoreTyped, files' \in Seq(SUBSET Batches), files' # <<>>, Len(files) <= Len(files'),
         file' \in {"whole", "gone", "torn"}, file' # "whole" => changes' = "unstaged",
         UNCHANGED <<at, holds, acked, made>>
  PROVE  StoreTyped'
  <1>1. Len(files) \in Nat /\ Len(files') \in Nat
    BY DEF StoreTyped
  <1>2. at' \in [Conns -> 0 .. Len(files')]
    BY <1>1 DEF StoreTyped
  <1> QED BY <1>2 DEF StoreTyped

(* A checkout that goes through makes the file the one of the new HEAD. *)
LEMMA CheckedOutEffect ==
  ASSUME RemoteInv, StoreTyped, CheckedOut
  PROVE  /\ pc = "move" /\ pc' # "move" /\ local' = target /\ target' = <<>>
         /\ UNCHANGED <<remotes, holds, acked>>
         /\ File' = HoldsOf(target) /\ file' = "whole"
         /\ StoreTyped'
  <1>1. /\ UNCHANGED <<remotes, file, at, holds, acked, made>>
        /\ pc = "move" /\ pc' = "load" /\ local' = target /\ target' = <<>> /\ changes # "unstaged"
        /\ files' = Append(files, HoldsOf(target))
        /\ file' = "whole"
    BY DEF CheckedOut, MoveHead, StoreTyped
  <1>2. HoldsOf(target) \in SUBSET Batches
    BY LastHistory, KnownHistories
  <1>3. /\ files' \in Seq(SUBSET Batches) /\ files' # <<>> /\ Len(files) <= Len(files')
        /\ File' = HoldsOf(target)
    BY <1>1, <1>2, Replaced DEF File
  <1>4. StoreTyped'
    BY <1>1, <1>3, Placed DEF StoreTyped
  <1> QED BY <1>1, <1>3, <1>4

(* What a move cut short leaves: nothing of it has happened, or HEAD is the target, and
   with nothing left to commit the file is the one of the target. *)
LEMMA LeftEffect ==
  ASSUME RemoteInv, StoreTyped, pc = "move", MoveCut, NEW left \in Left
  PROVE  /\ left[1] \in Seq(SUBSET Batches) /\ left[1] # <<>> /\ Len(files) <= Len(left[1])
         /\ left[2] \in {"whole", "gone", "torn"} /\ (left[2] # "whole" => changes' = "unstaged")
         /\ \/ UNCHANGED <<local, changes>> /\ left[1] = files /\ left[2] = file
            \/ /\ local' = target
               /\ \/ changes' # "none" /\ Last(left[1]) \in {File, {}}
                  \/ left[2] = "whole" /\ Last(left[1]) = HoldsOf(target)
  <1>1. target # local
    BY DEF RemoteInv, Moving
  <1>2. HoldsOf(target) \in SUBSET Batches /\ {} \in SUBSET Batches
    BY LastHistory, KnownHistories
  <1>3. /\ files \in Seq(SUBSET Batches) /\ files # <<>> /\ Len(files) <= Len(files)
        /\ file \in {"whole", "gone", "torn"} /\ Last(files) = File
        /\ file # "whole" => changes = "unstaged"
    BY DEF StoreTyped, File
  <1>4. \A X \in SUBSET Batches :
           /\ Append(files, X) \in Seq(SUBSET Batches) /\ Append(files, X) # <<>>
           /\ Len(files) <= Len(Append(files, X)) /\ Last(Append(files, X)) = X
    <2> SUFFICES ASSUME NEW X \in SUBSET Batches
                 PROVE  /\ Append(files, X) \in Seq(SUBSET Batches) /\ Append(files, X) # <<>>
                        /\ Len(files) <= Len(Append(files, X)) /\ Last(Append(files, X)) = X
      OBVIOUS
    <2>1. /\ Append(files, X) \in Seq(SUBSET Batches) /\ Append(files, X) # <<>>
          /\ Len(Append(files, X)) = Len(files) + 1 /\ Last(Append(files, X)) = X
          /\ Len(files) \in Nat
      BY Replaced
    <2> QED BY <2>1
  <1>5. CASE local' = local
    <2>1. UNCHANGED <<local, changes>> /\ left = <<files, file>>
      BY <1>1, <1>5 DEF MoveCut, Left
    <2> QED BY <1>3, <2>1
  <1>6. CASE local' # local
    <2>1. local' = target /\ (changes = "unstaged" => changes' = "unstaged")
      BY <1>6 DEF MoveCut
    <2>2. CASE changes = "unstaged" \/ changes' = "staged"
      <3>1. left = <<files, file>> /\ changes' # "none"
        BY <2>1, <2>2 DEF Left
      <3> QED BY <1>3, <2>1, <3>1
    <2>3. CASE changes # "unstaged" /\ changes' = "none"
      <3>1. left = <<Append(files, HoldsOf(target)), "whole">>
        BY <1>6, <2>3 DEF Left
      <3> QED BY <1>2, <1>4, <2>1, <3>1
    <2>4. CASE changes # "unstaged" /\ changes' \notin {"none", "staged"}
      <3>0. changes' = "unstaged"
        BY <1>6, <2>1, <2>4 DEF MoveCut, Changes
      <3>1. left \in {<<files, file>>, <<Append(files, {}), "gone">>, <<Append(files, {}), "torn">>,
                      <<Append(files, HoldsOf(target)), "whole">>}
        BY <1>6, <2>4 DEF Left
      <3>2. CASE left = <<files, file>>
        BY <1>3, <2>1, <3>0, <3>2
      <3>3. CASE left \in {<<Append(files, {}), "gone">>, <<Append(files, {}), "torn">>}
        <4>1. left[1] = Append(files, {}) /\ left[2] \in {"gone", "torn"}
          BY <3>3
        <4>2. /\ left[1] \in Seq(SUBSET Batches) /\ left[1] # <<>> /\ Len(files) <= Len(left[1])
              /\ Last(left[1]) = {}
          BY <1>2, <1>4, <4>1
        <4> QED BY <2>1, <3>0, <4>1, <4>2
      <3>4. CASE left = <<Append(files, HoldsOf(target)), "whole">>
        BY <1>2, <1>4, <2>1, <3>4
      <3> QED BY <3>1, <3>2, <3>3, <3>4
    <2> QED BY <2>2, <2>3, <2>4
  <1> QED BY <1>5, <1>6

LEMMA FailedEffect ==
  ASSUME RemoteInv, StoreTyped, CheckoutFailed
  PROVE  /\ pc = "move" /\ pc' = "idle" /\ reply' = "VCS_ERROR" /\ target' = <<>>
         /\ UNCHANGED <<remotes, holds, acked>>
         /\ \/ UNCHANGED <<local, changes, files, file>>
            \/ /\ local' = target
               /\ \/ changes' # "none" /\ File' \in {File, {}}
                  \/ file' = "whole" /\ File' = HoldsOf(target)
         /\ StoreTyped'
  <1>1. PICK left \in Left : files' = left[1] /\ file' = left[2]
    BY DEF CheckoutFailed
  <1>2. /\ pc = "move" /\ pc' = "idle" /\ reply' = "VCS_ERROR" /\ target' = <<>> /\ MoveCut
        /\ UNCHANGED <<remotes, at, holds, acked, made>>
    BY DEF CheckoutFailed, MoveFails, Answer
  <1>3. StoreTyped'
    BY <1>1, <1>2, LeftEffect, Placed
  <1> QED BY <1>1, <1>2, <1>3, LeftEffect DEF File

LEMMA RestartedEffect ==
  ASSUME RemoteInv, StoreTyped, Restarted
  PROVE  /\ pc' = "idle" /\ reply' = "none" /\ target' = <<>>
         /\ \/ UNCHANGED <<local, changes, files>> /\ (file = "whole" => file' = "whole")
            \/ /\ pc = "move" /\ local' = target
               /\ \/ changes' # "none" /\ File' \in {File, {}}
                  \/ file' = "whole" /\ File' = HoldsOf(target)
         /\ UNCHANGED <<remotes, holds, acked>>
         /\ StoreTyped'
  <1>1. PICK left \in IF pc = "move" THEN Left ELSE {<<files, file>>} :
           files' = left[1] /\ file' = IF left[2] = "gone" THEN "whole" ELSE left[2]
    BY DEF Restarted
  <1>2. /\ pc' = "idle" /\ reply' = "none" /\ target' = <<>>
        /\ UNCHANGED <<remotes, holds, acked, made>>
        /\ at' \in IF file' = "torn" THEN {[c \in Conns |-> 0]} ELSE Opened'
    BY DEF Restarted, Restart
  <1>3. /\ files \in Seq(SUBSET Batches) /\ files # <<>> /\ Len(files) <= Len(files)
        /\ file \in {"whole", "gone", "torn"} /\ (file # "whole" => changes = "unstaged")
    BY DEF StoreTyped
  <1>4. /\ files' \in Seq(SUBSET Batches) /\ files' # <<>> /\ file' \in {"whole", "gone", "torn"}
        /\ file' # "whole" => changes' = "unstaged"
        /\ \/ UNCHANGED <<local, changes, files>> /\ (file = "whole" => file' = "whole")
           \/ /\ pc = "move" /\ local' = target
              /\ \/ changes' # "none" /\ File' \in {File, {}}
                 \/ file' = "whole" /\ File' = HoldsOf(target)
    <2>1. CASE pc # "move"
      BY <1>1, <1>3, <2>1 DEF Restarted, Restart
    <2>2. CASE pc = "move"
      <3>1. MoveCut
        BY <2>2 DEF Restarted, Restart, MoveCut
      <3> QED BY <1>1, <2>2, <3>1, LeftEffect DEF File
    <2> QED BY <2>1, <2>2
  <1>5. at' \in [Conns -> 0 .. Len(files')]
    <2>1. Len(files') \in 0 .. Len(files') /\ 0 \in 0 .. Len(files')
      BY <1>4
    <2>2. \/ at' = [c \in Conns |-> 0]
          \/ \E d \in Conns : at' = [c \in Conns |-> IF c = d THEN Len(files') ELSE 0]
      BY <1>2 DEF Opened, Path
    <2> QED BY <2>1, <2>2
  <1> QED BY <1>2, <1>4, <1>5 DEF StoreTyped

LEMMA BesideEffect ==
  ASSUME RemoteInv, StoreTyped, Beside
  PROVE  /\ UNCHANGED <<files, file, at, holds, acked, local, changes>>
         /\ Histories' \subseteq Histories
         /\ StoreTyped'
  <1>1. UNCHANGED <<files, file, at, holds, acked>>
    BY DEF Beside, store
  <1>2. UNCHANGED <<local, changes, made>>
    BY DEF Beside, Request, Push, Fetch, Compare, Merge, Load, Fails, Status, repo
  <1>3. \/ UNCHANGED <<remotes, target>>
        \/ target' = target /\ pc # "idle" /\ remotes' = [remotes EXCEPT ![origin] = local]
        \/ remotes' = remotes /\ pc # "idle" /\ target' = There
    <2>1. ASSUME NEW op \in {"push", "fetch"}, Request(op) PROVE UNCHANGED <<remotes, target>>
      BY <2>1 DEF Request
    <2>2. CASE Push \/ Fails
      BY <2>2 DEF Push, Fails, Accepted
    <2>3. CASE Merge
      BY <2>3 DEF Merge
    <2>4. CASE Fetch \/ Compare \/ Load \/ Status
      BY <2>4 DEF Fetch, Compare, Load, Status
    <2> QED BY <2>1, <2>2, <2>3, <2>4 DEF Beside
  <1>4. Histories' \subseteq Histories
    <2>1. \A u \in Urls : remotes'[u] \in {remotes[u], local}
      BY <1>3 DEF RemoteInv, Known
    <2>2. target' = target \/ \E u \in Urls : target' = remotes[u]
      BY <1>3, Asked DEF There
    <2> QED BY <1>2, <2>1, <2>2 DEF Histories
  <1>5. StoreTyped'
    BY <1>1, <1>2 DEF StoreTyped
  <1> QED BY <1>1, <1>2, <1>4, <1>5

LEMMA ConnectEffect ==
  ASSUME StoreTyped, NEW c \in Conns, Connect(c)
  PROVE  UNCHANGED <<vars, files, file, holds, acked>> /\ StoreTyped'
  <1>1. UNCHANGED <<vars, files, file, holds, acked>> /\ at' = [at EXCEPT ![c] = Len(files)]
    BY DEF Connect, Path
  <1>2. Len(files) \in Nat
    BY DEF StoreTyped
  <1>3. at' \in [Conns -> 0 .. Len(files)]
    BY <1>1, <1>2 DEF StoreTyped
  <1>4. UNCHANGED <<files, file, holds, acked, made, changes>>
    BY <1>1 DEF vars, repo
  <1> QED BY <1>1, <1>3, <1>4 DEF StoreTyped

LEMMA InitStore == ProfileInit => StoreInv
  <1> SUFFICES ASSUME ProfileInit PROVE StoreInv
    OBVIOUS
  <1>1. 1 \in Batches /\ made = 1
    BY RemoteConstants DEF ProfileInit, Init, Batches
  <1>2. \E X \in SUBSET Batches : files = <<X>> /\ X = HoldsOf(local) /\ acked = X /\ X \subseteq {1}
    <2>1. CASE local = <<>>
      BY <2>1 DEF ProfileInit, File, Last, HoldsOf
    <2>2. CASE local = <<1>>
      <3>1. local # <<>> /\ Last(local) = 1
        BY <2>2 DEF Last
      <3>2. holds[1] = {1}
        BY <1>1 DEF ProfileInit
      <3>3. files = <<{1}>> /\ acked = {1}
        BY <3>1 DEF ProfileInit, File, Last
      <3> QED BY <1>1, <3>1, <3>2, <3>3 DEF HoldsOf
    <2> QED BY <2>1, <2>2 DEF ProfileInit, Init
  <1>3. files \in Seq(SUBSET Batches) /\ Len(files) = 1 /\ files # <<>> /\ File = HoldsOf(local)
        /\ file = "whole"
    <2>1. PICK X \in SUBSET Batches : files = <<X>> /\ X = HoldsOf(local)
      BY <1>2
    <2>2. files \in Seq(SUBSET Batches) /\ Len(files) = 1 /\ files # <<>> /\ files[1] = X
      BY <2>1
    <2> QED BY <2>1, <2>2 DEF File, Last, ProfileInit
  <1>4. holds \in [Batches -> SUBSET Batches]
    BY <1>1 DEF ProfileInit
  <1>5. at \in [Conns -> 0 .. Len(files)]
    BY <1>3 DEF ProfileInit, Opened, Path
  <1>6. acked \subseteq 1 .. made
    BY <1>1, <1>2
  <1> QED BY <1>3, <1>4, <1>5, <1>6 DEF StoreInv, StoreTyped, RestartServesHead

LEMMA StoreStep == RemoteInv /\ StoreInv /\ [ProfileNext]_<<vars, store>> => StoreInv'
  <1> SUFFICES ASSUME RemoteInv, StoreTyped, RestartServesHead, [ProfileNext]_<<vars, store>>
               PROVE  StoreTyped' /\ RestartServesHead'
    BY DEF StoreInv
  <1>1. ASSUME NEW c \in Conns, ApplyCommitted(c) PROVE StoreTyped' /\ RestartServesHead'
    BY <1>1, AppliedEffect DEF RestartServesHead
  <1>2. ASSUME NEW c \in Conns, ApplyPending(c) PROVE StoreTyped' /\ RestartServesHead'
    BY <1>2, PendingEffect DEF RestartServesHead
  <1>3. ASSUME NEW c \in Conns, Connect(c) PROVE StoreTyped' /\ RestartServesHead'
    BY <1>3, ConnectEffect DEF RestartServesHead, HoldsOf, File, vars, repo
  <1>4. ASSUME NEW u \in Urls, ElsewhereApplied(u) PROVE StoreTyped' /\ RestartServesHead'
    <2>1. local \in Seq(1 .. made)
      BY DEF RemoteInv, Known
    <2>2. HoldsOf(local)' = HoldsOf(local)
      <3>1. local # <<>> => holds'[Last(local)] = holds[Last(local)]
        BY <1>4, <2>1, ElsewhereEffect, MadeHolds
      <3>2. local' = local
        BY <1>4, ElsewhereEffect
      <3> QED BY <3>1, <3>2 DEF HoldsOf
    <2> QED BY <1>4, <2>2, ElsewhereEffect DEF RestartServesHead, File
  <1>5. CASE CheckedOut
    BY <1>5, CheckedOutEffect DEF RestartServesHead, HoldsOf
  <1>6. CASE CheckoutFailed
    BY <1>6, FailedEffect DEF RestartServesHead, HoldsOf, File
  <1>7. CASE Restarted
    BY <1>7, RestartedEffect DEF RestartServesHead, HoldsOf, File
  <1>8. CASE Beside
    BY <1>8, BesideEffect DEF RestartServesHead, HoldsOf, File
  <1>9. CASE UNCHANGED <<vars, store>>
    BY <1>9 DEF vars, store, repo, StoreTyped, RestartServesHead, HoldsOf, File
  <1> QED BY <1>1, <1>2, <1>3, <1>4, <1>5, <1>6, <1>7, <1>8, <1>9 DEF ProfileNext

LEMMA StoreInvariant == ProfileSpec => [](RemoteInv /\ StoreInv)
  BY InitStore, StoreStep, RemoteInvariant, PTL DEF ProfileSpec

(* The file a daemon opens is the one HEAD has when nothing is left to commit, also
   after pulls that were refused or cut short by the daemon's death. *)
THEOREM RestartIsServedHead == ProfileSpec => []RestartServesHead
  <1>1. StoreInv => RestartServesHead
    BY DEF StoreInv
  <1> QED BY <1>1, StoreInvariant, PTL

-----------------------------------------------------------------------------
(* One client: what is committed stays, and HEAD and the remote move as SyncService says. *)

LEMMA InitAlone == ProfileInit => AloneInv
  <1> SUFFICES ASSUME ProfileInit PROVE AloneInv
    OBVIOUS
  <1>1. RestartServesHead /\ acked = File
    BY InitStore DEF StoreInv, ProfileInit
  <1>2. Kept
    <2>1. changes = "none"
      BY DEF ProfileInit, Init
    <2> QED BY <1>1, <2>1 DEF RestartServesHead, Kept
  <1>3. Carried
    <2>1. Histories \subseteq {<<>>, <<1>>}
      BY DEF ProfileInit, Init, Histories
    <2>2. ~ IsPrefix(<<1>>, <<>>) /\ HoldsOf(<<>>) = {}
      <3>1. Len(<<1>>) = 1 /\ Len(<<>>) = 0
        OBVIOUS
      <3> QED BY <3>1 DEF IsPrefix, HoldsOf
    <2> QED BY <2>1, <2>2 DEF Carried
  <1>4. CommittedIsRecoverable
    <2>1. CASE local = <<>>
      BY <1>1, <2>1 DEF ProfileInit, Init, File, Last, CommittedIsRecoverable
    <2>2. CASE local = <<1>>
      <3>1. 1 \in Batches /\ files = <<{1}>> /\ File = {1}
        BY <2>2, RemoteConstants DEF ProfileInit, Init, File, Last, Batches
      <3>2. holds[local[1]] = {1} /\ 1 \in DOMAIN local
        BY <2>2, <3>1 DEF ProfileInit
      <3> QED BY <1>1, <3>1, <3>2 DEF CommittedIsRecoverable
    <2> QED BY <2>1, <2>2 DEF ProfileInit, Init
  <1> QED BY <1>2, <1>3, <1>4 DEF AloneInv

LEMMA AloneApplied ==
  ASSUME Alone, RemoteInv, StoreInv, AloneInv, NEW c \in Conns, ApplyCommitted(c)
  PROVE  AloneInv'
  <1>1. /\ made \in Nat /\ made + 1 \in Batches /\ File' = File \cup {made + 1}
        /\ local' = Append(local, made + 1)
        /\ holds' = [holds EXCEPT ![made + 1] = File'] /\ acked' = acked \cup {made + 1}
        /\ UNCHANGED <<remotes, pc, target>>
        /\ local' # <<>> /\ Last(local') = made + 1 /\ HoldsOf(local)' = File'
    BY AppliedEffect DEF StoreInv
  <1>2. Histories \subseteq Seq(1 .. made) /\ local \in Seq(1 .. made)
    BY KnownHistories
  <1>3. Histories' \subseteq Histories \cup {local'}
    BY <1>1 DEF Histories
  <1>4. Kept'
    BY <1>1 DEF Kept
  <1>5. Carried'
    <2>1. \A h \in Histories : ~ IsPrefix(local', h)
      BY <1>1, <1>2, AppendNew
    <2>2. \A x, y \in Histories' : IsPrefix(local', x) /\ IsPrefix(x, y) => x = y
      BY <1>3, <2>1
    <2> QED BY <2>2 DEF Carried
  <1>6. CommittedIsRecoverable'
    <2>1. \A k \in DOMAIN local : holds'[local[k]] = holds[local[k]]
      BY <1>1, <1>2, MadeHolds DEF StoreInv
    <2>2. DOMAIN local \subseteq DOMAIN local' /\ Len(local') \in DOMAIN local'
          /\ \A k \in DOMAIN local : local'[k] = local[k]
      <3>1. local \in Seq(Nat)
        BY <1>1, <1>2, SeqMonotonic
      <3> QED BY <1>1, <3>1
    <2>3. made + 1 \in holds'[local'[Len(local')]]
      <3>1. holds'[made + 1] = File'
        BY <1>1 DEF StoreInv, StoreTyped
      <3> QED BY <1>1, <3>1 DEF Last
    <2>4. ASSUME NEW b \in acked' PROVE \E k \in DOMAIN local' : b \in holds'[local'[k]]
      <3>1. CASE b = made + 1
        BY <2>2, <2>3, <3>1
      <3>2. CASE b \in acked
        BY <2>1, <2>2, <3>2 DEF AloneInv, CommittedIsRecoverable
      <3> QED BY <1>1, <3>1, <3>2
    <2> QED BY <2>4 DEF CommittedIsRecoverable
  <1> QED BY <1>4, <1>5, <1>6 DEF AloneInv

LEMMA AlonePending ==
  ASSUME RemoteInv, StoreInv, AloneInv, NEW c \in Conns, ApplyPending(c)
  PROVE  AloneInv'
  <1>1. /\ File' = File \cup {made + 1} /\ made + 1 \notin acked
        /\ UNCHANGED <<local, remotes, target, pc, holds, acked>>
    BY PendingEffect DEF StoreInv
  <1>2. Kept'
    BY <1>1 DEF AloneInv, Kept, HoldsOf
  <1> QED BY <1>1, <1>2 DEF AloneInv, Carried, Histories, HoldsOf, CommittedIsRecoverable

LEMMA AloneElsewhere ==
  ASSUME RemoteInv, StoreInv, AloneInv, NEW u \in Urls, ElsewhereApplied(u)
  PROVE  AloneInv'
  <1> DEFINE new == Append(remotes[u], made + 1)
             HeldOf(s) == IF s = <<>> THEN {} ELSE holds'[Last(s)]
  <1>1. /\ made \in Nat /\ made + 1 \in Batches
        /\ remotes' = [remotes EXCEPT ![u] = new]
        /\ holds' = [holds EXCEPT ![made + 1] = {made + 1} \cup HoldsOf(remotes[u])]
        /\ UNCHANGED <<local, target, pc, files, acked>>
    BY ElsewhereEffect DEF StoreInv
  <1>2. /\ Histories \subseteq Seq(1 .. made) /\ local \in Histories /\ remotes[u] \in Histories
    BY KnownHistories
  <1>3. /\ \A s \in Histories : HeldOf(s) = HoldsOf(s)
        /\ \A k \in DOMAIN local : holds'[local[k]] = holds[local[k]]
    BY <1>1, <1>2, MadeHolds DEF StoreInv, HoldsOf
  <1>4. HoldsOf(local)' = HoldsOf(local)
    BY <1>1, <1>2, <1>3 DEF HoldsOf
  <1>5. Kept'
    BY <1>1, <1>4 DEF AloneInv, Kept, File
  <1>6. Carried'
    <2>1. Histories' \subseteq Histories \cup {new}
      BY <1>1 DEF Histories, RemoteInv, Known
    <2>2. \A h \in Histories : ~ IsPrefix(new, h) /\ (IsPrefix(h, new) => IsPrefix(h, remotes[u]))
      BY <1>1, <1>2, AppendNew
    <2>3. HoldsOf(remotes[u]) \subseteq HeldOf(new)
      <3>1. new # <<>> /\ Last(new) = made + 1
        <4>1. remotes[u] \in Seq(Nat)
          BY <1>1, <1>2, SeqMonotonic
        <4> QED BY <1>1, <4>1, AppendProperties DEF Last
      <3>2. holds'[made + 1] = {made + 1} \cup HoldsOf(remotes[u])
        BY <1>1 DEF StoreInv, StoreTyped
      <3> QED BY <3>1, <3>2
    <2> HIDE DEF new
    <2>4. ASSUME NEW x \in Histories', NEW y \in Histories', IsPrefix(local, x), IsPrefix(x, y)
          PROVE  HeldOf(x) \subseteq HeldOf(y)
      <3> HIDE DEF HeldOf
      <3>1. CASE x = new
        BY <2>1, <2>2, <2>4, <3>1
      <3>2. CASE x \in Histories /\ y \in Histories
        BY <1>3, <2>4, <3>2 DEF AloneInv, Carried
      <3>3. CASE x \in Histories /\ y = new
        <4>1. IsPrefix(x, remotes[u])
          BY <2>2, <2>4, <3>3
        <4>2. HoldsOf(x) \subseteq HoldsOf(remotes[u])
          BY <1>2, <2>4, <3>3, <4>1 DEF AloneInv, Carried
        <4> QED BY <1>3, <2>3, <3>3, <4>2
      <3> QED BY <2>1, <3>1, <3>2, <3>3
    <2> QED BY <1>1, <2>4 DEF Carried, HoldsOf
  <1>7. CommittedIsRecoverable'
    BY <1>1, <1>3 DEF AloneInv, CommittedIsRecoverable
  <1> QED BY <1>5, <1>6, <1>7 DEF AloneInv

(* Fewer histories, all of which continue what HEAD was, hold what they held. *)
LEMMA CarriedFewer ==
  ASSUME RemoteInv, Carried, UNCHANGED holds, Histories' \subseteq Histories \cup {<<>>},
         local' \in Histories, IsPrefix(local, local')
  PROVE  Carried'
  <1>1. Histories \subseteq Seq(1 .. made) /\ local \in Seq(1 .. made)
    BY KnownHistories
  <1>2. ASSUME NEW x \in Histories', NEW y \in Histories', IsPrefix(local', x), IsPrefix(x, y)
        PROVE  HoldsOf(x) \subseteq HoldsOf(y)
    <2>1. CASE x = <<>>
      BY <2>1 DEF HoldsOf
    <2>2. CASE x # <<>>
      <3>1. x \in Histories /\ x \in Seq(1 .. made)
        BY <1>1, <2>2
      <3>2. y # <<>>
        <4>1. SUFFICES ASSUME y = <<>> PROVE x = <<>>
          BY <2>2
        <4>2. y \in Seq(1 .. made) /\ Len(y) = 0
          BY <4>1, EmptySeq
        <4>3. Len(x) <= Len(y) /\ Len(x) \in Nat
          <5>1. x \in Seq(1 .. made) /\ y \in Seq(1 .. made) /\ IsPrefix(x, y)
            BY <1>2, <3>1, <4>2
          <5> QED BY <5>1, PrefixIff
        <4> QED BY <3>1, <4>2, <4>3
      <3>3. IsPrefix(local, x)
        BY <1>1, <1>2, <3>1, PrefixTrans
      <3> QED BY <1>2, <3>1, <3>2, <3>3 DEF Carried
    <2> QED BY <2>1, <2>2
  <1> QED BY <1>2 DEF Carried, HoldsOf

(* When HEAD moves on to what a pull is about to check out, as a checkout does and as one
   that is cut short may do. *)
LEMMA AloneMoves ==
  ASSUME Alone, RemoteInv, AloneInv, pc = "move", local' \in {local, target}, target' = <<>>,
         UNCHANGED <<remotes, holds, acked>>
  PROVE  CommittedIsRecoverable' /\ Carried' /\ HoldsOf(local) \subseteq HoldsOf(local)'
  <1>1. {local, target} \subseteq Seq(1 .. made) /\ {local, target} \subseteq Histories
    BY KnownHistories
  <1>2. IsPrefix(local, target) /\ IsPrefix(local, local)
    BY <1>1, PrefixSelf DEF RemoteInv, Moving
  <1>3. HoldsOf(local) \subseteq HoldsOf(local)'
    <2>1. HoldsOf(local) \subseteq HoldsOf(target)
      BY <1>1, <1>2 DEF AloneInv, Carried
    <2>2. HoldsOf(local)' \in {HoldsOf(local), HoldsOf(target)}
      BY DEF HoldsOf
    <2> QED BY <2>1, <2>2
  <1>4. CommittedIsRecoverable'
    <2>1. Len(local) <= Len(target) /\ \A k \in 1 .. Len(local) : local[k] = target[k]
      BY <1>1, <1>2, PrefixIff
    <2>2. DOMAIN local = 1 .. Len(local) /\ DOMAIN target = 1 .. Len(target)
          /\ Len(local) \in Nat /\ Len(target) \in Nat
      BY <1>1
    <2>3. DOMAIN local \subseteq DOMAIN local' /\ \A k \in DOMAIN local : local'[k] = local[k]
      BY <2>1, <2>2
    <2> QED BY <2>3 DEF AloneInv, CommittedIsRecoverable
  <1>5. Carried'
    <2>1. Histories' \subseteq Histories \cup {<<>>}
      BY DEF Histories
    <2> QED BY <1>1, <1>2, <2>1, CarriedFewer DEF AloneInv
  <1> QED BY <1>3, <1>4, <1>5

LEMMA AloneCheckedOut ==
  ASSUME Alone, RemoteInv, StoreInv, AloneInv, CheckedOut PROVE AloneInv'
  <1>1. /\ pc = "move" /\ local' = target /\ target' = <<>>
        /\ UNCHANGED <<remotes, holds, acked>> /\ File' = HoldsOf(target)
    BY CheckedOutEffect DEF StoreInv
  <1>2. CommittedIsRecoverable' /\ Carried'
    BY <1>1, AloneMoves
  <1>3. HoldsOf(local)' = HoldsOf(target)
    BY <1>1 DEF HoldsOf
  <1> QED BY <1>1, <1>2, <1>3 DEF AloneInv, Kept

LEMMA AloneCut ==
  ASSUME Alone, RemoteInv, StoreInv, AloneInv, pc = "move", local' = target, target' = <<>>,
         File' \in {File, {}, HoldsOf(target)}, UNCHANGED <<remotes, holds, acked>>
  PROVE  AloneInv' /\ acked \cap File \subseteq HoldsOf(local)'
  <1>1. CommittedIsRecoverable' /\ Carried' /\ HoldsOf(local) \subseteq HoldsOf(local)'
    BY AloneMoves
  <1>2. HoldsOf(local)' = HoldsOf(target)
    BY DEF HoldsOf
  <1> QED BY <1>1, <1>2 DEF AloneInv, Kept

LEMMA AloneUnmoved ==
  ASSUME RemoteInv, AloneInv, UNCHANGED <<local, files, holds, acked>>,
         Histories' \subseteq Histories \cup {<<>>}
  PROVE  AloneInv'
  <1>1. Carried'
    <2>1. local \in Histories /\ IsPrefix(local, local)
      BY KnownHistories, PrefixSelf
    <2> QED BY <2>1, CarriedFewer DEF AloneInv
  <1> QED BY <1>1 DEF AloneInv, Kept, CommittedIsRecoverable, HoldsOf, File

LEMMA AloneFailed ==
  ASSUME Alone, RemoteInv, StoreInv, AloneInv, CheckoutFailed PROVE AloneInv'
  <1>1. /\ pc = "move" /\ target' = <<>> /\ UNCHANGED <<remotes, holds, acked>>
        /\ \/ UNCHANGED <<local, files>>
           \/ local' = target /\ File' \in {File, {}, HoldsOf(target)}
    BY FailedEffect DEF StoreInv
  <1>2. CASE UNCHANGED <<local, files>>
    <2>1. Histories' \subseteq Histories \cup {<<>>}
      BY <1>1, <1>2 DEF Histories
    <2> QED BY <1>1, <1>2, <2>1, AloneUnmoved
  <1>3. CASE local' = target /\ File' \in {File, {}, HoldsOf(target)}
    BY <1>1, <1>3, AloneCut
  <1> QED BY <1>1, <1>2, <1>3

LEMMA AloneRestarted ==
  ASSUME Alone, RemoteInv, StoreInv, AloneInv, Restarted PROVE AloneInv'
  <1>1. /\ target' = <<>> /\ UNCHANGED <<remotes, holds, acked>>
        /\ \/ UNCHANGED <<local, files>>
           \/ pc = "move" /\ local' = target /\ File' \in {File, {}, HoldsOf(target)}
    BY RestartedEffect DEF StoreInv
  <1>2. CASE UNCHANGED <<local, files>>
    <2>1. Histories' \subseteq Histories \cup {<<>>}
      BY <1>1, <1>2 DEF Histories
    <2> QED BY <1>1, <1>2, <2>1, AloneUnmoved
  <1>3. CASE pc = "move" /\ local' = target /\ File' \in {File, {}, HoldsOf(target)}
    BY <1>1, <1>3, AloneCut
  <1> QED BY <1>1, <1>2, <1>3

LEMMA AloneBeside == ASSUME RemoteInv, StoreInv, AloneInv, Beside PROVE AloneInv'
  <1>1. UNCHANGED <<local, files, holds, acked>> /\ Histories' \subseteq Histories
    BY BesideEffect DEF StoreInv
  <1> QED BY <1>1, AloneUnmoved

LEMMA AloneStep ==
  ASSUME Alone
  PROVE  RemoteInv /\ StoreInv /\ AloneInv /\ [ProfileNext]_<<vars, store>> => AloneInv'
  <1> SUFFICES ASSUME RemoteInv, StoreInv, AloneInv, [ProfileNext]_<<vars, store>> PROVE AloneInv'
    OBVIOUS
  <1>1. ASSUME UNCHANGED <<vars, files, holds, acked>> PROVE AloneInv'
    <2>1. UNCHANGED <<local, files, holds, acked>> /\ Histories' \subseteq Histories
      BY <1>1 DEF vars, repo, Histories
    <2> QED BY <2>1, AloneUnmoved
  <1>2. ASSUME NEW c \in Conns, Connect(c) PROVE AloneInv'
    BY <1>1, <1>2 DEF Connect
  <1>3. CASE UNCHANGED <<vars, store>>
    BY <1>1, <1>3 DEF store
  <1> QED BY <1>2, <1>3, AloneApplied, AlonePending, AloneElsewhere, AloneCheckedOut, AloneFailed,
             AloneRestarted, AloneBeside DEF ProfileNext

LEMMA AloneInvariant == ASSUME Alone PROVE ProfileSpec => [](RemoteInv /\ StoreInv /\ AloneInv)
  <1>1. RemoteInv /\ StoreInv /\ AloneInv /\ [ProfileNext]_<<vars, store>> => AloneInv'
    BY AloneStep
  <1> QED BY <1>1, InitAlone, StoreInvariant, PTL DEF ProfileSpec

(* No committed batch is lost, whatever is pulled, refused, discarded or cut short by the
   daemon's death. *)
THEOREM CommittedStaysRecoverable == ASSUME Alone PROVE ProfileSpec => []CommittedIsRecoverable
  <1>1. AloneInv => CommittedIsRecoverable
    BY DEF AloneInv
  <1> QED BY <1>1, AloneInvariant, PTL

(* A batch leaves the state.db at the path only while a pull moves HEAD, and a committed
   one only when that move is cut short, by a checkout that fails or by the daemon's death:
   then the pull is not answered ok, and the commit HEAD is at has the batch. *)
THEOREM BatchesDoStay == ASSUME Alone PROVE ProfileSpec => BatchesStay
  <1> DEFINE MayLeave(b) ==
        pc = "move" /\ (b \in acked => pc' = "idle" /\ reply' # "ok" /\ b \in HoldsOf(local)')
  <1>1. RemoteInv /\ StoreInv /\ AloneInv /\ [ProfileNext]_<<vars, store>>
           => [\A b \in File \ Last(files') : MayLeave(b)]_<<vars, store>>
    <2> SUFFICES ASSUME RemoteInv, StoreInv, AloneInv, ProfileNext, NEW b \in File, b \notin File'
                 PROVE  MayLeave(b)
      BY DEF File
    <2>1. CheckedOut \/ CheckoutFailed \/ Restarted
      <3>1. ASSUME NEW c \in Conns, ApplyCommitted(c) \/ ApplyPending(c) PROVE FALSE
        BY <3>1, AppliedEffect, PendingEffect DEF StoreInv
      <3>2. files' # files
        BY DEF File
      <3> QED BY <3>1, <3>2 DEF ProfileNext, Connect, ElsewhereApplied, Beside, store
    <2>2. CASE CheckedOut
      <3>1. pc = "move" /\ local' = target /\ target' = <<>> /\ File' = HoldsOf(target)
            /\ UNCHANGED <<remotes, holds, acked>>
        BY <2>2, CheckedOutEffect DEF StoreInv
      <3>2. acked \cap File \subseteq HoldsOf(local)'
        BY <3>1, AloneCut
      <3>3. HoldsOf(local)' = HoldsOf(target)
        BY <3>1 DEF HoldsOf
      <3> QED BY <3>1, <3>2, <3>3
    <2>3. CASE CheckoutFailed \/ Restarted
      <3>1. /\ pc = "move" /\ pc' = "idle" /\ reply' # "ok" /\ local' = target /\ target' = <<>>
            /\ File' \in {File, {}, HoldsOf(target)} /\ UNCHANGED <<remotes, holds, acked>>
        <4>1. files' # files
          BY DEF File
        <4> QED BY <2>3, <4>1, FailedEffect, RestartedEffect DEF StoreInv
      <3>2. acked \cap File \subseteq HoldsOf(local)'
        BY <3>1, AloneCut
      <3> QED BY <3>1, <3>2
    <2> QED BY <2>1, <2>2, <2>3
  <1> QED BY <1>1, AloneInvariant, PTL DEF ProfileSpec, BatchesStay

LEMMA MadeIsFresh ==
  ASSUME RemoteInv, made < MaxCommits PROVE made + 1 \in Batches /\ Sync!Fresh(made + 1)
  <1>1. made \in Nat /\ made + 1 \in Batches
    BY RemoteConstants DEF RemoteInv, Requests, Batches
  <1>2. \A s \in Histories : \A k \in DOMAIN s : s[k] \in 1 .. made
    BY LenProperties, ElementOfSeq, KnownHistories
  <1>3. made + 1 \notin 1 .. made
    BY <1>1
  <1>4. \A s \in Histories : made + 1 \notin Sync!Range(s)
    BY <1>2, <1>3 DEF Sync!Range
  <1> QED BY <1>1, <1>4, KnownHistories DEF Sync!Fresh

(* Every step of the requests, and every restart, is a step of SyncService or changes
   no history. *)
LEMMA SyncStep ==
  ASSUME Alone, RemoteInv, Next, ~ UNCHANGED <<local, remotes>>
  PROVE  Sync!Next
  <1>1. CASE CommitLocally
    BY <1>1, MadeIsFresh DEF CommitLocally, Sync!Next, Sync!Commit
  <1>2. ASSUME NEW u \in Urls, PushElsewhere(u) PROVE Sync!Next
    <2>1. Sync!Fresh(made + 1) /\ made + 1 \in Batches
      BY <1>2, MadeIsFresh DEF PushElsewhere
    <2>2. remotes' = [remotes EXCEPT ![u] = Append(@, made + 1)] /\ UNCHANGED local
      BY <1>2 DEF PushElsewhere, repo
    <2> QED BY <2>1, <2>2 DEF Sync!Next, Sync!CommitElsewhere
  <1>3. CASE Push \/ Fails
    <2>1. /\ HasCommit(local, There) /\ local # There /\ local' = local /\ origin \in Urls
          /\ remotes' = [remotes EXCEPT ![origin] = local]
      <3>1. pc # "idle" /\ UNCHANGED local
        BY <1>3 DEF Push, Fails
      <3>2. Accepted
        BY <1>3, <3>1 DEF Push, Fails
      <3> QED BY <3>1, <3>2, Asked DEF Accepted
    <2>2. Sync!IsStrictPrefix(remotes[origin], local)
      BY <2>1 DEF There, HasCommit, IsPrefix, Sync!IsPrefix, Sync!IsStrictPrefix
    <2> QED BY <2>1, <2>2 DEF Sync!Next, Sync!Push
  <1>4. CASE MoveHead \/ MoveFails \/ Restart
    <2>1. pc = "move" /\ local' = target /\ UNCHANGED remotes
      BY <1>4 DEF MoveHead, MoveFails, MoveCut, Restart
    <2>2. IsPrefix(local, target) /\ IsPrefix(target, remotes[origin]) /\ local # target
          /\ origin \in Urls
      BY <2>1, Asked DEF RemoteInv, Moving, There
    <2>3. Sync!IsStrictPrefix(local, local') /\ Sync!IsPrefix(local', remotes[origin])
      BY <2>1, <2>2 DEF IsPrefix, Sync!IsPrefix, Sync!IsStrictPrefix
    <2> QED BY <2>1, <2>2, <2>3 DEF Sync!Next, Sync!Pull
  <1>5. \/ CommitLocally \/ (\E u \in Urls : PushElsewhere(u))
        \/ Push \/ Fails \/ MoveHead \/ MoveFails \/ Restart
    BY DEF Next, Step, LeavePending, Status, Request, Fetch, Compare, Merge, Load, repo
  <1> QED BY <1>1, <1>2, <1>3, <1>4, <1>5

(* Fetch, comparison, merge and push, with failures, a dying daemon and another machine at
   work between any two of them, implement the atomic commits, pushes and pulls of
   SyncService. *)
THEOREM SyncImplemented == ASSUME Alone PROVE ProfileSpec => SyncIsAtomic
  <1>1. RemoteInv => local \in Seq(Batches) /\ remotes \in [Urls -> Seq(Batches)]
    BY Typed DEF TypeOK, Batches
  <1>2. ProfileInit => Sync!Init
    BY <1>1, InitRemote DEF ProfileInit, Sync!Init
  <1>3. RemoteInv /\ [ProfileNext]_<<vars, store>> => [Sync!Next]_<<local, remotes>>
    <2> SUFFICES ASSUME RemoteInv, [ProfileNext]_<<vars, store>>, ~ UNCHANGED <<local, remotes>>
                 PROVE  Sync!Next
      OBVIOUS
    <2>1. Next
      BY ProfileStepIsStep DEF vars, repo
    <2> QED BY <2>1, SyncStep
  <1> QED BY <1>2, <1>3, RemoteInvariant, PTL DEF ProfileSpec, SyncIsAtomic, Sync!Spec
=============================================================================
