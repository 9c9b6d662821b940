----------------------------- MODULE MCApplyOps -----------------------------
(* Instances of ApplyOps for TLC. *)
EXTENDS ApplyOps, TLC

CONSTANTS h1, h2

Web   == {"http"}
Other == {"ftp"}
Names == {"old", "new"}

(* Root 0 with folders 1 and 2, bookmark 3 in folder 1; id 4 was handed out
   and its row deleted before the start. *)
Seed == 0 :> [parent |-> Nil, kind |-> "folder", title |-> "old", url |-> Nil]
     @@ 1 :> Folder(0, "old")
     @@ 2 :> Folder(0, "old")
     @@ 3 :> Bookmark(1, "old", "http")
Trees == {Seed}
First == 5

AF(p, i)    == [type |-> "add_folder", parent |-> p, title |-> "new", index |-> i]
AB(p, u)    == [type |-> "add_bookmark", parent |-> p, title |-> "new", url |-> u, index |-> Nil]
RN(n)       == [type |-> "rename_node", node |-> n, title |-> "new"]
MV(n, p, i) == [type |-> "move_node", node |-> n, parent |-> p, index |-> i]
DL(n, r)    == [type |-> "delete_node", node |-> n, recursive |-> r]
UB(n, t, u) == [type |-> "update_bookmark", node |-> n, title |-> t, url |-> u]
SS(p, us)   == [type |-> "save_session", parent |-> p, title |-> "new", tabs |-> us, index |-> Nil]
Bad         == [type |-> "unknown"]

(* One client: every operation, accepted and refused, on every kind of node,
   and batches whose later operations meet what the earlier ones did. *)
Singles ==
    {AF(p, i) : p \in {0, 3, 5}, i \in {Nil, 0, 9}} \cup {AB(2, "http"), AB(5, "http"), AB(0, "ftp")}
    \cup {RN(n) : n \in {0, 1, 4}} \cup {MV(n, p, Nil) : n \in 0 .. 3, p \in 0 .. 3}
    \cup {MV(1, 2, 9), MV(5, 2, 0), MV(2, 5, Nil)} \cup {DL(n, FALSE) : n \in {0, 1, 2, 4, 5}}
    \cup {UB(3, Nil, Nil), UB(3, "new", Nil), UB(3, Nil, "ftp"), UB(1, "new", Nil)}
    \cup {SS(1, <<"http", "http">>), SS(2, <<>>), SS(2, <<"ftp">>), SS(5, <<"http">>)}
Pairs == {<<DL(1, FALSE), RN(3)>>, <<DL(1, FALSE), MV(3, 2, Nil)>>, <<DL(1, FALSE), DL(3, FALSE)>>,
          <<MV(1, 2, Nil), MV(2, 1, Nil)>>, <<MV(1, 2, Nil), DL(2, TRUE)>>,
          <<AF(1, Nil), MV(1, 2, 0)>>, <<RN(2), Bad>>, <<DL(2, FALSE), AF(2, Nil)>>, <<>>}
SerialBatches == {<<op>> : op \in Singles} \cup Pairs

(* Two clients: the batches whose interleavings meet *)
RaceBatches ==
    {<<MV(1, 2, Nil)>>, <<MV(2, 1, Nil)>>, <<DL(1, FALSE)>>, <<UB(3, "new", "http")>>,
     <<SS(1, <<"http">>)>>, <<AF(1, Nil), DL(3, FALSE)>>, <<RN(1), DL(0, TRUE)>>,
     <<AB(3, "http")>>, <<UB(1, Nil, "http")>>, <<MV(3, 2, Nil)>>}

Symm == Permutations(Handlers)
=============================================================================
