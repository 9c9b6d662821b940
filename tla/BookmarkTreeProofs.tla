------------------------- MODULE BookmarkTreeProofs -------------------------
(***************************************************************************)
(* What the validator's checks and the store's statements preserve, for    *)
(* every tree and every operation, also when the tree the validator saw is *)
(* not the tree the statement changes.                                     *)
(*                                                                         *)
(* The thread through all of it is a map K from ids to kinds: ids are      *)
(* handed out once and no operation changes the kind of a row, so K is     *)
(* what an old copy of the tree and the tree of today agree on.            *)
(***************************************************************************)
EXTENDS BookmarkTree, TLAPS

KindMap == [Nat -> Kinds]

(* A tree of rows with ids below n and the kinds of K, in which every row but
   the root hangs below the id of a folder, which may be gone. *)
RowsBelow(t, n) == \A m \in DOMAIN t : m < n
KindsAgree(t, K) == \A m \in DOMAIN t : t[m].kind = K[m]
UnderFolders(t, K, n) == \A m \in DOMAIN t \ {Root} :
    /\ t[m].parent \in Nat
    /\ t[m].parent < n
    /\ K[t[m].parent] = "folder"

Fits(t, K, n) ==
    /\ IsTree(t)
    /\ RootKept(t)
    /\ RowsBelow(t, n)
    /\ KindsAgree(t, K)
    /\ UnderFolders(t, K, n)
    /\ UrlsMatchKinds(t)

(* The kinds once an operation of a batch has taken the ids from n on *)
KindsAfter(K, op, n) ==
    [i \in Nat |->
        IF i < n THEN K[i]
        ELSE IF op.type = "add_bookmark" \/ (op.type = "save_session" /\ i # n)
             THEN "bookmark" ELSE "folder"]

-----------------------------------------------------------------------------
(* An operation of a known type has the fields types.go gives it. *)
LEMMA OpFields ==
    ASSUME NEW op \in Op \cup UnknownOp
    PROVE  /\ op.type = "add_folder" => op \in AddFolderOp
           /\ op.type = "add_bookmark" => op \in AddBookmarkOp
           /\ op.type = "rename_node" => op \in RenameNodeOp
           /\ op.type = "move_node" => op \in MoveNodeOp
           /\ op.type = "delete_node" => op \in DeleteNodeOp
           /\ op.type = "update_bookmark" => op \in UpdateBookmarkOp
           /\ op.type = "save_session" => op \in SaveSessionOp
  BY DEF Op, UnknownOp, OpTypes, AddFolderOp, AddBookmarkOp, RenameNodeOp, MoveNodeOp,
         DeleteNodeOp, UpdateBookmarkOp, SaveSessionOp

(* A tree that fits still fits when more ids have been handed out. *)
LEMMA FitsLater ==
    ASSUME NEW t, NEW K \in KindMap, NEW K2 \in KindMap, NEW n \in Nat, NEW n2 \in Nat,
           n <= n2, \A i \in Nat : i < n => K2[i] = K[i], Fits(t, K, n)
    PROVE  Fits(t, K2, n2)
  <1>1. IsTree(t) /\ RootKept(t) /\ UrlsMatchKinds(t)
    BY DEF Fits
  <1>2. DOMAIN t \subseteq Nat
    BY DEF Fits, IsTree, Id
  <1>3. RowsBelow(t, n2)
    BY <1>2 DEF Fits, RowsBelow
  <1>4. KindsAgree(t, K2)
    BY <1>2 DEF Fits, KindsAgree, RowsBelow
  <1>5. UnderFolders(t, K2, n2)
    BY DEF Fits, UnderFolders
  <1> QED BY <1>1, <1>3, <1>4, <1>5 DEF Fits

(* In a tree that fits, a parent that is there is a folder. *)
LEMMA FitsFolderParents ==
    ASSUME NEW t, NEW K \in KindMap, NEW n \in Nat, Fits(t, K, n)
    PROVE  FolderParents(t)
  <1> SUFFICES ASSUME NEW m \in DOMAIN t, t[m].parent \in DOMAIN t
               PROVE  t[t[m].parent].kind = "folder"
    BY DEF FolderParents
  <1>1. m # Root
    BY TreeConstants DEF Fits, RootKept, IsTree, Id
  <1> QED BY <1>1 DEF Fits, UnderFolders, KindsAgree

(* What a check of the validator on one tree says of the ids it looked at *)
LEMMA FolderOfStaleTree ==
    ASSUME NEW t, NEW K \in KindMap, NEW n \in Nat, NEW p, Fits(t, K, n),
           RequireParentFolder(t, p)
    PROVE  p \in Nat /\ p < n /\ K[p] = "folder"
  BY DEF RequireParentFolder, Fits, KindsAgree, RowsBelow, IsTree, Id

(* The root has no parent, so it is below no other row. *)
LEMMA RootNotBelow ==
    ASSUME NEW t, IsTree(t), RootKept(t), NEW n \in DOMAIN t \ {Root}
    PROVE  Root \notin Subtree(t, n)
  <1>1. {Root} \in SUBSET DOMAIN t /\ ParentClosed(t, {Root})
    BY TreeConstants DEF RootKept, ParentClosed, IsTree, Id
  <1> QED BY <1>1 DEF Subtree, IsDescendant

-----------------------------------------------------------------------------
(* Taking rows away, other than the root, leaves a tree that fits. *)
LEMMA FitsWithout ==
    ASSUME NEW t, NEW K \in KindMap, NEW n \in Nat, Fits(t, K, n),
           NEW S, Root \notin S
    PROVE  Fits([m \in DOMAIN t \ S |-> t[m]], K, n)
  <1> DEFINE u == [m \in DOMAIN t \ S |-> t[m]]
  <1>1. DOMAIN u = DOMAIN t \ S /\ \A m \in DOMAIN u : m \in DOMAIN t /\ u[m] = t[m]
    OBVIOUS
  <1>2. IsTree(u)
    BY <1>1 DEF Fits, IsTree
  <1>3. RootKept(u)
    BY <1>1 DEF Fits, RootKept
  <1>4. RowsBelow(u, n) /\ KindsAgree(u, K)
    BY <1>1 DEF Fits, RowsBelow, KindsAgree
  <1>5. UnderFolders(u, K, n)
    BY <1>1 DEF Fits, UnderFolders
  <1>6. UrlsMatchKinds(u)
    BY <1>1 DEF Fits, UrlsMatchKinds
  <1> QED BY <1>2, <1>3, <1>4, <1>5, <1>6 DEF Fits

(* Changing a row keeps the fit when the row keeps its kind, its url goes with
   it, and its parent stays or becomes a folder; the root's stays. *)
LEMMA FitsChanged ==
    ASSUME NEW t, NEW K \in KindMap, NEW n \in Nat, Fits(t, K, n),
           NEW m \in DOMAIN t, NEW row \in Row, row.kind = t[m].kind,
           IF row.kind = "bookmark" THEN row.url \in WebUrls ELSE row.url = Nil,
           \/ row.parent = t[m].parent
           \/ m # Root /\ row.parent \in Nat /\ row.parent < n /\ K[row.parent] = "folder"
    PROVE  Fits([t EXCEPT ![m] = row], K, n)
  <1> DEFINE u == [t EXCEPT ![m] = row]
  <1>0. IsTree(t) /\ RootKept(t) /\ RowsBelow(t, n) /\ KindsAgree(t, K)
           /\ UnderFolders(t, K, n) /\ UrlsMatchKinds(t)
    BY DEF Fits
  <1>1. /\ DOMAIN u = DOMAIN t
        /\ u[m] = row
        /\ \A k \in DOMAIN t : k # m => u[k] = t[k]
    BY <1>0 DEF IsTree
  <1>2. IsTree(u)
    BY <1>0, <1>1 DEF IsTree
  <1>3. RootKept(u)
    <2>1. CASE m # Root
      BY <1>0, <1>1, <2>1 DEF RootKept
    <2>2. CASE m = Root
      BY <1>0, <1>1, <2>2 DEF RootKept
    <2> QED BY <2>1, <2>2
  <1>4. RowsBelow(u, n) /\ KindsAgree(u, K)
    BY <1>0, <1>1 DEF RowsBelow, KindsAgree
  <1>5. UnderFolders(u, K, n)
    BY <1>0, <1>1 DEF UnderFolders
  <1>6. UrlsMatchKinds(u)
    BY <1>0, <1>1 DEF UrlsMatchKinds
  <1> HIDE DEF u
  <1> QED BY <1>2, <1>3, <1>4, <1>5, <1>6 DEF Fits, u

(* Moving a row below a folder keeps the fit: the validator's simulation of a
   move and the store's statement. *)
LEMMA FitsMoved ==
    ASSUME NEW t, NEW K \in KindMap, NEW n \in Nat, Fits(t, K, n),
           NEW m \in DOMAIN t \ {Root}, NEW p \in Nat, p < n, K[p] = "folder"
    PROVE  Fits([t EXCEPT ![m].parent = p], K, n)
  <1> DEFINE row == [t[m] EXCEPT !.parent = p]
  <1>1. t[m] \in Row
    BY DEF Fits, IsTree
  <1>2. /\ row \in Row /\ row.kind = t[m].kind /\ row.url = t[m].url /\ row.parent = p
    BY <1>1 DEF Row, Id
  <1>3. IF row.kind = "bookmark" THEN row.url \in WebUrls ELSE row.url = Nil
    BY <1>2 DEF Fits, UrlsMatchKinds
  <1> HIDE DEF row
  <1>4. Fits([t EXCEPT ![m] = row], K, n)
    BY <1>2, <1>3, FitsChanged
  <1> QED BY <1>4 DEF row

(* What the validator simulates of an accepted operation fits again. *)
LEMMA SimulateFits ==
    ASSUME NEW t, NEW K \in KindMap, NEW n \in Nat, Fits(t, K, n),
           NEW op \in Op \cup UnknownOp, OpOK(t, op)
    PROVE  Fits(Simulate(t, op), K, n)
  <1>1. CASE op.type = "move_node"
    <2>1. op.node \in DOMAIN t \ {Root} /\ RequireParentFolder(t, op.parent)
      BY <1>1 DEF OpOK, MoveOK, WalksUp, Editable
    <2>2. Simulate(t, op) = [t EXCEPT ![op.node].parent = op.parent]
      BY <1>1 DEF Simulate
    <2>3. op.parent \in Nat /\ op.parent < n /\ K[op.parent] = "folder"
      BY <2>1, FolderOfStaleTree
    <2>4. Fits([t EXCEPT ![op.node].parent = op.parent], K, n)
      BY <2>1, <2>3, FitsMoved
    <2> QED BY <2>2, <2>4
  <1>2. CASE op.type = "delete_node"
    <2>1. op.node # Root
      BY <1>2 DEF OpOK, Editable
    <2>2. Simulate(t, op) = [m \in DOMAIN t \ {op.node} |-> t[m]]
      BY <1>2 DEF Simulate
    <2>3. \A S : Root \notin S => Fits([m \in DOMAIN t \ S |-> t[m]], K, n)
      BY FitsWithout
    <2>4. Fits([m \in DOMAIN t \ {op.node} |-> t[m]], K, n)
      BY <2>1, <2>3
    <2> QED BY <2>2, <2>4
  <1>3. CASE op.type \notin {"move_node", "delete_node"}
    BY <1>3 DEF Simulate
  <1> QED BY <1>1, <1>2, <1>3

-----------------------------------------------------------------------------
(* The kinds after an operation are those before it on every older id. *)
LEMMA KindsAfterLater ==
    ASSUME NEW K \in KindMap, NEW op \in Op \cup UnknownOp, NEW n \in Nat
    PROVE  /\ KindsAfter(K, op, n) \in KindMap
           /\ \A i \in Nat : i < n => KindsAfter(K, op, n)[i] = K[i]
           /\ NewIds(op) \in Nat
  <1>1. KindsAfter(K, op, n) \in KindMap
    BY DEF KindsAfter, KindMap, Kinds
  <1>2. \A i \in Nat : i < n => KindsAfter(K, op, n)[i] = K[i]
    BY DEF KindsAfter
  <1>3. CASE op.type = "save_session"
    <2>1. Len(op.tabs) \in Nat
      BY <1>3, OpFields DEF SaveSessionOp
    <2> QED BY <1>1, <1>2, <1>3, <2>1 DEF NewIds
  <1>4. CASE op.type # "save_session"
    BY <1>1, <1>2, <1>4 DEF NewIds
  <1> QED BY <1>3, <1>4

(* A row with a fresh id, below the id of a folder, keeps the fit. *)
LEMMA FitsInserted ==
    ASSUME NEW t, NEW K \in KindMap, NEW K2 \in KindMap, NEW n \in Nat,
           \A i \in Nat : i < n => K2[i] = K[i], Fits(t, K, n),
           NEW row \in Row, row.kind = K2[n],
           row.parent \in Nat, row.parent < n, K[row.parent] = "folder",
           IF row.kind = "bookmark" THEN row.url \in WebUrls ELSE row.url = Nil
    PROVE  Fits(Inserted(t, n, row), K2, n + 1)
  <1> DEFINE u == Inserted(t, n, row)
  <1>0. IsTree(t) /\ RootKept(t) /\ RowsBelow(t, n + 1) /\ KindsAgree(t, K2)
           /\ UnderFolders(t, K2, n + 1) /\ UrlsMatchKinds(t)
    BY FitsLater DEF Fits
  <1>1. n \notin DOMAIN t
    BY DEF Fits, RowsBelow
  <1>2. /\ DOMAIN u = DOMAIN t \cup {n}
        /\ u[n] = row
        /\ \A k \in DOMAIN t : u[k] = t[k]
    BY <1>1 DEF Inserted
  <1>3. u = [k \in DOMAIN u |-> u[k]]
    BY <1>2 DEF Inserted
  <1> HIDE DEF u
  <1>4. IsTree(u)
    BY <1>0, <1>2, <1>3 DEF IsTree, Id
  <1>5. RootKept(u)
    BY <1>0, <1>2 DEF RootKept
  <1>6. RowsBelow(u, n + 1) /\ KindsAgree(u, K2)
    BY <1>0, <1>2 DEF RowsBelow, KindsAgree
  <1>7. UnderFolders(u, K2, n + 1)
    BY <1>0, <1>2 DEF UnderFolders
  <1>8. UrlsMatchKinds(u)
    BY <1>0, <1>2 DEF UrlsMatchKinds
  <1> QED BY <1>4, <1>5, <1>6, <1>7, <1>8 DEF Fits, u

(* So do the rows of a session: its folder, and its tabs below that. *)
LEMMA FitsSession ==
    ASSUME NEW t, NEW K \in KindMap, NEW n \in Nat, Fits(t, K, n),
           NEW op \in SaveSessionOp, op \in Op \cup UnknownOp, op.parent < n, K[op.parent] = "folder",
           \A k \in DOMAIN op.tabs : op.tabs[k] \in WebUrls
    PROVE  Fits(SessionSaved(t, op, n), KindsAfter(K, op, n), n + NewIds(op))
  <1> DEFINE u == SessionSaved(t, op, n)
             K2 == KindsAfter(K, op, n)
             end == n + Len(op.tabs)
  <1>1. /\ op.type = "save_session" /\ op.parent \in Nat /\ op.title \in Titles
        /\ op.tabs \in Seq(Url) /\ Len(op.tabs) \in Nat /\ DOMAIN op.tabs = 1 .. Len(op.tabs)
    BY DEF SaveSessionOp, Id
  <1>2. NewIds(op) = 1 + Len(op.tabs) /\ n + NewIds(op) = end + 1
    BY <1>1 DEF NewIds
  <1>3. K2 \in KindMap /\ \A i \in Nat : i < n => K2[i] = K[i]
    BY KindsAfterLater
  <1>4. K2[n] = "folder" /\ \A i \in n + 1 .. end : K2[i] = "bookmark"
    BY <1>1 DEF KindsAfter
  <1>5. IsTree(t) /\ RootKept(t) /\ RowsBelow(t, end + 1) /\ KindsAgree(t, K2)
           /\ UnderFolders(t, K2, end + 1) /\ UrlsMatchKinds(t)
    BY <1>1, <1>3, FitsLater DEF Fits
  <1>6. \A m \in DOMAIN t : m \in Nat /\ m < n
    BY DEF Fits, RowsBelow, IsTree, Id
  <1>7. /\ DOMAIN u = DOMAIN t \cup (n .. end)
        /\ u[n] = Folder(op.parent, op.title)
        /\ \A k \in DOMAIN t : u[k] = t[k]
        /\ u = [k \in DOMAIN u |-> u[k]]
    BY <1>1, <1>6 DEF SessionSaved
  <1>8. \A i \in n + 1 .. end : u[i] = Bookmark(n, op.title, op.tabs[i - n])
    BY <1>1 DEF SessionSaved
  <1>9. \A i \in n + 1 .. end : op.tabs[i - n] \in WebUrls
    BY <1>1
  <1> HIDE DEF u, K2
  <1>10. u[n] \in Row /\ u[n].kind = "folder" /\ u[n].parent = op.parent /\ u[n].url = Nil
    BY <1>1, <1>7 DEF Folder, Row, Id, Kinds
  <1>11. \A i \in n + 1 .. end : /\ u[i] \in Row
                                 /\ u[i].kind = "bookmark"
                                 /\ u[i].parent = n
                                 /\ u[i].url \in WebUrls
    <2> SUFFICES ASSUME NEW i \in n + 1 .. end
                 PROVE  /\ u[i] \in Row
                        /\ u[i].kind = "bookmark"
                        /\ u[i].parent = n
                        /\ u[i].url \in WebUrls
      OBVIOUS
    <2>1. u[i] = [parent |-> n, kind |-> "bookmark", title |-> op.title, url |-> op.tabs[i - n]]
      BY <1>8 DEF Bookmark
    <2>2. op.tabs[i - n] \in WebUrls
      BY <1>9
    <2> QED BY <1>1, <2>1, <2>2 DEF Row, Id, Kinds
  <1>12. \A k \in DOMAIN u : k \in DOMAIN t \/ k = n \/ k \in n + 1 .. end
    BY <1>7
  <1>13. IsTree(u)
    <2>1. \A k \in DOMAIN u : u[k] \in Row
      BY <1>5, <1>7, <1>10, <1>11, <1>12 DEF IsTree
    <2>2. DOMAIN u \subseteq Id
      BY <1>1, <1>6, <1>7 DEF Id
    <2> QED BY <1>7, <2>1, <2>2 DEF IsTree
  <1>14. RootKept(u)
    BY <1>5, <1>7 DEF RootKept
  <1>15. RowsBelow(u, end + 1)
    BY <1>1, <1>5, <1>12 DEF RowsBelow
  <1>16. KindsAgree(u, K2)
    BY <1>4, <1>5, <1>7, <1>10, <1>11, <1>12 DEF KindsAgree
  <1>17. UnderFolders(u, K2, end + 1)
    BY <1>1, <1>3, <1>4, <1>5, <1>7, <1>10, <1>11, <1>12 DEF UnderFolders
  <1>18. UrlsMatchKinds(u)
    BY <1>5, <1>7, <1>10, <1>11, <1>12 DEF UrlsMatchKinds
  <1> QED BY <1>2, <1>13, <1>14, <1>15, <1>16, <1>17, <1>18 DEF Fits, u, K2

(* THE STORE: a statement for an operation that was accepted on one tree, run
   on another tree of the same history, gives a tree that fits. *)
LEMMA StoreFits ==
    ASSUME NEW t, NEW stale, NEW K \in KindMap, NEW n \in Nat,
           Fits(t, K, n), Fits(stale, K, n),
           NEW op \in Op \cup UnknownOp, OpOK(stale, op),
           NEW fk, ~NoStatement(op), ~StoreFails(t, op, fk)
    PROVE  Fits(StoreResult(t, op, n, fk), KindsAfter(K, op, n), n + NewIds(op))
  <1> DEFINE K2 == KindsAfter(K, op, n)
  <1>0. /\ K2 \in KindMap
        /\ \A i \in Nat : i < n => K2[i] = K[i]
        /\ NewIds(op) \in Nat
    BY KindsAfterLater
  <1>a. \A u : Fits(u, K, n) => Fits(u, K2, n + NewIds(op))
    <2> HIDE DEF K2
    <2> QED BY <1>0, FitsLater
  <1>b. op.type \in {"add_folder", "add_bookmark", "save_session"} =>
            op.parent \in Nat /\ op.parent < n /\ K[op.parent] = "folder"
    <2> SUFFICES ASSUME op.type \in {"add_folder", "add_bookmark", "save_session"}
                 PROVE  op.parent \in Nat /\ op.parent < n /\ K[op.parent] = "folder"
      OBVIOUS
    <2>1. RequireParentFolder(stale, op.parent)
      BY DEF OpOK, Place
    <2> QED BY <2>1, FolderOfStaleTree
  <1>c. IsTree(t) /\ IsTree(stale)
    BY DEF Fits
  <1>1. CASE op.type = "add_folder"
    <2> DEFINE row == Folder(op.parent, op.title)
    <2>1. op.title \in Titles
      BY <1>1, OpFields DEF AddFolderOp
    <2>2. /\ row \in Row /\ row.kind = "folder" /\ row.url = Nil
          /\ row.parent \in Nat /\ row.parent < n /\ K[row.parent] = "folder"
      BY <1>1, <1>b, <2>1 DEF Folder, Row, Id, Kinds
    <2>3. NewIds(op) = 1 /\ K2[n] = "folder"
      BY <1>1 DEF NewIds, KindsAfter
    <2> HIDE DEF row, K2
    <2>4. Fits(Inserted(t, n, row), K2, n + 1)
      BY <1>0, <2>2, <2>3, FitsInserted
    <2> QED BY <1>1, <2>3, <2>4 DEF StoreResult, row, K2
  <1>2. CASE op.type = "add_bookmark"
    <2> DEFINE row == Bookmark(op.parent, op.title, op.url)
    <2>1. op.title \in Titles /\ op.url \in WebUrls
      BY <1>2, OpFields DEF AddBookmarkOp, OpOK
    <2>2. /\ row \in Row /\ row.kind = "bookmark" /\ row.url \in WebUrls
          /\ row.parent \in Nat /\ row.parent < n /\ K[row.parent] = "folder"
      BY <1>2, <1>b, <2>1 DEF Bookmark, Row, Id, Kinds
    <2>3. NewIds(op) = 1 /\ K2[n] = "bookmark"
      BY <1>2 DEF NewIds, KindsAfter
    <2> HIDE DEF row, K2
    <2>4. Fits(Inserted(t, n, row), K2, n + 1)
      BY <1>0, <2>2, <2>3, FitsInserted
    <2> QED BY <1>2, <2>3, <2>4 DEF StoreResult, row, K2
  <1>3. CASE op.type = "rename_node"
    <2> DEFINE row == [t[op.node] EXCEPT !.title = op.title]
    <2>1. op.title \in Titles /\ op.node \in DOMAIN t
      BY <1>3, OpFields DEF RenameNodeOp, StoreFails
    <2>2. t[op.node] \in Row
      BY <1>c, <2>1 DEF IsTree
    <2>3. /\ row \in Row /\ row.kind = t[op.node].kind
          /\ row.url = t[op.node].url /\ row.parent = t[op.node].parent
      BY <2>1, <2>2 DEF Row
    <2>4. IF row.kind = "bookmark" THEN row.url \in WebUrls ELSE row.url = Nil
      BY <2>1, <2>3 DEF Fits, UrlsMatchKinds
    <2> HIDE DEF row
    <2>5. Fits([t EXCEPT ![op.node] = row], K, n)
      BY <2>1, <2>3, <2>4, FitsChanged
    <2>6. StoreResult(t, op, n, fk) = [t EXCEPT ![op.node] = row]
      BY <1>3 DEF StoreResult, row
    <2> QED BY <1>a, <2>5, <2>6
  <1>4. CASE op.type = "move_node"
    <2>1. op.node \in DOMAIN t \ {Root} /\ RequireParentFolder(stale, op.parent)
      BY <1>4 DEF OpOK, MoveOK, WalksUp, Editable, StoreFails
    <2>2. op.parent \in Nat /\ op.parent < n /\ K[op.parent] = "folder"
      BY <2>1, FolderOfStaleTree
    <2>3. Fits([t EXCEPT ![op.node].parent = op.parent], K, n)
      BY <2>1, <2>2, FitsMoved
    <2>4. StoreResult(t, op, n, fk) = [t EXCEPT ![op.node].parent = op.parent]
      BY <1>4 DEF StoreResult
    <2> QED BY <1>a, <2>3, <2>4
  <1>5. CASE op.type = "delete_node"
    <2> DEFINE S == IF fk THEN Subtree(t, op.node) ELSE {op.node}
    <2>1. op.node \in DOMAIN t \ {Root}
      BY <1>5 DEF OpOK, Editable, StoreFails, NoStatement
    <2>2. Root \notin S
      BY <2>1, RootNotBelow DEF Fits
    <2>3. StoreResult(t, op, n, fk) = [m \in DOMAIN t \ S |-> t[m]]
      BY <1>5 DEF StoreResult, Deleted
    <2> HIDE DEF S
    <2>4. Fits([m \in DOMAIN t \ S |-> t[m]], K, n)
      BY <2>2, FitsWithout
    <2> QED BY <1>a, <2>3, <2>4
  <1>6. CASE op.type = "update_bookmark"
    <2> DEFINE row == [t[op.node] EXCEPT !.title = Given(op.title, @), !.url = Given(op.url, @)]
    <2>1. op \in UpdateBookmarkOp /\ UpdateOK(stale, op) /\ op.node \in DOMAIN t
      BY <1>6, OpFields DEF OpOK, StoreFails
    <2>2. t[op.node] \in Row /\ t[op.node].kind = "bookmark"
      BY <1>c, <2>1 DEF UpdateOK, IsTree, Fits, KindsAgree
    <2>3. t[op.node].url \in WebUrls
      BY <2>1, <2>2 DEF Fits, UrlsMatchKinds
    <2>4. Given(op.title, t[op.node].title) \in Titles
      BY <2>1, <2>2 DEF Given, UpdateBookmarkOp, Row
    <2>5. Given(op.url, t[op.node].url) \in WebUrls
      BY <2>1, <2>3 DEF Given, UpdateOK
    <2>6. /\ row \in Row /\ row.kind = "bookmark" /\ row.url \in WebUrls
          /\ row.parent = t[op.node].parent
      BY <2>2, <2>4, <2>5 DEF Row
    <2>7. StoreResult(t, op, n, fk) = [t EXCEPT ![op.node] = row]
      BY <1>6, <2>1 DEF StoreResult
    <2> HIDE DEF row
    <2>8. Fits([t EXCEPT ![op.node] = row], K, n)
      BY <2>1, <2>2, <2>6, FitsChanged
    <2> QED BY <1>a, <2>7, <2>8
  <1>7. CASE op.type = "save_session"
    <2>1. op \in SaveSessionOp /\ \A k \in DOMAIN op.tabs : op.tabs[k] \in WebUrls
      BY <1>7, OpFields DEF OpOK
    <2>2. Fits(SessionSaved(t, op, n), K2, n + NewIds(op))
      BY <1>7, <1>b, <2>1, FitsSession
    <2> QED BY <1>7, <2>2 DEF StoreResult
  <1> QED BY <1>1, <1>2, <1>3, <1>4, <1>5, <1>6, <1>7 DEF OpOK

-----------------------------------------------------------------------------
(* The shape of a tree: what a move, a delete and an insert do to it.  u is the
   tree after them. *)

(* u is t with the row n below p. *)
Hung(t, u, n, p) ==
    /\ DOMAIN u = DOMAIN t /\ n \in DOMAIN t /\ u[n].parent = p
    /\ \A m \in DOMAIN t \ {n} : u[m].parent = t[m].parent

LEMMA MovedHung ==
    ASSUME NEW t, IsTree(t), NEW n \in DOMAIN t, NEW p
    PROVE  Hung(t, [t EXCEPT ![n].parent = p], n, p)
  <1>1. t[n] \in Row
    BY DEF IsTree
  <1>2. [t[n] EXCEPT !.parent = p].parent = p
    BY <1>1 DEF Row
  <1> DEFINE u == [t EXCEPT ![n].parent = p]
  <1>3. DOMAIN u = DOMAIN t /\ u[n] = [t[n] EXCEPT !.parent = p]
    BY DEF IsTree
  <1>4. \A m \in DOMAIN t \ {n} : u[m] = t[m]
    BY DEF IsTree
  <1> HIDE DEF u
  <1>5. Hung(t, u, n, p)
    BY <1>2, <1>3, <1>4 DEF Hung
  <1> QED BY <1>5 DEF u

(* No cycle comes from hanging a row below one that the walk up does not bring back
   to it (validate.go:55-69). *)
LEMMA AcyclicHung ==
    ASSUME NEW t, NEW u, NEW n, NEW p, Hung(t, u, n, p), p \in DOMAIN t,
           ~ IsDescendant(t, p, n), Acyclic(t)
    PROVE  Acyclic(u)
  <1>1. PICK C \in SUBSET DOMAIN t : p \in C /\ ParentClosed(t, C) /\ n \notin C
    BY DEF IsDescendant
  <1>2. SUFFICES ASSUME NEW S \in SUBSET DOMAIN t, S # {} PROVE \E m \in S : u[m].parent \notin S
    <2>1. DOMAIN u = DOMAIN t
      BY DEF Hung
    <2> QED BY <2>1 DEF Acyclic
  <1>3. CASE n \notin S
    <2>1. PICK m \in S : t[m].parent \notin S
      BY <1>2 DEF Acyclic
    <2> QED BY <1>3, <2>1 DEF Hung
  <1>4. CASE n \in S /\ p \notin S
    BY <1>4 DEF Hung
  <1>5. CASE n \in S /\ p \in S
    <2>1. PICK m \in S \cap C : t[m].parent \notin S \cap C
      BY <1>1, <1>5 DEF Acyclic
    <2>2. t[m].parent \notin S
      BY <1>1, <2>1 DEF ParentClosed
    <2>3. u[m].parent = t[m].parent
      BY <1>1, <2>1 DEF Hung
    <2> QED BY <2>2, <2>3
  <1> QED BY <1>3, <1>4, <1>5

(* An accepted operation, as the validator simulates it, leaves no cycle where there
   was none; and on a tree without one its walk ends. *)
LEMMA SimulateAcyclic ==
    ASSUME NEW t, IsTree(t), NEW op, OpOK(t, op), Acyclic(t)
    PROVE  Acyclic(Simulate(t, op))
  <1>1. CASE op.type = "move_node"
    <2>1. op.node \in DOMAIN t /\ op.parent \in DOMAIN t /\ ~ IsDescendant(t, op.parent, op.node)
      BY <1>1 DEF OpOK, MoveOK, WalksUp, Editable, RequireParentFolder
    <2>2. Hung(t, [t EXCEPT ![op.node].parent = op.parent], op.node, op.parent)
      BY <2>1, MovedHung
    <2> QED BY <1>1, <2>1, <2>2, AcyclicHung DEF Simulate
  <1>2. CASE op.type = "delete_node"
    <2> DEFINE u == [n \in DOMAIN t \ {op.node} |-> t[n]]
    <2>1. DOMAIN u \subseteq DOMAIN t /\ \A n \in DOMAIN u : u[n] = t[n]
      OBVIOUS
    <2>2. Simulate(t, op) = u
      BY <1>2 DEF Simulate
    <2> HIDE DEF u
    <2>3. Acyclic(u)
      <3> SUFFICES ASSUME NEW S \in SUBSET DOMAIN u, S # {} PROVE \E n \in S : u[n].parent \notin S
        BY DEF Acyclic
      <3>1. PICK n \in S : t[n].parent \notin S
        BY <2>1 DEF Acyclic
      <3> QED BY <2>1, <3>1
    <2> QED BY <2>2, <2>3
  <1>3. CASE op.type \notin {"move_node", "delete_node"}
    BY <1>3 DEF Simulate
  <1> QED BY <1>1, <1>2, <1>3

LEMMA AcyclicEnds == ASSUME NEW t, NEW op, Acyclic(t) PROVE ~ NeverValidated(t, op)
  BY DEF NeverValidated, Diverges, Acyclic

LEMMA RootedHung ==
    ASSUME NEW t, NEW u, NEW n, NEW p, Hung(t, u, n, p), p \in DOMAIN t,
           ~ IsDescendant(t, p, n), Rooted(t)
    PROVE  Rooted(u)
  <1>1. PICK C \in SUBSET DOMAIN t : p \in C /\ ParentClosed(t, C) /\ n \notin C
    BY DEF IsDescendant
  <1>2. SUFFICES ASSUME NEW S \in SUBSET (DOMAIN t \ {Root}), S # {}
                 PROVE  \E m \in S : u[m].parent \in DOMAIN t \ S
    <2>1. DOMAIN u = DOMAIN t
      BY DEF Hung
    <2> QED BY <2>1 DEF Rooted
  <1>3. CASE n \notin S
    <2>1. PICK m \in S : t[m].parent \in DOMAIN t \ S
      BY <1>2 DEF Rooted
    <2> QED BY <1>3, <2>1 DEF Hung
  <1>4. CASE n \in S /\ p \notin S
    BY <1>4 DEF Hung
  <1>5. CASE n \in S /\ p \in S
    <2>1. PICK m \in S \cap C : t[m].parent \in DOMAIN t \ (S \cap C)
      BY <1>1, <1>5 DEF Rooted
    <2>2. t[m].parent \in DOMAIN t \ S
      BY <1>1, <2>1 DEF ParentClosed
    <2>3. u[m].parent = t[m].parent
      BY <1>1, <2>1 DEF Hung
    <2> QED BY <2>2, <2>3
  <1> QED BY <1>3, <1>4, <1>5

(* ON DELETE CASCADE takes the whole subtree, so nothing is left hanging. *)
LEMMA RootedDeleted ==
    ASSUME NEW t, NEW n, Rooted(t)
    PROVE  Rooted(Deleted(t, n, TRUE))
  <1> DEFINE D == DOMAIN t \ Subtree(t, n)
  <1>1. Deleted(t, n, TRUE) = [m \in D |-> t[m]]
    BY DEF Deleted
  <1>2. SUFFICES ASSUME NEW S \in SUBSET (D \ {Root}), S # {}
                 PROVE  \E m \in S : t[m].parent \in D \ S
    BY <1>1 DEF Rooted
  <1>3. PICK m \in S : t[m].parent \in DOMAIN t \ S
    BY <1>2 DEF Rooted
  <1>4. t[m].parent \notin Subtree(t, n)
    <2>1. SUFFICES ASSUME IsDescendant(t, t[m].parent, n) PROVE IsDescendant(t, m, n)
      BY DEF Subtree
    <2> QED BY <1>3, <2>1 DEF IsDescendant, ParentClosed
  <1> QED BY <1>3, <1>4

LEMMA RootedInserted ==
    ASSUME NEW t, NEW id, id \notin DOMAIN t, NEW row, row.parent \in DOMAIN t, Rooted(t)
    PROVE  Rooted(Inserted(t, id, row))
  <1> DEFINE u == Inserted(t, id, row)
  <1>1. DOMAIN u = DOMAIN t \cup {id} /\ u[id] = row /\ \A m \in DOMAIN t : u[m] = t[m]
    BY DEF Inserted
  <1> HIDE DEF u
  <1>2. SUFFICES ASSUME NEW S \in SUBSET (DOMAIN u \ {Root}), S # {}
                 PROVE  \E m \in S : u[m].parent \in DOMAIN u \ S
    BY DEF Rooted, u
  <1>3. CASE id \in S /\ row.parent \notin S
    BY <1>1, <1>3
  <1>4. CASE id \notin S \/ row.parent \in S
    <2>1. S \ {id} \in SUBSET (DOMAIN t \ {Root}) /\ S \ {id} # {}
      BY <1>1, <1>2, <1>4
    <2>2. PICK m \in S \ {id} : t[m].parent \in DOMAIN t \ (S \ {id})
      BY <2>1 DEF Rooted
    <2>3. m \in DOMAIN t /\ m \in S /\ t[m].parent \in DOMAIN u /\ t[m].parent \notin S
      BY <1>1, <2>1, <2>2
    <2> QED BY <1>1, <2>3
  <1> QED BY <1>3, <1>4

LEMMA RootedSession ==
    ASSUME NEW t, NEW id \in Nat, NEW op, Len(op.tabs) \in Nat, \A m \in DOMAIN t : m \in Nat /\ m < id,
           op.parent \in DOMAIN t, Rooted(t)
    PROVE  Rooted(SessionSaved(t, op, id))
  <1> DEFINE u == SessionSaved(t, op, id)
             T == id + 1 .. id + Len(op.tabs)
  <1>1. id \notin DOMAIN t /\ id \notin T /\ T \cap DOMAIN t = {} /\ id .. id + Len(op.tabs) = T \cup {id}
    OBVIOUS
  <1>2. /\ DOMAIN u = DOMAIN t \cup T \cup {id}
        /\ u[id].parent = op.parent
        /\ \A m \in T : u[m].parent = id
        /\ \A m \in DOMAIN t : u[m] = t[m]
    <2> HIDE DEF T
    <2>1. u = [m \in DOMAIN t \cup T \cup {id} |->
                  IF m = id THEN Folder(op.parent, op.title)
                  ELSE IF m \in T THEN Bookmark(id, op.title, op.tabs[m - id]) ELSE t[m]]
      BY <1>1 DEF SessionSaved, T
    <2> HIDE DEF u
    <2> QED BY <1>1, <2>1 DEF Folder, Bookmark
  <1> HIDE DEF u, T
  <1>3. SUFFICES ASSUME NEW S \in SUBSET (DOMAIN u \ {Root}), S # {}
                 PROVE  \E m \in S : u[m].parent \in DOMAIN u \ S
    BY DEF Rooted, u
  <1>4. CASE id \notin S /\ S \cap T # {}
    BY <1>2, <1>4
  <1>5. CASE id \in S /\ op.parent \notin S
    BY <1>2, <1>5
  <1>6. CASE (id \in S /\ op.parent \in S) \/ (id \notin S /\ S \cap T = {})
    <2>1. S \cap DOMAIN t \in SUBSET (DOMAIN t \ {Root}) /\ S \cap DOMAIN t # {}
      BY <1>2, <1>3, <1>6
    <2>2. PICK m \in S \cap DOMAIN t : t[m].parent \in DOMAIN t \ (S \cap DOMAIN t)
      BY <2>1 DEF Rooted
    <2>3. m \in S /\ t[m].parent \in DOMAIN u /\ t[m].parent \notin S
      BY <1>2, <2>2
    <2> QED BY <1>2, <2>2, <2>3
  <1> QED BY <1>4, <1>5, <1>6

(* A tree in which the walk from the root reaches every row has neither a cycle nor
   a row below one that is not there. *)
LEMMA RootedNoCycle ==
    ASSUME NEW t, IsTree(t), RootKept(t), Rooted(t)
    PROVE  Acyclic(t) /\ NoDanglingParent(t)
  <1>1. Nil \notin DOMAIN t
    BY TreeConstants DEF IsTree, Id
  <1>2. Acyclic(t)
    <2> SUFFICES ASSUME NEW S \in SUBSET DOMAIN t, S # {} PROVE \E n \in S : t[n].parent \notin S
      BY DEF Acyclic
    <2>1. CASE Root \in S
      BY <1>1, <2>1 DEF RootKept
    <2>2. CASE Root \notin S
      BY <2>2 DEF Rooted
    <2> QED BY <2>1, <2>2
  <1>3. NoDanglingParent(t)
    <2> SUFFICES ASSUME NEW n \in DOMAIN t \ {Root} PROVE t[n].parent \in DOMAIN t
      BY DEF NoDanglingParent
    <2>1. {n} \in SUBSET (DOMAIN t \ {Root}) /\ {n} # {}
      OBVIOUS
    <2>2. \E m \in {n} : t[m].parent \in DOMAIN t \ {n}
      BY <2>1 DEF Rooted
    <2> QED BY <2>2
  <1> QED BY <1>2, <1>3

-----------------------------------------------------------------------------
(* The validator's simulated tree s follows the store's tree t, both coming from
   the loaded tree d: s has no rows and no parents but those of d, and every old
   row of t is in s under the same parent. *)
Within(s, d) ==
    /\ DOMAIN s \subseteq DOMAIN d
    /\ \A m \in DOMAIN s : s[m].parent \in DOMAIN d \cup {Nil}

Mirrors(t, s, d) ==
    \A m \in DOMAIN t \cap DOMAIN d : m \in DOMAIN s /\ s[m].parent = t[m].parent

LEMMA WithinItself ==
    ASSUME NEW d, IsTree(d), RootKept(d), Rooted(d)
    PROVE  Within(d, d)
  BY RootedNoCycle DEF Within, NoDanglingParent, RootKept

LEMMA WithinSimulated ==
    ASSUME NEW d, NEW s, IsTree(s), Within(s, d), NEW op, OpOK(s, op)
    PROVE  Within(Simulate(s, op), d)
  <1>1. CASE op.type = "move_node"
    <2>1. op.node \in DOMAIN s /\ op.parent \in DOMAIN s
      BY <1>1 DEF OpOK, MoveOK, WalksUp, Editable, RequireParentFolder
    <2>2. Hung(s, [s EXCEPT ![op.node].parent = op.parent], op.node, op.parent)
      BY <2>1, MovedHung
    <2>3. Simulate(s, op) = [s EXCEPT ![op.node].parent = op.parent]
      BY <1>1 DEF Simulate
    <2> QED BY <2>1, <2>2, <2>3 DEF Hung, Within
  <1>2. CASE op.type = "delete_node"
    <2>1. Simulate(s, op) = [n \in DOMAIN s \ {op.node} |-> s[n]]
      BY <1>2 DEF Simulate
    <2> QED BY <2>1 DEF Within
  <1>3. CASE op.type \notin {"move_node", "delete_node"}
    BY <1>3 DEF Simulate
  <1> QED BY <1>1, <1>2, <1>3

(* A walk that does not meet n in the validator's tree does not in the store's. *)
LEMMA WalkMirrored ==
    ASSUME NEW d, NEW s, NEW t, IsTree(t), Within(s, d), Mirrors(t, s, d),
           NEW p, p \in DOMAIN t, NEW n, ~ IsDescendant(s, p, n)
    PROVE  ~ IsDescendant(t, p, n)
  <1>1. PICK C \in SUBSET DOMAIN s : p \in C /\ ParentClosed(s, C) /\ n \notin C
    BY DEF IsDescendant
  <1> DEFINE B == C \cap DOMAIN t
  <1>2. B \in SUBSET DOMAIN t /\ p \in B /\ n \notin B
    BY <1>1
  <1>3. ASSUME NEW m \in B, t[m].parent \in DOMAIN t PROVE t[m].parent \in B
    <2>1. m \in DOMAIN t \cap DOMAIN d /\ m \in C
      BY <1>1 DEF Within
    <2>2. s[m].parent = t[m].parent
      BY <2>1 DEF Mirrors
    <2>3. t[m].parent \in DOMAIN s
      <3>1. t[m].parent \in DOMAIN d \cup {Nil}
        BY <1>1, <2>1, <2>2 DEF Within
      <3>2. CASE t[m].parent \in DOMAIN d
        BY <1>3, <3>2 DEF Mirrors
      <3>3. t[m].parent # Nil
        BY <1>3, TreeConstants DEF IsTree, Id
      <3> QED BY <3>1, <3>2, <3>3
    <2> QED BY <1>1, <1>3, <2>1, <2>2, <2>3 DEF ParentClosed
  <1> HIDE DEF B
  <1> QED BY <1>2, <1>3 DEF IsDescendant, ParentClosed

(* What the store does to the rows that were there: but for a move, a row that is
   left keeps its parent, and new rows have new ids. *)
LEMMA StoredShape ==
    ASSUME NEW t, IsTree(t), NEW n \in Nat, RowsBelow(t, n), NEW op \in Op \cup UnknownOp,
           NEW s, OpOK(s, op), ~ StoreFails(t, op, TRUE), op.type # "move_node"
    PROVE  LET u == StoreResult(t, op, n, TRUE)
           IN  \A m \in DOMAIN u : \/ m \in DOMAIN t /\ u[m].parent = t[m].parent
                                   \/ m \in Nat /\ m >= n
  <1> DEFINE u == StoreResult(t, op, n, TRUE)
             Shape(w) == \A m \in DOMAIN w : \/ m \in DOMAIN t /\ w[m].parent = t[m].parent
                                             \/ m \in Nat /\ m >= n
  <1>a. SUFFICES Shape(u)
    OBVIOUS
  <1>1. ASSUME NEW row PROVE Shape(Inserted(t, n, row))
    BY DEF Inserted
  <1>2. ASSUME op.node \in DOMAIN t, NEW row, row.parent = t[op.node].parent
        PROVE  Shape([t EXCEPT ![op.node] = row])
    BY <1>2 DEF IsTree
  <1>3. CASE op.type = "add_folder"
    <2>1. u = Inserted(t, n, Folder(op.parent, op.title))
      BY <1>3 DEF StoreResult
    <2> HIDE DEF u, Shape
    <2> QED BY <1>1, <2>1
  <1>4. CASE op.type = "add_bookmark"
    <2>1. u = Inserted(t, n, Bookmark(op.parent, op.title, op.url))
      BY <1>4 DEF StoreResult
    <2> HIDE DEF u, Shape
    <2> QED BY <1>1, <2>1
  <1>5. CASE op.type = "rename_node"
    <2> DEFINE row == [t[op.node] EXCEPT !.title = op.title]
    <2>1. op.node \in DOMAIN t
      BY <1>5 DEF StoreFails, NoStatement
    <2>2. row.parent = t[op.node].parent
      BY <2>1 DEF IsTree, Row
    <2>3. u = [t EXCEPT ![op.node] = row]
      BY <1>5 DEF StoreResult
    <2> HIDE DEF u, Shape, row
    <2> QED BY <1>2, <2>1, <2>2, <2>3
  <1>6. CASE op.type = "update_bookmark"
    <2>1. CASE NoStatement(op)
      <3>1. u = t
        BY <1>6, <2>1 DEF StoreResult
      <3> HIDE DEF u
      <3> QED BY <3>1
    <2>2. CASE ~ NoStatement(op)
      <3> DEFINE row == [t[op.node] EXCEPT !.title = Given(op.title, @), !.url = Given(op.url, @)]
      <3>1. op.node \in DOMAIN t
        BY <1>6, <2>2 DEF StoreFails
      <3>2. row.parent = t[op.node].parent
        BY <3>1 DEF IsTree, Row
      <3>3. u = [t EXCEPT ![op.node] = row]
        BY <1>6, <2>2 DEF StoreResult
      <3> HIDE DEF u, Shape, row
      <3> QED BY <1>2, <3>1, <3>2, <3>3
    <2> QED BY <2>1, <2>2
  <1>7. CASE op.type = "delete_node"
    <2>1. u = Deleted(t, op.node, TRUE)
      BY <1>7 DEF StoreResult
    <2> HIDE DEF u
    <2> QED BY <2>1 DEF Deleted
  <1>8. CASE op.type = "save_session"
    <2>1. Len(op.tabs) \in Nat
      BY <1>8, OpFields DEF SaveSessionOp
    <2>2. u = SessionSaved(t, op, n)
      BY <1>8 DEF StoreResult
    <2> HIDE DEF u
    <2>3. DOMAIN u = DOMAIN t \cup (n .. n + Len(op.tabs))
      BY <2>2 DEF SessionSaved
    <2>4. ASSUME NEW m \in DOMAIN t PROVE u[m] = t[m]
      <3>1. m < n /\ m \in Nat
        BY DEF RowsBelow, IsTree, Id
      <3>2. m # n /\ m \notin n + 1 .. n + Len(op.tabs) /\ m \in DOMAIN t \cup (n .. n + Len(op.tabs))
        BY <2>1, <3>1
      <3> QED BY <2>2, <3>2 DEF SessionSaved
    <2> QED BY <2>1, <2>3, <2>4
  <1> QED BY <1>3, <1>4, <1>5, <1>6, <1>7, <1>8 DEF OpOK

LEMMA MirrorsStored ==
    ASSUME NEW t, IsTree(t), NEW n \in Nat, RowsBelow(t, n), NEW d, RowsBelow(d, n),
           NEW s, IsTree(s), Mirrors(t, s, d),
           NEW op \in Op \cup UnknownOp, OpOK(s, op), ~ StoreFails(t, op, TRUE)
    PROVE  Mirrors(StoreResult(t, op, n, TRUE), Simulate(s, op), d)
  <1> DEFINE u == StoreResult(t, op, n, TRUE)
             v == Simulate(s, op)
  <1>1. CASE op.type = "move_node"
    <2>1. op.node \in DOMAIN s /\ op.node \in DOMAIN t
      BY <1>1 DEF OpOK, MoveOK, WalksUp, Editable, StoreFails
    <2>2. u = [t EXCEPT ![op.node].parent = op.parent] /\ v = [s EXCEPT ![op.node].parent = op.parent]
      BY <1>1 DEF StoreResult, Simulate
    <2> HIDE DEF u, v
    <2>3. Hung(t, u, op.node, op.parent) /\ Hung(s, v, op.node, op.parent)
      BY <2>1, <2>2, MovedHung
    <2>4. Mirrors(u, v, d)
      BY <2>1, <2>3 DEF Hung, Mirrors
    <2> QED BY <2>4 DEF u, v
  <1>2. CASE op.type # "move_node"
    <2>0. \A m \in DOMAIN u : \/ m \in DOMAIN t /\ u[m].parent = t[m].parent
                              \/ m \in Nat /\ m >= n
      BY <1>2, StoredShape
    <2>1. ASSUME NEW m \in DOMAIN u, m \in DOMAIN d PROVE m \in DOMAIN t /\ u[m].parent = t[m].parent
      <3>1. m < n
        BY <2>1 DEF RowsBelow
      <3> HIDE DEF u
      <3> QED BY <2>0, <2>1, <3>1
    <2>2. CASE op.type # "delete_node"
      <3>1. v = s
        BY <1>2, <2>2 DEF Simulate
      <3> HIDE DEF u, v
      <3>2. Mirrors(u, v, d)
        BY <2>1, <3>1 DEF Mirrors
      <3> QED BY <3>2 DEF u, v
    <2>3. CASE op.type = "delete_node"
      <3>1. v = [m \in DOMAIN s \ {op.node} |-> s[m]]
        BY <2>3 DEF Simulate
      <3>2. op.node \notin DOMAIN u
        <4>1. u = [m \in DOMAIN t \ Subtree(t, op.node) |-> t[m]]
          BY <2>3 DEF StoreResult, Deleted
        <4>2. op.node \in DOMAIN t => op.node \in Subtree(t, op.node)
          BY DEF Subtree, IsDescendant
        <4> HIDE DEF u
        <4> QED BY <4>1, <4>2
      <3> HIDE DEF u, v
      <3>3. Mirrors(u, v, d)
        BY <2>1, <3>1, <3>2 DEF Mirrors
      <3> QED BY <3>3 DEF u, v
    <2> QED BY <2>2, <2>3
  <1> QED BY <1>1, <1>2

(* With foreign keys enforced and the validator's tree following the store's, every
   row is still reached from the root after the operation. *)
LEMMA RootedStored ==
    ASSUME NEW t, IsTree(t), Rooted(t), NEW n \in Nat, RowsBelow(t, n), NEW d,
           NEW s, Within(s, d), Mirrors(t, s, d),
           NEW op \in Op \cup UnknownOp, OpOK(s, op), ~ StoreFails(t, op, TRUE)
    PROVE  Rooted(StoreResult(t, op, n, TRUE))
  <1> DEFINE u == StoreResult(t, op, n, TRUE)
  <1>1. CASE op.type = "move_node"
    <2>1. op.node \in DOMAIN t /\ op.parent \in DOMAIN t /\ ~ IsDescendant(s, op.parent, op.node)
      BY <1>1 DEF OpOK, MoveOK, WalksUp, Editable, StoreFails
    <2>2. ~ IsDescendant(t, op.parent, op.node)
      BY <2>1, WalkMirrored
    <2>3. Hung(t, u, op.node, op.parent)
      BY <1>1, <2>1, MovedHung DEF StoreResult
    <2> HIDE DEF u
    <2>4. Rooted(u)
      BY <2>1, <2>2, <2>3, RootedHung
    <2> QED BY <2>4 DEF u
  <1>2. CASE op.type = "delete_node"
    BY <1>2, RootedDeleted DEF StoreResult
  <1>3. CASE op.type \in {"add_folder", "add_bookmark"}
    <2> DEFINE row == IF op.type = "add_folder" THEN Folder(op.parent, op.title)
                      ELSE Bookmark(op.parent, op.title, op.url)
    <2>1. u = Inserted(t, n, row) /\ row.parent = op.parent
      BY <1>3 DEF StoreResult, Folder, Bookmark
    <2> HIDE DEF row
    <2>2. op.parent \in DOMAIN t /\ n \notin DOMAIN t
      BY <1>3 DEF StoreFails, RowsBelow
    <2>3. Rooted(Inserted(t, n, row))
      BY <2>1, <2>2, RootedInserted
    <2> QED BY <2>1, <2>3
  <1>4. CASE op.type = "save_session"
    <2>1. Len(op.tabs) \in Nat
      BY <1>4, OpFields DEF SaveSessionOp
    <2>2. op.parent \in DOMAIN t /\ \A m \in DOMAIN t : m \in Nat /\ m < n
      BY <1>4 DEF StoreFails, RowsBelow, IsTree, Id
    <2> QED BY <1>4, <2>1, <2>2, RootedSession DEF StoreResult
  <1>5. CASE op.type \in {"rename_node", "update_bookmark"}
    <2>1. DOMAIN u = DOMAIN t
      <3>1. NoStatement(op) \/ op.node \in DOMAIN t
        BY <1>5 DEF StoreFails
      <3> QED BY <1>5 DEF StoreResult, IsTree
    <2>2. \A m \in DOMAIN u : \/ m \in DOMAIN t /\ u[m].parent = t[m].parent
                              \/ m \in Nat /\ m >= n
      BY <1>5, StoredShape
    <2> HIDE DEF u
    <2>4. \A m \in DOMAIN u : u[m].parent = t[m].parent
      BY <2>1, <2>2 DEF RowsBelow
    <2>3. Rooted(u)
      BY <2>1, <2>4 DEF Rooted
    <2> QED BY <2>3 DEF u
  <1> QED BY <1>1, <1>2, <1>3, <1>4, <1>5 DEF OpOK
=============================================================================
