---------------------------- MODULE BookmarkTree ----------------------------
(***************************************************************************)
(* The bookmark tree and the seven operations of a batch: what             *)
(* core.ValidateOps accepts (pkg/core/validate.go), and what the store      *)
(* does with an accepted operation inside its SQLite transaction           *)
(* (pkg/storage/sqlite/sqlite.go).                                         *)
(*                                                                         *)
(* A tree is a function from the ids of its rows to the rows.  An id is a  *)
(* natural number: core.NewNodeID hands out ULIDs that are fresh and       *)
(* increasing.  The rank of a row among its siblings (column ord) is left  *)
(* to module OrdKeys; a requested index is kept, because the validator     *)
(* refuses a batch for it.                                                 *)
(***************************************************************************)
EXTENDS Integers, Sequences, FiniteSets

CONSTANTS
    Nil,        \* SQL NULL and Go nil: no parent, no url, no index given
    Titles,     \* titles a client may send
    WebUrls,    \* urls url.Parse accepts with scheme http or https
    OtherUrls   \* every other url: unparsable, other schemes, a tab's empty one

ASSUME TreeConstants == Nil \notin Int /\ Nil \notin Titles \cup WebUrls \cup OtherUrls

Id    == Nat
Root  == 0
Kinds == {"folder", "bookmark"}

Row  == [parent : Id \cup {Nil}, kind : Kinds,
         title : Titles, url : WebUrls \cup OtherUrls \cup {Nil}]
IsTree(t) == DOMAIN t \subseteq Id /\ t \in [DOMAIN t -> Row]

(***************************************************************************)
(* Operations, as types.go declares them.  Titles and urls of a session's  *)
(* tabs come as one url per tab; delete_node's recursive flag is carried   *)
(* by the request and read by nobody.                                      *)
(***************************************************************************)
Url      == WebUrls \cup OtherUrls
Index    == Int \cup {Nil}
AddFolderOp      == [type : {"add_folder"}, parent : Id, title : Titles, index : Index]
AddBookmarkOp    == [type : {"add_bookmark"}, parent : Id, title : Titles, url : Url,
                     index : Index]
RenameNodeOp     == [type : {"rename_node"}, node : Id, title : Titles]
MoveNodeOp       == [type : {"move_node"}, node : Id, parent : Id, index : Index]
DeleteNodeOp     == [type : {"delete_node"}, node : Id, recursive : BOOLEAN]
UpdateBookmarkOp == [type : {"update_bookmark"}, node : Id,
                     title : Titles \cup {Nil}, url : Url \cup {Nil}]
SaveSessionOp    == [type : {"save_session"}, parent : Id, title : Titles,
                     tabs : Seq(Url), index : Index]
OpTypes == {"add_folder", "add_bookmark", "rename_node", "move_node", "delete_node",
            "update_bookmark", "save_session"}
Op == AddFolderOp \cup AddBookmarkOp \cup RenameNodeOp \cup MoveNodeOp
        \cup DeleteNodeOp \cup UpdateBookmarkOp \cup SaveSessionOp

(* What toCoreOp refuses: a type the daemon does not know, whose other fields
   are never looked at, or a known one that lacks a field *)
UnknownOp == [type : STRING \ OpTypes]
Batch     == Seq(Op \cup UnknownOp)

-----------------------------------------------------------------------------
(* Shape of a tree *)

Children(t, p) == {n \in DOMAIN t : t[n].parent = p}

(* S holds, with a row, the row's parent when that row exists. *)
ParentClosed(t, S) == \A n \in S : t[n].parent \in DOMAIN t => t[n].parent \in S

(* The walk up the parent pointers from c meets a: every set the walk cannot
   leave holds a. *)
IsDescendant(t, c, a) ==
    \A S \in SUBSET DOMAIN t : (c \in S /\ ParentClosed(t, S)) => a \in S

Subtree(t, n) == {m \in DOMAIN t : IsDescendant(t, m, n)}

(* The walk from c neither meets a nor ends: it is caught in a set of rows
   that all have their parents in the set. *)
DivergesAtRoot(t, c, a) ==                                      \* mutant
    \E S \in SUBSET DOMAIN t :
        c \in S /\ a \notin S /\ \A n \in S : t[n].parent \in S \cup {Nil}
Diverges(t, c, a) ==
    \E S \in SUBSET DOMAIN t :
        c \in S /\ a \notin S /\ \A n \in S : t[n].parent \in S

-----------------------------------------------------------------------------
(* core.ValidateOps, one operation against the validator's tree *)

RequireParentFolderAnyKind(t, p) == p \in DOMAIN t             \* mutant
RequireParentFolder(t, p) == p \in DOMAIN t /\ t[p].kind = "folder"

ValidIndex(t, p, i) == i = Nil \/ i \in 0 .. Cardinality(Children(t, p))

Place(t, op) == RequireParentFolder(t, op.parent) /\ ValidIndex(t, op.parent, op.index)

(* A node that may be renamed, moved or deleted: any but the root *)
EditableOrRoot(t, n) == n \in DOMAIN t                          \* mutant
Editable(t, n) == n \in DOMAIN t \ {Root}

(* The operations whose validation reaches the unbounded walk of isDescendant *)
WalksUp(t, op) ==
    /\ op.type = "move_node"
    /\ Editable(t, op.node)
    /\ RequireParentFolder(t, op.parent)
    /\ op.parent # op.node

NeverValidated(t, op) == WalksUp(t, op) /\ Diverges(t, op.parent, op.node)

MoveOKParentOnly(t, op) ==                                      \* mutant
    WalksUp(t, op) /\ t[op.parent].parent # op.node /\ Place(t, op)
MoveOK(t, op) ==
    WalksUp(t, op) /\ ~IsDescendant(t, op.parent, op.node) /\ Place(t, op)

UpdateOKAnyKind(t, op) == op.node \in DOMAIN t /\ op.url \in WebUrls \cup {Nil}   \* mutant
UpdateOK(t, op) ==
    /\ op.node \in DOMAIN t
    /\ t[op.node].kind = "bookmark"
    /\ op.url \in WebUrls \cup {Nil}

OpOK(t, op) ==
    \/ op.type = "add_folder"      /\ Place(t, op)
    \/ op.type = "add_bookmark"    /\ Place(t, op) /\ op.url \in WebUrls
    \/ op.type = "rename_node"     /\ Editable(t, op.node)
    \/ op.type = "move_node"       /\ MoveOK(t, op)
    \/ op.type = "delete_node"     /\ Editable(t, op.node)
    \/ op.type = "update_bookmark" /\ UpdateOK(t, op)
    \/ op.type = "save_session"    /\ Place(t, op) /\ \A k \in DOMAIN op.tabs : op.tabs[k] \in WebUrls

(* treeState.moveNode and treeState.deleteNode: a move is simulated, a delete
   takes the one node and leaves its descendants, the rest is not simulated. *)
Simulate(t, op) ==
    CASE op.type = "move_node"   -> [t EXCEPT ![op.node].parent = op.parent]
      [] op.type = "delete_node" -> [n \in DOMAIN t \ {op.node} |-> t[n]]
      [] OTHER -> t

-----------------------------------------------------------------------------
(* Store.ApplyOps, one operation inside the transaction.  fk is the setting of
   PRAGMA foreign_keys on the connection that runs it. *)

NewIds(op) ==
    CASE op.type \in {"add_folder", "add_bookmark"} -> 1
      [] op.type = "save_session" -> 1 + Len(op.tabs)
      [] OTHER -> 0

(* update_bookmark with neither field returns before any statement. *)
NoStatement(op) == op.type = "update_bookmark" /\ op.title = Nil /\ op.url = Nil

StoreFails(t, op, fk) ==
    \/ /\ op.type \in {"add_folder", "add_bookmark", "save_session"}
       /\ fk /\ op.parent \notin DOMAIN t
    \/ /\ op.type = "move_node"
       /\ op.node \notin DOMAIN t \/ (fk /\ op.parent \notin DOMAIN t)
    \/ /\ op.type \in {"rename_node", "delete_node", "update_bookmark"}
       /\ ~NoStatement(op)
       /\ op.node \notin DOMAIN t

Folder(p, title)        == [parent |-> p, kind |-> "folder", title |-> title, url |-> Nil]
Bookmark(p, title, url) == [parent |-> p, kind |-> "bookmark", title |-> title, url |-> url]

Inserted(t, id, row) == [n \in DOMAIN t \cup {id} |-> IF n = id THEN row ELSE t[n]]

(* The session's folder gets the first fresh id, its tabs the following ones. *)
SessionSaved(t, op, id) ==
    [n \in DOMAIN t \cup (id .. id + Len(op.tabs)) |->
        IF n = id THEN Folder(op.parent, op.title)
        ELSE IF n \in id + 1 .. id + Len(op.tabs)
             THEN Bookmark(id, op.title, op.tabs[n - id])
             ELSE t[n]]

Given(new, old) == IF new = Nil THEN old ELSE new

Deleted(t, n, fk) == [m \in DOMAIN t \ (IF fk THEN Subtree(t, n) ELSE {n}) |-> t[m]]

StoreResult(t, op, id, fk) ==
    CASE op.type = "add_folder"   -> Inserted(t, id, Folder(op.parent, op.title))
      [] op.type = "add_bookmark" -> Inserted(t, id, Bookmark(op.parent, op.title, op.url))
      [] op.type = "rename_node"  -> [t EXCEPT ![op.node].title = op.title]
      [] op.type = "move_node"    -> [t EXCEPT ![op.node].parent = op.parent]
      [] op.type = "delete_node"  -> Deleted(t, op.node, fk)
      [] op.type = "update_bookmark" ->
            IF NoStatement(op) THEN t
            ELSE [t EXCEPT ![op.node].title = Given(op.title, @),
                           ![op.node].url = Given(op.url, @)]
      [] op.type = "save_session" -> SessionSaved(t, op, id)

-----------------------------------------------------------------------------
(* What a stored tree must look like *)

RootKept(t) == Root \in DOMAIN t /\ t[Root].parent = Nil /\ t[Root].kind = "folder"

FolderParents(t) == \A n \in DOMAIN t :
    t[n].parent \in DOMAIN t => t[t[n].parent].kind = "folder"

(* Every row but the root is reached from the root: no set of rows hangs in
   the air, neither in a cycle nor below a row that is gone. *)
Rooted(t) == \A S \in SUBSET (DOMAIN t \ {Root}) :
    S # {} => \E n \in S : t[n].parent \in DOMAIN t \ S

NoDanglingParent(t) == \A n \in DOMAIN t \ {Root} : t[n].parent \in DOMAIN t

Acyclic(t) == \A S \in SUBSET DOMAIN t :
    S # {} => \E n \in S : t[n].parent \notin S

UrlsMatchKinds(t) == \A n \in DOMAIN t :
    IF t[n].kind = "bookmark" THEN t[n].url \in WebUrls ELSE t[n].url = Nil

WellFormed(t) == RootKept(t) /\ FolderParents(t) /\ Rooted(t) /\ UrlsMatchKinds(t)
=============================================================================
