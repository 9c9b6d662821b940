----------------------------- MODULE TreeService -----------------------------
(***************************************************************************)
(* What the daemon promises of apply_ops: the tree changes by whole        *)
(* batches, applied in order, all or nothing.  With Serialized, also that  *)
(* each batch was found valid against the very tree it changes, and that   *)
(* foreign keys are enforced (docs/design_doc_v1.md 3.4, 4.1 and 6.7).     *)
(***************************************************************************)
EXTENDS BookmarkTree

CONSTANTS Batches, InitialTrees, Serialized

VARIABLES
    tree,
    nextId    \* every smaller id may have been handed out

(* core.ValidateOps over a batch: each operation is checked against the tree
   the validator has simulated so far. *)
ValidBatch(t, b) ==
    LET sim[k \in 0 .. Len(b)] == IF k = 0 THEN t ELSE Simulate(sim[k - 1], b[k])
    IN  \A k \in 1 .. Len(b) : OpOK(sim[k - 1], b[k])

(* Store.ApplyOps over a batch, the first new row getting the given id *)
Applied(t, b, first, fk) ==
    LET run[k \in 0 .. Len(b)] ==
            IF k = 0 THEN [fails |-> FALSE, tree |-> t, id |-> first]
            ELSE LET s == run[k - 1]
                 IN  IF s.fails \/ StoreFails(s.tree, b[k], fk)
                     THEN [s EXCEPT !.fails = TRUE]
                     ELSE [fails |-> FALSE,
                           tree  |-> StoreResult(s.tree, b[k], s.id, fk),
                           id    |-> s.id + NewIds(b[k])]
    IN  run[Len(b)]

(* The ids of the new rows are the last ones that were handed out.  A batch that
   leaves the tree as it was is no step of the service. *)
ApplyBatch(b) ==
    /\ tree' # tree /\ UNCHANGED nextId
    /\ Serialized => ValidBatch(tree, b)
    /\ \E first \in 0 .. nextId, fk \in IF Serialized THEN {TRUE} ELSE BOOLEAN :
          LET done == Applied(tree, b, first, fk)
          IN  /\ \A n \in DOMAIN tree : n < first
              /\ ~done.fails /\ done.id = nextId
              /\ tree' = done.tree

(* Ids are never handed out twice: those of a batch that is rolled back are lost. *)
HandOut == nextId' > nextId /\ UNCHANGED tree

Init == tree \in InitialTrees /\ nextId \in Nat
Next == HandOut \/ \E b \in Batches : ApplyBatch(b)
Spec == Init /\ [][Next]_<<tree, nextId>>
=============================================================================
