----------------------------- MODULE BlockTree ------------------------------
(***************************************************************************)
(* BlockTree (status.go): the blocks above the finalized root which the    *)
(* verifier contract knows.  A tree is its root and its set of nodes; the  *)
(* children of a node are the nodes whose parent it is.                    *)
(***************************************************************************)
EXTENDS Blocks, FiniteSetsExt, SequencesExt

NewBlockTree(id) == [root |-> id, nodes |-> {id}]

ChildrenOf(tree, parent) ==
    {b \in tree.nodes : b # Genesis /\ Parent(b) = parent}

\* Add fails with DuplicatedHash or NoParentHash when this is false.
CanAdd(tree, b) == b \notin tree.nodes /\ Parent(b) \in tree.nodes

Add(tree, b) == [tree EXCEPT !.nodes = @ \cup {b}]

\* Faulty: the rival branches stay in the tree.
PruneRootOnly(tree, until) ==
    [root |-> until, nodes |-> tree.nodes \ {tree.root}]

\* Prune: everything reached from the root without passing `until' goes.
\* Pruning at the root itself empties the tree.
Prune(tree, until) ==
    [root  |-> until,
     nodes |-> IF until = tree.root THEN {}
               ELSE {b \in tree.nodes : IsAncestor(until, b)}]

\* The branches selectFork may follow from the root: their last block.
Tips(tree) == {b \in tree.nodes : ChildrenOf(tree, b) = {}}

\* The blocks of a branch above the root, oldest first.
Branch(tree, tip) ==
    [i \in 1 .. Number(tip) - Number(tree.root) |->
        AncestorAt(tip, Number(tree.root) + i)]

\* EncodeRLP: the nodes in the order of a queue that begins with the root, that
\* is level by level, each with the number of its children.  Which block of a
\* level comes first is left open.
Encode(tree) ==
    LET level(n) == {b \in tree.nodes \cup {tree.root} :
                        Number(b) = n /\ IsAncestor(tree.root, b)}
        root == Number(tree.root)
        queue == FlattenSeq([d \in 1 .. Cardinality(tree.nodes) + 1 |->
                                SetToSeq(level(root + d - 1))])
    IN  [i \in DOMAIN queue |->
            [sz |-> Cardinality(ChildrenOf(tree, queue[i])), id |-> queue[i]]]

\* DecodeRLP: items are read as long as an earlier one has announced them.
Decode(items) ==
    LET announced[i \in 0 .. Len(items)] ==
            IF i = 0 THEN 1 ELSE announced[i - 1] + items[i].sz
        read == Min({i \in DOMAIN items : announced[i] = i})
    IN  [root |-> items[1].id, nodes |-> {items[i].id : i \in 1 .. read}]
=============================================================================
