------------------------------- MODULE Blocks -------------------------------
(***************************************************************************)
(* Block identities shared by every component.  A block hash commits to    *)
(* the whole history of the block, so a block is modelled by that history: *)
(* the sequence of the bodies from the block after genesis to the block    *)
(* itself.  Two blocks are the same block exactly when their histories are *)
(* equal; the number of a block is the length of its history; the parent   *)
(* is the history without its last body; genesis is the empty history.     *)
(* What a body holds is chosen by the module that uses these operators.    *)
(***************************************************************************)
EXTENDS Naturals, Sequences

Genesis == << >>

\* Header.Number, Snapshot.Number
Number(b) == Len(b)

\* Header.ParentHash, Snapshot.ParentHash
Parent(b) == SubSeq(b, 1, Len(b) - 1)

\* The header's own contents: everything of the block but its parent.
Body(b) == b[Len(b)]

\* The ancestor of b at height n: where a walk over ParentHash that stops at
\* number n ends.  n is at most Number(b).
AncestorAt(b, n) == SubSeq(b, 1, n)

\* a is b or an ancestor of b.
IsAncestor(a, b) ==
    /\ Len(a) <= Len(b)
    /\ \A i \in 1 .. Len(a) : a[i] = b[i]

Comparable(a, b) == IsAncestor(a, b) \/ IsAncestor(b, a)
=============================================================================
