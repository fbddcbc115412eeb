-------------------------- MODULE MCSnapshotStore ---------------------------
(* Instances of SnapshotStore for TLC: the bounds are in the               *)
(* configurations.                                                         *)
EXTENDS SnapshotStore
=============================================================================
