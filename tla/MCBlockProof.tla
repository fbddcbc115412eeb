---------------------------- MODULE MCBlockProof ----------------------------
(* Instances of BlockProof for TLC: the bounds are in the configurations.  *)
EXTENDS BlockProof
=============================================================================
