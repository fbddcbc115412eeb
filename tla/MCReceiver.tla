----------------------------- MODULE MCReceiver -----------------------------
(* Instances of Receiver for TLC: the bounds are in the configurations.    *)
EXTENDS Receiver
=============================================================================
