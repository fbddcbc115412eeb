---------------------------- MODULE MCTransactor ----------------------------
EXTENDS Transactor, TLC

Symmetric == Permutations(Messages) \cup Permutations(Forks)
=============================================================================
