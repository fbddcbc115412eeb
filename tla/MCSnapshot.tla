----------------------------- MODULE MCSnapshot -----------------------------
EXTENDS Snapshot, TLC

CONSTANTS v1, v2, v3, v4

MCValidators == {v1, v2, v3, v4}

MCSets == {set \in SUBSET MCValidators : Cardinality(set) \in {2, 4}}

Symmetric == Permutations(MCValidators)
=============================================================================
