---------------------------- MODULE MCSessionApi ----------------------------
EXTENDS SessionApi, TLC

Symmetry == Permutations(Sids) \cup Permutations(Requests)
=============================================================================
