-------------------------- MODULE MCMatchingEngine --------------------------
EXTENDS MatchingEngine

\* The engine only compares users for equality.
UserSymmetry == Permutations(Users)
=============================================================================
