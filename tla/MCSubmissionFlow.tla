-------------------------- MODULE MCSubmissionFlow --------------------------
EXTENDS SubmissionFlow, TLC

Symmetry == Permutations(Cids) \cup Permutations(Users)
CidSymmetry == Permutations(Cids)
=============================================================================
