------------------------------ MODULE MCGitBe ------------------------------
EXTENDS GitBe, TLC

\* Records are interchangeable; no liveness is checked.
Symmetry == Permutations(Tokens)
=============================================================================
