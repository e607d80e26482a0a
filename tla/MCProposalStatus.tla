-------------------------- MODULE MCProposalStatus --------------------------
EXTENDS ProposalStatus, TLC
Symmetry == Permutations(Readers)
=============================================================================
