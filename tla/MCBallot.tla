------------------------------ MODULE MCBallot ------------------------------
(* Ballot for TLC: model values for the tickets and the vote options. *)
EXTENDS Ballot, TLC

Symmetry == Permutations(Tickets) \cup Permutations(Bits)

=============================================================================
