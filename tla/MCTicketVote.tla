---------------------------- MODULE MCTicketVote ----------------------------
(* TicketVote for TLC: model values for the records. *)
EXTENDS TicketVote, TLC

Symmetry == Permutations(Subs) \cup Permutations(Workers)
ApproveFirst == <<1, 2>>
OneTally == {<<1, 0>>}
=============================================================================
