--------------------------- MODULE MCRecordStore ---------------------------
(* RecordStore for TLC: model values for the file and stream contents. *)
EXTENDS RecordStore, TLC

Symmetry == Permutations(Files)

=============================================================================
