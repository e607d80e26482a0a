------------------------------ MODULE MCAnchor ------------------------------
(* Anchor for TLC. *)
EXTENDS Anchor, TLC

=============================================================================
