---------------------------- MODULE MCInvoices ----------------------------
EXTENDS Invoices, TLC

\* Addresses are interchangeable; no liveness is checked.
Symmetry == Permutations(Addresses)
=============================================================================
