----------------------------- MODULE MCComments -----------------------------
EXTENDS Comments
=============================================================================
