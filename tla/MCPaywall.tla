------------------------------ MODULE MCPaywall ------------------------------
EXTENDS Paywall
==============================================================================
