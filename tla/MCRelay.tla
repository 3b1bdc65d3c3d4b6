------------------------------ MODULE MCRelay ------------------------------
EXTENDS Relay, TLC
=============================================================================
