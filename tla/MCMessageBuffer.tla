-------------------------- MODULE MCMessageBuffer --------------------------
EXTENDS MessageBuffer, TLC
=============================================================================
