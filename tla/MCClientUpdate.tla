---------------------------- MODULE MCClientUpdate ----------------------------
EXTENDS ClientUpdate
=============================================================================
