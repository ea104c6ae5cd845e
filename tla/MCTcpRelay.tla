------------------------------ MODULE MCTcpRelay ------------------------------
EXTENDS TcpRelay
=============================================================================
