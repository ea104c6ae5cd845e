------------------------------ MODULE MCUdpPeers ------------------------------
EXTENDS UdpPeers
=============================================================================
