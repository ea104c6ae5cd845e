----------------------------- MODULE MCSelfUpdate -----------------------------
EXTENDS SelfUpdate
=============================================================================
