-------------------------------- MODULE MCAuth --------------------------------
EXTENDS Auth, TLC

\* Logins and password changes are interchangeable.
Symmetric == Permutations(Logins) \cup Permutations(Changes)
=============================================================================
