------------------------------ MODULE MCSessions ------------------------------
(* Small instances of Sessions for TLC. *)
EXTENDS Sessions, TLC

CONSTANTS c1, c2, t1, t2

OneToken == c1 :> t1
TwoTokens == c1 :> t1 @@ c2 :> t2

\* Connections are only compared.
Symmetry == Permutations(Conns)

=============================================================================
