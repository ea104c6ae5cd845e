------------------------------ MODULE MCForwards ------------------------------
(* Small instances of Forwards for TLC. *)
EXTENDS Forwards, TLC

\* Ids and client ids are random strings that are only compared.
Symmetry == Permutations(Ids) \cup Permutations(Clients)

=============================================================================
