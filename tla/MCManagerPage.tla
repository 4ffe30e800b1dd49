--------------------------- MODULE MCManagerPage ---------------------------
(* A small instance of ManagerPage. *)
EXTENDS ManagerPage, TLC

Symmetry == Permutations(Sites) \cup Permutations(Names) \cup Permutations(Secrets)
              \cup Permutations(Oids)
=============================================================================
