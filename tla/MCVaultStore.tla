--------------------------- MODULE MCVaultStore ---------------------------
(* A small instance of VaultStore. *)
EXTENDS VaultStore, TLC

Symmetry == Permutations(Workers) \cup Permutations(Urls) \cup Permutations(Names)
              \cup Permutations(Secrets) \cup Permutations(Oids)
=============================================================================
