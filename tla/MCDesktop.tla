----------------------------- MODULE MCDesktop -----------------------------
(* A small instance of Desktop: two users who share a computer. *)
EXTENDS Desktop, TLC

(* One of the users has stored an account. *)
MCVaults == {[u \in Users |-> IF u = owner THEN {u} ELSE {}] : owner \in Users}

Symmetry == Permutations(Users)
=============================================================================
