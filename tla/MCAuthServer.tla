--------------------------- MODULE MCAuthServer ---------------------------
(* A small instance of AuthServer: two handlers at a time, three uuids, so  *)
(* that two accounts and a session, or an account and two sessions, meet.   *)
EXTENDS AuthServer, TLC

Symmetry == Permutations(Workers) \cup Permutations(Emails)
              \cup Permutations(Passwords) \cup Permutations(Devices)
              \cup Permutations(Uuids)
=============================================================================
