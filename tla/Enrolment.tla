----------------------------- MODULE Enrolment -----------------------------
(***************************************************************************)
(* What the account server of TwoKey promises, without requests, sessions  *)
(* or interleavings: a hardware token is bound to one user once and for    *)
(* ever, a user has at most one token, and access is granted to a user     *)
(* only by an answer of the token bound to that user.                      *)
(***************************************************************************)
CONSTANTS Devices,      \* the hardware tokens
          Uuids,        \* public ids of users
          Printed       \* a token that nobody has registered yet

VARIABLES serial,       \* what each token's Serial field holds
          signedIn      \* the pairs <<public id, token>> of the accesses granted

vars == <<serial, signedIn>>

Init == /\ serial = [d \in Devices |-> Printed]
        /\ signedIn = {}

Bind(d, u) ==
    /\ serial[d] = Printed
    /\ \A e \in Devices : serial[e] # u
    /\ serial' = [serial EXCEPT ![d] = u]
    /\ UNCHANGED signedIn

SignIn(d, u) ==
    /\ serial[d] = u
    /\ signedIn' = signedIn \cup {<<u, d>>}
    /\ UNCHANGED serial

Next == \E d \in Devices, u \in Uuids : Bind(d, u) \/ SignIn(d, u)

Spec == Init /\ [][Next]_vars
=============================================================================
