--------------------------- MODULE MCAccountStore ---------------------------
(***************************************************************************)
(* AccountStore on two browsers, three usernames and two passwords.        *)
(***************************************************************************)
EXTENDS AccountStore, TLC

CONSTANTS alice, bob, admin, steve, alex, seed, p1, p2

MCFlows == {alice, bob}
MCNames == {admin, steve, alex}
MCPasswords == {p1, p2}

Symmetry == Permutations(MCFlows) \cup Permutations({steve, alex}) \cup Permutations(MCPasswords)
=============================================================================
