---------------------------- MODULE MCWhitelist ----------------------------
(***************************************************************************)
(* Whitelist on two pages and two accounts.                                *)
(***************************************************************************)
EXTENDS Whitelist, TLC

CONSTANTS page1, page2, steve, alex

MCPages == {page1, page2}
MCNames == {steve, alex}

\* Little is claimed of a state with two kinds of harm: its successors are left out.
OneHarm == Cardinality(harm) <= 1

Symmetry == Permutations(MCPages) \cup Permutations(MCNames)
=============================================================================
