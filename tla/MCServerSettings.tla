-------------------------- MODULE MCServerSettings --------------------------
(***************************************************************************)
(* ServerSettings on two pages, two keys and two values.                   *)
(***************************************************************************)
EXTENDS ServerSettings, TLC

CONSTANTS page1, page2, motd, pvp, a, b

MCPages == {page1, page2}
MCKeys == {motd, pvp}
MCValues == {a, b}

Symmetry == Permutations(MCPages) \cup Permutations(MCKeys)
=============================================================================
