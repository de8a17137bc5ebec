------------------------- MODULE MCServerController -------------------------
(***************************************************************************)
(* ServerController for TLC: users are interchangeable.                    *)
(***************************************************************************)
EXTENDS ServerController, TLC

Symmetry == Permutations(Users)
=============================================================================
