---------------------------- MODULE MCConsolePage ----------------------------
(***************************************************************************)
(* ConsolePage for TLC.  One batch unconfirmed at a time is enough for     *)
(* ActionIsShown, which no batch is involved in; the invariants are proved *)
(* for any number.                                                         *)
(***************************************************************************)
EXTENDS ConsolePage
=============================================================================
