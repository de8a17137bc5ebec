-------------------------- MODULE MCReconnectModal --------------------------
(***************************************************************************)
(* Constants of ReconnectModal for TLC.                                    *)
(***************************************************************************)
EXTENDS ReconnectModal
=============================================================================
