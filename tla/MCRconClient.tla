---------------------------- MODULE MCRconClient ----------------------------
(***************************************************************************)
(* Constants of RconClient for TLC.                                        *)
(***************************************************************************)
EXTENDS RconClient, TLC

\* Answers of a server whose packets have the lengths the client counts on.
PlainReplies == {<<"part">>, <<"full", "part">>, <<"full">>}

\* The hypotheses of RunsOnce and FinalAnswers in RconClientProofs hold of them.
ASSUME PlainAssumption ==
    Acceptable(PlainReplies) /\ SplitWhenFull(PlainReplies)

\* ... and of one whose packets hold more bytes than characters: a first packet
\* that is not recognised as full, or one that is too long to accept.
AnyReplies == {<<"part">>, <<"full", "part">>, <<"part", "part">>, <<"over">>}

Symmetry == Permutations(Callers)
=============================================================================
