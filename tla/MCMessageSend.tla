--------------------------- MODULE MCMessageSend ---------------------------
(***************************************************************************)
(* Instances of MessageSend for TLC.                                       *)
(***************************************************************************)
EXTENDS MessageSend, TLC

\* Nothing tells two sessions or two leads apart.
MCSymmetry == Permutations(Session) \cup Permutations(Lead)
=============================================================================
