--------------------------- MODULE MCReceiveBuffer ---------------------------
(* Short streams of every kind, and longer ones of text and newlines.      *)
EXTENDS ReceiveBuffer, SequencesExt

CONSTANTS a, MaxMixed, MaxText

MCByte == {a, NL, NUL, Cmd, Args}
MCStream == BoundedSeq(MCByte, MaxMixed) \cup BoundedSeq({a, NL}, MaxText)
=============================================================================
