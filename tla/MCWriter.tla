------------------------------ MODULE MCWriter ------------------------------
EXTENDS Writer, SequencesExt

CONSTANT MaxLen

MCString == BoundedSeq(Char, MaxLen)
=============================================================================
