----------------------------- MODULE MCAesdChar -----------------------------
(* The character device with small sets of files, blocks and data.         *)
EXTENDS AesdChar, TLC

CONSTANT a   \* a character other than newline

MCZeroEntry == [buffptr |-> NULL, size |-> 0]
MCByte == {a, NL}

(* Nothing, part of a command, the end of one, and a whole one.            *)
MCUserData == {<< >>, <<a>>, <<NL>>, <<a, NL>>}
ShortData == {<< >>, <<a>>, <<NL>>}

(* Every loff_t, and the ones at its ends and around zero.                 *)
AnyOffset == -LoffMax - 1 .. LoffMax
EdgeOffset == {-LoffMax - 1, -1, 0, 1, LoffMax}

Symmetry == Permutations(Ptr) \cup Permutations(File)
=============================================================================
