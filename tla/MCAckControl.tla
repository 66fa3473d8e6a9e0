---------------------------- MODULE MCAckControl ----------------------------
(* Small instances of AckControl.                                          *)
EXTENDS AckControl, TLC

Symmetry == Permutations(Key)
=============================================================================
