--------------------------- MODULE MCEpochOperations ---------------------------
(* A small instance of EpochOperations for TLC.                               *)
EXTENDS EpochOperations, TLC

CONSTANTS o1, o2, d1

\* Active and rewarded set sizes at instantiation.
BothActive == [active |-> 2, rewarded |-> 2]
==============================================================================
