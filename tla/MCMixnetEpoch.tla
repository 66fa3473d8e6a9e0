---------------------------- MODULE MCMixnetEpoch ----------------------------
EXTENDS MixnetEpoch, TLC

CONSTANTS o1, o2, d1

\* Accounts are interchangeable.
OwnerSymmetry == Permutations(Owner)

\* Active and rewarded set sizes at instantiation.
BothActive == [active |-> 2, rewarded |-> 2]
OneStandby == [active |-> 1, rewarded |-> 2]
==============================================================================
