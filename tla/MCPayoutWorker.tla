---------------------------- MODULE MCPayoutWorker ----------------------------
EXTENDS PayoutWorker, TLC

CONSTANTS o1, o2, w1, w2, a1, a2

\* Both orders go to one customer address, so a transfer for one pays the other.
MCDest == [o \in Orders |-> "addr"]

\* Each order goes to an address of its own, so no transfer pays two orders.
MCOwnDest == [o \in Orders |-> o]

Symmetry == Permutations(Workers) \cup Permutations(Admins)
=============================================================================
