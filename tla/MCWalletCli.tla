------------------------------ MODULE MCWalletCli ------------------------------
EXTENDS WalletCli

CONSTANTS o1, o2, w1, w2, a1

\* The orders go to one customer address
MCDest == [o \in Orders |-> "addr"]

\* or each to its own.
MCOwnDest == [o \in Orders |-> o]

\* People pay the first order alone by hand.
FirstByHand == \A t \in chain : t.from = "human" => t.order = o1
=============================================================================
