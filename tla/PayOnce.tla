--------------------------------- MODULE PayOnce -------------------------------
(***************************************************************************)
(* What the payout pipeline promises, with no queue, worker, ledger or     *)
(* crash in sight: an order becomes a debt once, the debt is settled once, *)
(* and the signer moves money for it at most once, possibly never.         *)
(***************************************************************************)
EXTENDS Naturals

CONSTANT Orders

VARIABLES
    debt,     \* "none", "owed" or "settled" for each order
    payments  \* how many transfers the signer got onto the chain for it

vars == <<debt, payments>>

TypeOK ==
    /\ debt \in [Orders -> {"none", "owed", "settled"}]
    /\ payments \in [Orders -> Nat]

Init ==
    /\ debt = [o \in Orders |-> "none"]
    /\ payments = [o \in Orders |-> 0]

Owe(o) ==
    /\ debt[o] = "none"
    /\ debt' = [debt EXCEPT ![o] = "owed"]
    /\ UNCHANGED payments

\* Settling needs no payment of the signer's: a person may have paid, and a
\* transfer handed to the network may yet be dropped.
Settle(o) ==
    /\ debt[o] = "owed"
    /\ debt' = [debt EXCEPT ![o] = "settled"]
    /\ UNCHANGED payments

\* An administrator may settle a debt the signer is just paying.
Pay(o) ==
    /\ debt[o] # "none"
    /\ payments[o] = 0
    /\ payments' = [payments EXCEPT ![o] = 1]
    /\ UNCHANGED debt

Next == \E o \in Orders : Owe(o) \/ Settle(o) \/ Pay(o)

Spec == Init /\ [][Next]_vars
=============================================================================
