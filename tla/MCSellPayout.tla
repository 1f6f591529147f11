------------------------------ MODULE MCSellPayout -----------------------------
EXTENDS SellPayout, TLC

CONSTANTS b1, b2, d1

\* Two buttons are alike.
Alike == Permutations({b1, b2})

\* The two orders compete for the deposit before a payout exists, and from then on
\* the second, which people pay, rests: it has nothing to do with the rail.  The
\* first is either forced or checked, and so are the second's buttons done with.
\* Time only takes orders from the sweep's list: the run of the sweep alone lets it
\* pass.  A second transfer by hand, or a second credit, is the last.  After the
\* second payout, the last, no button is pressed, and those at work are followed
\* until the order has been written.
ReadersOrSecond ==
    /\ \A s \in Sells : hand[s] < 2 /\ volume[s] < 2
    /\ aged = {} /\ order[2].status # "rejected"
    /\ 1 \notin forced \/ order[1].tx = None
    /\ (\E p \in Payouts : rail[p].sell # None) =>
         /\ 2 \notin forced /\ order[2].tx = None /\ order[2].status = "pending"
         /\ \A j \in Jobs : job[j].sell # 2 /\ job[j].pc \notin {"check", "found"}
    /\ rail[MaxPayouts].sell # None =>
         \A j \in Jobs : job[j].pc \notin {"claim", "send", "posting", "credit", "unclear"}

\* Of an order that was put back too early nothing more is said.
NotReopened == reopened = {}
=============================================================================
