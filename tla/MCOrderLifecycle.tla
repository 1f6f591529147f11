--------------------------- MODULE MCOrderLifecycle ----------------------------
EXTENDS OrderLifecycle

\* Orders meet in the queue of work alone, so one of them shows every race for
\* its status.
MCOrders == {1}

\* Bound: an order with a receipt, or one an operator has rejected, gets no second
\* invoice from Vertu: there the two sessions the poll may read only multiply the
\* states.
OneDealOnceReviewed ==
    \A o \in Orders :
        /\ o \in receipt \/ "receipt_rejected" \in marker[o]
        /\ Len(session[o]) > 1
        => session[o][2].provider # "vertu"
=============================================================================
