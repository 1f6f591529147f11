--------------------------- MODULE MCOrderSettlement ---------------------------
EXTENDS OrderSettlement

CONSTANTS o1, o2, w1, a1, a2, e1, e2

\* Both orders go to one customer address, promised the same amount
MCDest == [o \in Orders |-> "addr"]
MCQuote == [o \in Orders |-> 1]

\* or amounts that tell their transfers apart.
MCOwnQuote == [o \in Orders |-> IF o = o1 THEN 1 ELSE 2]

\* Bounds: only the first order is opened by hand before it is paid; then the second
\* waits as long as the first does, and nobody opens it.  Otherwise it is opened once
\* the first is paid.
OnlyFirstEarly ==
    \A h \in Humans :
        /\ <<h, o2>> \in sending =>
             "pending" \notin {status[o1], status[o2]} /\ HandTx(h, o1) \notin older[o1]
        /\ <<h, o1>> \in sending /\ status[o1] = "pending" => status[o2] = "pending"
=============================================================================
