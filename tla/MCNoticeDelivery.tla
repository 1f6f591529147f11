--------------------------- MODULE MCNoticeDelivery ----------------------------
EXTENDS NoticeDelivery

CONSTANTS j1, j2, d1, d2, u1

\* Two jobs of one recipient: jobs of different recipients have nothing in common
\* but the dispatchers.
MCTo == [j \in Jobs |-> u1]
=============================================================================
