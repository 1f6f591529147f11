-------------------------- MODULE OrderLifecycle_proofs ------------------------
(***************************************************************************)
(* What holds of orders and their confirmations for any set of orders and  *)
(* any number of payment sessions.                                         *)
(*                                                                         *)
(* PaidIsProven is not inductive by itself: the poll acts on sessions it   *)
(* has read earlier, so what it has read must still be a Vertu session of  *)
(* that order.  Shape says so, next to the types.                          *)
(*                                                                         *)
(* Nor is SaidOnce: that no second notice is queued comes from the events  *)
(* marked for the order, and that none goes out twice from what the relay  *)
(* holds in its hands.  WorkInv says both.                                 *)
(***************************************************************************)
EXTENDS OrderLifecycle, FiniteSetTheorems, SequenceTheorems, TLAPS

Deals == {"open", "paid", "dead", "cancelled"}

Statuses == {"pending", "paid", "sent"} \cup Closed

Shape ==
    /\ status \in [Orders -> Statuses]
    /\ outbox \subseteq Orders
    /\ session \in [Orders -> Seq(Session)]
    /\ deal \in [Orders -> Seq(Deals)]
    /\ audit \in [Orders -> Seq(Evidence)]
    /\ \A o \in Orders : Len(session[o]) = Len(deal[o])
    /\ polled \subseteq Orders \X Nat
    /\ \A q \in polled : /\ q[2] \in DOMAIN session[q[1]]
                         /\ session[q[1]][q[2]].provider = "vertu"

(* Sessions and deals are only added; a session keeps its provider and a   *)
(* paid deal stays paid.                                                   *)
Grows ==
    \A o \in Orders : \A i \in DOMAIN session[o] :
        /\ i \in DOMAIN session'[o]
        /\ session'[o][i].provider = session[o][i].provider
        /\ deal[o][i] = "paid" => deal'[o][i] = "paid"

\* A step that only adds keeps what the poll has read.
LEMMA PolledKept ==
    ASSUME Shape, Grows, polled' \subseteq polled
    PROVE  /\ polled' \subseteq Orders \X Nat
           /\ \A q \in polled' : /\ q[2] \in DOMAIN session'[q[1]]
                                 /\ session'[q[1]][q[2]].provider = "vertu"
<1>1. ASSUME NEW q \in polled' PROVE q \in polled /\ q[1] \in Orders
  BY <1>1 DEF Shape
<1> QED BY <1>1 DEF Shape, Grows

\* A step that confirms nothing keeps every confirmation justified.
LEMMA ProofKept ==
    ASSUME Shape, PaidIsProven, Grows, UNCHANGED ledger,
           \A o \in Orders : (status'[o] \in {"paid", "sent"}) <=> (status[o] \in {"paid", "sent"})
    PROVE  PaidIsProven'
<1> SUFFICES ASSUME NEW o \in Orders
             PROVE  /\ Len(audit'[o]) = IF status'[o] \in {"paid", "sent"} THEN 1 ELSE 0
                    /\ \A p \in Range(audit'[o]) \ {"manual"} :
                          \E i \in DOMAIN session'[o] :
                             session'[o][i].provider = p /\ deal'[o][i] = "paid"
                    /\ o \in outbox' <=> status'[o] \in {"paid", "sent"} /\ o \notin Guests
  BY DEF PaidIsProven
<1>1. audit' = audit /\ outbox' = outbox
  BY DEF ledger
<1>2. Len(audit'[o]) = IF status'[o] \in {"paid", "sent"} THEN 1 ELSE 0
  BY <1>1 DEF PaidIsProven
<1>3. ASSUME NEW p \in Range(audit'[o]) \ {"manual"}
      PROVE  \E i \in DOMAIN session'[o] :
                session'[o][i].provider = p /\ deal'[o][i] = "paid"
  <2>1. PICK i \in DOMAIN session[o] : session[o][i].provider = p /\ deal[o][i] = "paid"
    BY <1>1, <1>3 DEF PaidIsProven
  <2> QED BY <2>1 DEF Grows
<1>4. o \in outbox' <=> status'[o] \in {"paid", "sent"} /\ o \notin Guests
  BY <1>1 DEF PaidIsProven
<1> QED BY <1>2, <1>3, <1>4

\* What a confirmation of a pending order writes (mark_paid).
LEMMA ConfirmationProven ==
    ASSUME Shape, PaidIsProven, NEW o \in Orders, NEW p \in Evidence, NEW t \in Nat,
           MarkPaid(o, p, t), deal' = deal, polled' \subseteq polled,
           p # "manual" => \E i \in DOMAIN session[o] :
                              session[o][i].provider = p /\ deal[o][i] = "paid"
    PROVE  Shape' /\ PaidIsProven'
<1>1. CASE status[o] # "pending"
  <2>1. UNCHANGED <<status, session, ledger>>
    BY <1>1 DEF MarkPaid
  <2>2. Grows
    BY <2>1 DEF Grows
  <2>3. Shape'
    BY <2>1, <2>2, PolledKept DEF Shape, ledger
  <2> QED BY <2>1, <2>2, <2>3, ProofKept
<1>2. CASE status[o] = "pending"
  <2> DEFINE S == [i \in DOMAIN session[o] |->
                      IF i \in PaidSessions(o, p, t) THEN [session[o][i] EXCEPT !.status = "paid"]
                      ELSE session[o][i]]
  <2>1. /\ status' = [status EXCEPT ![o] = "paid"]
        /\ session' = [session EXCEPT ![o] = S]
        /\ audit' = [audit EXCEPT ![o] = Append(@, p)]
        /\ outbox' = IF o \in Guests THEN outbox ELSE outbox \cup {o}
    BY <1>2 DEF MarkPaid
  <2>2. session[o] \in Seq(Session)
    BY DEF Shape
  <2>3. ASSUME NEW i \in DOMAIN session[o]
        PROVE  S[i] \in Session /\ S[i].provider = session[o][i].provider
    <3>1. session[o][i] \in Session
      BY <2>2
    <3>2. /\ [session[o][i] EXCEPT !.status = "paid"] \in Session
          /\ [session[o][i] EXCEPT !.status = "paid"].provider = session[o][i].provider
      BY <3>1 DEF Session
    <3>3. S[i] = IF i \in PaidSessions(o, p, t) THEN [session[o][i] EXCEPT !.status = "paid"]
                 ELSE session[o][i]
      OBVIOUS
    <3> HIDE DEF S
    <3> QED BY <3>1, <3>2, <3>3
  <2>4. S \in Seq(Session) /\ DOMAIN S = DOMAIN session[o] /\ Len(S) = Len(session[o])
    <3>1. DOMAIN session[o] = 1..Len(session[o]) /\ Len(session[o]) \in Nat
      BY <2>2
    <3>2. DOMAIN S = 1..Len(session[o])
      BY <3>1
    <3>3. S \in [1..Len(session[o]) -> Session]
      <4>1. S = [i \in 1..Len(session[o]) |-> S[i]]
        BY <3>1
      <4> HIDE DEF S
      <4> QED BY <4>1, <3>1, <2>3
    <3> HIDE DEF S
    <3> QED BY <3>1, <3>2, <3>3
  <2> HIDE DEF S
  <2>5. Grows
    BY <2>1, <2>3, <2>4 DEF Grows, Shape
  <2>6. Shape'
    <3>1. /\ status' \in [Orders -> Statuses]
          /\ outbox' \subseteq Orders
          /\ session' \in [Orders -> Seq(Session)]
          /\ audit' \in [Orders -> Seq(Evidence)]
      BY <2>1, <2>4 DEF Shape, Statuses
    <3>2. \A q \in Orders : Len(session'[q]) = Len(deal'[q])
      BY <2>1, <2>4 DEF Shape
    <3> QED BY <3>1, <3>2, <2>5, PolledKept DEF Shape
  <2>7. audit[o] = <<>>
    <3>1. Len(audit[o]) = 0
      BY <1>2 DEF PaidIsProven
    <3>2. audit[o] \in Seq(Evidence)
      BY DEF Shape
    <3> QED BY <3>1, <3>2
  <2>8. audit'[o] = <<p>> /\ status'[o] = "paid"
    BY <2>1, <2>7 DEF Shape
  <2>9. PaidIsProven'
    <3> SUFFICES ASSUME NEW q \in Orders
                 PROVE  /\ Len(audit'[q]) = IF status'[q] \in {"paid", "sent"} THEN 1 ELSE 0
                        /\ \A e \in Range(audit'[q]) \ {"manual"} :
                              \E i \in DOMAIN session'[q] :
                                 session'[q][i].provider = e /\ deal'[q][i] = "paid"
                        /\ q \in outbox' <=> status'[q] \in {"paid", "sent"} /\ q \notin Guests
      BY DEF PaidIsProven
    <3>1. CASE q = o
      <4>1. Range(audit'[q]) = {p}
        BY <3>1, <2>8 DEF Range
      <4>2. p # "manual" => \E i \in DOMAIN session'[q] :
                               session'[q][i].provider = p /\ deal'[q][i] = "paid"
        BY <3>1, <2>5 DEF Grows
      <4>3. q \in outbox' <=> q \notin Guests
        BY <3>1, <2>1, <1>2 DEF PaidIsProven
      <4> QED BY <3>1, <2>8, <4>1, <4>2, <4>3
    <3>2. CASE q # o
      <4>1. /\ status'[q] = status[q] /\ audit'[q] = audit[q] /\ session'[q] = session[q]
            /\ q \in outbox' <=> q \in outbox
        BY <3>2, <2>1 DEF Shape
      <4> QED BY <4>1 DEF PaidIsProven
    <3> QED BY <3>1, <3>2
  <2> QED BY <2>6, <2>9
<1> QED BY <1>1, <1>2

\* Opening a session, or letting one fail, keeps the shape of the others.
LEMMA AppendKept ==
    ASSUME Shape, NEW o \in Orders, NEW s \in Session, NEW d \in Deals,
           session' = [session EXCEPT ![o] = Append(@, s)],
           deal' = [deal EXCEPT ![o] = Append(@, d)],
           UNCHANGED <<status, ledger, polled>>
    PROVE  Shape' /\ Grows
<1>1. session[o] \in Seq(Session) /\ deal[o] \in Seq(Deals)
  BY DEF Shape
<1>2. /\ Append(session[o], s) \in Seq(Session) /\ Append(deal[o], d) \in Seq(Deals)
      /\ Len(Append(session[o], s)) = Len(Append(deal[o], d))
  BY <1>1 DEF Shape
<1>3. \A i \in DOMAIN session[o] : /\ i \in DOMAIN Append(session[o], s)
                                  /\ Append(session[o], s)[i] = session[o][i]
                                  /\ Append(deal[o], d)[i] = deal[o][i]
  BY <1>1 DEF Shape
<1>4. Grows
  BY <1>3 DEF Grows, Shape
<1>5. /\ session' \in [Orders -> Seq(Session)] /\ deal' \in [Orders -> Seq(Deals)]
      /\ \A q \in Orders : Len(session'[q]) = Len(deal'[q])
  BY <1>2 DEF Shape
<1> QED BY <1>4, <1>5, PolledKept DEF Shape, ledger

LEMMA SessionKept ==
    ASSUME Shape, NEW o \in Orders, NEW i \in DOMAIN session[o], NEW s \in Session,
           s.provider = session[o][i].provider,
           session' = [session EXCEPT ![o][i] = s],
           UNCHANGED <<status, ledger, deal>>, polled' \subseteq polled
    PROVE  Shape' /\ Grows
<1> DEFINE S == [session[o] EXCEPT ![i] = s]
<1>1. session[o] \in Seq(Session)
  BY DEF Shape
<1>2. /\ S \in Seq(Session) /\ Len(S) = Len(session[o]) /\ DOMAIN S = DOMAIN session[o]
      /\ \A j \in DOMAIN S : S[j].provider = session[o][j].provider
  BY <1>1
<1>3. session' = [session EXCEPT ![o] = S]
  OBVIOUS
<1> HIDE DEF S
<1>4. Grows
  BY <1>2, <1>3 DEF Grows, Shape
<1>5. /\ session' \in [Orders -> Seq(Session)]
      /\ \A q \in Orders : Len(session'[q]) = Len(deal'[q])
  BY <1>2, <1>3 DEF Shape
<1> QED BY <1>4, <1>5, PolledKept DEF Shape, ledger

LEMMA DealKept ==
    ASSUME Shape, NEW o \in Orders, NEW i \in DOMAIN deal[o], NEW d \in Deals,
           deal[o][i] # "paid",
           deal' = [deal EXCEPT ![o][i] = d],
           UNCHANGED <<status, ledger, session, polled>>
    PROVE  Shape' /\ Grows
<1> DEFINE D == [deal[o] EXCEPT ![i] = d]
<1>1. deal[o] \in Seq(Deals)
  BY DEF Shape
<1>2. /\ D \in Seq(Deals) /\ Len(D) = Len(deal[o])
      /\ \A j \in DOMAIN deal[o] : deal[o][j] = "paid" => D[j] = "paid"
  BY <1>1
<1>3. deal' = [deal EXCEPT ![o] = D]
  OBVIOUS
<1>4. DOMAIN session[o] = DOMAIN deal[o]
  BY DEF Shape
<1> HIDE DEF D
<1>5. Grows
  BY <1>2, <1>3, <1>4 DEF Grows, Shape
<1>6. /\ deal' \in [Orders -> Seq(Deals)]
      /\ \A q \in Orders : Len(session'[q]) = Len(deal'[q])
  BY <1>2, <1>3 DEF Shape
<1> QED BY <1>5, <1>6, PolledKept DEF Shape, ledger

\* A step that touches neither sessions nor deals.
LEMMA UntouchedKept ==
    ASSUME Shape, status' \in [Orders -> Statuses], polled' \subseteq polled,
           UNCHANGED <<session, deal, ledger>>
    PROVE  Shape' /\ Grows
<1>1. Grows
  BY DEF Grows
<1> QED BY <1>1, PolledKept DEF Shape, ledger

\* Whatever row a pass has claimed, cancelling an open deal is harmless.
LEMMA CancelKept ==
    ASSUME Shape, NEW o, NEW i, deal[o][i] = "open",
           deal' = [deal EXCEPT ![o][i] = "cancelled"],
           UNCHANGED <<status, ledger, session, polled>>
    PROVE  Shape' /\ Grows
<1>1. CASE o \in Orders /\ i \in DOMAIN deal[o]
  BY <1>1, DealKept DEF Deals
<1>2. CASE o \in Orders /\ i \notin DOMAIN deal[o]
  <2>1. deal[o] \in Seq(Deals)
    BY <1>2 DEF Shape
  <2>2. [deal[o] EXCEPT ![i] = "cancelled"] = deal[o]
    BY <1>2, <2>1
  <2>3. deal' = deal
    BY <1>2, <2>2 DEF Shape
  <2> QED BY <2>3, UntouchedKept DEF Shape
<1>3. CASE o \notin Orders
  <2>1. deal' = deal
    BY <1>3 DEF Shape
  <2> QED BY <2>1, UntouchedKept DEF Shape
<1> QED BY <1>1, <1>2, <1>3

Inv == Shape /\ PaidIsProven

LEMMA Initially == Init => Inv
<1> SUFFICES ASSUME Init PROVE Inv
  OBVIOUS
<1>1. Shape
  BY DEF Init, Shape, Statuses
<1>2. PaidIsProven
  BY DEF Init, PaidIsProven, Range
<1> QED BY <1>1, <1>2 DEF Inv

\* The actions of customers, staff and time.
LEMMA PeopleStep ==
    ASSUME Inv, NEW o \in Orders, Customers(o) \/ Staff(o) \/ Time(o)
    PROVE  Inv'
<1> USE DEF Inv
<1>1. ASSUME NEW p \in Providers, CreateInvoice(o, p) PROVE Inv'
  <2> DEFINE s == [provider |-> p, status |-> "invoice_created", age |-> "live"]
  <2>1. s \in Session /\ "open" \in Deals
    BY DEF Session, Ages, Deals
  <2>2. /\ session' = [session EXCEPT ![o] = Append(@, s)]
        /\ deal' = [deal EXCEPT ![o] = Append(@, "open")]
        /\ UNCHANGED <<status, ledger, polled>>
    BY <1>1 DEF CreateInvoice, relay
  <2> HIDE DEF s
  <2>3. Shape' /\ Grows
    BY <2>1, <2>2, AppendKept
  <2> QED BY <2>2, <2>3, ProofKept
<1>2. CASE CreateFailed(o)
  <2> DEFINE s == [provider |-> "fallback", status |-> "failed", age |-> "live"]
  <2>1. s \in Session /\ "dead" \in Deals
    BY DEF Session, Ages, Deals
  <2>2. /\ session' = [session EXCEPT ![o] = Append(@, s)]
        /\ deal' = [deal EXCEPT ![o] = Append(@, "dead")]
        /\ UNCHANGED <<status, ledger, polled>>
    BY <1>2 DEF CreateFailed, relay
  <2> HIDE DEF s
  <2>3. Shape' /\ Grows
    BY <2>1, <2>2, AppendKept
  <2> QED BY <2>2, <2>3, ProofKept
<1>3. ASSUME UNCHANGED <<session, deal, ledger, polled>>,
             status' \in [Orders -> Statuses],
             \A q \in Orders : (status'[q] \in {"paid", "sent"}) <=> (status[q] \in {"paid", "sent"})
      PROVE  Inv'
  BY <1>3, UntouchedKept, ProofKept
<1>4. CASE UploadReceipt(o) \/ OrderAges(o)
  BY <1>4, <1>3 DEF UploadReceipt, OrderAges, relay, Shape
<1>5. CASE Cancel(o) \/ Reject(o)
  BY <1>5, <1>3 DEF Cancel, Reject, SetStatus, relay, Shape, Statuses, Closed
<1>6. CASE Reopen(o)
  BY <1>6, <1>3 DEF Reopen, SetStatus, relay, Shape, Statuses, Closed
<1>7. CASE MarkSent(o)
  BY <1>7, <1>3 DEF MarkSent, SetStatus, relay, Shape, Statuses
<1>8. CASE Callback(o)
  BY <1>8, ConfirmationProven DEF Callback, relay, Evidence
<1>9. ASSUME NEW i \in DOMAIN session[o], SessionAges(o, i) PROVE Inv'
  <2> DEFINE s == [session[o][i] EXCEPT !.age = IF @ = "live" THEN "stale" ELSE "old"]
  <2>1. session[o] \in Seq(Session)
    BY DEF Shape
  <2>2. s \in Session /\ s.provider = session[o][i].provider
    <3>1. session[o][i] \in Session
      BY <2>1
    <3> QED BY <3>1 DEF Session, Ages
  <2>3. session' = [session EXCEPT ![o][i] = s] /\ UNCHANGED <<status, ledger, deal, polled>>
    BY <1>9 DEF SessionAges, relay
  <2> HIDE DEF s
  <2>4. Shape' /\ Grows
    BY <2>2, <2>3, SessionKept
  <2> QED BY <2>3, <2>4, ProofKept
<1> QED BY <1>1, <1>2, <1>4, <1>5, <1>6, <1>7, <1>8, <1>9 DEF Customers, Staff, Time

LEMMA ProviderStep ==
    ASSUME Inv, NEW o \in Orders, Provider(o)
    PROVE  Inv'
<1> USE DEF Inv
<1>1. ASSUME NEW i \in DOMAIN session[o], DealEnds(o, i) PROVE Inv'
  <2>1. PICK d \in {"paid", "dead"} : deal' = [deal EXCEPT ![o][i] = d]
    BY <1>1 DEF DealEnds
  <2>2. i \in DOMAIN deal[o]
    BY DEF Shape
  <2>3. deal[o][i] # "paid" /\ d \in Deals /\ UNCHANGED <<status, ledger, session, polled>>
    BY <1>1 DEF DealEnds, Deals, relay
  <2>4. Shape' /\ Grows
    BY <2>1, <2>2, <2>3, DealKept
  <2> QED BY <2>3, <2>4, ProofKept
<1>2. ASSUME NEW i \in DOMAIN session[o], Webhook(o, i) PROVE Inv'
  BY <1>2, ConfirmationProven DEF Webhook, relay, Evidence, Providers
<1> QED BY <1>1, <1>2 DEF Provider

LEMMA PollStep == Inv /\ Poll => Inv'
<1> SUFFICES ASSUME Inv, Poll PROVE Inv'
  OBVIOUS
<1> USE DEF Inv
<1>1. CASE PollReads
  <2>1. UNCHANGED <<orderVars, ledger>>
    BY <1>1 DEF PollReads
  <2>2. /\ polled' \subseteq Orders \X Nat
        /\ \A q \in polled' : /\ q[2] \in DOMAIN session[q[1]]
                              /\ session[q[1]][q[2]].provider = "vertu"
    BY <1>1, LifecycleAssumption DEF PollReads
  <2>3. Shape' /\ Grows
    BY <2>1, <2>2 DEF Shape, Grows, orderVars, ledger
  <2> QED BY <2>1, <2>3, ProofKept DEF orderVars
<1>2. ASSUME NEW q \in polled, PollAnswers(q[1], q[2]) PROVE Inv'
  <2> DEFINE o == q[1]
             i == q[2]
  <2>1. /\ o \in Orders /\ i \in Nat /\ i \in DOMAIN session[o]
        /\ session[o][i].provider = "vertu"
    BY DEF Shape
  <2>2. polled' \subseteq polled /\ deal' = deal
    BY <1>2 DEF PollAnswers
  <2> HIDE DEF o, i
  <2>3. CASE deal[o][i] = "paid" /\ MarkPaid(o, "vertu", i)
    BY <2>1, <2>2, <2>3, ConfirmationProven DEF Evidence, Providers
  <2>4. CASE FailSession(o, i) /\ UNCHANGED <<status, ledger>>
    <3>1. CASE UNCHANGED session
      BY <3>1, <2>2, <2>4, UntouchedKept, ProofKept DEF Shape
    <3>2. CASE session' = [session EXCEPT ![o][i].status = "failed"]
      <4> DEFINE s == [session[o][i] EXCEPT !.status = "failed"]
      <4>1. session[o] \in Seq(Session)
        BY <2>1 DEF Shape
      <4>2. s \in Session /\ s.provider = session[o][i].provider
        <5>1. session[o][i] \in Session
          BY <2>1, <4>1
        <5> QED BY <5>1 DEF Session
      <4>3. session' = [session EXCEPT ![o][i] = s]
        BY <3>2
      <4> HIDE DEF s
      <4>4. Shape' /\ Grows
        BY <2>1, <2>2, <2>4, <4>2, <4>3, SessionKept
      <4> QED BY <2>4, <4>4, ProofKept
    <3> QED BY <2>4, <3>1, <3>2 DEF FailSession
  <2>5. CASE UNCHANGED <<status, session, ledger>>
    BY <2>2, <2>5, UntouchedKept, ProofKept DEF Shape
  <2> QED BY <1>2, <2>3, <2>4, <2>5 DEF PollAnswers, o, i
<1> QED BY <1>1, <1>2 DEF Poll

LEMMA RelayStep == Inv /\ (StartCleanup \/ Dispatch \/ Crash) => Inv'
<1> SUFFICES ASSUME Inv, StartCleanup \/ Dispatch \/ Crash PROVE Inv'
  OBVIOUS
<1> USE DEF Inv
<1>1. CASE StartCleanup
  <2> DEFINE gone == {o \in Orders : Expirable(o)}
  <2>1. /\ status' = [o \in Orders |-> IF o \in gone THEN "expired" ELSE status[o]]
        /\ UNCHANGED <<session, deal, ledger, polled>>
    BY <1>1 DEF StartCleanup
  <2>2. \A o \in gone : status[o] = "pending"
    BY DEF Expirable
  <2> HIDE DEF gone
  <2>3. /\ status' \in [Orders -> Statuses]
        /\ \A o \in Orders : (status'[o] \in {"paid", "sent"}) <=> (status[o] \in {"paid", "sent"})
    BY <2>1, <2>2 DEF Shape, Statuses, Closed
  <2> QED BY <2>1, <2>3, UntouchedKept, ProofKept
<1>2. CASE Claim \/ PassEnds \/ Complete \/ Uncertain \/ Crash
  <2>1. UNCHANGED <<orderVars, ledger>> /\ polled' \subseteq polled
    BY <1>2 DEF Claim, PassEnds, Complete, Uncertain, Crash
  <2> QED BY <2>1, UntouchedKept, ProofKept DEF orderVars, Shape
<1>3. CASE Effect
  <2> DEFINE w == work[item.id]
  <2>1. UNCHANGED <<status, ledger, session, polled>>
    BY <1>3 DEF Effect
  <2>2. \/ UNCHANGED deal
        \/ /\ deal[w.order][w.session] = "open"
           /\ deal' = [deal EXCEPT ![w.order][w.session] = "cancelled"]
    BY <1>3 DEF Effect
  <2> HIDE DEF w
  <2>3. Shape' /\ Grows
    BY <2>1, <2>2, CancelKept, UntouchedKept DEF Shape
  <2> QED BY <2>1, <2>3, ProofKept
<1>4. CASE Refused
  <2> DEFINE w == work[item.id]
  <2>1. UNCHANGED <<status, ledger, session, polled>>
    BY <1>4 DEF Refused
  <2>2. \/ UNCHANGED deal
        \/ /\ deal[w.order][w.session] = "open"
           /\ deal' = [deal EXCEPT ![w.order][w.session] = "cancelled"]
    BY <1>4 DEF Refused
  <2> HIDE DEF w
  <2>3. Shape' /\ Grows
    BY <2>1, <2>2, CancelKept, UntouchedKept DEF Shape
  <2> QED BY <2>1, <2>3, ProofKept
<1> QED BY <1>1, <1>2, <1>3, <1>4 DEF Dispatch

LEMMA StepInv == Inv /\ [Next]_vars => Inv'
<1> SUFFICES ASSUME Inv, [Next]_vars PROVE Inv'
  OBVIOUS
<1>1. CASE UNCHANGED vars
  BY <1>1, UntouchedKept, ProofKept DEF Inv, vars, orderVars, relay, Shape
<1>2. CASE Next
  BY <1>2, PeopleStep, ProviderStep, PollStep, RelayStep DEF Next
<1> QED BY <1>1, <1>2

\* An order is paid exactly when one justified confirmation of it is on file,
\* for any orders, sessions, webhooks, polls and crashes (mark_paid).
THEOREM PaymentsAreProven == Spec => []PaidIsProven
<1>1. Inv => PaidIsProven
  BY DEF Inv
<1> QED BY Initially, StepInv, <1>1, PTL DEF Spec

\* The status of one order in one step: closed orders only go back to pending and
\* are confirmed by nothing; paid ones only become sent; sent ones stay.
Forward(o) ==
    /\ status[o] \in Closed =>
          status'[o] \in {status[o], "pending"} /\ audit'[o] = audit[o]
    /\ status[o] = "paid" => status'[o] \in {"paid", "sent"}
    /\ status[o] = "sent" => status'[o] = "sent"

LEMMA ConfirmationForward ==
    ASSUME Inv, NEW q \in Orders, NEW p, NEW t, MarkPaid(q, p, t), NEW o \in Orders
    PROVE  Forward(o)
BY DEF Inv, Shape, MarkPaid, Forward, Closed, ledger

LEMMA StepForward == Inv /\ [Next]_vars => \A o \in Orders : Forward(o)
<1> SUFFICES ASSUME Inv, [Next]_vars, NEW o \in Orders PROVE Forward(o)
  OBVIOUS
<1>1. ASSUME status' = status, audit' = audit PROVE Forward(o)
  BY <1>1 DEF Forward, Closed
<1>2. ASSUME NEW q \in Orders, Customers(q) \/ Staff(q) \/ Time(q) PROVE Forward(o)
  <2>1. CASE (\E p \in Providers : CreateInvoice(q, p)) \/ CreateFailed(q)
             \/ UploadReceipt(q) \/ Time(q)
    BY <2>1, <1>1 DEF CreateInvoice, CreateFailed, UploadReceipt, Time, OrderAges, SessionAges,
                          ledger
  <2>2. CASE Cancel(q) \/ Reject(q) \/ Reopen(q) \/ MarkSent(q)
    BY <2>2 DEF Cancel, Reject, Reopen, MarkSent, SetStatus, Forward, Closed, Inv,
                  Shape, ledger
  <2>3. CASE Callback(q)
    BY <2>3, ConfirmationForward DEF Callback
  <2> QED BY <1>2, <2>1, <2>2, <2>3 DEF Customers, Staff
<1>3. ASSUME NEW q \in Orders, Provider(q) PROVE Forward(o)
  <2>1. ASSUME NEW i, DealEnds(q, i) PROVE Forward(o)
    BY <2>1, <1>1 DEF DealEnds, ledger
  <2>2. ASSUME NEW i, Webhook(q, i) PROVE Forward(o)
    BY <2>2, ConfirmationForward DEF Webhook
  <2> QED BY <1>3, <2>1, <2>2 DEF Provider
<1>4. CASE Poll
  <2>1. CASE PollReads
    BY <2>1, <1>1 DEF PollReads, orderVars, ledger
  <2>2. ASSUME NEW q \in polled, PollAnswers(q[1], q[2]) PROVE Forward(o)
    <3>1. q[1] \in Orders
      BY DEF Inv, Shape
    <3> QED BY <2>2, <3>1, <1>1, ConfirmationForward DEF PollAnswers, ledger
  <2> QED BY <1>4, <2>1, <2>2 DEF Poll
<1>5. CASE StartCleanup
  BY <1>5 DEF StartCleanup, Expirable, Forward, Closed, Inv, Shape, ledger
<1>6. CASE Dispatch \/ Crash
  BY <1>6, <1>1 DEF Dispatch, Claim, PassEnds, Effect, Complete, Uncertain, Refused, Crash,
                    orderVars, ledger
<1>7. CASE UNCHANGED vars
  BY <1>7, <1>1 DEF vars, orderVars, ledger
<1> QED BY <1>2, <1>3, <1>4, <1>5, <1>6, <1>7 DEF Next

\* Late confirmations revive nothing and paid orders stay paid, for any number
\* of orders and sessions.
THEOREM OrdersMoveForward == Spec => OrderMovesForward
<1>1. Inv /\ [Next]_vars => [\A o \in Orders : Forward(o)]_vars
  BY StepForward
<1>2. Spec => [][\A o \in Orders : Forward(o)]_vars
  BY Initially, StepInv, <1>1, PTL DEF Spec
<1> QED BY <1>2 DEF OrderMovesForward, Forward

----------------------------------------------------------------------------
(* The durable work.                                                       *)

Events == {"order_expired", "session_dead", "receipt_rejected"}

Notices == Kinds \ {"provider_cancel"}

Event(k) == IF k = "order_expired_notify" THEN "order_expired" ELSE "session_dead"

Notes ==
    /\ marker \in [Orders -> SUBSET Events]
    /\ work \in Seq(Work)
    /\ \A n \in DOMAIN work :
          work[n].kind \in Notices => /\ Event(work[n].kind) \in marker[work[n].order]
                                      /\ work[n].runs <= 1
                                      /\ work[n].state = "pending" => work[n].runs = 0
    /\ \A m, n \in DOMAIN work :
          /\ work[m].kind \in Notices
          /\ work[m].kind = work[n].kind /\ work[m].order = work[n].order
          => m = n

Held ==
    /\ pass \in Seq(Kinds \cup {"any"})
    /\ item \in [id : Nat, ran : BOOLEAN]
    /\ item # NoWork => /\ pass # <<>> /\ item.id \in DOMAIN work
                        /\ work[item.id].state = "sending"
                        /\ work[item.id].kind \in Notices /\ ~item.ran => work[item.id].runs = 0

WorkInv ==
    /\ due \subseteq Orders /\ receipt \subseteq Orders
    /\ Notes /\ Held

\* Marking more events keeps the notes.
LEMMA MarkedKept ==
    ASSUME Notes, UNCHANGED work, marker' \in [Orders -> SUBSET Events],
           \A o \in Orders : marker[o] \subseteq marker'[o]
    PROVE  Notes'
<1>1. \A n \in DOMAIN work : work[n] \in Work
  BY DEF Notes
<1>2. \A n \in DOMAIN work : work[n].order \in Orders
  BY <1>1 DEF Work
<1> QED BY <1>2 DEF Notes

\* A row that changes its state and its count alone keeps the notes.
LEMMA RowKept ==
    ASSUME Notes, UNCHANGED marker, NEW n \in DOMAIN work, NEW r \in Work,
           r.kind = work[n].kind, r.order = work[n].order,
           r.kind \in Notices => r.runs <= 1 /\ (r.state = "pending" => r.runs = 0),
           work' = [work EXCEPT ![n] = r]
    PROVE  Notes' /\ DOMAIN work' = DOMAIN work /\ work'[n] = r
<1>1. /\ work' \in Seq(Work) /\ DOMAIN work' = DOMAIN work
      /\ \A m \in DOMAIN work : work'[m] = IF m = n THEN r ELSE work[m]
  BY DEF Notes
<1>2. \A m \in DOMAIN work : work'[m].kind = work[m].kind /\ work'[m].order = work[m].order
  BY <1>1
<1>3. \A m \in DOMAIN work' :
          work'[m].kind \in Notices => /\ Event(work'[m].kind) \in marker'[work'[m].order]
                                       /\ work'[m].runs <= 1
                                       /\ work'[m].state = "pending" => work'[m].runs = 0
  BY <1>1, <1>2 DEF Notes
<1>4. \A l, m \in DOMAIN work' :
          /\ work'[l].kind \in Notices
          /\ work'[l].kind = work'[m].kind /\ work'[l].order = work'[m].order
          => l = m
  BY <1>1, <1>2 DEF Notes
<1> QED BY <1>1, <1>3, <1>4 DEF Notes

\* What a transaction queues: pending rows that have not run, whose notices are
\* of events it marks for the first time and differ by order and kind.
Queueable(rows) ==
    /\ IsFiniteSet(rows)
    /\ \A r \in rows :
          /\ r \in Work /\ r.state = "pending" /\ r.runs = 0
          /\ r.kind \in Notices => Event(r.kind) \notin marker[r.order]
    /\ \A r, s \in rows :
          r.kind \in Notices /\ r.kind = s.kind /\ r.order = s.order => r = s

\* INSERT OR IGNORE of such rows, with their events marked, keeps the notes.
LEMMA InsertKept ==
    ASSUME Notes, NEW rows, Queueable(rows), Insert(rows),
           marker' \in [Orders -> SUBSET Events],
           \A o \in Orders : marker[o] \subseteq marker'[o],
           \A r \in rows : r.kind \in Notices => Event(r.kind) \in marker'[r.order]
    PROVE  Notes'
<1> DEFINE F == Fresh(rows)
<1>1. F \subseteq rows
  BY DEF Fresh
<1>2. IsFiniteSet(F) /\ Cardinality(F) \in Nat
  BY <1>1, FS_Subset, FS_CardinalityType DEF Queueable
<1>3. PICK q \in Queues(F) : work' = work \o q
  BY DEF Insert
<1> HIDE DEF F
<1>4. /\ q \in [1..Cardinality(F) -> F]
      /\ \A i, j \in DOMAIN q : i < j => q[i] # q[j]
  BY <1>3 DEF Queues
<1>5. DOMAIN q = 1..Cardinality(F) /\ \A i \in DOMAIN q : q[i] \in rows /\ q[i] \in Work
  BY <1>1, <1>4 DEF Queueable
<1>6. q \in Seq(Work) /\ Len(q) = Cardinality(F)
  BY <1>2, <1>4, <1>5
<1>7. work \in Seq(Work) /\ Len(work) \in Nat /\ DOMAIN work = 1..Len(work)
  BY DEF Notes
<1>8. /\ work' \in Seq(Work)
      /\ DOMAIN work' = 1..(Len(work) + Len(q))
      /\ \A i \in DOMAIN work' : work'[i] = IF i <= Len(work) THEN work[i] ELSE q[i - Len(work)]
  BY <1>3, <1>6, <1>7, ConcatProperties
<1>9. \A i \in DOMAIN work' : \/ i \in DOMAIN work /\ work'[i] = work[i]
                              \/ /\ i \notin DOMAIN work /\ i - Len(work) \in DOMAIN q
                                 /\ work'[i] = q[i - Len(work)]
  BY <1>2, <1>5, <1>6, <1>7, <1>8
<1>10. \A n \in DOMAIN work : work[n].order \in Orders
  <2>1. \A n \in DOMAIN work : work[n] \in Work
    BY <1>7
  <2> QED BY <2>1 DEF Work
<1>11. ASSUME NEW n \in DOMAIN work', work'[n].kind \in Notices
       PROVE  /\ Event(work'[n].kind) \in marker'[work'[n].order]
              /\ work'[n].runs <= 1
              /\ work'[n].state = "pending" => work'[n].runs = 0
  <2>1. CASE n \in DOMAIN work /\ work'[n] = work[n]
    BY <2>1, <1>10, <1>11 DEF Notes
  <2>2. CASE n - Len(work) \in DOMAIN q /\ work'[n] = q[n - Len(work)]
    BY <2>2, <1>5, <1>11 DEF Queueable
  <2> QED BY <1>9, <2>1, <2>2
<1>12. ASSUME NEW m \in DOMAIN work', NEW n \in DOMAIN work', work'[m].kind \in Notices,
              work'[m].kind = work'[n].kind, work'[m].order = work'[n].order
       PROVE  m = n
  <2>1. CASE m \in DOMAIN work /\ n \in DOMAIN work
    BY <2>1, <1>9, <1>12 DEF Notes
  <2>2. CASE m \in DOMAIN work /\ n \notin DOMAIN work
    <3>1. work'[m] = work[m] /\ work'[n] \in rows
      BY <2>2, <1>5, <1>9
    <3> QED BY <3>1, <1>12, <2>2 DEF Notes, Queueable
  <2>3. CASE m \notin DOMAIN work /\ n \in DOMAIN work
    <3>1. work'[n] = work[n] /\ work'[m] \in rows
      BY <2>3, <1>5, <1>9
    <3> QED BY <3>1, <1>12, <2>3 DEF Notes, Queueable
  <2>4. CASE m \notin DOMAIN work /\ n \notin DOMAIN work
    <3> DEFINE i == m - Len(work)
               j == n - Len(work)
    <3>1. i \in DOMAIN q /\ j \in DOMAIN q /\ work'[m] = q[i] /\ work'[n] = q[j]
      BY <2>4, <1>9
    <3>2. q[i] = q[j]
      BY <3>1, <1>5, <1>12 DEF Queueable
    <3>3. i = j
      <4>1. i \in Nat /\ j \in Nat
        BY <3>1, <1>2, <1>5
      <4> HIDE DEF i, j
      <4> QED BY <4>1, <3>1, <3>2, <1>4
    <3> QED BY <3>3, <1>7, <1>8
  <2> QED BY <2>1, <2>2, <2>3, <2>4
<1> QED BY <1>8, <1>11, <1>12 DEF Notes

\* The first session of an order to die queues one notice for the staff and at
\* most one for the customer; later ones queue nothing (fail_session).
LEMMA DeadSessionNoted ==
    ASSUME WorkInv, Free, NEW o \in Orders, NEW i \in Nat, FailSession(o, i),
           UNCHANGED <<due, receipt, item>>
    PROVE  WorkInv'
<1>1. item = NoWork
  BY DEF WorkInv, Held, Free
<1>2. CASE UNCHANGED <<session, workVars, pass>>
  BY <1>2 DEF WorkInv, Held, Notes, workVars
<1>3. CASE /\ marker' = [marker EXCEPT ![o] = @ \cup {"session_dead"}]
           /\ "session_dead" \in marker[o] /\ UNCHANGED work /\ pass' = <<>>
  <2>1. Notes'
    BY <1>3, MarkedKept DEF WorkInv, Notes, Events
  <2>2. Held'
    BY <1>1, <1>3 DEF WorkInv, Held
  <2> QED BY <2>1, <2>2 DEF WorkInv
<1>4. ASSUME NEW rows,
             rows \subseteq {Row("session_dead_admin", o, i), Row("session_dead_customer", o, i)},
             marker' = [marker EXCEPT ![o] = @ \cup {"session_dead"}],
             "session_dead" \notin marker[o], Insert(rows),
             pass' = <<"session_dead_admin", "session_dead_customer">>
      PROVE  WorkInv'
  <2> DEFINE a == Row("session_dead_admin", o, i)
             c == Row("session_dead_customer", o, i)
  <2>1. a \in Work /\ c \in Work
    BY DEF Row, Work, Kinds
  <2>2. /\ a.kind = "session_dead_admin" /\ a.order = o /\ a.state = "pending" /\ a.runs = 0
        /\ c.kind = "session_dead_customer" /\ c.order = o /\ c.state = "pending" /\ c.runs = 0
    BY DEF Row
  <2>3. rows \subseteq {a, c}
    BY <1>4
  <2> HIDE DEF a, c
  <2>4. IsFiniteSet(rows)
    <3>1. IsFiniteSet({a, c})
      <4>1. IsFiniteSet({a} \cup {c})
        BY FS_Singleton, FS_Union
      <4>2. {a} \cup {c} = {a, c}
        OBVIOUS
      <4> QED BY <4>1, <4>2
    <3> QED BY <3>1, <2>3, FS_Subset
  <2>5. Queueable(rows)
    BY <1>4, <2>1, <2>2, <2>3, <2>4 DEF Queueable, Event
  <2>6. /\ marker' \in [Orders -> SUBSET Events]
        /\ \A q \in Orders : marker[q] \subseteq marker'[q]
        /\ "session_dead" \in marker'[o]
    BY <1>4 DEF WorkInv, Notes, Events
  <2>7. \A r \in rows : r.kind \in Notices => Event(r.kind) \in marker'[r.order]
    BY <2>2, <2>3, <2>6 DEF Event
  <2>8. Notes'
    BY <1>4, <2>5, <2>6, <2>7, InsertKept DEF WorkInv
  <2>9. Held'
    BY <1>1, <1>4 DEF WorkInv, Held, Kinds
  <2> QED BY <2>8, <2>9 DEF WorkInv
<1>5. CASE o \notin Guests /\ status[o] \notin {"paid", "sent"}
  <2> DEFINE rows == {Row("session_dead_admin", o, i)} \cup {Row("session_dead_customer", o, i)}
  <2>1. rows \subseteq {Row("session_dead_admin", o, i), Row("session_dead_customer", o, i)}
    OBVIOUS
  <2> QED BY <1>2, <1>3, <1>4, <1>5, <2>1 DEF FailSession
<1>6. CASE ~(o \notin Guests /\ status[o] \notin {"paid", "sent"})
  <2> DEFINE rows == {Row("session_dead_admin", o, i)} \cup {}
  <2>1. rows \subseteq {Row("session_dead_admin", o, i), Row("session_dead_customer", o, i)}
    OBVIOUS
  <2> QED BY <1>2, <1>3, <1>4, <1>6, <2>1 DEF FailSession
<1> QED BY <1>5, <1>6

\* The rows of one expired order are finitely many.
LEMMA FiniteExpiryRows ==
    ASSUME Shape, NEW o \in Orders
    PROVE  IsFiniteSet(ExpiryRows(o))
<1> DEFINE C == Cancellable(o)
           f == [i \in C |-> Row("provider_cancel", o, i)]
           R == {Row("provider_cancel", o, i) : i \in C}
<1>1. session[o] \in Seq(Session)
  BY DEF Shape
<1>2. Len(session[o]) \in Nat /\ C \subseteq 1..Len(session[o])
  BY <1>1 DEF Cancellable
<1> HIDE DEF C
<1>3. IsFiniteSet(C)
  <2>1. IsFiniteSet(1..Len(session[o]))
    BY <1>2, FS_Interval
  <2> QED BY <1>2, <2>1, FS_Subset
<1>4. f \in Surjection(C, R)
  BY DEF Surjection
<1>5. IsFiniteSet(R)
  BY <1>3, <1>4, FS_Surjection
<1>6. IsFiniteSet({}) /\ IsFiniteSet({Row("order_expired_notify", o, 0)})
  BY FS_EmptySet, FS_Singleton
<1>7. CASE o \in Guests \/ "order_expired" \in marker[o]
  <2>1. ExpiryRows(o) = {} \cup R
    BY <1>7 DEF ExpiryRows, C
  <2> QED BY <2>1, <1>5, <1>6, FS_Union
<1>8. CASE ~(o \in Guests \/ "order_expired" \in marker[o])
  <2>1. ExpiryRows(o) = {Row("order_expired_notify", o, 0)} \cup R
    BY <1>8 DEF ExpiryRows, C
  <2> HIDE DEF R
  <2> QED BY <2>1, <1>5, <1>6, FS_Union
<1> QED BY <1>7, <1>8

\* The expiry of any number of orders queues each one's notice once, and the
\* cancellations of its invoices (expire_due).
LEMMA ExpiryNoted ==
    ASSUME Shape, WorkInv, StartCleanup
    PROVE  WorkInv'
<1> DEFINE gone == {o \in Orders : Expirable(o)}
           rows == UNION {ExpiryRows(o) : o \in gone}
<1>1. /\ Free /\ UNCHANGED <<due, receipt, item>> /\ pass' = <<"any">>
      /\ marker' = [o \in Orders |-> IF o \in gone \ Guests
                                     THEN marker[o] \cup {"order_expired"} ELSE marker[o]]
      /\ Insert(rows)
  BY DEF StartCleanup
<1>2. gone \subseteq Orders
  OBVIOUS
<1>3. ASSUME NEW r \in rows
      PROVE  \E o \in gone :
                \/ /\ r = Row("order_expired_notify", o, 0)
                   /\ o \notin Guests /\ "order_expired" \notin marker[o]
                \/ \E i \in DOMAIN session[o] : r = Row("provider_cancel", o, i)
  <2>1. PICK o \in gone : r \in ExpiryRows(o)
    OBVIOUS
  <2> QED BY <2>1 DEF ExpiryRows, Cancellable
<1>4. IsFiniteSet(rows)
  <2> DEFINE f == [o \in gone |-> ExpiryRows(o)]
             R == {ExpiryRows(o) : o \in gone}
  <2>1. IsFiniteSet(gone)
    BY <1>2, FS_Subset, LifecycleAssumption
  <2>2. \A T \in R : IsFiniteSet(T)
    BY <1>2, FiniteExpiryRows
  <2>3. f \in Surjection(gone, R)
    BY DEF Surjection
  <2>4. IsFiniteSet(R)
    <3> HIDE DEF gone, f, R
    <3> QED BY <2>1, <2>3, FS_Surjection
  <2>5. rows = UNION R
    OBVIOUS
  <2> HIDE DEF R, rows
  <2> QED BY <2>2, <2>4, <2>5, FS_UNION
<1> HIDE DEF gone, rows
<1>5. ASSUME NEW r \in rows
      PROVE  /\ r \in Work /\ r.state = "pending" /\ r.runs = 0
             /\ r.kind \in Notices => /\ r.kind = "order_expired_notify"
                                      /\ r = Row("order_expired_notify", r.order, 0)
                                      /\ r.order \in gone \ Guests
                                      /\ "order_expired" \notin marker[r.order]
  <2>1. PICK o \in gone :
                \/ /\ r = Row("order_expired_notify", o, 0)
                   /\ o \notin Guests /\ "order_expired" \notin marker[o]
                \/ \E i \in DOMAIN session[o] : r = Row("provider_cancel", o, i)
    BY <1>3
  <2>2. CASE /\ r = Row("order_expired_notify", o, 0)
             /\ o \notin Guests /\ "order_expired" \notin marker[o]
    BY <2>2, <1>2 DEF Row, Work, Kinds
  <2>3. CASE \E i \in DOMAIN session[o] : r = Row("provider_cancel", o, i)
    <3>1. PICK i \in DOMAIN session[o] : r = Row("provider_cancel", o, i)
      BY <2>3
    <3>2. i \in Nat
      <4>1. session[o] \in Seq(Session)
        BY <1>2 DEF Shape
      <4> QED BY <4>1
    <3> QED BY <3>1, <3>2, <1>2 DEF Row, Work, Kinds, Notices
  <2> QED BY <2>1, <2>2, <2>3
<1>6. Queueable(rows)
  <2>1. \A r \in rows : /\ r \in Work /\ r.state = "pending" /\ r.runs = 0
                        /\ r.kind \in Notices => Event(r.kind) \notin marker[r.order]
    BY <1>5 DEF Event
  <2>2. \A r, s \in rows : r.kind \in Notices /\ r.kind = s.kind /\ r.order = s.order => r = s
    BY <1>5
  <2> QED BY <1>4, <2>1, <2>2 DEF Queueable
<1>7. /\ marker' \in [Orders -> SUBSET Events]
      /\ \A o \in Orders : marker[o] \subseteq marker'[o]
      /\ \A o \in gone \ Guests : "order_expired" \in marker'[o]
  BY <1>1, <1>2 DEF WorkInv, Notes, Events
<1>8. \A r \in rows : r.kind \in Notices => Event(r.kind) \in marker'[r.order]
  BY <1>5, <1>7 DEF Event
<1>9. Notes'
  BY <1>1, <1>6, <1>7, <1>8, InsertKept DEF WorkInv
<1>10. Held'
  BY <1>1 DEF WorkInv, Held, Free
<1> QED BY <1>1, <1>9, <1>10 DEF WorkInv

\* The dispatcher's steps: what is claimed has not run, what has run is never
\* pending again (_dispatch_lifecycle_work).
LEMMA DispatchNoted ==
    ASSUME WorkInv, Dispatch
    PROVE  WorkInv'
<1> USE DEF WorkInv
<1>1. work \in Seq(Work) /\ \A n \in DOMAIN work : work[n] \in Work /\ n \in Nat
  BY DEF Notes
<1>2. item # NoWork => item.id \in DOMAIN work /\ work[item.id] \in Work /\ pass # <<>>
  BY <1>1 DEF Held
<1>3. pass # <<>> => Tail(pass) \in Seq(Kinds \cup {"any"})
  BY DEF Held
<1>4. CASE Claim
  <2>1. PICK n \in Claimable : /\ work' = [work EXCEPT ![n].state = "sending"]
                               /\ item' = [id |-> n, ran |-> FALSE]
    BY <1>4 DEF Claim
  <2>2. n \in DOMAIN work /\ work[n].state = "pending" /\ n \in Nat
    BY <1>1 DEF Claimable
  <2> DEFINE r == [work[n] EXCEPT !.state = "sending"]
  <2>3. /\ r \in Work /\ r.kind = work[n].kind /\ r.order = work[n].order
        /\ r.runs = work[n].runs /\ r.state = "sending"
    BY <1>1, <2>2 DEF Work
  <2>4. work' = [work EXCEPT ![n] = r]
    BY <2>1
  <2> HIDE DEF r
  <2>5. UNCHANGED <<due, receipt, marker, pass>> /\ pass # <<>>
    BY <1>4 DEF Claim, orderVars
  <2>6. r.kind \in Notices => r.runs = 0
    BY <2>2, <2>3 DEF Notes
  <2>7. Notes' /\ DOMAIN work' = DOMAIN work /\ work'[n] = r
    <3>1. r.kind \in Notices => r.runs <= 1 /\ (r.state = "pending" => r.runs = 0)
      BY <2>6
    <3>2. Notes /\ UNCHANGED marker
      BY <2>5
    <3> QED BY <2>2, <2>3, <2>4, <3>1, <3>2, RowKept
  <2>8. Held'
    BY <2>1, <2>2, <2>3, <2>5, <2>6, <2>7 DEF Held
  <2> QED BY <2>5, <2>7, <2>8
<1>5. CASE PassEnds
  BY <1>5, <1>3 DEF PassEnds, orderVars, workVars, Notes, Held
<1>6. ASSUME item # NoWork PROVE NextRow => pass' \in Seq(Kinds \cup {"any"})
  BY <1>2, <1>3, <1>6 DEF NextRow, Held
<1>7. ASSUME item # NoWork, UNCHANGED <<due, receipt, marker>>, item' = NoWork,
             pass' \in Seq(Kinds \cup {"any"}), Notes'
      PROVE  WorkInv'
  BY <1>7 DEF Held, NoWork
<1> DEFINE n == item.id
           s == [work[n] EXCEPT !.runs = @ + 1]
<1>8. ASSUME item # NoWork, ~item.ran, UNCHANGED marker, work' = Sent
      PROVE  Notes' /\ DOMAIN work' = DOMAIN work /\ work'[n] = s /\ s.state = "sending"
  <2>1. /\ s \in Work /\ s.kind = work[n].kind /\ s.order = work[n].order
        /\ s.runs = work[n].runs + 1 /\ s.state = work[n].state
    BY <1>2, <1>8 DEF Work
  <2>2. work[n].state = "sending" /\ (work[n].kind \in Notices => work[n].runs = 0)
    BY <1>8 DEF Held
  <2>3. work' = [work EXCEPT ![n] = s]
    BY <1>8 DEF Sent
  <2> HIDE DEF s, n
  <2>4. s.kind \in Notices => s.runs <= 1 /\ (s.state = "pending" => s.runs = 0)
    BY <2>1, <2>2
  <2>5. n \in DOMAIN work /\ s \in Work
    BY <1>2, <1>8, <2>1 DEF n
  <2>6. Notes' /\ DOMAIN work' = DOMAIN work /\ work'[n] = s
    BY <1>8, <2>1, <2>3, <2>4, <2>5, RowKept
  <2> QED BY <2>1, <2>2, <2>6
<1>9. CASE Effect
  <2>1. /\ item # NoWork /\ ~item.ran /\ work' = Sent /\ UNCHANGED <<due, receipt, marker, pass>>
        /\ item' = [item EXCEPT !.ran = TRUE]
    BY <1>9 DEF Effect
  <2>2. item' \in [id : Nat, ran : BOOLEAN] /\ item'.id = n /\ item'.ran
    BY <2>1 DEF Held
  <2>3. Notes' /\ DOMAIN work' = DOMAIN work /\ work'[n].state = "sending"
    BY <1>8, <2>1
  <2> HIDE DEF n, s
  <2>4. Held'
    BY <1>2, <2>1, <2>2, <2>3 DEF Held, n
  <2> QED BY <2>1, <2>3, <2>4
<1>10. CASE Complete
  <2> DEFINE r == [work[n] EXCEPT !.state = "done"]
  <2>1. /\ item # NoWork /\ work' = [work EXCEPT ![n] = r]
        /\ UNCHANGED <<due, receipt, marker>> /\ item' = NoWork /\ NextRow
    BY <1>10 DEF Complete, orderVars
  <2>2. /\ r \in Work /\ r.kind = work[n].kind /\ r.order = work[n].order
        /\ r.runs = work[n].runs /\ r.state = "done"
    BY <1>2, <2>1 DEF Work
  <2> HIDE DEF r
  <2>3. Notes'
    BY <1>2, <2>1, <2>2, RowKept DEF Notes
  <2> QED BY <1>6, <1>7, <2>1, <2>3
<1>11. CASE Uncertain
  <2>1. /\ item # NoWork /\ ~item.ran /\ work' \in {work, Sent}
        /\ UNCHANGED <<due, receipt, marker>> /\ item' = NoWork /\ NextRow
    BY <1>11 DEF Uncertain, orderVars
  <2>2. Notes'
    <3>1. CASE work' = work
      BY <3>1, <2>1 DEF Notes
    <3>2. CASE work' = Sent
      BY <3>2, <2>1, <1>8
    <3> QED BY <2>1, <3>1, <3>2
  <2> QED BY <1>6, <1>7, <2>1, <2>2
<1>12. CASE Refused
  <2> DEFINE r == [work[n] EXCEPT !.state = "pending"]
  <2>1. /\ item # NoWork /\ work[n].kind = "provider_cancel"
        /\ work' = [work EXCEPT ![n] = r]
        /\ UNCHANGED <<due, receipt, marker>> /\ item' = NoWork /\ pass' = Tail(pass)
    BY <1>12 DEF Refused
  <2>2. /\ r \in Work /\ r.kind = work[n].kind /\ r.order = work[n].order
    BY <1>2, <2>1 DEF Work
  <2>3. r.kind \notin Notices
    BY <2>1, <2>2 DEF Notices
  <2> HIDE DEF r
  <2>4. Notes'
    BY <1>2, <2>1, <2>2, <2>3, RowKept
  <2> QED BY <1>2, <1>3, <1>7, <2>1, <2>4
<1> QED BY <1>4, <1>5, <1>9, <1>10, <1>11, <1>12 DEF Dispatch

\* Nobody but the poll, the cleanup and the dispatcher touches the work.
LEMMA OthersNoted ==
    ASSUME WorkInv, UNCHANGED <<work, pass, item>>, due' \subseteq Orders, receipt' \subseteq Orders,
           marker' \in [Orders -> SUBSET Events],
           \A o \in Orders : marker[o] \subseteq marker'[o]
    PROVE  WorkInv'
<1>1. Notes'
  BY MarkedKept DEF WorkInv
<1> QED BY <1>1 DEF WorkInv, Held

LEMMA PeopleNoted ==
    ASSUME WorkInv, NEW o \in Orders, Customers(o) \/ Staff(o) \/ Time(o) \/ Provider(o)
    PROVE  WorkInv'
<1>1. due \subseteq Orders /\ receipt \subseteq Orders /\ marker \in [Orders -> SUBSET Events]
  BY DEF WorkInv, Notes
<1>2. ASSUME UNCHANGED <<work, pass, item>>, due' \subseteq Orders, receipt' \subseteq Orders,
             marker' = marker
      PROVE  WorkInv'
  BY <1>1, <1>2, OthersNoted
<1>3. CASE \/ \E p \in Providers : CreateInvoice(o, p)
           \/ CreateFailed(o) \/ UploadReceipt(o) \/ OrderAges(o)
           \/ \E i \in DOMAIN session[o] : SessionAges(o, i) \/ DealEnds(o, i) \/ Webhook(o, i)
           \/ Callback(o)
  BY <1>1, <1>2, <1>3 DEF CreateInvoice, CreateFailed, UploadReceipt, OrderAges, SessionAges,
                          DealEnds, Webhook, Callback, workVars, relay
<1>4. CASE Cancel(o) \/ Reopen(o) \/ MarkSent(o)
  BY <1>1, <1>2, <1>4 DEF Cancel, Reopen, MarkSent, SetStatus, relay
<1>5. CASE Reject(o)
  <2>1. /\ UNCHANGED <<work, pass, item, due, receipt>>
        /\ marker' = [marker EXCEPT ![o] = @ \cup {"receipt_rejected"}]
    BY <1>5 DEF Reject, SetStatus, relay
  <2>2. /\ marker' \in [Orders -> SUBSET Events]
        /\ \A q \in Orders : marker[q] \subseteq marker'[q]
    BY <1>1, <2>1 DEF Events
  <2> QED BY <1>1, <2>1, <2>2, OthersNoted
<1> QED BY <1>3, <1>4, <1>5 DEF Customers, Staff, Time, Provider

LEMMA PollNoted ==
    ASSUME Shape, WorkInv, Poll
    PROVE  WorkInv'
<1>1. due \subseteq Orders /\ receipt \subseteq Orders /\ marker \in [Orders -> SUBSET Events]
  BY DEF WorkInv, Notes
<1>2. CASE PollReads
  BY <1>1, <1>2, OthersNoted DEF PollReads, orderVars, workVars
<1>3. ASSUME NEW q \in polled, PollAnswers(q[1], q[2]) PROVE WorkInv'
  <2>1. q[1] \in Orders /\ q[2] \in Nat
    BY DEF Shape
  <2>2. Free /\ UNCHANGED <<due, receipt, item>>
    BY <1>3 DEF PollAnswers
  <2>3. CASE FailSession(q[1], q[2])
    BY <2>1, <2>2, <2>3, DeadSessionNoted
  <2>4. CASE UNCHANGED <<workVars, pass>>
    BY <1>1, <2>2, <2>4, OthersNoted DEF workVars
  <2> QED BY <1>3, <2>3, <2>4 DEF PollAnswers
<1> QED BY <1>2, <1>3 DEF Poll

LEMMA WorkInitially == Init => WorkInv
<1> SUFFICES ASSUME Init PROVE WorkInv
  OBVIOUS
<1>1. Notes
  BY DEF Init, Notes
<1>2. Held
  BY DEF Init, Held, NoWork
<1> QED BY <1>1, <1>2 DEF WorkInv, Init

LEMMA WorkStep == Shape /\ WorkInv /\ [Next]_vars => WorkInv'
<1> SUFFICES ASSUME Shape, WorkInv, [Next]_vars PROVE WorkInv'
  OBVIOUS
<1>1. CASE UNCHANGED vars
  BY <1>1, OthersNoted DEF WorkInv, Notes, vars, orderVars, workVars, relay
<1>2. CASE Crash
  <2>1. /\ UNCHANGED <<due, receipt, marker, work>> /\ pass' = <<>> /\ item' = NoWork
    BY <1>2 DEF Crash, orderVars, workVars
  <2>2. Notes'
    BY <2>1 DEF WorkInv, Notes
  <2>3. Held'
    BY <2>1 DEF Held, NoWork
  <2> QED BY <2>1, <2>2, <2>3 DEF WorkInv
<1>3. CASE Next /\ ~Crash
  BY <1>3, PeopleNoted, PollNoted, ExpiryNoted, DispatchNoted DEF Next
<1> QED BY <1>1, <1>2, <1>3

\* Every variable keeps its type, for any orders and sessions.
THEOREM LifecycleTypes == Spec => []TypeOK
<1>1. Inv /\ WorkInv => TypeOK
  BY DEF Inv, Shape, Statuses, Deals, WorkInv, Notes, Events, Held, TypeOK
<1>2. Inv => Shape
  BY DEF Inv
<1> QED BY Initially, StepInv, WorkInitially, WorkStep, <1>1, <1>2, PTL DEF Spec

\* Nobody is told twice of an expiry or of a dead session, for any orders and
\* sessions, however often the relay dies or Telegram's answers are lost
\* (expire_due, fail_session, _dispatch_lifecycle_work).
THEOREM ToldOnce == Spec => []SaidOnce
<1>1. WorkInv => SaidOnce
  <2> SUFFICES ASSUME WorkInv, NEW o \in Orders, NEW k \in Notices
               PROVE  LET said == {n \in DOMAIN work : work[n].order = o /\ work[n].kind = k}
                      IN  Cardinality(said) <= 1 /\ \A n \in said : work[n].runs <= 1
    BY DEF SaidOnce, Notices
  <2> DEFINE said == {n \in DOMAIN work : work[n].order = o /\ work[n].kind = k}
  <2>1. \A n \in said : work[n].runs <= 1
    BY DEF WorkInv, Notes
  <2>2. \A m, n \in said : m = n
    BY DEF WorkInv, Notes
  <2> HIDE DEF said
  <2>3. CASE said = {}
    BY <2>1, <2>3, FS_EmptySet DEF said
  <2>4. CASE said # {}
    <3>1. PICK n \in said : said = {n}
      BY <2>2, <2>4
    <3>2. Cardinality(said) = 1
      BY <3>1, FS_Singleton
    <3> QED BY <2>1, <3>2 DEF said
  <2> QED BY <2>3, <2>4
<1>2. Inv => Shape
  BY DEF Inv
<1> QED BY Initially, StepInv, WorkInitially, WorkStep, <1>1, <1>2, PTL DEF Spec
=============================================================================
