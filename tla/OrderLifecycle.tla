------------------------------ MODULE OrderLifecycle ---------------------------
(***************************************************************************)
(* A buy order from its creation to its payment, its expiry or its         *)
(* cancellation: the payment sessions the customer opens, the confirmations *)
(* that reach payment_transition_store.mark_paid from webhooks, from the   *)
(* Vertu poll and from operators, the expiry and the dead sessions of      *)
(* order_lifecycle_store, and the durable work (notices, provider           *)
(* cancellations) that relay-fastapi's dispatcher carries out.             *)
(*                                                                         *)
(* The relay is one event loop.  A dispatch pass never awaits, so nothing  *)
(* else of the relay runs inside it; the bot and the customers do, and the *)
(* relay can die between any two steps.                                    *)
(***************************************************************************)
EXTENDS Naturals, Sequences, FiniteSets, Functions

CONSTANTS
    Orders,      \* order ids, created in this order
    Guests,      \* orders without a Telegram account behind them
    MaxSessions  \* how many payment sessions a customer opens for an order

ASSUME LifecycleAssumption ==
    /\ Orders \subseteq Nat /\ IsFiniteSet(Orders)
    /\ Guests \subseteq Orders
    /\ MaxSessions \in Nat

\* _REOPENABLE.  Nothing in the code sets an order to failed any more.
Closed == {"cancelled", "expired", "failed"}
Providers == {"brabus", "vertu"}
Ages == {"live", "stale", "old"}   \* before expires_at, after it, past two hours
Kinds == {"order_expired_notify", "session_dead_admin", "session_dead_customer",
          "provider_cancel"}
NoWork == [id |-> 0, ran |-> FALSE]

VARIABLES
    status,    \* orders.status
    due,       \* orders older than two hours
    receipt,   \* orders with a row in order_receipts
    session,   \* the payment_sessions of each order, oldest first
    deal,      \* what the provider knows of each session's invoice
    audit,     \* payment_transition_audit: what confirmed each order
    outbox,    \* orders with a row in payment_notification_outbox
    marker,    \* sent_notifications: the events noted for each order
    work,      \* order_lifecycle_work, in order of its ids
    pass,      \* the dispatch passes the relay still has to make
    item,      \* the work row a pass has claimed
    polled     \* the sessions the Vertu poll has read and still asks about

orderVars == <<status, due, receipt, session, deal>>
ledger == <<audit, outbox>>
workVars == <<marker, work>>
relay == <<pass, item, polled>>
vars == <<orderVars, ledger, workVars, relay>>

Session == [provider : Providers \cup {"fallback"},
            status : {"invoice_created", "paid", "failed"}, age : Ages]
Work == [kind : Kinds, order : Orders, session : Nat,
         state : {"pending", "sending", "done"}, runs : Nat]
Evidence == Providers \cup {"manual"}

TypeOK ==
    /\ status \in [Orders -> {"pending", "paid", "sent"} \cup Closed]
    /\ due \subseteq Orders /\ receipt \subseteq Orders /\ outbox \subseteq Orders
    /\ session \in [Orders -> Seq(Session)]
    /\ deal \in [Orders -> Seq({"open", "paid", "dead", "cancelled"})]
    /\ audit \in [Orders -> Seq(Evidence)]
    /\ marker \in [Orders -> SUBSET {"order_expired", "session_dead", "receipt_rejected"}]
    /\ work \in Seq(Work)
    /\ pass \in Seq(Kinds \cup {"any"})
    /\ item \in [id : Nat, ran : BOOLEAN]
    /\ polled \subseteq Orders \X Nat

Init ==
    /\ status = [o \in Orders |-> "pending"]
    /\ due = {} /\ receipt = {} /\ outbox = {} /\ polled = {}
    /\ session = [o \in Orders |-> <<>>] /\ deal = [o \in Orders |-> <<>>]
    /\ audit = [o \in Orders |-> <<>>]
    /\ marker = [o \in Orders |-> {}]
    /\ work = <<>> /\ pass = <<>> /\ item = NoWork

----------------------------------------------------------------------------
(* Customers, providers and time.                                          *)

(* PaymentService.create_session: the chosen provider or the escalation    *)
(* chain gives out an invoice.  The bot asks for one whatever the order's  *)
(* status is by then.                                                      *)
CreateInvoice(o, p) ==
    /\ Len(session[o]) < MaxSessions
    /\ session' = [session EXCEPT ![o] =
          Append(@, [provider |-> p, status |-> "invoice_created", age |-> "live"])]
    /\ deal' = [deal EXCEPT ![o] = Append(@, "open")]
    /\ UNCHANGED <<status, due, receipt, ledger, workVars, relay>>

(* Nobody gave out requisites: only a failed row is left.                  *)
CreateFailed(o) ==
    /\ Len(session[o]) < MaxSessions
    /\ session' = [session EXCEPT ![o] =
          Append(@, [provider |-> "fallback", status |-> "failed", age |-> "live"])]
    /\ deal' = [deal EXCEPT ![o] = Append(@, "dead")]
    /\ UNCHANGED <<status, due, receipt, ledger, workVars, relay>>

(* Half an hour ends the session, two hours end the poll's interest in it  *)
(* and make the order due.                                                 *)
SessionAges(o, i) ==
    /\ session[o][i].age # "old"
    /\ session' = [session EXCEPT ![o][i].age = IF @ = "live" THEN "stale" ELSE "old"]
    /\ due' = IF session[o][i].age = "live" THEN due ELSE due \cup {o}
    /\ UNCHANGED <<status, receipt, deal, ledger, workVars, relay>>

OrderAges(o) ==
    /\ o \notin due
    /\ due' = due \cup {o}
    /\ UNCHANGED <<status, receipt, session, deal, ledger, workVars, relay>>

(* The customer pays the invoice, or the provider gives it up.             *)
DealEnds(o, i) ==
    /\ deal[o][i] = "open"
    /\ \E d \in {"paid", "dead"} : deal' = [deal EXCEPT ![o][i] = d]
    /\ UNCHANGED <<status, due, receipt, session, ledger, workVars, relay>>

UploadReceipt(o) ==
    /\ receipt' = receipt \cup {o}
    /\ UNCHANGED <<status, due, session, deal, ledger, workVars, relay>>

----------------------------------------------------------------------------
(* The bot's handlers on the order's status.                               *)

SetStatus(o, s) ==
    /\ status' = [status EXCEPT ![o] = s]
    /\ UNCHANGED <<due, receipt, session, deal, ledger, work, relay>>

\* Mutant of Cancel: the providers' spelling of the status.
CancelMisspelt(o) ==
    /\ status[o] = "pending" /\ o \notin due
    /\ SetStatus(o, "canceled")
    /\ UNCHANGED marker

(* cancel_order_callback: the first ten minutes only, by its owner.        *)
Cancel(o) ==
    /\ status[o] = "pending" /\ o \notin due
    /\ SetStatus(o, "cancelled")
    /\ UNCHANGED marker

\* Mutant of Reopen: a paid order can be put back to work as well.
ReopenPaid(o) ==
    /\ status[o] \in Closed \cup {"paid"}
    /\ SetStatus(o, "pending")
    /\ UNCHANGED marker

(* cb_review_reopen and cb_review_reject: /review offers them for orders    *)
(* with a receipt, the handlers and the store ask for the status alone.    *)
Reopen(o) ==
    /\ status[o] \in Closed
    /\ SetStatus(o, "pending")
    /\ UNCHANGED marker

Reject(o) ==
    /\ status[o] = "pending"
    /\ SetStatus(o, "cancelled")
    /\ marker' = [marker EXCEPT ![o] = @ \cup {"receipt_rejected"}]

(* order_workflow_store.mark_sent, once the payout is settled.             *)
MarkSent(o) ==
    /\ status[o] = "paid"
    /\ SetStatus(o, "sent")
    /\ UNCHANGED marker

----------------------------------------------------------------------------
(* payment_transition_store.mark_paid                                      *)

(* The session a confirmation closes: the one it names, or the latest of   *)
(* its provider.                                                           *)
PaidSessions(o, p, token) ==
    LET usable == {i \in DOMAIN session[o] : session[o][i].status # "failed"}
        ofProvider == {i \in usable : session[o][i].provider = p}
    IN  IF token # 0 THEN usable \cap {token}
        ELSE {i \in ofProvider : \A j \in ofProvider : j <= i}

\* Mutant of MarkPaid: the order is only checked for being paid already.
MarkPaidClosed(o, p, token) ==
    IF status[o] = "paid" THEN UNCHANGED <<status, session, ledger>>
    ELSE /\ status' = [status EXCEPT ![o] = "paid"]
         /\ session' = [session EXCEPT ![o] = [i \in DOMAIN @ |->
               IF i \in PaidSessions(o, p, token) THEN [@[i] EXCEPT !.status = "paid"]
               ELSE @[i]]]
         /\ audit' = [audit EXCEPT ![o] = Append(@, p)]
         /\ outbox' = IF o \in Guests THEN outbox ELSE outbox \cup {o}

(* One transaction: anything but a pending order is left alone (missing,   *)
(* already_paid and status_conflict, which only the operator's caller      *)
(* looks at).                                                              *)
MarkPaid(o, p, token) ==
    IF status[o] # "pending" THEN UNCHANGED <<status, session, ledger>>
    ELSE /\ status' = [status EXCEPT ![o] = "paid"]
         /\ session' = [session EXCEPT ![o] = [i \in DOMAIN @ |->
               IF i \in PaidSessions(o, p, token) THEN [@[i] EXCEPT !.status = "paid"]
               ELSE @[i]]]
         /\ audit' = [audit EXCEPT ![o] = Append(@, p)]
         /\ outbox' = IF o \in Guests THEN outbox ELSE outbox \cup {o}

Free == pass = <<>>

(* A provider's webhook, as often as the provider cares to send it.  It    *)
(* names the order, never the session.                                     *)
Webhook(o, i) ==
    /\ Free
    /\ session[o][i].provider = "brabus" /\ deal[o][i] = "paid"
    /\ MarkPaid(o, "brabus", 0)
    /\ UNCHANGED <<due, receipt, deal, workVars, relay>>

(* /payment/callback: an operator vouches for the payment.                 *)
Callback(o) ==
    /\ Free
    /\ MarkPaid(o, "manual", 0)
    /\ UNCHANGED <<due, receipt, deal, workVars, relay>>

----------------------------------------------------------------------------
(* Sessions that die, orders that expire, and the work both leave behind.  *)

Row(k, o, i) == [kind |-> k, order |-> o, session |-> i, state |-> "pending", runs |-> 0]

Rows == Range(work)

(* The order of the statements: orders by their id, the notice ahead of the *)
(* cancellations, the staff ahead of the customer.  The cancellations of   *)
(* one order come as their query, which sorts nothing, returns them.       *)
Before(r, s) ==
    \/ r.order < s.order
    \/ /\ r.order = s.order
       /\ <<r.kind, s.kind>> \in {<<"order_expired_notify", "provider_cancel">>,
                                  <<"session_dead_admin", "session_dead_customer">>}

(* INSERT OR IGNORE under UNIQUE(kind, order_id, session_token); a NULL    *)
(* token, here session 0, never conflicts.                                 *)
Fresh(rows) ==
    {r \in rows : r.session = 0 \/ \A w \in Rows :
                       <<w.kind, w.order, w.session>> # <<r.kind, r.order, r.session>>}

Queues(rows) ==
    {q \in [1..Cardinality(rows) -> rows] :
        \A i, j \in DOMAIN q : i < j => q[i] # q[j] /\ ~Before(q[j], q[i])}

Insert(rows) == work' \in {work \o q : q \in Queues(Fresh(rows))}

(* fail_session, and the two passes of handle_dead_session after it.       *)
FailSession(o, i) ==
    LET first == "session_dead" \notin marker[o]
        told == o \notin Guests /\ status[o] \notin {"paid", "sent"}
    IN  IF session[o][i].status # "invoice_created"
        THEN UNCHANGED <<session, workVars, pass>>
        ELSE /\ session' = [session EXCEPT ![o][i].status = "failed"]
             /\ marker' = [marker EXCEPT ![o] = @ \cup {"session_dead"}]
             /\ IF ~first THEN UNCHANGED work
                ELSE Insert({Row("session_dead_admin", o, i)} \cup
                            IF told THEN {Row("session_dead_customer", o, i)} ELSE {})
             /\ pass' = IF first THEN <<"session_dead_admin", "session_dead_customer">>
                        ELSE <<>>

(* pending_vertu: the open sessions of pending orders.                     *)
PollReads ==
    /\ Free /\ polled = {}
    /\ polled' = {q \in Orders \X (1..MaxSessions) :
          /\ status[q[1]] = "pending" /\ q[2] \in DOMAIN session[q[1]]
          /\ LET s == session[q[1]][q[2]]
             IN  s.provider = "vertu" /\ s.status = "invoice_created" /\ s.age # "old"}
    /\ polled' # {}
    /\ UNCHANGED <<orderVars, ledger, workVars, pass, item>>

(* get_status has been awaited; the poll acts on its answer, whatever has   *)
(* become of the order meanwhile.                                          *)
PollAnswers(o, i) ==
    /\ Free /\ <<o, i>> \in polled
    /\ polled' = polled \ {<<o, i>>}
    /\ \/ /\ deal[o][i] = "paid"
          /\ MarkPaid(o, "vertu", i)
          /\ UNCHANGED <<workVars, pass>>
       \/ /\ deal[o][i] = "dead"
          /\ FailSession(o, i)
          /\ UNCHANGED <<status, ledger>>
       \/ UNCHANGED <<status, session, ledger, workVars, pass>>
    /\ UNCHANGED <<due, receipt, deal, item>>

\* Mutant of Expirable: any open session holds its order, however old.
HeldByAnySession(o) ==
    /\ status[o] = "pending" /\ o \in due /\ o \notin receipt
    /\ \A i \in DOMAIN session[o] : session[o][i].status # "invoice_created"

(* expire_due's query.                                                     *)
Expirable(o) ==
    /\ status[o] = "pending" /\ o \in due /\ o \notin receipt
    /\ \A i \in DOMAIN session[o] :
          ~(session[o][i].status = "invoice_created" /\ session[o][i].age = "live")

Cancellable(o) == {i \in DOMAIN session[o] : session[o][i].provider = "brabus"}

ExpiryRows(o) ==
    (IF o \in Guests \/ "order_expired" \in marker[o] THEN {}
     ELSE {Row("order_expired_notify", o, 0)})
    \cup {Row("provider_cancel", o, i) : i \in Cancellable(o)}

(* cleanup_expired_orders: expire_due in one transaction, then a pass over *)
(* all pending work.                                                       *)
StartCleanup ==
    LET gone == {o \in Orders : Expirable(o)}
    IN  /\ Free
        /\ gone # {} \/ \E w \in Rows : w.state = "pending"
        /\ status' = [o \in Orders |-> IF o \in gone THEN "expired" ELSE status[o]]
        /\ marker' = [o \in Orders |-> IF o \in gone \ Guests
                                       THEN marker[o] \cup {"order_expired"} ELSE marker[o]]
        /\ Insert(UNION {ExpiryRows(o) : o \in gone})
        /\ pass' = <<"any">>
        /\ UNCHANGED <<due, receipt, session, deal, ledger, item, polled>>

----------------------------------------------------------------------------
(* _dispatch_lifecycle_work                                                *)

Claimable == {n \in DOMAIN work : work[n].state = "pending"
                                  /\ Head(pass) \in {"any", work[n].kind}}

\* Mutant of Claim: rows left `sending` by an earlier run are taken again.
ClaimSending ==
    /\ pass # <<>> /\ item = NoWork
    /\ \E n \in DOMAIN work :
          /\ work[n].state # "done" /\ Head(pass) \in {"any", work[n].kind}
          /\ \A m \in DOMAIN work : m < n => work[m].state = "done"
          /\ work' = [work EXCEPT ![n].state = "sending"]
          /\ item' = [id |-> n, ran |-> FALSE]
    /\ UNCHANGED <<orderVars, ledger, marker, pass, polled>>

(* claim_work: the oldest pending row of the pass's kind.                  *)
Claim ==
    /\ pass # <<>> /\ item = NoWork
    /\ \E n \in Claimable :
          /\ \A m \in Claimable : n <= m
          /\ work' = [work EXCEPT ![n].state = "sending"]
          /\ item' = [id |-> n, ran |-> FALSE]
    /\ UNCHANGED <<orderVars, ledger, marker, pass, polled>>

PassEnds ==
    /\ pass # <<>> /\ item = NoWork /\ Claimable = {}
    /\ pass' = Tail(pass)
    /\ UNCHANGED <<orderVars, ledger, workVars, item, polled>>

(* The passes for a dead session handle one row, the cleanup's goes on.    *)
NextRow == pass' = IF Head(pass) = "any" THEN pass ELSE Tail(pass)

Sent == [work EXCEPT ![item.id].runs = @ + 1]

(* The message is out, or Brabus has cancelled the invoice.                *)
Effect ==
    /\ item # NoWork /\ ~item.ran
    /\ work' = Sent
    /\ item' = [item EXCEPT !.ran = TRUE]
    /\ LET w == work[item.id]
       IN  IF w.kind = "provider_cancel"
           THEN /\ deal[w.order][w.session] = "open"
                /\ deal' = [deal EXCEPT ![w.order][w.session] = "cancelled"]
           ELSE UNCHANGED deal
    /\ UNCHANGED <<status, due, receipt, session, ledger, marker, pass, polled>>

(* complete_work                                                           *)
Complete ==
    /\ item # NoWork /\ item.ran
    /\ work' = [work EXCEPT ![item.id].state = "done"]
    /\ item' = NoWork /\ NextRow
    /\ UNCHANGED <<orderVars, ledger, marker, polled>>

(* Telegram's answer is lost or bad: the row stays `sending`, the message  *)
(* may be out all the same.  An exception while sending ends like this too. *)
Uncertain ==
    /\ item # NoWork /\ ~item.ran /\ work[item.id].kind # "provider_cancel"
    /\ work' \in {work, Sent}
    /\ item' = NoWork /\ NextRow
    /\ UNCHANGED <<orderVars, ledger, marker, polled>>

(* The provider does not cancel, or does and its answer is lost: the row   *)
(* is given back, and the pass stops.                                      *)
Refused ==
    /\ item # NoWork /\ ~item.ran /\ work[item.id].kind = "provider_cancel"
    /\ LET w == work[item.id]
       IN  /\ work' = [work EXCEPT ![item.id].state = "pending"]
           /\ \/ UNCHANGED deal
              \/ /\ deal[w.order][w.session] = "open"
                 /\ deal' = [deal EXCEPT ![w.order][w.session] = "cancelled"]
    /\ item' = NoWork /\ pass' = Tail(pass)
    /\ UNCHANGED <<status, due, receipt, session, ledger, marker, polled>>

(* The relay dies and comes back; only the database remembers.             *)
Crash ==
    /\ pass # <<>> \/ polled # {}
    /\ pass' = <<>> /\ item' = NoWork /\ polled' = {}
    /\ UNCHANGED <<orderVars, ledger, workVars>>

----------------------------------------------------------------------------
Customers(o) ==
    \/ \E p \in Providers : CreateInvoice(o, p)
    \/ CreateFailed(o) \/ UploadReceipt(o) \/ Cancel(o)

Staff(o) == Reopen(o) \/ Reject(o) \/ MarkSent(o) \/ Callback(o)

Time(o) == OrderAges(o) \/ \E i \in DOMAIN session[o] : SessionAges(o, i)

Provider(o) == \E i \in DOMAIN session[o] : DealEnds(o, i) \/ Webhook(o, i)

Poll == PollReads \/ \E q \in polled : PollAnswers(q[1], q[2])

Dispatch == Claim \/ PassEnds \/ Effect \/ Complete \/ Uncertain \/ Refused

Next ==
    \/ \E o \in Orders : Customers(o) \/ Staff(o) \/ Time(o) \/ Provider(o)
    \/ Poll \/ StartCleanup \/ Dispatch \/ Crash

Spec == Init /\ [][Next]_vars

(* The relay's loops go on and time passes; customers, staff and providers *)
(* need not do anything, and the relay may keep dying.                     *)
Fairness ==
    /\ WF_vars(StartCleanup) /\ WF_vars(Claim) /\ WF_vars(PassEnds)
    /\ WF_vars(Effect \/ Complete \/ Uncertain \/ Refused)
    /\ \A o \in Orders : WF_vars(Time(o))

FairSpec == Spec /\ Fairness

----------------------------------------------------------------------------
(* What must hold.                                                         *)

\* An order is paid or sent exactly when one confirmation of it is on file,
\* from a provider that has the money on an invoice of this order or from an
\* operator; and then its customer's confirmation message is queued.  Webhooks,
\* the poll and operators may report the payment at once (mark_paid).
PaidIsProven ==
    \A o \in Orders :
        /\ Len(audit[o]) = IF status[o] \in {"paid", "sent"} THEN 1 ELSE 0
        /\ \A p \in Range(audit[o]) \ {"manual"} :
              \E i \in DOMAIN session[o] : session[o][i].provider = p /\ deal[o][i] = "paid"
        /\ o \in outbox <=> status[o] \in {"paid", "sent"} /\ o \notin Guests

\* A late confirmation never revives a closed order, nor is it filed under one;
\* a paid order is never closed or put back, and a sent one is final.  Only
\* review_reopen takes an order out of the closed statuses, and to pending.
OrderMovesForward ==
    [][\A o \in Orders :
         /\ status[o] \in Closed =>
               status'[o] \in {status[o], "pending"} /\ audit'[o] = audit[o]
         /\ status[o] = "paid" => status'[o] \in {"paid", "sent"}
         /\ status[o] = "sent" => status'[o] = "sent"]_vars

\* However often the relay dies or Telegram's answers are lost, an order's
\* customer hears of its expiry, and everybody of a dead session, at most once
\* (the dispatcher never repeats an uncertain send).
SaidOnce ==
    \A o \in Orders, k \in Kinds \ {"provider_cancel"} :
        LET said == {n \in DOMAIN work : work[n].order = o /\ work[n].kind = k}
        IN  Cardinality(said) <= 1 /\ \A n \in said : work[n].runs <= 1

\* No order hangs for ever: without a receipt it expires when its sessions have
\* run out, whatever became of them at the provider (expire_due).
AbandonedExpires ==
    \A o \in Orders :
        status[o] = "pending" ~> (status[o] # "pending" \/ o \in receipt)
=============================================================================
