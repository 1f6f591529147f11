----------------------------- MODULE OrderSettlement ---------------------------
(***************************************************************************)
(* How a paid order becomes a sent one (bot/main_bot.py, the stores under  *)
(* relay/repositories and relay/core/payout_discovery.py): the automatic   *)
(* engine, the people who pay by hand, the administrators who act on       *)
(* evidence from the chain and the reconciliation loop, all working on the *)
(* same order while the payout worker of PayoutWorker pays its intent.     *)
(***************************************************************************)
EXTENDS PayoutWorker

CONSTANTS
    Engines,  \* running auto_check_payments loops, one per bot instance
    Quote     \* the amount each order was promised

ASSUME SettlementAssumption == Quote \in [Orders -> Amounts]

VARIABLES
    status,      \* orders.status
    paidTx,      \* orders.paid_btc_tx
    credits,     \* how often the order's volume was credited to its customer
    reconciled,  \* orders with a row in payout_reconciliations
    older,       \* the transfers that are older than the payment of each order
    triggered,   \* orders with the payout_triggered marker
    batch,       \* the payout candidates an engine still has to look at
    engine,      \* what an engine is about to do with which order
    sending,     \* who has opened which order to pay it by hand
    command,     \* what an administrator's command is about to do
    crediting    \* orders marked sent whose credit is still to be booked

orderVars == <<status, paidTx, credits, reconciled, older>>
botVars == <<triggered, batch, engine, sending, command, crediting>>
settlementVars == <<vars, orderVars, botVars>>

Idle == [step |-> "idle", order |-> NoOrder]
Ready == [does |-> "nothing", order |-> NoOrder, tx |-> NoTx]

SettlementTypeOK ==
    /\ status \in [Orders -> {"pending", "paid", "sent"}]
    /\ paidTx \in [Orders -> Tx \cup {NoTx}]
    /\ credits \in [Orders -> Nat]
    /\ older \in [Orders -> SUBSET Tx]
    /\ reconciled \subseteq Orders /\ triggered \subseteq Orders
    /\ crediting \subseteq Orders
    /\ batch \in [Engines -> SUBSET Orders]
    /\ engine \in [Engines -> [step : {"idle", "queue"},
                               order : Orders \cup {NoOrder}]]
    /\ sending \subseteq Humans \X Orders
    /\ command \in [Admins -> [does : {"nothing", "payout", "close", "confirm"},
                               order : Orders \cup {NoOrder}, tx : Tx \cup {NoTx}]]

SettlementInit ==
    /\ Init
    /\ status = [o \in Orders |-> "pending"]
    /\ paidTx = [o \in Orders |-> NoTx]
    /\ credits = [o \in Orders |-> 0]
    /\ older = [o \in Orders |-> {}]
    /\ reconciled = {} /\ triggered = {} /\ sending = {} /\ crediting = {}
    /\ batch = [e \in Engines |-> {}]
    /\ engine = [e \in Engines |-> Idle]
    /\ command = [a \in Admins |-> Ready]

-----------------------------------------------------------------------------
(* The orders table. *)

\* payment_transition_store.mark_paid, for an order nobody cancelled.  Its
\* updated_at tells the transfers made before from those made after.
MarkPaid(o) ==
    /\ status[o] = "pending"
    /\ status' = [status EXCEPT ![o] = "paid"]
    /\ older' = [older EXCEPT ![o] = chain]
    /\ UNCHANGED <<vars, paidTx, credits, reconciled, botVars>>

\* Mutant of CanMarkSent: an order that is sent may be given a better txid.
CanMarkSentAgain(o) == status[o] \in {"paid", "sent"}

CanMarkSent(o) == status[o] = "paid" /\ paidTx[o] = NoTx

\* order_workflow_store.mark_sent, with whatever txid the caller brings.
MarkSent(o, t) ==
    /\ CanMarkSent(o)
    /\ status' = [status EXCEPT ![o] = "sent"]
    /\ paidTx' = [paidTx EXCEPT ![o] = t]
    /\ UNCHANGED <<credits, reconciled, older>>

\* The caller in the bot books the volume afterwards, in a transaction of its
\* own; an exception there is swallowed.
Credit(o) ==
    /\ o \in crediting
    /\ \/ credits' = [credits EXCEPT ![o] = @ + 1]
       \/ UNCHANGED credits
    /\ crediting' = crediting \ {o}
    /\ UNCHANGED <<vars, status, paidTx, reconciled, older, triggered, batch, engine,
                   sending, command>>

\* Mutant of Reconcile: the status the settled intent's order is in is not read.
ReconcileClosed(o) ==
    /\ o \notin reconciled
    /\ state[o] = "succeeded" /\ txid[o] # NoTx
    /\ status' = [status EXCEPT ![o] = "sent"]
    /\ paidTx' = [paidTx EXCEPT ![o] = txid[o]]
    /\ credits' = [credits EXCEPT ![o] = @ + 1]
    /\ reconciled' = reconciled \cup {o}
    /\ UNCHANGED <<vars, older, botVars>>

\* Mutant of Reconcile: only what the engine itself queued is looked for.
ReconcileTriggered(o) ==
    /\ o \in triggered \ reconciled
    /\ state[o] = "succeeded" /\ txid[o] # NoTx
    /\ status[o] = "paid"
    /\ status' = [status EXCEPT ![o] = "sent"]
    /\ paidTx' = [paidTx EXCEPT ![o] = txid[o]]
    /\ credits' = [credits EXCEPT ![o] = @ + 1]
    /\ reconciled' = reconciled \cup {o}
    /\ UNCHANGED <<vars, older, botVars>>

\* reconcile_order: one transaction from the settled intent to the sent order,
\* the credit and the row that keeps it from happening twice.
Reconcile(o) ==
    /\ o \notin reconciled
    /\ state[o] = "succeeded" /\ txid[o] # NoTx
    /\ status[o] = "paid"
    /\ status' = [status EXCEPT ![o] = "sent"]
    /\ paidTx' = [paidTx EXCEPT ![o] = txid[o]]
    /\ credits' = [credits EXCEPT ![o] = @ + 1]
    /\ reconciled' = reconciled \cup {o}
    /\ UNCHANGED <<vars, older, botVars>>

-----------------------------------------------------------------------------
(* The automatic engine: auto_check_payments. *)

\* payout_candidates: paid orders without the marker; a LIMIT and an age of 24
\* hours leave some out.
EngineScan(e) ==
    /\ engine[e] = Idle /\ batch[e] = {}
    /\ \E found \in SUBSET {o \in Orders : status[o] = "paid" /\ o \notin triggered} :
        batch' = [batch EXCEPT ![e] = found]
    /\ UNCHANGED <<vars, orderVars, triggered, engine, sending, command, crediting>>

\* Mutant of EngineDecide: the marker is set without asking whether it was there.
EngineDecideAnew(e, o) ==
    /\ engine[e] = Idle /\ o \in batch[e]
    /\ batch' = [batch EXCEPT ![e] = @ \ {o}]
    /\ triggered' = triggered \cup {o}
    /\ engine' = [engine EXCEPT ![e] = [step |-> "queue", order |-> o]]
    /\ UNCHANGED <<vars, orderVars, sending, command, crediting>>

\* The guard holds the payout and nothing changes, or the marker is claimed and
\* the order goes to the queue or, by word of the bot, to the workers.  A marker
\* that is already there ends it.
EngineDecide(e, o) ==
    /\ engine[e] = Idle /\ o \in batch[e]
    /\ batch' = [batch EXCEPT ![e] = @ \ {o}]
    /\ \/ UNCHANGED <<triggered, engine>>
       \/ /\ o \notin triggered
          /\ triggered' = triggered \cup {o}
          /\ \/ engine' = [engine EXCEPT ![e] = [step |-> "queue", order |-> o]]
             \/ UNCHANGED engine
    /\ UNCHANGED <<vars, orderVars, sending, command, crediting>>

\* Mutant of ProcessPayout: a caller that asks again puts a reviewed intent back.
ProcessPayoutRetrying(o) ==
    /\ UNCHANGED storeVars \/ CreateIntent(o, Quote[o]) \/ RequeueIntent(o)
    /\ UNCHANGED <<walletVars, workerVars, requeue>>

\* process_payout: a check refuses, or the intent is there after the call, new
\* or old.  It returns a txid only for an intent that has succeeded.
ProcessPayout(o) ==
    /\ \/ UNCHANGED storeVars
       \/ CreateIntent(o, Quote[o])
    /\ UNCHANGED <<walletVars, workerVars, requeue>>

\* The engine reads None as an empty hot wallet and tells the workers to pay by
\* hand (notify_workers_paid); a txid it leaves to the reconciliation.
EngineQueue(e) ==
    /\ engine[e].step = "queue"
    /\ ProcessPayout(engine[e].order)
    /\ engine' = [engine EXCEPT ![e] = Idle]
    /\ UNCHANGED <<orderVars, triggered, batch, sending, command, crediting>>

\* An exception ends the pass: the marker stays, the rest is never reached.
EngineFails(e) ==
    /\ engine[e] # Idle \/ batch[e] # {}
    /\ engine' = [engine EXCEPT ![e] = Idle]
    /\ batch' = [batch EXCEPT ![e] = {}]
    /\ UNCHANGED <<vars, orderVars, triggered, sending, command, crediting>>

-----------------------------------------------------------------------------
(* People. *)

\* The transfer the notice asks for: the amount the order was promised.
HandTx(h, o) == HumanTx(h, o, Quote[o])

\* worker_send_start, from a notice or from the /worker panel, which lists every
\* paid order, also one whose intent is in the queue; it lets a pending order
\* through as well, which only ManualClose refuses.
ManualStart(h, o) ==
    /\ status[o] \in {"paid", "pending"}
    /\ sending' = sending \cup {<<h, o>>}
    /\ UNCHANGED <<vars, orderVars, triggered, batch, engine, command, crediting>>

\* The transfer itself, made once, from a wallet the system knows nothing of.
ManualPay(h, o) ==
    /\ <<h, o>> \in sending
    /\ HandTx(h, o) \notin chain
    /\ PayByHand(h, o, Quote[o])
    /\ UNCHANGED <<orderVars, botVars>>

\* worker_enter_tx and /force_payout in the bot, which credit afterwards, and
\* force_payout in the relay, which does not.
ManualClose(h, o) ==
    /\ HandTx(h, o) \in chain
    /\ MarkSent(o, HandTx(h, o))
    /\ crediting' \in {crediting, crediting \cup {o}}
    /\ UNCHANGED <<vars, triggered, batch, engine, sending, command>>

-----------------------------------------------------------------------------
(* Administrator commands: a look, an await, then an act on what was seen. *)

\* What a transfer must be to close an order: to its address, with its amount.
Owes(t, o) == Dest[t.order] = Dest[o] /\ t.amount = Quote[o]

\* Mutant of Candidates: a transfer to the address is evidence whatever its amount.
CandidatesOfAnyAmount(o) ==
    IF CanMarkSent(o)
    THEN {t \in chain \ older[o] :
            Dest[t.order] = Dest[o] /\ \A p \in Orders : paidTx[p] # t}
    ELSE {}

\* candidates_for: transfers to the order's address with the promised amount,
\* made since it was paid and with a txid no order carries, while the order
\* waits for one.
Candidates(o) ==
    IF CanMarkSent(o)
    THEN {t \in chain \ older[o] : Owes(t, o) /\ \A p \in Orders : paidTx[p] # t}
    ELSE {}

\* Mutant of LookToPay: the preflight does not ask for the status.
LookToPayAnything(a, o) ==
    /\ command[a] = Ready
    /\ command' = [command EXCEPT ![a] = [does |-> "payout", order |-> o, tx |-> NoTx]]
    /\ UNCHANGED <<vars, orderVars, triggered, batch, engine, sending, crediting>>

\* /payout: the preflight finds the order paid.
LookToPay(a, o) ==
    /\ command[a] = Ready
    /\ status[o] = "paid"
    /\ command' = [command EXCEPT ![a] = [does |-> "payout", order |-> o, tx |-> NoTx]]
    /\ UNCHANGED <<vars, orderVars, triggered, batch, engine, sending, crediting>>

\* /discover, its buttons and its task, and /payout_confirm: a transfer is found
\* for the order; an intent to confirm must be unsettled.
LookForEvidence(a, o) ==
    /\ command[a] = Ready
    /\ \E t \in Candidates(o), does \in {"close", "confirm"} :
        /\ does = "confirm" => state[o] \in {"processing", "review"}
        /\ command' = [command EXCEPT ![a] = [does |-> does, order |-> o, tx |-> t]]
    /\ UNCHANGED <<vars, orderVars, triggered, batch, engine, sending, crediting>>

Done(a) == command' = [command EXCEPT ![a] = Ready]

\* Mutant of ActPayout: the volume is booked also when mark_sent refused.
ActPayoutBookingAnyway(a) ==
    LET o == command[a].order IN
    /\ command[a].does = "payout"
    /\ ProcessPayout(o)
    /\ \/ UNCHANGED <<orderVars, crediting>>
       \/ /\ state[o] = "succeeded"
          /\ IF CanMarkSent(o) THEN MarkSent(o, txid[o]) ELSE UNCHANGED orderVars
          /\ crediting' = crediting \cup {o}
    /\ Done(a)
    /\ UNCHANGED <<triggered, batch, engine, sending>>

\* cb_payout_go: a txid closes the order if it is still paid; without one the
\* administrator reads that the crypto did not leave.
ActPayout(a) ==
    LET o == command[a].order IN
    /\ command[a].does = "payout"
    /\ ProcessPayout(o)
    /\ \/ UNCHANGED <<orderVars, crediting>>
       \/ /\ state[o] = "succeeded"
          /\ MarkSent(o, txid[o])
          /\ crediting' = crediting \cup {o}
    /\ Done(a)
    /\ UNCHANGED <<triggered, batch, engine, sending>>

\* _close_order_by_evidence.
ActClose(a) ==
    LET o == command[a].order IN
    /\ command[a].does = "close"
    /\ IF CanMarkSent(o)
       THEN MarkSent(o, command[a].tx) /\ crediting' = crediting \cup {o}
       ELSE UNCHANGED <<orderVars, crediting>>
    /\ Done(a)
    /\ UNCHANGED <<vars, triggered, batch, engine, sending>>

\* confirm_order_txid.
ActConfirm(a) ==
    LET o == command[a].order IN
    /\ command[a].does = "confirm"
    /\ IF state[o] \in {"processing", "review"} THEN ConfirmIntent(o, command[a].tx)
                                                ELSE UNCHANGED storeVars
    /\ Done(a)
    /\ UNCHANGED <<walletVars, workerVars, requeue, orderVars, triggered, batch, engine,
                   sending, crediting>>

\* The bot restarts: everything it had in hand is gone, the tables are not.
BotRestart ==
    /\ engine' = [e \in Engines |-> Idle]
    /\ batch' = [e \in Engines |-> {}]
    /\ command' = [a \in Admins |-> Ready]
    /\ requeue' = [a \in Admins |-> NoOrder]
    /\ crediting' = {}
    /\ UNCHANGED <<storeVars, walletVars, workerVars, orderVars, triggered, sending>>

-----------------------------------------------------------------------------

PipelineStep ==
    /\ \/ \E w \in Workers : WorkerStep(w) \/ Crash(w)
       \/ \E a \in Admins : (\E o \in Orders : InspectAttempt(a, o)) \/ RequeueAbsent(a)
    /\ UNCHANGED <<orderVars, botVars>>

EngineStep(e) ==
    \/ EngineScan(e) \/ (\E o \in Orders : EngineDecide(e, o))
    \/ EngineQueue(e) \/ EngineFails(e)

HumanStep(h) == \E o \in Orders : ManualStart(h, o) \/ ManualPay(h, o) \/ ManualClose(h, o)

CommandStep(a) ==
    \/ \E o \in Orders : LookToPay(a, o) \/ LookForEvidence(a, o)
    \/ ActPayout(a) \/ ActClose(a) \/ ActConfirm(a)

SettlementNext ==
    \/ PipelineStep
    \/ \E o \in Orders : MarkPaid(o) \/ Credit(o) \/ Reconcile(o)
    \/ \E e \in Engines : EngineStep(e)
    \/ \E h \in Humans : HumanStep(h)
    \/ \E a \in Admins : CommandStep(a)
    \/ BotRestart

SettlementSpec == SettlementInit /\ [][SettlementNext]_settlementVars

\* payout_reconciliation_task looks at every settled, paid order every other
\* second and nothing it waits for can hold it back.
FairSettlement == SettlementSpec /\ \A o \in Orders : WF_settlementVars(Reconcile(o))


-----------------------------------------------------------------------------
(* Properties. *)

\* The volume of an order is credited at most once and only once it is sent,
\* whichever of the engine, a worker, an administrator and the reconciliation
\* closed it; a credit still to be booked is the only one there will be.
BooksBalance ==
    \A o \in Orders :
        /\ credits[o] + (IF o \in crediting THEN 1 ELSE 0) <= 1
        /\ credits[o] > 0 \/ o \in crediting => status[o] = "sent"

\* A reconciled order is closed and credited by its own settled intent, also
\* when a person was closing it by hand at the same time.
ReconciledFaithfully ==
    \A o \in reconciled :
        /\ state[o] = "succeeded" /\ status[o] = "sent"
        /\ paidTx[o] = txid[o] /\ credits[o] = 1

\* The txid an order is closed with is that of a transfer to its address with
\* the amount it was promised, whoever found or made the transfer.
EvidencePays ==
    \A o \in Orders : status[o] = "sent" => paidTx[o] # NoTx /\ Owes(paidTx[o], o)

\* The house owes, signs and sends nothing before the customer's payment was
\* confirmed: the engine and the commands act on status paid only, however long
\* ago they read it, and the worker on an intent only.  A person may be early,
\* since worker_send_start lets a pending order through; even so the order is not
\* closed, nor its volume booked.
NothingBeforePayment ==
    \A o \in Orders : status[o] = "pending" =>
        /\ state[o] = "none" /\ ledger[o] = Absent /\ SignerTx(o) = {}
        /\ paidTx[o] = NoTx /\ credits[o] = 0

\* Two engines are never deciding the same order: the marker is claimed once,
\* however stale the candidates either of them still holds.
OneDecision ==
    \A d, e \in Engines :
        d # e /\ engine[d].order # NoOrder => engine[d].order # engine[e].order

\* A sent order stays sent under its txid.
SentIsFinal ==
    [][\A o \in Orders : status[o] = "sent" =>
        status'[o] = "sent" /\ paidTx'[o] = paidTx[o]]_settlementVars

\* The payout pipeline in this setting is the one of PayoutWorker: nothing the
\* engine, the people and the administrators do reaches the table, the sends
\* file or the chain in any other way.
KeepsPipeline == Spec

\* An intent that succeeded has its order closed, by the reconciliation if by
\* nobody else.
SettledIsClosed ==
    \A o \in Orders : state[o] = "succeeded" ~> status[o] = "sent"

\* A paid order leaves the house once (main_bot.py:9332, payout_queue.py:13),
\* not counting what a person sent before it was paid:
\* violated when the queue answers None for an intent it has just accepted and
\* the engine reads an empty hot wallet, or when a marker claimed late sends a
\* closed order around again.
PaidOnce ==
    \A o \in Orders : Cardinality({t \in chain \ older[o] : t.order = o}) <= 1

-----------------------------------------------------------------------------
(* The inductive invariant behind them. *)

\* A debt is the quote of its order.
QuotedDebt == \A o \in Orders : amount[o] \in {NoAmount, Quote[o]}

\* What an engine or an administrator has in hand is an order, and the transfer
\* an administrator acts on was made and pays it.
HandsAreFull ==
    /\ \A e \in Engines : engine[e].step = "queue" => engine[e].order \in Orders
    /\ \A a \in Admins :
        /\ command[a].does # "nothing" => command[a].order \in Orders
        /\ command[a].does \in {"close", "confirm"} =>
             command[a].tx \in chain /\ Owes(command[a].tx, command[a].order)

\* The house did nothing for the order: no intent, no row or copy of one in the
\* sends file, no transfer of the signer.
Untouched(o) ==
    /\ state[o] = "none" /\ ledger[o] = Absent
    /\ SignerTx(o) = {}
    /\ \A w \in Workers : snap[w][o] = Absent

\* An order that is not paid is untouched and carries no txid, and neither an
\* engine nor an administrator has it in hand.
PaidFirst ==
    \A o \in Orders : status[o] = "pending" =>
        /\ Untouched(o) /\ paidTx[o] = NoTx
        /\ \A e \in Engines : o \notin batch[e] /\ engine[e].order # o
        /\ \A a \in Admins : command[a].order # o

\* Whoever decides about an order has claimed its marker, and did so alone.
DecidedOnce ==
    /\ OneDecision
    /\ \A e \in Engines : engine[e].order # NoOrder => engine[e].order \in triggered

SettlementInv ==
    /\ DebtInv
    /\ SettlementTypeOK
    /\ QuotedDebt
    /\ HandsAreFull
    /\ BooksBalance
    /\ EvidencePays
    /\ ReconciledFaithfully
    /\ PaidFirst
    /\ DecidedOnce

=============================================================================
