------------------------ MODULE OrderSettlement_proofs -------------------------
(***************************************************************************)
(* The payout pipeline keeps its guarantees among everybody who works on   *)
(* orders: OrderSettlement implements PayoutWorker, so what is proved      *)
(* there holds here; and the books of an order balance.                    *)
(***************************************************************************)
EXTENDS OrderSettlement, PayoutWorker_proofs

USE SettlementAssumption

\* At the start nobody owes, holds or has booked anything.
LEMMA SettlementInvInit == SettlementInit => SettlementInv
<1> SUFFICES ASSUME SettlementInit PROVE SettlementInv
  OBVIOUS
<1>1. DebtInv
  BY DebtInit DEF SettlementInit
<1>2. SettlementTypeOK /\ HandsAreFull
  BY DEF SettlementInit, SettlementTypeOK, HandsAreFull, Idle, Ready
<1>3. QuotedDebt /\ BooksBalance /\ EvidencePays /\ ReconciledFaithfully
  BY DEF SettlementInit, Init, StoreInit, QuotedDebt, BooksBalance, EvidencePays,
     ReconciledFaithfully
<1>4. PaidFirst /\ DecidedOnce
  BY WorkerAssumption
  DEF SettlementInit, Init, StoreInit, WalletInit, EmptyLedger, PaidFirst, Untouched,
     SignerTx, DecidedOnce, OneDecision, Idle, Ready
<1> QED  BY <1>1, <1>2, <1>3, <1>4 DEF SettlementInv

\* The call that queues an order, by an engine or an administrator, either
\* writes nothing or records the debt.
LEMMA QueueingIsCreating ==
    ASSUME NEW o \in Orders, ProcessPayout(o)
    PROVE  [Next]_vars
<1>1. CASE UNCHANGED storeVars
  BY <1>1 DEF ProcessPayout, vars
<1>2. CASE CreateIntent(o, Quote[o])
  <2>1. CreateOrder(o, Quote[o]) /\ Quote[o] \in Amounts
    BY <1>2 DEF ProcessPayout, CreateOrder
  <2> QED  BY <2>1 DEF Next
<1> QED  BY <1>1, <1>2 DEF ProcessPayout

\* Every step of the settlement is a step of the pipeline or none of its business.
LEMMA SettlementSimulates ==
    ASSUME SettlementInv, [SettlementNext]_settlementVars
    PROVE  [Next]_vars
<1>h. HandsAreFull /\ QuotedDebt /\ DebtRecorded
  BY DEF SettlementInv, DebtInv, ClaimInv
<1>1. CASE PipelineStep
  BY <1>1 DEF PipelineStep, Next
<1>2. ASSUME NEW o \in Orders, MarkPaid(o) \/ Credit(o) \/ Reconcile(o)
      PROVE  UNCHANGED vars
  BY <1>2 DEF MarkPaid, Credit, Reconcile
<1>3. ASSUME NEW e \in Engines, EngineStep(e)
      PROVE  [Next]_vars
  <2>1. CASE EngineQueue(e)
    BY <2>1, <1>h, QueueingIsCreating DEF EngineQueue, HandsAreFull
  <2>2. CASE ~EngineQueue(e)
    BY <2>2, <1>3 DEF EngineStep, EngineScan, EngineDecide, EngineFails
  <2> QED  BY <2>1, <2>2
<1>4. ASSUME NEW h \in Humans, NEW o \in Orders,
             ManualStart(h, o) \/ ManualPay(h, o) \/ ManualClose(h, o)
      PROVE  [Next]_vars
  <2>1. CASE ManualPay(h, o)
    <3>1. PayByHand(h, o, Quote[o]) /\ Quote[o] \in Amounts
      BY <2>1 DEF ManualPay
    <3> QED  BY <3>1 DEF Next
  <2>2. CASE ManualStart(h, o) \/ ManualClose(h, o)
    BY <2>2 DEF ManualStart, ManualClose
  <2> QED  BY <1>4, <2>1, <2>2
<1>5. ASSUME NEW a \in Admins, CommandStep(a)
      PROVE  [Next]_vars
  <2>1. CASE \E o \in Orders : LookToPay(a, o) \/ LookForEvidence(a, o)
    BY <2>1 DEF LookToPay, LookForEvidence
  <2>2. CASE ActPayout(a)
    BY <2>2, <1>h, QueueingIsCreating DEF ActPayout, HandsAreFull
  <2>3. CASE ActClose(a)
    BY <2>3 DEF ActClose
  <2>4. CASE ActConfirm(a)
    <3> DEFINE o == command[a].order
               t == command[a].tx
    <3>1. o \in Orders /\ t \in chain /\ Owes(t, o)
      BY <2>4, <1>h DEF ActConfirm, HandsAreFull
    <3>2. CASE state[o] \in {"processing", "review"}
      <4>1. amount[o] = Quote[o]
        BY <3>1, <3>2, <1>h DEF QuotedDebt, DebtRecorded
      <4>2. Pays(t, o)
        BY <3>1, <4>1 DEF Pays, Owes
      <4>3. Confirm(o, t)
        BY <2>4, <3>1, <3>2, <4>2 DEF ActConfirm, Confirm
      <4> QED  BY <3>1, <4>3 DEF Next
    <3>3. CASE state[o] \notin {"processing", "review"}
      BY <2>4, <3>3 DEF ActConfirm, vars
    <3> QED  BY <3>2, <3>3
  <2> QED  BY <1>5, <2>1, <2>2, <2>3, <2>4 DEF CommandStep
<1>6. CASE BotRestart
  <2>1. CASE \E a \in Admins : requeue[a] # NoOrder
    BY <1>6, <2>1 DEF BotRestart, BotCrash, Next
  <2>2. CASE \A a \in Admins : requeue[a] = NoOrder
    <3>1. requeue' = requeue
      BY <1>6, <2>2 DEF BotRestart, SettlementInv, DebtInv, ClaimInv, TypeOK
    <3> QED  BY <1>6, <3>1 DEF BotRestart, vars
  <2> QED  BY <2>1, <2>2
<1>7. CASE UNCHANGED settlementVars
  BY <1>7 DEF settlementVars
<1> QED
  BY <1>1, <1>2, <1>3, <1>4, <1>5, <1>6, <1>7 DEF SettlementNext, HumanStep


\* No step of the pipeline takes a transfer off the chain.
LEMMA ChainGrows ==
    ASSUME [Next]_vars
    PROVE  chain \subseteq chain'
<1>1. ASSUME NEW w \in Workers, WorkerStep(w) \/ Crash(w)
      PROVE  chain \subseteq chain'
  BY <1>1 DEF WorkerStep, Claim, Refuse, CheckLedger, LoadToArm, Arm, SaveRow, Broadcast,
     Relay, LoadToRecord, Record, RecordFails, Succeed, SucceedFails, Review, ReviewFails,
     Crash, walletVars
<1>2. ASSUME NEW h \in Humans, NEW o \in Orders, NEW a \in Amounts, PayByHand(h, o, a)
      PROVE  chain \subseteq chain'
  BY <1>2 DEF PayByHand
<1> QED
  BY <1>1, <1>2 DEF Next, CreateOrder, Confirm, InspectAttempt, RequeueAbsent, BotCrash,
     vars, walletVars

\* A settled intent's transfer pays the quote of its order.
LEMMA SettledOwes ==
    ASSUME SettlementInv, NEW o \in Orders, state[o] = "succeeded"
    PROVE  txid[o] # NoTx /\ Owes(txid[o], o)
<1>1. amount[o] = Quote[o]
  BY DEF SettlementInv, DebtInv, ClaimInv, DebtRecorded, QuotedDebt
<1> QED  BY <1>1 DEF SettlementInv, DebtInv, SettledByItsDebt, Pays, Owes

\* What a step may do to the orders table and to the credits still to be booked.
LEMMA OrderMoves ==
    ASSUME SettlementInv, [SettlementNext]_settlementVars
    PROVE  \/ UNCHANGED orderVars /\ crediting' \in SUBSET crediting
           \/ \E o \in Orders : MarkPaid(o) \/ Credit(o) \/ Reconcile(o)
           \/ \E o \in Orders : \E t \in Tx :
                /\ MarkSent(o, t) /\ Owes(t, o)
                /\ crediting' \in {crediting, crediting \cup {o}}
<1>h. /\ HandsAreFull /\ chain \subseteq Tx
      /\ \A o \in Orders : txid[o] \in Tx \cup {NoTx}
  BY DEF SettlementInv, DebtInv, ClaimInv, TypeOK, StoreTypeOK, WalletTypeOK
<1>s. ASSUME NEW o \in Orders, state[o] = "succeeded"
      PROVE  txid[o] # NoTx /\ Owes(txid[o], o)
  BY <1>s, SettledOwes
<1>1. ASSUME PipelineStep \/ BotRestart \/ UNCHANGED settlementVars
      PROVE  UNCHANGED orderVars /\ crediting' \in SUBSET crediting
  BY <1>1 DEF PipelineStep, BotRestart, settlementVars, orderVars, botVars
<1>2. ASSUME NEW e \in Engines, EngineStep(e)
      PROVE  UNCHANGED orderVars /\ crediting' \in SUBSET crediting
  BY <1>2 DEF EngineStep, EngineScan, EngineDecide, EngineQueue, EngineFails, orderVars
<1>3. ASSUME NEW h \in Humans, NEW o \in Orders,
             ManualStart(h, o) \/ ManualPay(h, o) \/ ManualClose(h, o)
      PROVE  \/ UNCHANGED orderVars /\ crediting' \in SUBSET crediting
             \/ \E t \in Tx :
                  /\ MarkSent(o, t) /\ Owes(t, o)
                  /\ crediting' \in {crediting, crediting \cup {o}}
  BY <1>3, <1>h DEF ManualStart, ManualPay, ManualClose, HandTx, HumanTx, Owes,
     orderVars, botVars
<1>4. ASSUME NEW a \in Admins, CommandStep(a)
      PROVE  \/ UNCHANGED orderVars /\ crediting' \in SUBSET crediting
             \/ \E o \in Orders : \E t \in Tx :
                  /\ MarkSent(o, t) /\ Owes(t, o)
                  /\ crediting' \in {crediting, crediting \cup {o}}
  <2>1. CASE \E o \in Orders : LookToPay(a, o) \/ LookForEvidence(a, o)
    BY <2>1 DEF LookToPay, LookForEvidence, orderVars
  <2>2. CASE ActPayout(a)
    <3> DEFINE o == command[a].order
    <3>1. o \in Orders
      BY <2>2, <1>h DEF ActPayout, HandsAreFull
    <3>2. CASE UNCHANGED <<orderVars, crediting>>
      BY <3>2 DEF orderVars
    <3>3. CASE state[o] = "succeeded" /\ MarkSent(o, txid[o])
                 /\ crediting' = crediting \cup {o}
      <4>1. txid[o] # NoTx /\ Owes(txid[o], o)
        BY <3>1, <3>3, <1>h, <1>s
      <4> QED  BY <3>1, <3>3, <4>1, <1>h
    <3> QED  BY <2>2, <3>2, <3>3 DEF ActPayout
  <2>3. CASE ActClose(a)
    <3>1. /\ command[a].order \in Orders /\ command[a].tx \in Tx
          /\ Owes(command[a].tx, command[a].order)
      BY <2>3, <1>h DEF ActClose, HandsAreFull
    <3> QED  BY <2>3, <3>1 DEF ActClose, orderVars
  <2>4. CASE ActConfirm(a)
    BY <2>4 DEF ActConfirm, orderVars
  <2> QED  BY <1>4, <2>1, <2>2, <2>3, <2>4 DEF CommandStep
<1> QED
  BY <1>1, <1>2, <1>3, <1>4 DEF SettlementNext, HumanStep


\* Nobody queues anything but the quote.
LEMMA QuotedDebtStep ==
    ASSUME SettlementInv, [SettlementNext]_settlementVars
    PROVE  QuotedDebt'
<1> SUFFICES ASSUME NEW o \in Orders PROVE amount'[o] \in {NoAmount, Quote[o]}
  BY DEF QuotedDebt
<1>h. HandsAreFull /\ QuotedDebt /\ ClaimInv /\ amount \in [Orders -> Amounts \cup {NoAmount}]
  BY DEF SettlementInv, DebtInv, ClaimInv, TypeOK, StoreTypeOK
<1>1. CASE amount' = amount
  BY <1>1, <1>h DEF QuotedDebt
<1>2. ASSUME NEW p \in Orders, CreateIntent(p, Quote[p])
      PROVE  amount'[o] \in {NoAmount, Quote[o]}
  BY <1>2, <1>h DEF CreateIntent, QuotedDebt
<1>3. \/ amount' = amount
      \/ \E p \in Orders : CreateIntent(p, Quote[p])
  <2>1. CASE PipelineStep
    BY <2>1 DEF PipelineStep, WorkerStep, Claim, ClaimIntent, Refuse, CheckLedger,
       LoadToArm, Arm, Broadcast, LoadToRecord, Record, RecordFails, Succeed,
       SucceedIntent, SucceedFails, Review, ReviewIntent, ReviewFails, Crash,
       InspectAttempt, RequeueAbsent, RequeueIntent, storeVars
  <2>2. ASSUME NEW e \in Engines, EngineStep(e)
        PROVE  amount' = amount \/ \E p \in Orders : CreateIntent(p, Quote[p])
    BY <2>2, <1>h DEF EngineStep, EngineScan, EngineDecide, EngineQueue, EngineFails,
       ProcessPayout, HandsAreFull, vars, storeVars
  <2>3. ASSUME NEW a \in Admins, CommandStep(a)
        PROVE  amount' = amount \/ \E p \in Orders : CreateIntent(p, Quote[p])
    BY <2>3, <1>h DEF CommandStep, LookToPay, LookForEvidence, ActPayout, ActClose,
       ActConfirm, ConfirmIntent, ProcessPayout, HandsAreFull, vars, storeVars
  <2>4. ASSUME \/ \E p \in Orders : MarkPaid(p) \/ Credit(p) \/ Reconcile(p)
               \/ \E h \in Humans : HumanStep(h)
               \/ BotRestart
               \/ UNCHANGED settlementVars
        PROVE  amount' = amount
    BY <2>4 DEF MarkPaid, Credit, Reconcile, HumanStep, ManualStart, ManualPay,
       PayByHand, ManualClose, BotRestart, settlementVars, vars, storeVars
  <2> QED  BY <2>1, <2>2, <2>3, <2>4 DEF SettlementNext
<1> QED  BY <1>1, <1>2, <1>3

\* What an administrator has found stays found, and hands are filled with orders.
LEMMA HandsStep ==
    ASSUME SettlementInv, [SettlementNext]_settlementVars
    PROVE  /\ HandsAreFull'
           /\ batch' \in [Engines -> SUBSET Orders]
           /\ engine' \in [Engines -> [step : {"idle", "queue"}, order : Orders \cup {NoOrder}]]
           /\ command' \in [Admins -> [does : {"nothing", "payout", "close", "confirm"},
                                       order : Orders \cup {NoOrder}, tx : Tx \cup {NoTx}]]
           /\ triggered' \subseteq Orders /\ sending' \subseteq Humans \X Orders
<1>h. HandsAreFull /\ SettlementTypeOK /\ chain \subseteq Tx
  BY DEF SettlementInv, DebtInv, ClaimInv, TypeOK, WalletTypeOK
<1>c. chain \subseteq chain'
  BY SettlementSimulates, ChainGrows
<1> USE DEF SettlementTypeOK, Idle, Ready
<1>1. ASSUME UNCHANGED <<triggered, batch, engine, sending, command>>
      PROVE  /\ HandsAreFull' /\ batch' = batch /\ engine' = engine /\ command' = command
             /\ triggered' = triggered /\ sending' = sending
  BY <1>1, <1>h, <1>c DEF HandsAreFull, Owes
<1>2. ASSUME \/ PipelineStep
             \/ \E o \in Orders : MarkPaid(o) \/ Credit(o) \/ Reconcile(o)
             \/ \E h \in Humans, o \in Orders : ManualPay(h, o) \/ ManualClose(h, o)
             \/ UNCHANGED settlementVars
      PROVE  UNCHANGED <<triggered, batch, engine, sending, command>>
  BY <1>2 DEF PipelineStep, MarkPaid, Credit, Reconcile, ManualPay, ManualClose,
     settlementVars, botVars
<1>3. ASSUME NEW e \in Engines, EngineStep(e)
      PROVE  /\ UNCHANGED <<sending, command>>
             /\ triggered' \subseteq Orders /\ batch' \in [Engines -> SUBSET Orders]
             /\ engine' \in [Engines -> [step : {"idle", "queue"}, order : Orders \cup {NoOrder}]]
             /\ \A d \in Engines : engine'[d].step = "queue" => engine'[d].order \in Orders
  <2>1. CASE EngineScan(e)
    BY <2>1, <1>h DEF EngineScan, HandsAreFull
  <2>2. ASSUME NEW o \in Orders, EngineDecide(e, o)
        PROVE  /\ UNCHANGED <<sending, command>>
               /\ triggered' \subseteq Orders /\ batch' \in [Engines -> SUBSET Orders]
               /\ engine' \in [Engines -> [step : {"idle", "queue"}, order : Orders \cup {NoOrder}]]
               /\ \A d \in Engines : engine'[d].step = "queue" => engine'[d].order \in Orders
    <3>1. /\ UNCHANGED <<sending, command>>
          /\ triggered' \subseteq Orders /\ batch' \in [Engines -> SUBSET Orders]
      BY <2>2, <1>h DEF EngineDecide
    <3>2. engine' \in {engine, [engine EXCEPT ![e] = [step |-> "queue", order |-> o]]}
      BY <2>2 DEF EngineDecide
    <3>3. engine' \in [Engines -> [step : {"idle", "queue"}, order : Orders \cup {NoOrder}]]
      <4>1. CASE engine' = engine
        BY <4>1, <1>h
      <4>2. CASE engine' = [engine EXCEPT ![e] = [step |-> "queue", order |-> o]]
        BY <4>2, <1>h
      <4> QED  BY <3>2, <4>1, <4>2
    <3>4. ASSUME NEW d \in Engines, engine'[d].step = "queue"
          PROVE  engine'[d].order \in Orders
      BY <3>2, <3>4, <1>h DEF HandsAreFull
    <3> QED  BY <3>1, <3>3, <3>4
  <2>3. CASE EngineQueue(e)
    BY <2>3, <1>h DEF EngineQueue, HandsAreFull
  <2>4. CASE EngineFails(e)
    BY <2>4, <1>h DEF EngineFails, HandsAreFull
  <2> QED  BY <1>3, <2>1, <2>2, <2>3, <2>4 DEF EngineStep
<1>4. ASSUME NEW h \in Humans, NEW o \in Orders, ManualStart(h, o)
      PROVE  /\ UNCHANGED <<triggered, batch, engine, command>>
             /\ sending' \subseteq Humans \X Orders
  BY <1>4, <1>h DEF ManualStart
<1>5. ASSUME NEW a \in Admins, CommandStep(a)
      PROVE  /\ UNCHANGED <<triggered, batch, engine, sending>>
             /\ \/ command' = [command EXCEPT ![a] = Ready]
                \/ \E o \in Orders : command' =
                     [command EXCEPT ![a] = [does |-> "payout", order |-> o, tx |-> NoTx]]
                \/ \E o \in Orders, t \in chain, does \in {"close", "confirm"} :
                     /\ Owes(t, o)
                     /\ command' = [command EXCEPT ![a] = [does |-> does, order |-> o, tx |-> t]]
  BY <1>5 DEF CommandStep, LookToPay, LookForEvidence, Candidates, ActPayout, ActClose,
     ActConfirm, Done
<1>6. CASE BotRestart
  BY <1>6, <1>h DEF BotRestart, HandsAreFull, Owes
<1> DEFINE Commands == [does : {"nothing", "payout", "close", "confirm"},
                        order : Orders \cup {NoOrder}, tx : Tx \cup {NoTx}]
<1>7. ASSUME NEW a \in Admins, NEW c \in Commands, UNCHANGED engine,
             command' = [command EXCEPT ![a] = c],
             c.does # "nothing" => c.order \in Orders,
             c.does \in {"close", "confirm"} => c.tx \in chain /\ Owes(c.tx, c.order)
      PROVE  HandsAreFull' /\ command' \in [Admins -> Commands]
  <2>1. command' \in [Admins -> Commands]
    BY <1>7, <1>h
  <2>2. ASSUME NEW b \in Admins
        PROVE  /\ command'[b].does # "nothing" => command'[b].order \in Orders
               /\ command'[b].does \in {"close", "confirm"} =>
                    command'[b].tx \in chain' /\ Owes(command'[b].tx, command'[b].order)
    <3>1. CASE b = a
      BY <3>1, <1>7, <1>h, <1>c
    <3>2. CASE b # a
      BY <3>2, <1>7, <1>h, <1>c DEF HandsAreFull
    <3> QED  BY <3>1, <3>2
  <2> QED  BY <1>7, <1>h, <2>1, <2>2 DEF HandsAreFull, Owes
<1>8. ASSUME NEW a \in Admins, CommandStep(a)
      PROVE  HandsAreFull' /\ command' \in [Admins -> Commands]
  <2>1. CASE command' = [command EXCEPT ![a] = Ready]
    BY <2>1, <1>5, <1>7, <1>8
  <2>2. ASSUME NEW o \in Orders,
               command' = [command EXCEPT ![a] = [does |-> "payout", order |-> o, tx |-> NoTx]]
        PROVE  HandsAreFull' /\ command' \in [Admins -> Commands]
    BY <2>2, <1>5, <1>7, <1>8
  <2>3. ASSUME NEW o \in Orders, NEW t \in chain, NEW does \in {"close", "confirm"}, Owes(t, o),
               command' = [command EXCEPT ![a] = [does |-> does, order |-> o, tx |-> t]]
        PROVE  HandsAreFull' /\ command' \in [Admins -> Commands]
    BY <2>3, <1>5, <1>7, <1>8, <1>h
  <2> QED  BY <1>5, <1>8, <2>1, <2>2, <2>3
<1> QED
  <2>1. CASE \E e \in Engines : EngineStep(e)
    BY <2>1, <1>3, <1>h, <1>c DEF HandsAreFull, Owes
  <2>2. CASE \E a \in Admins : CommandStep(a)
    BY <2>2, <1>5, <1>8, <1>h
  <2>3. CASE \E h \in Humans, o \in Orders : ManualStart(h, o)
    BY <2>3, <1>4, <1>h, <1>c DEF HandsAreFull, Owes
  <2> QED
    BY <2>1, <2>2, <2>3, <1>1, <1>2, <1>6, <1>h DEF SettlementNext, HumanStep

\* The books: what a step does to the orders table keeps the credits at one and
\* the txids true.
LEMMA BooksStep ==
    ASSUME SettlementInv, [SettlementNext]_settlementVars
    PROVE  /\ status' \in [Orders -> {"pending", "paid", "sent"}]
           /\ paidTx' \in [Orders -> Tx \cup {NoTx}]
           /\ credits' \in [Orders -> Nat] /\ older' \in [Orders -> SUBSET Tx]
           /\ reconciled' \subseteq Orders /\ crediting' \subseteq Orders
           /\ BooksBalance' /\ EvidencePays' /\ ReconciledFaithfully'
<1>h. /\ SettlementTypeOK /\ BooksBalance /\ EvidencePays /\ ReconciledFaithfully
      /\ \A o \in Orders : txid[o] \in Tx \cup {NoTx}
      /\ chain \subseteq Tx /\ [Next]_vars /\ ClaimInv
  BY SettlementSimulates
  DEF SettlementInv, DebtInv, ClaimInv, TypeOK, StoreTypeOK, WalletTypeOK
<1>s. \A o \in Orders : state[o] = "succeeded" =>
        state'[o] = "succeeded" /\ txid'[o] = txid[o] /\ txid[o] # NoTx /\ Owes(txid[o], o)
  BY <1>h, SettledStays, SettledOwes
<1> USE DEF SettlementTypeOK
<1>1. CASE UNCHANGED orderVars /\ crediting' \in SUBSET crediting
  <2>1. BooksBalance'
    BY <1>1, <1>h DEF orderVars, BooksBalance
  <2>2. EvidencePays'
    BY <1>1, <1>h DEF orderVars, EvidencePays, Owes
  <2>3. ReconciledFaithfully'
    BY <1>1, <1>h, <1>s DEF orderVars, ReconciledFaithfully
  <2> QED  BY <1>1, <1>h, <2>1, <2>2, <2>3 DEF orderVars
<1>2. ASSUME NEW o \in Orders, MarkPaid(o)
      PROVE  /\ status' \in [Orders -> {"pending", "paid", "sent"}]
             /\ older' \in [Orders -> SUBSET Tx]
             /\ UNCHANGED <<paidTx, credits, reconciled, crediting>>
             /\ BooksBalance' /\ EvidencePays' /\ ReconciledFaithfully'
  BY <1>2, <1>h, <1>s DEF MarkPaid, botVars, BooksBalance, EvidencePays,
     ReconciledFaithfully, Owes
<1>3. ASSUME NEW o \in Orders, Credit(o)
      PROVE  /\ credits' \in [Orders -> Nat] /\ crediting' \subseteq Orders
             /\ UNCHANGED <<paidTx, status, reconciled, older>>
             /\ BooksBalance' /\ EvidencePays' /\ ReconciledFaithfully'
  <2>1. /\ credits' \in [Orders -> Nat] /\ crediting' \subseteq Orders
        /\ UNCHANGED <<paidTx, status, reconciled, older>>
    BY <1>3, <1>h DEF Credit
  <2>2. BooksBalance'
    BY <1>3, <1>h DEF Credit, BooksBalance
  <2>3. EvidencePays'
    BY <2>1, <1>h DEF EvidencePays, Owes
  <2>4. o \notin reconciled
    BY <1>3, <1>h DEF Credit, BooksBalance, ReconciledFaithfully
  <2>5. ReconciledFaithfully'
    BY <1>3, <2>1, <2>4, <1>h, <1>s DEF Credit, ReconciledFaithfully
  <2> QED  BY <2>1, <2>2, <2>3, <2>5
<1>4. ASSUME NEW o \in Orders, Reconcile(o)
      PROVE  /\ status' \in [Orders -> {"pending", "paid", "sent"}]
             /\ paidTx' \in [Orders -> Tx \cup {NoTx}]
             /\ credits' \in [Orders -> Nat]
             /\ reconciled' \subseteq Orders /\ UNCHANGED <<crediting, older>>
             /\ BooksBalance' /\ EvidencePays' /\ ReconciledFaithfully'
  <2>1. /\ status' \in [Orders -> {"pending", "paid", "sent"}]
        /\ paidTx' \in [Orders -> Tx \cup {NoTx}]
        /\ credits' \in [Orders -> Nat]
        /\ reconciled' \subseteq Orders /\ UNCHANGED <<crediting, older>>
    BY <1>4, <1>h DEF Reconcile, botVars
  <2>2. credits[o] = 0 /\ o \notin crediting
    BY <1>4, <1>h DEF Reconcile, BooksBalance
  <2>3. BooksBalance'
    BY <1>4, <2>1, <2>2, <1>h DEF Reconcile, BooksBalance
  <2>4. EvidencePays'
    BY <1>4, <1>h, <1>s DEF Reconcile, EvidencePays, Owes
  <2>5. ReconciledFaithfully'
    BY <1>4, <2>2, <1>h, <1>s DEF Reconcile, ReconciledFaithfully
  <2> QED  BY <2>1, <2>3, <2>4, <2>5
<1>5. ASSUME NEW o \in Orders, NEW t \in Tx, MarkSent(o, t), Owes(t, o),
             crediting' \in {crediting, crediting \cup {o}}
      PROVE  /\ status' \in [Orders -> {"pending", "paid", "sent"}]
             /\ paidTx' \in [Orders -> Tx \cup {NoTx}]
             /\ crediting' \subseteq Orders /\ UNCHANGED <<credits, reconciled, older>>
             /\ BooksBalance' /\ EvidencePays' /\ ReconciledFaithfully'
  <2>1. /\ status' \in [Orders -> {"pending", "paid", "sent"}]
        /\ paidTx' \in [Orders -> Tx \cup {NoTx}]
        /\ crediting' \subseteq Orders /\ UNCHANGED <<credits, reconciled, older>>
    BY <1>5, <1>h DEF MarkSent
  <2>2. credits[o] = 0 /\ o \notin crediting /\ o \notin reconciled
    BY <1>5, <1>h DEF MarkSent, CanMarkSent, BooksBalance, ReconciledFaithfully
  <2>3. BooksBalance'
    BY <1>5, <2>1, <2>2, <1>h DEF MarkSent, BooksBalance
  <2>4. EvidencePays'
    BY <1>5, <1>h, StoreAssumption DEF MarkSent, EvidencePays, Owes
  <2>5. ReconciledFaithfully'
    BY <1>5, <2>2, <1>h, <1>s DEF MarkSent, ReconciledFaithfully
  <2> QED  BY <2>1, <2>3, <2>4, <2>5
<1> QED  BY OrderMoves, <1>1, <1>2, <1>3, <1>4, <1>5, <1>h

\* A paid order never returns to pending.
LEMMA PaidStays ==
    ASSUME SettlementInv, [SettlementNext]_settlementVars,
           NEW o \in Orders, status'[o] = "pending"
    PROVE  status[o] = "pending"
  BY OrderMoves DEF orderVars, MarkPaid, Credit, Reconcile, MarkSent, SettlementInv,
     SettlementTypeOK

\* The workers and the requeue command touch no order without an intent.
LEMMA PipelineLeavesAlone ==
    ASSUME ClaimInv, PipelineStep, NEW o \in Orders, Untouched(o)
    PROVE  Untouched(o)'
<1>t. TypeOK /\ StoreTypeOK /\ WalletTypeOK
  BY DEF ClaimInv, TypeOK
<1>1. ASSUME NEW w \in Workers, Claim(w)
      PROVE  Untouched(o)'
  BY <1>1, <1>t DEF Claim, ClaimIntent, StoreTypeOK, Untouched, SignerTx, walletVars
<1>2. ASSUME NEW w \in Workers, pc[w] # "idle"
      PROVE  job[w] \in Orders /\ job[w] # o /\ snap[w] \in Ledgers
  BY <1>2, HeldOrder DEF Untouched
<1>3. ASSUME NEW w \in Workers, WorkerStep(w) \/ Crash(w), ~Claim(w)
      PROVE  Untouched(o)'
  <2>1. /\ pc[w] # "idle"
        /\ \A v \in Workers : snap'[v] \in {snap[v], ledger, EmptyLedger}
    BY <1>3, <1>t DEF WorkerStep, Refuse, CheckLedger, LoadToArm, Arm, Broadcast,
       LoadToRecord, Record, RecordFails, Succeed, SucceedFails, Review, ReviewFails,
       Crash, Goto, Load, Rest, TypeOK
  <2>2. \A v \in Workers : snap'[v][o] = Absent
    BY <2>1 DEF Untouched, EmptyLedger
  <2>3. state'[o] = "none"
    BY <1>2, <1>3, <1>t, <2>1 DEF WorkerStep, Refuse, CheckLedger, LoadToArm, Arm,
       Broadcast, LoadToRecord, Record, RecordFails, Succeed, SucceedIntent,
       SucceedFails, Review, ReviewIntent, ReviewFails, Crash, StoreTypeOK, Untouched,
       storeVars
  <2>4. ledger'[o] = Absent
    BY <1>2, <1>3, <1>t, <2>1 DEF WorkerStep, Refuse, CheckLedger, LoadToArm, Arm,
       Broadcast, Relay, LoadToRecord, Record, SaveRow, RecordFails, Succeed,
       SucceedFails, Review, ReviewFails, Crash, Ledgers, Untouched, walletVars
  <2>5. \A t \in chain' \ chain : t.order # o
    BY <1>2, <1>3, <1>t, <2>1 DEF WorkerStep, Refuse, CheckLedger, LoadToArm, Arm,
       Broadcast, Relay, SignedTx, LoadToRecord, Record, SaveRow, RecordFails, Succeed,
       SucceedFails, Review, ReviewFails, Crash, walletVars
  <2>6. SignerTx(o)' = {}
    BY <2>5 DEF SignerTx, Untouched
  <2> QED  BY <2>2, <2>3, <2>4, <2>6 DEF Untouched
<1>4. ASSUME NEW a \in Admins, (\E p \in Orders : InspectAttempt(a, p)) \/ RequeueAbsent(a)
      PROVE  Untouched(o)'
  BY <1>4, <1>t DEF InspectAttempt, RequeueAbsent, RequeueIntent, Untouched, SignerTx,
     StoreTypeOK, TypeOK, walletVars, workerVars, storeVars
<1> QED  BY <1>1, <1>3, <1>4 DEF PipelineStep

\* Whoever touches an order for the house has it from somebody who saw it paid.
LEMMA PaidFirstStep ==
    ASSUME SettlementInv, [SettlementNext]_settlementVars
    PROVE  PaidFirst'
<1> SUFFICES ASSUME NEW o \in Orders, status'[o] = "pending"
             PROVE  /\ Untouched(o)' /\ paidTx'[o] = NoTx
                    /\ \A e \in Engines : o \notin batch'[e] /\ engine'[e].order # o
                    /\ \A a \in Admins : command'[a].order # o
  BY DEF PaidFirst, Untouched, SignerTx
<1>p. status[o] = "pending"
  BY PaidStays
<1>n. o # NoOrder
  BY WorkerAssumption
<1>h. /\ Untouched(o) /\ SettlementTypeOK /\ ClaimInv /\ StoreTypeOK /\ WalletTypeOK
      /\ \A e \in Engines : o \notin batch[e] /\ engine[e].order # o
      /\ \A a \in Admins : command[a].order # o
  BY <1>p DEF SettlementInv, PaidFirst, DebtInv, ClaimInv, TypeOK
<1>b. paidTx'[o] = NoTx
  <2>1. paidTx[o] = NoTx
    BY <1>p DEF SettlementInv, PaidFirst
  <2> QED  BY <2>1, <1>h, <1>p, OrderMoves DEF orderVars, MarkPaid, Credit, Reconcile, MarkSent,
             CanMarkSent, SettlementTypeOK
<1>q. ASSUME NEW p, p # o, ProcessPayout(p)
      PROVE  Untouched(o)'
  BY <1>q, <1>h DEF ProcessPayout, CreateIntent, Untouched, SignerTx, StoreTypeOK,
     walletVars, workerVars, storeVars
<1>u. ASSUME UNCHANGED vars PROVE Untouched(o)'
  BY <1>u, <1>h DEF Untouched, SignerTx, vars, walletVars, workerVars, storeVars
<1>1. ASSUME PipelineStep
      PROVE  Untouched(o)' /\ UNCHANGED <<batch, engine, command>>
  BY <1>1, <1>h, PipelineLeavesAlone DEF PipelineStep, botVars
<1>2. ASSUME NEW p \in Orders, MarkPaid(p) \/ Credit(p) \/ Reconcile(p)
      PROVE  Untouched(o)' /\ UNCHANGED <<batch, engine, command>>
  BY <1>2, <1>u DEF MarkPaid, Credit, Reconcile, botVars
<1>3. ASSUME NEW e \in Engines, EngineStep(e)
      PROVE  /\ Untouched(o)' /\ UNCHANGED command
             /\ \A d \in Engines : o \notin batch'[d] /\ engine'[d].order # o
  <2>1. CASE EngineScan(e)
    BY <2>1, <1>h, <1>p, <1>u DEF EngineScan, SettlementTypeOK
  <2>2. ASSUME NEW p \in Orders, EngineDecide(e, p)
        PROVE  /\ Untouched(o)' /\ UNCHANGED command
               /\ \A d \in Engines : o \notin batch'[d] /\ engine'[d].order # o
    BY <2>2, <1>h, <1>u DEF EngineDecide, SettlementTypeOK
  <2>3. CASE EngineQueue(e)
    BY <2>3, <1>h, <1>n, <1>q DEF EngineQueue, SettlementTypeOK, Idle
  <2>4. CASE EngineFails(e)
    BY <2>4, <1>h, <1>n, <1>u DEF EngineFails, SettlementTypeOK, Idle
  <2> QED  BY <1>3, <2>1, <2>2, <2>3, <2>4 DEF EngineStep
<1>4. ASSUME NEW h \in Humans, NEW p \in Orders,
             ManualStart(h, p) \/ ManualPay(h, p) \/ ManualClose(h, p)
      PROVE  Untouched(o)' /\ UNCHANGED <<batch, engine, command>>
  <2>1. CASE ManualStart(h, p)
    BY <2>1, <1>u DEF ManualStart
  <2>2. CASE ManualPay(h, p)
    BY <2>2, <1>h DEF ManualPay, PayByHand, HumanTx, Untouched, SignerTx, botVars,
       storeVars, workerVars
  <2>3. CASE ManualClose(h, p)
    BY <2>3, <1>u DEF ManualClose
  <2> QED  BY <1>4, <2>1, <2>2, <2>3
<1>5. ASSUME NEW a \in Admins, CommandStep(a)
      PROVE  /\ Untouched(o)' /\ UNCHANGED <<batch, engine>>
             /\ \A b \in Admins : command'[b].order # o
  <2>1. ASSUME NEW p \in Orders, LookToPay(a, p) \/ LookForEvidence(a, p)
        PROVE  /\ Untouched(o)' /\ UNCHANGED <<batch, engine>>
               /\ \A b \in Admins : command'[b].order # o
    <3>1. p # o
      BY <2>1, <1>p DEF LookToPay, LookForEvidence, Candidates, CanMarkSent
    <3>2. UNCHANGED <<vars, batch, engine>>
      BY <2>1 DEF LookToPay, LookForEvidence
    <3>3. \E does, tx :
             command' = [command EXCEPT ![a] = [does |-> does, order |-> p, tx |-> tx]]
      BY <2>1 DEF LookToPay, LookForEvidence
    <3> QED  BY <3>1, <3>2, <3>3, <1>h, <1>u DEF SettlementTypeOK
  <2>2. CASE ActPayout(a)
    BY <2>2, <1>h, <1>n, <1>q DEF ActPayout, Done, Ready, SettlementTypeOK
  <2>3. CASE ActClose(a)
    BY <2>3, <1>h, <1>n, <1>u DEF ActClose, Done, Ready, SettlementTypeOK
  <2>4. CASE ActConfirm(a)
    BY <2>4, <1>h, <1>n DEF ActConfirm, ConfirmIntent, Done, Ready, SettlementTypeOK,
       Untouched, SignerTx, StoreTypeOK, walletVars, workerVars, storeVars
  <2> QED  BY <1>5, <2>1, <2>2, <2>3, <2>4 DEF CommandStep
<1>6. ASSUME BotRestart
      PROVE  /\ Untouched(o)'
             /\ \A e \in Engines : o \notin batch'[e] /\ engine'[e].order # o
             /\ \A a \in Admins : command'[a].order # o
  BY <1>6, <1>h, <1>n DEF BotRestart, Idle, Ready, Untouched, SignerTx, walletVars,
     workerVars, storeVars
<1>7. ASSUME UNCHANGED settlementVars
      PROVE  Untouched(o)' /\ UNCHANGED <<batch, engine, command>>
  BY <1>7, <1>h, <1>u DEF settlementVars, botVars
<1> QED
  BY <1>1, <1>2, <1>3, <1>4, <1>5, <1>6, <1>7, <1>h, <1>b DEF SettlementNext, HumanStep

\* The marker is claimed by one engine only, and nobody takes it back.
LEMMA DecidedOnceStep ==
    ASSUME SettlementInv, [SettlementNext]_settlementVars
    PROVE  DecidedOnce'
<1>h. SettlementTypeOK /\ DecidedOnce
  BY DEF SettlementInv
<1>1. ASSUME UNCHANGED engine, triggered' = triggered
      PROVE  DecidedOnce'
  BY <1>1, <1>h DEF DecidedOnce, OneDecision
<1>2. ASSUME NEW e \in Engines, NEW o \in Orders, EngineDecide(e, o)
      PROVE  DecidedOnce'
  BY <1>2, <1>h DEF EngineDecide, DecidedOnce, OneDecision, SettlementTypeOK
<1>3. ASSUME NEW e \in Engines, EngineScan(e) \/ EngineQueue(e) \/ EngineFails(e)
      PROVE  DecidedOnce'
  <2>1. triggered' = triggered /\ engine' \in {engine, [engine EXCEPT ![e] = Idle]}
    BY <1>3 DEF EngineScan, EngineQueue, EngineFails
  <2>2. CASE engine' = [engine EXCEPT ![e] = Idle]
    BY <2>1, <2>2, <1>h DEF DecidedOnce, OneDecision, Idle, SettlementTypeOK
  <2> QED  BY <2>1, <2>2, <1>1
<1>4. CASE BotRestart
  BY <1>4, <1>h DEF BotRestart, DecidedOnce, OneDecision, Idle
<1>5. ASSUME \/ PipelineStep
             \/ \E o \in Orders : MarkPaid(o) \/ Credit(o) \/ Reconcile(o)
             \/ \E h \in Humans : HumanStep(h)
             \/ \E a \in Admins : CommandStep(a)
             \/ UNCHANGED settlementVars
      PROVE  UNCHANGED engine /\ triggered' = triggered
  BY <1>5 DEF PipelineStep, MarkPaid, Credit, Reconcile, HumanStep, ManualStart, ManualPay,
     ManualClose, CommandStep, LookToPay, LookForEvidence, ActPayout, ActClose, ActConfirm,
     settlementVars, botVars
<1> QED  BY <1>1, <1>2, <1>3, <1>4, <1>5 DEF SettlementNext, EngineStep

\* Every step keeps the invariant, in the pipeline and around it.
LEMMA SettlementInvStep ==
    SettlementInv /\ [SettlementNext]_settlementVars => SettlementInv'
<1> SUFFICES ASSUME SettlementInv, [SettlementNext]_settlementVars PROVE SettlementInv'
  OBVIOUS
<1>1. DebtInv'
  BY SettlementSimulates, DebtStep DEF SettlementInv
<1>2. SettlementTypeOK'
  BY BooksStep, HandsStep DEF SettlementTypeOK
<1> QED  BY <1>1, <1>2, BooksStep, HandsStep, QuotedDebtStep, PaidFirstStep, DecidedOnceStep
  DEF SettlementInv

\* The invariant of the whole settlement holds always.
THEOREM SettlementIsKept == SettlementSpec => []SettlementInv
  BY SettlementInvInit, SettlementInvStep, PTL DEF SettlementSpec

\* Whoever closes an order, its volume is credited at most once and not before
\* the order is sent (mark_sent and reconcile_order share the guard on status).
THEOREM BooksAlwaysBalance == SettlementSpec => []BooksBalance
<1>1. SettlementInv => BooksBalance
  BY DEF SettlementInv
<1> QED  BY <1>1, SettlementInvInit, SettlementInvStep, PTL DEF SettlementSpec

\* A sent order carries the txid of a transfer that pays it, also when a person
\* or an administrator brought it.
THEOREM EvidenceAlwaysPays == SettlementSpec => []EvidencePays
<1>1. SettlementInv => EvidencePays
  BY DEF SettlementInv
<1> QED  BY <1>1, SettlementInvInit, SettlementInvStep, PTL DEF SettlementSpec

\* A reconciled order is closed by its own intent and credited exactly once.
THEOREM ReconciliationIsFaithful == SettlementSpec => []ReconciledFaithfully
<1>1. SettlementInv => ReconciledFaithfully
  BY DEF SettlementInv
<1> QED  BY <1>1, SettlementInvInit, SettlementInvStep, PTL DEF SettlementSpec

\* Nothing is queued, signed, closed or credited for an order whose payment was
\* not confirmed, although a person may open and pay a pending one by hand: the
\* engine and the commands act on what they saw paid, however long ago, closing
\* requires it, and no order goes back to pending.
THEOREM PaymentComesFirst == SettlementSpec => []NothingBeforePayment
<1>1. SettlementInv => NothingBeforePayment
  BY StoreAssumption
  DEF SettlementInv, PaidFirst, Untouched, NothingBeforePayment, BooksBalance,
     SettlementTypeOK
<1> QED  BY <1>1, SettlementInvInit, SettlementInvStep, PTL DEF SettlementSpec

\* Any number of engines, with lists of candidates however old, decide about an
\* order one at a time: the one that wrote the marker.
THEOREM DecidedByOne == SettlementSpec => []OneDecision
<1>1. SettlementInv => OneDecision
  BY DEF SettlementInv, DecidedOnce
<1> QED  BY <1>1, SettlementInvInit, SettlementInvStep, PTL DEF SettlementSpec

\* With the bot's engine, its people and its administrators around it the
\* pipeline is still PayoutWorker's, so what is proved of that holds here.
THEOREM SettlementImplementsPipeline == SettlementSpec => KeepsPipeline
<1>1. SettlementInit => Init
  BY DEF SettlementInit
<1>2. SettlementInv /\ [SettlementNext]_settlementVars => [Next]_vars
  BY SettlementSimulates
<1> QED
  BY <1>1, <1>2, SettlementInvInit, SettlementInvStep, PTL
  DEF SettlementSpec, KeepsPipeline, Spec

\* In particular the signer pays an order at most once, whatever the bot does,
\* while the sends file has one writer at a time.
THEOREM SettlementPaysOnce ==
    ASSUME OneWriter
    PROVE  SettlementSpec => []SignerPaysOnce
<1>1. Spec => []SignerPaysOnce
  BY PaidAtMostOnce
<1> QED  BY <1>1, SettlementImplementsPipeline, PTL DEF KeepsPipeline

\* and the promise of PayOnce is kept for every order, through both refinements.
THEOREM SettlementKeepsPromise ==
    ASSUME OneWriter
    PROVE  SettlementSpec => KeepsPromise
<1>1. Spec => KeepsPromise
  BY PipelineKeepsPromise
<1> QED  BY <1>1, SettlementImplementsPipeline, PTL DEF KeepsPipeline

\* A sent order is never reopened and never gets another txid.
THEOREM SentStaysSent == SettlementSpec => SentIsFinal
<1>1. ASSUME SettlementInv, [SettlementNext]_settlementVars,
             NEW o \in Orders, status[o] = "sent"
      PROVE  status'[o] = "sent" /\ paidTx'[o] = paidTx[o]
  BY <1>1, OrderMoves DEF orderVars, MarkPaid, Credit, Reconcile, MarkSent, CanMarkSent,
     SettlementInv, SettlementTypeOK
<1>2. SettlementInv /\ [SettlementNext]_settlementVars =>
        [\A o \in Orders : status[o] = "sent" =>
            status'[o] = "sent" /\ paidTx'[o] = paidTx[o]]_settlementVars
  BY <1>1
<1> QED
  BY <1>2, SettlementInvInit, SettlementInvStep, PTL DEF SettlementSpec, SentIsFinal

=============================================================================
