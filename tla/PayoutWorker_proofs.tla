------------------------- MODULE PayoutWorker_proofs ---------------------------
(***************************************************************************)
(* What PayoutWorker guarantees for every set of orders, workers and       *)
(* administrators: its types and the exclusive claim, and, when the sends  *)
(* file has one writer at a time, the inductive invariant IInv and what    *)
(* follows from it.                                                        *)
(***************************************************************************)
EXTENDS PayoutWorker, FiniteSetTheorems, TLAPS

USE StoreAssumption, WalletAssumption, WorkerAssumption

\* A transfer the signer makes for a recorded debt is a well-formed transfer.
LEMMA SignedTxType ==
    ASSUME TypeOK, NEW o \in Orders, amount[o] # NoAmount
    PROVE  SignedTx(o) \in Tx
  BY DEF TypeOK, StoreTypeOK, SignedTx, Tx

-----------------------------------------------------------------------------
(* The claim. *)

\* At the start every worker is idle and no order has an intent.
LEMMA ClaimInit == Init => ClaimInv
  BY DEF Init, StoreInit, WalletInit, ClaimInv, TypeOK, StoreTypeOK,
         WalletTypeOK, States, Steps, Ledgers, EmptyLedger, Marks,
         DebtRecorded, HoldsClaim, OneSignerPerOrder

\* A step of a worker that keeps the order it has in hand, if it has one, and
\* writes nothing to the table.
LEMMA ClaimGoto ==
    ASSUME ClaimInv, NEW w \in Workers, NEW step \in Steps, step # "idle",
           NEW t \in Tx \cup {NoTx}, pc[w] # "idle", Goto(w, step, t),
           UNCHANGED <<storeVars, requeue>>, WalletTypeOK'
    PROVE  ClaimInv'
<1>1. TypeOK'
  BY DEF ClaimInv, TypeOK, StoreTypeOK, storeVars, Goto, Ledgers, EmptyLedger, Marks
<1>2. DebtRecorded' /\ HoldsClaim' /\ OneSignerPerOrder'
  BY DEF ClaimInv, TypeOK, DebtRecorded, HoldsClaim, OneSignerPerOrder,
         storeVars, Goto
<1> QED  BY <1>1, <1>2 DEF ClaimInv

\* A step of a worker that copies the sends file and writes nothing.
LEMMA ClaimLoad ==
    ASSUME ClaimInv, NEW w \in Workers, NEW step \in Steps, step # "idle",
           pc[w] # "idle", Load(w, step),
           UNCHANGED <<storeVars, walletVars, requeue>>
    PROVE  ClaimInv'
<1>1. TypeOK'
  BY DEF ClaimInv, TypeOK, StoreTypeOK, WalletTypeOK, storeVars, walletVars, Load
<1>2. DebtRecorded' /\ HoldsClaim' /\ OneSignerPerOrder'
  BY DEF ClaimInv, TypeOK, DebtRecorded, HoldsClaim, OneSignerPerOrder,
         storeVars, Load
<1> QED  BY <1>1, <1>2 DEF ClaimInv

\* A worker that comes to rest lets go of its order, whose row may move on from
\* "processing" at that moment.
LEMMA ClaimRest ==
    ASSUME ClaimInv, NEW w \in Workers, Rest(w), StoreTypeOK', DebtRecorded',
           \A o \in Orders : o # job[w] => state'[o] = state[o],
           UNCHANGED <<walletVars, requeue>>
    PROVE  ClaimInv'
<1>1. TypeOK'
  BY DEF ClaimInv, TypeOK, WalletTypeOK, walletVars, Rest, Ledgers, EmptyLedger,
         Marks, Steps
<1>2. HoldsClaim' /\ OneSignerPerOrder'
  BY DEF ClaimInv, TypeOK, HoldsClaim, OneSignerPerOrder, Rest, Steps
<1> QED  BY <1>1, <1>2 DEF ClaimInv

\* A transaction on the table by somebody else.
LEMMA ClaimStore ==
    ASSUME ClaimInv, StoreTypeOK', DebtRecorded',
           requeue' \in [Admins -> Orders \cup {NoOrder}],
           \A o \in Orders : state[o] \in {"processing", "succeeded"}
                => state'[o] \in {"processing", "succeeded"},
           UNCHANGED <<walletVars, workerVars>>
    PROVE  ClaimInv'
  BY DEF ClaimInv, TypeOK, WalletTypeOK, walletVars, workerVars, HoldsClaim,
         OneSignerPerOrder, Steps

\* What a busy worker has in hand.
LEMMA HeldOrder ==
    ASSUME ClaimInv, NEW w \in Workers, pc[w] # "idle"
    PROVE  /\ job[w] \in Orders
           /\ state[job[w]] \in {"processing", "succeeded"}
           /\ amount[job[w]] # NoAmount
           /\ result[w] \in Tx \cup {NoTx}
           /\ snap[w] \in Ledgers
           /\ ledger[job[w]] \in Marks \cup Tx
  BY DEF ClaimInv, HoldsClaim, DebtRecorded, TypeOK, WalletTypeOK, Ledgers

\* No step of the pipeline lets a second worker at a claimed row.
LEMMA ClaimStep == ClaimInv /\ [Next]_vars => ClaimInv'
<1> SUFFICES ASSUME ClaimInv, [Next]_vars PROVE ClaimInv'
  OBVIOUS
<1> USE DEF Steps
<1>t. TypeOK /\ StoreTypeOK /\ WalletTypeOK
  BY DEF ClaimInv, TypeOK
<1>h. ASSUME NEW w \in Workers, pc[w] # "idle"
      PROVE  /\ job[w] \in Orders
             /\ state[job[w]] \in {"processing", "succeeded"}
             /\ amount[job[w]] # NoAmount
             /\ result[w] \in Tx \cup {NoTx}
             /\ snap[w] \in Ledgers
             /\ ledger[job[w]] \in Marks \cup Tx
  BY <1>h, HeldOrder
<1>1. ASSUME NEW o \in Orders, NEW a \in Amounts, CreateOrder(o, a)
      PROVE  ClaimInv'
  <2>1. StoreTypeOK' /\ DebtRecorded'
    BY <1>1, <1>t DEF ClaimInv, DebtRecorded, CreateOrder, CreateIntent, StoreTypeOK, States
  <2> QED
    BY <2>1, <1>1, <1>t, ClaimStore DEF CreateOrder, CreateIntent, TypeOK, StoreTypeOK
<1>2. ASSUME NEW w \in Workers, Claim(w) PROVE ClaimInv'
  <2>1. PICK o \in Orders : ClaimIntent(o) /\ job' = [job EXCEPT ![w] = o]
    BY <1>2 DEF Claim
  <2>2. TypeOK'
    BY <1>2, <2>1, <1>t DEF Claim, ClaimIntent, TypeOK, StoreTypeOK, WalletTypeOK,
           walletVars, States
  <2>3. DebtRecorded'
    BY <2>1, <1>t DEF ClaimInv, DebtRecorded, ClaimIntent, StoreTypeOK
  <2>4. HoldsClaim' /\ OneSignerPerOrder'
    BY <1>2, <2>1, <1>t DEF ClaimInv, HoldsClaim, OneSignerPerOrder, Claim,
           ClaimIntent, TypeOK, StoreTypeOK
  <2> QED  BY <2>2, <2>3, <2>4 DEF ClaimInv
<1>3. ASSUME NEW w \in Workers, Refuse(w) PROVE ClaimInv'
  BY <1>3, <1>t, ClaimGoto DEF Refuse, walletVars, WalletTypeOK
<1>4. ASSUME NEW w \in Workers, CheckLedger(w) PROVE ClaimInv'
  <2>1. pc[w] # "idle" /\ ledger[job[w]] \in Marks \cup Tx /\ WalletTypeOK'
    BY <1>4, <1>h, <1>t DEF CheckLedger, walletVars, WalletTypeOK
  <2>2. CASE HasTx(ledger, job[w]) /\ Goto(w, "done", ledger[job[w]])
    BY <2>1, <2>2, <1>4, ClaimGoto DEF CheckLedger, HasTx
  <2>3. CASE Goto(w, "error", NoTx) \/ Goto(w, "checked", NoTx)
    BY <2>1, <2>3, <1>4, ClaimGoto DEF CheckLedger
  <2> QED  BY <1>4, <2>2, <2>3 DEF CheckLedger
<1>5. ASSUME NEW w \in Workers, LoadToArm(w) PROVE ClaimInv'
  <2>1. pc[w] # "idle" /\ ledger[job[w]] \in Marks \cup Tx /\ WalletTypeOK'
    BY <1>5, <1>h, <1>t DEF LoadToArm, walletVars, WalletTypeOK
  <2>2. CASE HasTx(ledger, job[w])
    BY <2>1, <2>2, <1>5, ClaimGoto DEF LoadToArm, HasTx
  <2>3. CASE ~HasTx(ledger, job[w])
    BY <2>1, <2>3, <1>5, ClaimLoad DEF LoadToArm
  <2> QED  BY <2>2, <2>3
<1>6. ASSUME NEW w \in Workers, Arm(w) PROVE ClaimInv'
  <2>1. pc[w] # "idle" /\ WalletTypeOK'
    BY <1>6, <1>h, <1>t DEF Arm, SaveRow, WalletTypeOK, Ledgers, Marks
  <2> QED  BY <2>1, <1>6, ClaimGoto DEF Arm
<1>7. ASSUME NEW w \in Workers, Broadcast(w) PROVE ClaimInv'
  <2>1. pc[w] # "idle" /\ SignedTx(job[w]) \in Tx
    BY <1>7, <1>h, <1>t, SignedTxType DEF Broadcast
  <2>2. WalletTypeOK'
    BY <2>1, <1>7, <1>t DEF Broadcast, Relay, WalletTypeOK
  <2>3. \E step \in {"recording", "error"}, t \in Tx \cup {NoTx} : Goto(w, step, t)
    BY <2>1, <1>7 DEF Broadcast
  <2> QED  BY <2>1, <2>2, <2>3, <1>7, ClaimGoto DEF Broadcast
<1>8. ASSUME NEW w \in Workers, LoadToRecord(w) PROVE ClaimInv'
  BY <1>8, ClaimLoad DEF LoadToRecord
<1>9. ASSUME NEW w \in Workers, Record(w) PROVE ClaimInv'
  <2>1. pc[w] # "idle" /\ result[w] \in Tx \cup {NoTx}
    BY <1>9, <1>h DEF Record
  <2>2. WalletTypeOK'
    BY <2>1, <1>9, <1>h, <1>t DEF Record, SaveRow, WalletTypeOK, Ledgers, Marks
  <2>3. \E step \in {"done", "error"} : Goto(w, step, result[w])
    BY <1>9 DEF Record
  <2> QED  BY <2>1, <2>2, <2>3, <1>9, ClaimGoto DEF Record
<1>10. ASSUME NEW w \in Workers, RecordFails(w) \/ SucceedFails(w) PROVE ClaimInv'
  BY <1>10, <1>t, ClaimGoto DEF RecordFails, SucceedFails, walletVars, WalletTypeOK
<1>11. ASSUME NEW w \in Workers, Succeed(w) PROVE ClaimInv'
  <2>1. StoreTypeOK' /\ DebtRecorded'
    BY <1>11, <1>h, <1>t DEF ClaimInv, DebtRecorded, Succeed, SucceedIntent,
           StoreTypeOK, States
  <2> QED
    BY <2>1, <1>11, <1>h, <1>t, ClaimRest DEF Succeed, SucceedIntent, StoreTypeOK
<1>12. ASSUME NEW w \in Workers, Review(w) PROVE ClaimInv'
  <2>1. StoreTypeOK' /\ DebtRecorded'
    BY <1>12, <1>h, <1>t DEF ClaimInv, DebtRecorded, Review, ReviewIntent,
           StoreTypeOK, States
  <2> QED
    BY <2>1, <1>12, <1>h, <1>t, ClaimRest DEF Review, ReviewIntent, StoreTypeOK
<1>13. ASSUME NEW w \in Workers, ReviewFails(w) \/ Crash(w) PROVE ClaimInv'
  <2>1. StoreTypeOK' /\ DebtRecorded'
    BY <1>13, <1>t DEF ClaimInv, DebtRecorded, ReviewFails, Crash, storeVars, StoreTypeOK
  <2> QED
    BY <2>1, <1>13, ClaimRest DEF ReviewFails, Crash, storeVars
<1>14. ASSUME NEW o \in Orders, NEW t \in chain, Confirm(o, t) PROVE ClaimInv'
  <2>1. StoreTypeOK' /\ DebtRecorded'
    BY <1>14, <1>t DEF ClaimInv, DebtRecorded, Confirm, ConfirmIntent, StoreTypeOK,
           States, WalletTypeOK
  <2> QED
    BY <2>1, <1>14, <1>t, ClaimStore DEF Confirm, ConfirmIntent, StoreTypeOK, TypeOK
<1>15. ASSUME NEW a \in Admins, NEW o \in Orders, InspectAttempt(a, o)
       PROVE  ClaimInv'
  <2>1. StoreTypeOK' /\ DebtRecorded'
    BY <1>15, <1>t DEF ClaimInv, DebtRecorded, InspectAttempt, storeVars, StoreTypeOK
  <2> QED
    BY <2>1, <1>15, <1>t, ClaimStore DEF InspectAttempt, storeVars, TypeOK
<1>16. ASSUME NEW a \in Admins, RequeueAbsent(a) PROVE ClaimInv'
  <2>1. requeue[a] \in Orders
    BY <1>16, <1>t DEF RequeueAbsent, TypeOK
  <2>2. StoreTypeOK' /\ DebtRecorded'
    BY <2>1, <1>16, <1>t DEF ClaimInv, DebtRecorded, RequeueAbsent, RequeueIntent,
           storeVars, StoreTypeOK, States
  <2> QED
    BY <2>1, <2>2, <1>16, <1>t, ClaimStore DEF RequeueAbsent, RequeueIntent,
           storeVars, StoreTypeOK, TypeOK
<1>17. CASE BotCrash
  <2>1. StoreTypeOK' /\ DebtRecorded'
    BY <1>17, <1>t DEF ClaimInv, DebtRecorded, BotCrash, storeVars, StoreTypeOK
  <2> QED
    BY <2>1, <1>17, <1>t, ClaimStore DEF BotCrash, storeVars, TypeOK
<1>18. ASSUME NEW h \in Humans, NEW o \in Orders, NEW a \in Amounts, PayByHand(h, o, a)
       PROVE  ClaimInv'
  <2>1. WalletTypeOK'
    BY <1>18, <1>t DEF PayByHand, HumanTx, WalletTypeOK, Tx
  <2> QED
    BY <2>1, <1>18, <1>t DEF PayByHand, ClaimInv, TypeOK, StoreTypeOK, DebtRecorded,
       HoldsClaim, OneSignerPerOrder, storeVars, workerVars
<1>19. CASE UNCHANGED vars
  BY <1>19 DEF ClaimInv, TypeOK, StoreTypeOK, WalletTypeOK, DebtRecorded, HoldsClaim,
         OneSignerPerOrder, vars, storeVars, walletVars, workerVars
<1> QED
  BY <1>1, <1>2, <1>3, <1>4, <1>5, <1>6, <1>7, <1>8, <1>9, <1>10, <1>11, <1>12,
     <1>13, <1>14, <1>15, <1>16, <1>17, <1>18, <1>19 DEF Next, WorkerStep

\* Every variable keeps its type, a busy worker holds a row it claimed, and no
\* two workers hold the same one, however the sends file is shared.
THEOREM ClaimIsExclusive == Spec => []ClaimInv
  BY ClaimInit, ClaimStep, PTL DEF Spec

-----------------------------------------------------------------------------
(* The debt. *)

\* At the start no txid is on file, in hand or recorded.
LEMMA DebtInit == Init => DebtInv
<1> SUFFICES ASSUME Init PROVE DebtInv
  OBVIOUS
<1>1. ClaimInv
  BY ClaimInit
<1>2. NamesItsDebt /\ SettledByItsDebt
  BY DEF Init, StoreInit, WalletInit, NamesItsDebt, SettledByItsDebt, HasTx,
         EmptyLedger, Marks
<1> QED  BY <1>1, <1>2 DEF DebtInv

\* Once an order has an intent, no step changes what it owes.
LEMMA DebtStays ==
    ASSUME ClaimInv, [Next]_vars, NEW o \in Orders, amount[o] # NoAmount
    PROVE  amount'[o] = amount[o]
<1>1. TypeOK /\ state[o] # "none"
  BY DEF ClaimInv, DebtRecorded
<1>2. ASSUME NEW p \in Orders, NEW a \in Amounts, CreateOrder(p, a)
      PROVE  amount'[o] = amount[o]
  BY <1>1, <1>2 DEF CreateOrder, CreateIntent, TypeOK, StoreTypeOK
<1>3. ASSUME NEW w \in Workers, WorkerStep(w) \/ Crash(w)
      PROVE  amount' = amount
  BY <1>3 DEF WorkerStep, Claim, ClaimIntent, Refuse, CheckLedger, LoadToArm, Arm,
         Broadcast, LoadToRecord, Record, RecordFails, Succeed, SucceedIntent,
         SucceedFails, Review, ReviewIntent, ReviewFails, Crash, storeVars
<1>4. ASSUME \/ \E p \in Orders : \E t \in chain : Confirm(p, t)
             \/ \E a \in Admins : (\E p \in Orders : InspectAttempt(a, p))
                                  \/ RequeueAbsent(a)
             \/ \E h \in Humans, p \in Orders, a \in Amounts : PayByHand(h, p, a)
             \/ BotCrash
             \/ UNCHANGED vars
      PROVE  amount' = amount
  BY <1>4 DEF Confirm, ConfirmIntent, InspectAttempt, RequeueAbsent, RequeueIntent,
         PayByHand, BotCrash, vars, storeVars
<1> QED  BY <1>2, <1>3, <1>4 DEF Next

\* The debt recorded first is the debt that is paid.
THEOREM DebtNeverChanges == Spec => DebtIsImmutable
<1>1. ClaimInv /\ [Next]_vars =>
        [\A o \in Orders : state[o] # "none" => amount'[o] = amount[o]]_vars
  BY DebtStays DEF ClaimInv, DebtRecorded
<1> QED  BY <1>1, ClaimIsExclusive, PTL DEF Spec, DebtIsImmutable

\* so a transfer that pays an order goes on paying it.
LEMMA PaysStays ==
    ASSUME ClaimInv, [Next]_vars, NEW o \in Orders, NEW t \in Tx, Pays(t, o)
    PROVE  Dest[t.order] = Dest[o] /\ t.amount = amount'[o]
<1>1. t.amount \in Amounts
  BY DEF Tx
<1> QED  BY <1>1, DebtStays DEF Pays

\* An intent is settled by the worker that holds it or by an administrator, and
\* by nobody twice.
LEMMA SettledMoves ==
    ASSUME ClaimInv, [Next]_vars, NEW o \in Orders, state'[o] = "succeeded"
    PROVE  \/ state[o] = "succeeded" /\ txid'[o] = txid[o]
           \/ \E w \in Workers : Succeed(w) /\ o = job[w]
           \/ \E t \in chain : Confirm(o, t)
<1>t. TypeOK /\ StoreTypeOK
  BY DEF ClaimInv, TypeOK
<1>1. ASSUME NEW p \in Orders, NEW a \in Amounts, CreateOrder(p, a)
      PROVE  state[o] = "succeeded" /\ txid' = txid
  BY <1>1, <1>t DEF CreateOrder, CreateIntent, StoreTypeOK
<1>2. ASSUME NEW w \in Workers, WorkerStep(w) \/ Crash(w)
      PROVE  \/ state[o] = "succeeded" /\ txid'[o] = txid[o]
             \/ Succeed(w) /\ o = job[w]
  BY <1>2, <1>t DEF WorkerStep, Claim, ClaimIntent, Refuse, CheckLedger, LoadToArm,
     Arm, Broadcast, LoadToRecord, Record, RecordFails, Succeed, SucceedIntent,
     SucceedFails, Review, ReviewIntent, ReviewFails, Crash, storeVars, StoreTypeOK
<1>3. ASSUME NEW p \in Orders, NEW t \in chain, Confirm(p, t)
      PROVE  \/ state[o] = "succeeded" /\ txid'[o] = txid[o]
             \/ p = o
  BY <1>3, <1>t DEF Confirm, ConfirmIntent, StoreTypeOK
<1>4. ASSUME \/ \E a \in Admins : (\E p \in Orders : InspectAttempt(a, p))
                                  \/ RequeueAbsent(a)
             \/ \E h \in Humans, p \in Orders, a \in Amounts : PayByHand(h, p, a)
             \/ BotCrash
             \/ UNCHANGED vars
      PROVE  state[o] = "succeeded" /\ txid'[o] = txid[o]
  BY <1>4, <1>t DEF InspectAttempt, RequeueAbsent, RequeueIntent, PayByHand, BotCrash,
     vars, storeVars, StoreTypeOK, TypeOK
<1> QED  BY <1>1, <1>2, <1>3, <1>4 DEF Next

\* A settled intent stays as it is.
LEMMA SettledStays ==
    ASSUME ClaimInv, [Next]_vars, NEW o \in Orders, state[o] = "succeeded"
    PROVE  state'[o] = "succeeded" /\ txid'[o] = txid[o] /\ attempts'[o] = attempts[o]
<1>t. TypeOK /\ StoreTypeOK
  BY DEF ClaimInv, TypeOK
<1>1. ASSUME NEW p \in Orders, NEW a \in Amounts, CreateOrder(p, a)
      PROVE  state'[o] = state[o] /\ UNCHANGED <<txid, attempts>>
  BY <1>1, <1>t DEF CreateOrder, CreateIntent, StoreTypeOK
<1>2. ASSUME NEW w \in Workers, WorkerStep(w) \/ Crash(w)
      PROVE  state'[o] = state[o] /\ txid'[o] = txid[o] /\ attempts'[o] = attempts[o]
  BY <1>2, <1>t DEF WorkerStep, Claim, ClaimIntent, Refuse, CheckLedger, LoadToArm,
     Arm, Broadcast, LoadToRecord, Record, RecordFails, Succeed, SucceedIntent,
     SucceedFails, Review, ReviewIntent, ReviewFails, Crash, storeVars, StoreTypeOK
<1>3. ASSUME NEW p \in Orders, NEW t \in chain, Confirm(p, t)
      PROVE  state'[o] = state[o] /\ txid'[o] = txid[o] /\ attempts' = attempts
  BY <1>3, <1>t DEF Confirm, ConfirmIntent, StoreTypeOK
<1>4. ASSUME \/ \E a \in Admins : (\E p \in Orders : InspectAttempt(a, p))
                                  \/ RequeueAbsent(a)
             \/ \E h \in Humans, p \in Orders, a \in Amounts : PayByHand(h, p, a)
             \/ BotCrash
             \/ UNCHANGED vars
      PROVE  state'[o] = state[o] /\ txid'[o] = txid[o] /\ attempts' = attempts
  BY <1>4, <1>t DEF InspectAttempt, RequeueAbsent, RequeueIntent, PayByHand, BotCrash,
     vars, storeVars, StoreTypeOK, TypeOK
<1> QED  BY <1>1, <1>2, <1>3, <1>4 DEF Next

\* Whatever txid a step puts on file, in hand or into the table pays its debt.
LEMMA DebtStep == DebtInv /\ [Next]_vars => DebtInv'
<1> SUFFICES ASSUME DebtInv, [Next]_vars PROVE NamesItsDebt' /\ SettledByItsDebt'
  BY ClaimStep DEF DebtInv
<1>t. ClaimInv /\ TypeOK /\ StoreTypeOK /\ WalletTypeOK /\ ClaimInv'
  BY ClaimStep DEF DebtInv, ClaimInv, TypeOK
<1>n. NamesItsDebt /\ SettledByItsDebt
  BY DEF DebtInv
<1> DEFINE PaysThen(t, o) == Dest[t.order] = Dest[o] /\ t.amount = amount'[o]
<1>p. ASSUME NEW o \in Orders, NEW t \in Tx, Pays(t, o) PROVE PaysThen(t, o)
  BY <1>p, <1>t, PaysStays
\* What was on file, in hand or copied still pays; a step adds at most the
\* following.
<1>1. ASSUME \A o \in Orders : HasTx(ledger', o) =>
                 \/ ledger'[o] = ledger[o]
                 \/ \E w \in Workers : \/ ledger'[o] = snap[w][o]
                                       \/ ledger'[o] = result[w] /\ o = job[w],
             \A w \in Workers : result'[w] # NoTx =>
                 /\ job'[w] = job[w] /\ job[w] # NoOrder
                 /\ \/ result'[w] = result[w]
                    \/ result'[w] = ledger[job[w]] /\ HasTx(ledger, job[w])
                    \/ Pays(result'[w], job[w]) /\ result'[w] \in Tx,
             \A w \in Workers : snap'[w] \in {snap[w], ledger, EmptyLedger}
      PROVE  NamesItsDebt'
  <2>1. ASSUME NEW o \in Orders, HasTx(ledger', o) PROVE PaysThen(ledger'[o], o)
    <3>1. ledger'[o] \in Tx
      BY <2>1 DEF HasTx
    <3>2. Pays(ledger'[o], o)
      BY <1>1, <2>1, <3>1, <1>n DEF NamesItsDebt, HasTx
    <3> QED  BY <3>1, <3>2, <1>p
  <2>2. ASSUME NEW w \in Workers, result'[w] # NoTx
        PROVE  job'[w] # NoOrder /\ PaysThen(result'[w], job'[w])
    <3>1. job'[w] = job[w] /\ job[w] # NoOrder /\ job[w] \in Orders
      BY <1>1, <2>2, <1>t DEF TypeOK
    <3>2. Pays(result'[w], job[w]) /\ result'[w] \in Tx
      BY <1>1, <2>2, <3>1, <1>n, <1>t DEF NamesItsDebt, HasTx, TypeOK
    <3> QED  BY <3>1, <3>2, <1>p
  <2>3. ASSUME NEW w \in Workers, NEW o \in Orders, HasTx(snap'[w], o)
        PROVE  PaysThen(snap'[w][o], o)
    <3>1. snap'[w][o] \in Tx /\ Pays(snap'[w][o], o)
      BY <1>1, <2>3, <1>n DEF NamesItsDebt, HasTx, EmptyLedger, Marks
    <3> QED  BY <3>1, <1>p
  <2> QED  BY <2>1, <2>2, <2>3 DEF NamesItsDebt, HasTx, Pays
<1> HIDE DEF PaysThen
<1>2. ASSUME NEW w \in Workers, WorkerStep(w) PROVE NamesItsDebt'
  <2>j. pc[w] # "idle" => /\ job[w] \in Orders
                         /\ amount[job[w]] # NoAmount
                         /\ ledger[job[w]] \in Marks \cup Tx
    BY <1>t, HeldOrder
  <2>1. CASE Claim(w)
    BY <2>1, <1>1, <1>n, <1>t DEF Claim, TypeOK, NamesItsDebt, ClaimInv, HoldsClaim,
       walletVars, HasTx
  <2>2. CASE Refuse(w) \/ RecordFails(w) \/ SucceedFails(w)
    BY <2>2, <1>1, <1>n, <1>t DEF Refuse, RecordFails, SucceedFails, TypeOK,
       NamesItsDebt, walletVars, Goto, HasTx
  <2>3. CASE CheckLedger(w)
    BY <2>3, <2>j, <1>1, <1>n, <1>t DEF CheckLedger, TypeOK, NamesItsDebt,
       walletVars, Goto, HasTx
  <2>4. CASE LoadToArm(w)
    BY <2>4, <2>j, <1>1, <1>n, <1>t DEF LoadToArm, TypeOK, NamesItsDebt,
       walletVars, Goto, Load, HasTx
  <2>5. CASE Arm(w)
    BY <2>5, <2>j, <1>1, <1>n, <1>t DEF Arm, SaveRow, TypeOK, NamesItsDebt,
       Goto, HasTx, Marks, Ledgers
  <2>6. CASE Broadcast(w)
    <3>1. SignedTx(job[w]) \in Tx /\ Pays(SignedTx(job[w]), job[w])
      BY <2>6, <2>j, <1>t, SignedTxType DEF Broadcast, SignedTx, Pays
    <3> HIDE DEF SignedTx
    <3> QED
      BY <3>1, <2>6, <2>j, <1>1, <1>n, <1>t DEF Broadcast, Relay, TypeOK,
         NamesItsDebt, Goto, HasTx
  <2>7. CASE LoadToRecord(w)
    BY <2>7, <2>j, <1>1, <1>n, <1>t DEF LoadToRecord, TypeOK, NamesItsDebt,
       walletVars, Load, HasTx
  <2>8. CASE Record(w)
    BY <2>8, <2>j, <1>1, <1>n, <1>t DEF Record, SaveRow, TypeOK, NamesItsDebt,
       Goto, HasTx, Marks, Ledgers
  <2>9. CASE Succeed(w) \/ Review(w) \/ ReviewFails(w)
    BY <2>9, <1>1, <1>n, <1>t DEF Succeed, Review, ReviewFails, TypeOK,
       NamesItsDebt, walletVars, Rest, HasTx
  <2> QED
    BY <1>2, <2>1, <2>2, <2>3, <2>4, <2>5, <2>6, <2>7, <2>8, <2>9 DEF WorkerStep
<1>3. ASSUME NEW w \in Workers, Crash(w) PROVE NamesItsDebt'
  BY <1>3, <1>1, <1>n, <1>t DEF Crash, TypeOK, NamesItsDebt, walletVars, Rest, HasTx
<1>4. ASSUME UNCHANGED <<ledger, workerVars>> PROVE NamesItsDebt'
  BY <1>4, <1>1, <1>n, <1>t DEF workerVars, NamesItsDebt, TypeOK
<1>5. NamesItsDebt'
  BY <1>2, <1>3, <1>4 DEF Next, CreateOrder, Confirm, InspectAttempt,
     RequeueAbsent, PayByHand, BotCrash, vars, walletVars
<1>6. ASSUME NEW o \in Orders, state'[o] = "succeeded"
      PROVE  txid'[o] # NoTx /\ PaysThen(txid'[o], o)
  <2>1. CASE state[o] = "succeeded" /\ txid'[o] = txid[o]
    <3>1. txid[o] \in Tx /\ Pays(txid[o], o)
      BY <2>1, <1>n, <1>t DEF SettledByItsDebt, StoreTypeOK
    <3> QED  BY <3>1, <2>1, <1>p
  <2>2. ASSUME NEW w \in Workers, Succeed(w), o = job[w]
        PROVE  txid'[o] # NoTx /\ PaysThen(txid'[o], o)
    <3>1. result[w] \in Tx /\ Pays(result[w], o) /\ txid'[o] = result[w]
      BY <2>2, <1>n, <1>t DEF Succeed, SucceedIntent, NamesItsDebt, TypeOK, StoreTypeOK
    <3> QED  BY <3>1, <1>p
  <2>3. ASSUME NEW t \in chain, Confirm(o, t)
        PROVE  txid'[o] # NoTx /\ PaysThen(txid'[o], o)
    <3>1. t \in Tx /\ Pays(t, o) /\ txid'[o] = t
      BY <2>3, <1>t DEF Confirm, ConfirmIntent, WalletTypeOK, StoreTypeOK
    <3> QED  BY <3>1, <1>p
  <2>4. \/ state[o] = "succeeded" /\ txid'[o] = txid[o]
        \/ \E w \in Workers : Succeed(w) /\ o = job[w]
        \/ \E t \in chain : Confirm(o, t)
    BY <1>6, <1>t, SettledMoves
  <2> QED  BY <2>1, <2>2, <2>3, <2>4
<1> QED  BY <1>5, <1>6 DEF SettledByItsDebt, Pays, PaysThen

\* The debts of the intents and the transfers that settle them fit the orders in
\* every state, however the sends file is shared.
THEOREM DebtsAreKept == Spec => []DebtInv
  BY DebtInit, DebtStep, PTL DEF Spec

\* Every settled intent names a transfer that pays it, however the file is shared.
THEOREM SettlementIsRight == Spec => []SettledByItsDebt
  BY DebtInit, DebtStep, PTL DEF Spec, DebtInv

\* A settled intent stays settled, under the same txid.
THEOREM SettlementIsFinal == Spec => SettledIsFinal
<1>1. ClaimInv /\ [Next]_vars =>
        [\A o \in Orders : state[o] = "succeeded" =>
            state'[o] = "succeeded" /\ txid'[o] = txid[o] /\ attempts'[o] = attempts[o]]_vars
  BY SettledStays
<1> QED  BY <1>1, ClaimIsExclusive, PTL DEF Spec, SettledIsFinal

-----------------------------------------------------------------------------
(* One payment. *)

\* At the start the sends file and the chain are empty.
LEMMA LedgerInit == Init => IInv
<1> SUFFICES ASSUME Init PROVE IInv
  OBVIOUS
<1>1. ClaimInv
  BY ClaimInit
<1>2. LedgerTracksSigner /\ SnapIsFresh /\ AbsentNeverSent /\ SignerPaysOnce
  BY DEF Init, StoreInit, WalletInit, LedgerTracksSigner, SnapIsFresh,
         AbsentNeverSent, SignerPaysOnce, SignerTx
<1> QED  BY <1>1, <1>2 DEF IInv

\* With one writer at a time the sends file stays ahead of the chain: a key is
\* marked before its transfer is made and unmarked never.
LEMMA LedgerStep ==
    ASSUME OneWriter, IInv, [Next]_vars
    PROVE  IInv'
<1>t. ClaimInv /\ TypeOK /\ WalletTypeOK /\ ClaimInv'
  BY ClaimStep DEF IInv, ClaimInv, TypeOK
<1>i. LedgerTracksSigner /\ SnapIsFresh /\ AbsentNeverSent /\ SignerPaysOnce
  BY DEF IInv
<1>o. ASSUME NEW v \in Workers, NEW w \in Workers, v # w, pc[v] # "idle"
      PROVE  job[v] # job[w]
  BY <1>o, <1>t DEF ClaimInv, OneSignerPerOrder, HoldsClaim
\* Steps that leave the file and the chain alone, and move one worker at most
\* to a step of which LedgerTracksSigner asks nothing.
<1>1. ASSUME UNCHANGED walletVars,
             \A v \in Workers :
                \/ pc'[v] = pc[v] /\ job'[v] = job[v] /\ snap'[v] = snap[v]
                   /\ result'[v] = result[v]
                \/ pc'[v] \in {"idle", "claimed", "done", "error"}
      PROVE  IInv'
  <2>1. LedgerTracksSigner'
    BY <1>1, <1>i DEF LedgerTracksSigner, SignerTx, walletVars
  <2>2. SnapIsFresh'
    BY <1>1, <1>i DEF SnapIsFresh, walletVars
  <2>3. AbsentNeverSent' /\ SignerPaysOnce'
    BY <1>1, <1>i DEF AbsentNeverSent, SignerPaysOnce, SignerTx, walletVars
  <2> QED  BY <2>1, <2>2, <2>3, <1>t DEF IInv
<1>2. ASSUME NEW w \in Workers,
             \/ Claim(w) \/ Refuse(w) \/ RecordFails(w) \/ Succeed(w)
             \/ SucceedFails(w) \/ Review(w) \/ ReviewFails(w) \/ Crash(w)
      PROVE  IInv'
  BY <1>2, <1>1, <1>t DEF Claim, Refuse, RecordFails, Succeed, SucceedFails, Review,
     ReviewFails, Crash, Goto, Rest, TypeOK
<1>3. ASSUME NEW w \in Workers, CheckLedger(w) PROVE IInv'
  <2>1. CASE Goto(w, "done", ledger[job[w]]) \/ Goto(w, "error", NoTx)
    BY <2>1, <1>3, <1>1, <1>t DEF CheckLedger, Goto, TypeOK
  <2>2. CASE ledger[job[w]] \in {Absent, Failed} /\ Goto(w, "checked", NoTx)
    <3>1. LedgerTracksSigner'
      BY <2>2, <1>3, <1>i, <1>t DEF CheckLedger, Goto, TypeOK, LedgerTracksSigner,
         SignerTx, walletVars
    <3>2. SnapIsFresh' /\ AbsentNeverSent' /\ SignerPaysOnce'
      BY <2>2, <1>3, <1>i, <1>t DEF CheckLedger, Goto, TypeOK, SnapIsFresh,
         AbsentNeverSent, SignerPaysOnce, SignerTx, walletVars
    <3> QED  BY <3>1, <3>2, <1>t DEF IInv
  <2> QED  BY <1>3, <2>1, <2>2 DEF CheckLedger
\* A load: nobody else is in a section, so the copy stays fresh until the save.
<1>4. ASSUME NEW w \in Workers, NEW step \in {"arming", "saving"}, Load(w, step),
             UNCHANGED walletVars,
             step = "arming" <=> pc[w] = "checked",
             step = "saving" <=> pc[w] = "recording"
      PROVE  IInv'
  <2>1. LedgerTracksSigner'
    BY <1>4, <1>i, <1>t DEF Load, TypeOK, LedgerTracksSigner, SignerTx, walletVars
  <2>2. SnapIsFresh'
    BY <1>4, <1>i, <1>t DEF Load, TypeOK, SnapIsFresh, walletVars
  <2>3. AbsentNeverSent' /\ SignerPaysOnce'
    BY <1>4, <1>i DEF AbsentNeverSent, SignerPaysOnce, SignerTx, walletVars
  <2> QED  BY <2>1, <2>2, <2>3, <1>t DEF IInv
<1>5. ASSUME NEW w \in Workers, LoadToArm(w) PROVE IInv'
  <2>1. CASE HasTx(ledger, job[w])
    BY <2>1, <1>5, <1>1, <1>t DEF LoadToArm, Goto, TypeOK
  <2>2. CASE ~HasTx(ledger, job[w])
    BY <2>2, <1>5, <1>4 DEF LoadToArm
  <2> QED  BY <2>1, <2>2
<1>6. ASSUME NEW w \in Workers, LoadToRecord(w) PROVE IInv'
  BY <1>6, <1>4 DEF LoadToRecord
\* A save: the copy is fresh, so only the worker's own row changes.
<1>7. ASSUME NEW w \in Workers, Arm(w) PROVE IInv'
  <2>1. /\ job[w] \in Orders /\ pc[w] # "idle"
        /\ ledger' = [ledger EXCEPT ![job[w]] = Broadcasting]
        /\ SignerTx(job[w]) = {}
    BY <1>7, <1>i, <1>t, HeldOrder DEF Arm, SaveRow, SnapIsFresh, LedgerTracksSigner,
       AbsentNeverSent
  <2>2. LedgerTracksSigner'
    BY <2>1, <1>7, <1>i, <1>o, <1>t DEF Arm, SaveRow, Goto, TypeOK, WalletTypeOK,
       Ledgers, LedgerTracksSigner, SignerTx
  <2>3. SnapIsFresh'
    BY <2>1, <1>7, <1>i, <1>t DEF Arm, Goto, TypeOK, SnapIsFresh
  <2>4. AbsentNeverSent' /\ SignerPaysOnce'
    BY <2>1, <1>7, <1>i, <1>t DEF Arm, SaveRow, WalletTypeOK, Ledgers,
       AbsentNeverSent, SignerPaysOnce, SignerTx
  <2> QED  BY <2>2, <2>3, <2>4, <1>t DEF IInv
<1>8. ASSUME NEW w \in Workers, Record(w) PROVE IInv'
  <2>1. /\ job[w] \in Orders /\ pc[w] # "idle"
        /\ ledger' = [ledger EXCEPT ![job[w]] =
                        IF result[w] # NoTx THEN result[w] ELSE Failed]
        /\ result[w] \in Tx \cup {NoTx}
        /\ result[w] = NoTx => SignerTx(job[w]) = {}
    BY <1>8, <1>i, <1>t, HeldOrder DEF Record, SaveRow, SnapIsFresh, LedgerTracksSigner
  <2>2. LedgerTracksSigner'
    BY <2>1, <1>8, <1>i, <1>o, <1>t DEF Record, SaveRow, Goto, TypeOK, WalletTypeOK,
       Ledgers, LedgerTracksSigner, SignerTx
  <2>3. SnapIsFresh'
    BY <2>1, <1>8, <1>i, <1>t DEF Record, Goto, TypeOK, SnapIsFresh
  <2>4. AbsentNeverSent' /\ SignerPaysOnce'
    BY <2>1, <1>8, <1>i, <1>t DEF Record, SaveRow, WalletTypeOK, Ledgers, Marks,
       AbsentNeverSent, SignerPaysOnce, SignerTx
  <2> QED  BY <2>2, <2>3, <2>4, <1>t DEF IInv
\* The broadcast: the key is marked and nothing was sent for it before.
<1>9. ASSUME NEW w \in Workers, Broadcast(w) PROVE IInv'
  <2> DEFINE t == SignedTx(job[w])
  <2>1. /\ job[w] \in Orders /\ pc[w] = "armed"
        /\ ledger[job[w]] = Broadcasting /\ SignerTx(job[w]) = {}
        /\ t \in Tx /\ t.order = job[w] /\ t.from = "signer"
    BY <1>9, <1>i, <1>t, HeldOrder, SignedTxType DEF Broadcast, LedgerTracksSigner,
       SignedTx
  <2> HIDE DEF t
  <2>2. PICK delivered \in BOOLEAN :
          /\ Relay(t, delivered)
          /\ \/ Goto(w, "recording", t)
             \/ ~delivered /\ Goto(w, "recording", NoTx)
             \/ Goto(w, "error", NoTx)
    BY <1>9 DEF Broadcast, t
  <2>3. LedgerTracksSigner'
    BY <2>1, <2>2, <1>i, <1>o, <1>t DEF Relay, Goto, TypeOK, LedgerTracksSigner, SignerTx
  <2>4. SnapIsFresh'
    BY <2>1, <2>2, <1>i, <1>t DEF Relay, Goto, TypeOK, SnapIsFresh
  <2>5. AbsentNeverSent' /\ SignerPaysOnce'
    BY <2>1, <2>2, <1>i, <1>t DEF Relay, AbsentNeverSent, SignerPaysOnce, SignerTx
  <2> QED  BY <2>3, <2>4, <2>5, <1>t DEF IInv
<1>10. ASSUME UNCHANGED <<walletVars, workerVars>> PROVE IInv'
  BY <1>10, <1>1 DEF workerVars
\* A person's transfer is none of the signer's.
<1>11. ASSUME NEW h \in Humans, NEW o \in Orders, NEW a \in Amounts, PayByHand(h, o, a)
       PROVE  IInv'
  <2>1. UNCHANGED <<ledger, workerVars>> /\ \A p \in Orders : SignerTx(p)' = SignerTx(p)
    BY <1>11 DEF PayByHand, HumanTx, SignerTx
  <2>2. LedgerTracksSigner' /\ SnapIsFresh' /\ AbsentNeverSent'
    <3>1. \A w \in Workers : pc[w] # "idle" => job[w] \in Orders
      BY <1>t, HeldOrder
    <3> QED
      BY <2>1, <3>1, <1>i DEF LedgerTracksSigner, SnapIsFresh, AbsentNeverSent, workerVars
  <2>3. SignerPaysOnce'
    BY <1>11, <1>i DEF PayByHand, HumanTx, SignerPaysOnce
  <2> QED  BY <2>2, <2>3, <1>t DEF IInv
<1> QED
  BY <1>2, <1>3, <1>5, <1>6, <1>7, <1>8, <1>9, <1>10, <1>11 DEF Next, WorkerStep, CreateOrder,
     Confirm, InspectAttempt, RequeueAbsent, BotCrash, vars

\* With one writer of the sends file at a time, the file says of each key where its
\* worker and its transfer are.
THEOREM LedgerIsKept ==
    ASSUME OneWriter
    PROVE  Spec => []IInv
<1>1. Init => IInv
  BY LedgerInit
<1>2. IInv /\ [Next]_vars => IInv'
  BY LedgerStep
<1> QED  BY <1>1, <1>2, PTL DEF Spec

\* Then the signer pays an order at most once.
THEOREM PaidAtMostOnce ==
    ASSUME OneWriter
    PROVE  Spec => []SignerPaysOnce
<1>1. IInv => SignerPaysOnce
  BY DEF IInv
<1> QED  BY <1>1, LedgerIsKept, PTL

\* And a key absent from the file, which /payout_requeue takes for the proof that
\* nothing was signed, never reached the network.
THEOREM AbsentIsUnsent ==
    ASSUME OneWriter
    PROVE  Spec => []AbsentNeverSent
<1>1. IInv => AbsentNeverSent
  BY DEF IInv
<1> QED  BY <1>1, LedgerIsKept, PTL

-----------------------------------------------------------------------------
(* The promise of PayOnce. *)

\* How many transfers a signer with at most one made.
LEMMA CountOfOne ==
    /\ Cardinality({}) = 0
    /\ \A t : Cardinality({t}) = 1
  BY FS_EmptySet, FS_Singleton

\* At the start no order is a debt and the chain is empty.
LEMMA PromiseInit == Init => Promise!Init
<1> SUFFICES ASSUME Init PROVE Promise!Init
  OBVIOUS
<1>1. \A o \in Orders : state[o] = "none" /\ SignerTx(o) = {}
  BY DEF Init, StoreInit, WalletInit, SignerTx
<1> QED  BY <1>1, CountOfOne DEF Promise!Init

\* A step that neither makes nor settles a debt nor moves the signer's money.
LEMMA PromiseStutters ==
    ASSUME \A o \in Orders : /\ state'[o] = "none" <=> state[o] = "none"
                             /\ state'[o] = "succeeded" <=> state[o] = "succeeded"
                             /\ SignerTx(o)' = SignerTx(o)
    PROVE  UNCHANGED Promise!vars
  BY DEF Promise!vars

\* A step that changes the debt of one order only, and no payment.
LEMMA PromiseMoves ==
    ASSUME StoreTypeOK, NEW o \in Orders, NEW s \in States, s # "none",
           state' = [state EXCEPT ![o] = s],
           \A p \in Orders : SignerTx(p)' = SignerTx(p),
           \/ state[o] = "none" /\ s # "succeeded"
           \/ state[o] \notin {"none", "succeeded"}
    PROVE  [Promise!Next]_(Promise!vars)
<1> USE DEF StoreTypeOK
<1>1. CASE state[o] = "none" /\ s # "succeeded"
  <2>1. Promise!Owe(o)
    BY <1>1 DEF Promise!Owe
  <2> QED  BY <2>1 DEF Promise!Next
<1>2. CASE state[o] \notin {"none", "succeeded"} /\ s = "succeeded"
  <2>1. Promise!Settle(o)
    BY <1>2 DEF Promise!Settle
  <2> QED  BY <2>1 DEF Promise!Next
<1>3. CASE state[o] \notin {"none", "succeeded"} /\ s # "succeeded"
  BY <1>3, PromiseStutters
<1> QED  BY <1>1, <1>2, <1>3

\* The broadcast pays an order the signer has not paid, or nothing leaves.
LEMMA BroadcastPays ==
    ASSUME IInv, NEW w \in Workers, Broadcast(w)
    PROVE  [Promise!Next]_(Promise!vars)
<1> DEFINE t == SignedTx(job[w])
<1>1. /\ job[w] \in Orders /\ state[job[w]] # "none"
      /\ SignerTx(job[w]) = {}
      /\ t.order = job[w] /\ t.from = "signer"
      /\ UNCHANGED <<state, job>>
  BY HeldOrder DEF IInv, Broadcast, LedgerTracksSigner, SignedTx, Goto, storeVars
<1>2. chain' = chain \/ chain' = chain \cup {t}
  BY DEF Broadcast, Relay
<1> HIDE DEF t
<1>3. CASE chain' = chain
  BY <1>1, <1>3, PromiseStutters DEF SignerTx
<1>4. CASE chain' = chain \cup {t}
  <2>1. SignerTx(job[w])' = {t}
    BY <1>1, <1>4 DEF SignerTx
  <2>2. \A o \in Orders \ {job[w]} : SignerTx(o)' = SignerTx(o)
    BY <1>1, <1>4 DEF SignerTx
  <2>3. /\ Cardinality(SignerTx(job[w])) = 0
        /\ Cardinality(SignerTx(job[w]))' = 1
        /\ \A o \in Orders \ {job[w]} : Cardinality(SignerTx(o))' = Cardinality(SignerTx(o))
    BY <1>1, <2>1, <2>2, CountOfOne
  <2>4. Promise!Pay(job[w])
    BY <1>1, <2>3 DEF Promise!Pay
  <2> QED  BY <1>1, <2>4 DEF Promise!Next
<1> QED  BY <1>2, <1>3, <1>4

\* Every step of the pipeline is one of the promise's or none of its business.
LEMMA PromiseStep ==
    ASSUME IInv, [Next]_vars
    PROVE  [Promise!Next]_(Promise!vars)
<1>t. ClaimInv /\ TypeOK /\ StoreTypeOK
  BY DEF IInv, ClaimInv, TypeOK
<1> USE DEF States
<1>1. ASSUME NEW o \in Orders, NEW a \in Amounts, CreateOrder(o, a)
      PROVE  [Promise!Next]_(Promise!vars)
  BY <1>1, <1>t, PromiseMoves DEF CreateOrder, CreateIntent, SignerTx, walletVars
<1>2. ASSUME NEW w \in Workers, Claim(w)
      PROVE  [Promise!Next]_(Promise!vars)
  BY <1>2, <1>t, PromiseMoves DEF Claim, ClaimIntent, SignerTx, walletVars
<1>3. ASSUME NEW w \in Workers, Succeed(w) \/ Review(w)
      PROVE  [Promise!Next]_(Promise!vars)
  BY <1>3, <1>t, HeldOrder, PromiseMoves DEF Succeed, SucceedIntent, Review, ReviewIntent,
     SignerTx, walletVars
<1>4. ASSUME NEW o \in Orders, NEW t \in chain, Confirm(o, t)
      PROVE  [Promise!Next]_(Promise!vars)
  BY <1>4, <1>t, PromiseMoves DEF Confirm, ConfirmIntent, SignerTx, walletVars
<1>5. ASSUME NEW a \in Admins, RequeueAbsent(a)
      PROVE  [Promise!Next]_(Promise!vars)
  <2>1. CASE RequeueIntent(requeue[a])
    BY <1>5, <2>1, <1>t, PromiseMoves DEF RequeueAbsent, RequeueIntent, TypeOK, SignerTx,
       walletVars
  <2>2. CASE UNCHANGED storeVars
    BY <1>5, <2>2, PromiseStutters DEF RequeueAbsent, storeVars, SignerTx, walletVars
  <2> QED  BY <1>5, <2>1, <2>2 DEF RequeueAbsent
<1>6. ASSUME NEW h \in Humans, NEW o \in Orders, NEW a \in Amounts, PayByHand(h, o, a)
      PROVE  [Promise!Next]_(Promise!vars)
  BY <1>6, PromiseStutters DEF PayByHand, HumanTx, storeVars, SignerTx
<1>7. ASSUME UNCHANGED <<state, chain>>
      PROVE  [Promise!Next]_(Promise!vars)
  BY <1>7, PromiseStutters DEF SignerTx
<1>8. ASSUME NEW w \in Workers,
             \/ Refuse(w) \/ CheckLedger(w) \/ LoadToArm(w) \/ Arm(w) \/ LoadToRecord(w)
             \/ Record(w) \/ RecordFails(w) \/ SucceedFails(w) \/ ReviewFails(w) \/ Crash(w)
      PROVE  UNCHANGED <<state, chain>>
  BY <1>8 DEF Refuse, CheckLedger, LoadToArm, Arm, LoadToRecord, Record, SaveRow,
     RecordFails, SucceedFails, ReviewFails, Crash, storeVars, walletVars
<1>9. ASSUME \/ \E a \in Admins, o \in Orders : InspectAttempt(a, o)
             \/ BotCrash
             \/ UNCHANGED vars
      PROVE  UNCHANGED <<state, chain>>
  BY <1>9 DEF InspectAttempt, BotCrash, vars, storeVars, walletVars
<1> QED
  BY <1>1, <1>2, <1>3, <1>4, <1>5, <1>6, <1>7, <1>8, <1>9, BroadcastPays DEF Next, WorkerStep

\* With one writer of the file at a time the pipeline keeps the promise of PayOnce:
\* a debt is recorded before the signer pays it, is settled once, and is paid by
\* the signer at most once.
THEOREM PipelineKeepsPromise ==
    ASSUME OneWriter
    PROVE  Spec => KeepsPromise
<1>1. Init => Promise!Init
  BY PromiseInit
<1>2. IInv /\ [Next]_vars => [Promise!Next]_(Promise!vars)
  BY PromiseStep
<1> QED
  BY <1>1, <1>2, LedgerIsKept, PTL DEF Spec, KeepsPromise, Promise!Spec

=============================================================================
