------------------------------ MODULE PayoutWorker -----------------------------
(***************************************************************************)
(* The isolated payout worker (payment/payout_worker.py) and the signer it *)
(* calls (relay/services/payout_signer.py, relay/wallet/btc_wallet.py),    *)
(* with the two administrator commands that settle uncertain attempts      *)
(* (bot/main_bot.py, /payout_confirm and /payout_requeue).                 *)
(*                                                                         *)
(* A worker moves through one run_once():                                  *)
(*                                                                         *)
(*   idle -> claimed -> checked -> arming -> armed -> recording            *)
(*        -> saving -> done -> idle                                        *)
(*                                                                         *)
(* leaves it for error from any step after the claim, and may crash in any.*)
(* "arming" and "saving" lie between the load and the save of the sends    *)
(* file, which are one critical section only inside one process.           *)
(***************************************************************************)
EXTENDS SignerWallet, FiniteSets

CONSTANTS
    Workers,      \* worker processes
    Admins,       \* requeue commands the bot can have in flight
    Humans,       \* people who pay orders from wallets of their own (numbers)
    NoOrder,      \* no order in hand
    MaxAttempts,  \* bound: an intent claimed this often is not requeued again
    OneWriter     \* no two processes are between a load and a save of the file

\* OneWriter is true of one worker process with no wallet CLI beside it, and of
\* any number of them had the file the flock that evm_wallet has; _LOCK itself
\* is a threading.RLock and excludes nobody outside the process.
ASSUME WorkerAssumption ==
    /\ Humans \subseteq Nat
    /\ NoOrder \notin Orders
    /\ MaxAttempts \in Nat
    /\ OneWriter \in BOOLEAN

VARIABLES
    pc,       \* where each worker is in run_once
    job,      \* the order each worker has claimed
    result,   \* the txHash the signer got or found, NoTx when none
    snap,     \* the sends file as each worker last loaded it to save it
    requeue   \* the order whose ledger row an administrator found absent

workerVars == <<pc, job, result, snap>>
vars == <<storeVars, walletVars, workerVars, requeue>>

Steps == {"idle", "claimed", "checked", "arming", "armed", "recording", "saving",
          "done", "error"}

TypeOK ==
    /\ StoreTypeOK
    /\ WalletTypeOK
    /\ pc \in [Workers -> Steps]
    /\ job \in [Workers -> Orders \cup {NoOrder}]
    /\ result \in [Workers -> Tx \cup {NoTx}]
    /\ snap \in [Workers -> Ledgers]
    /\ requeue \in [Admins -> Orders \cup {NoOrder}]

Init ==
    /\ StoreInit
    /\ WalletInit
    /\ pc = [w \in Workers |-> "idle"]
    /\ job = [w \in Workers |-> NoOrder]
    /\ result = [w \in Workers |-> NoTx]
    /\ snap = [w \in Workers |-> EmptyLedger]
    /\ requeue = [a \in Admins |-> NoOrder]

-----------------------------------------------------------------------------
(* The bot persists the debt before anything may sign (process_payout). *)

CreateOrder(o, a) ==
    /\ CreateIntent(o, a)
    /\ UNCHANGED <<walletVars, workerVars, requeue>>

-----------------------------------------------------------------------------
(* One run_once() of a worker. *)

Goto(w, step, t) ==
    /\ pc' = [pc EXCEPT ![w] = step]
    /\ result' = [result EXCEPT ![w] = t]
    /\ snap' = [snap EXCEPT ![w] = EmptyLedger]
    /\ UNCHANGED job

\* _load_sends, then whatever is to be saved.
Load(w, step) ==
    /\ OneWriter => \A v \in Workers : pc[v] \notin {"arming", "saving"}
    /\ pc' = [pc EXCEPT ![w] = step]
    /\ snap' = [snap EXCEPT ![w] = ledger]
    /\ UNCHANGED <<job, result>>

\* run_once returns, or the process dies: the claim lives on only in the table.
Rest(w) ==
    /\ pc' = [pc EXCEPT ![w] = "idle"]
    /\ job' = [job EXCEPT ![w] = NoOrder]
    /\ result' = [result EXCEPT ![w] = NoTx]
    /\ snap' = [snap EXCEPT ![w] = EmptyLedger]

Claim(w) ==
    /\ pc[w] = "idle"
    /\ \E o \in Orders :
        /\ ClaimIntent(o)
        /\ job' = [job EXCEPT ![w] = o]
    /\ pc' = [pc EXCEPT ![w] = "claimed"]
    /\ UNCHANGED <<result, snap, walletVars, requeue>>

\* Anything that raises before the key is marked: a bad amount or address, no
\* password, a locked or unfunded wallet, a stale preview, an unwritable file.
Refuse(w) ==
    /\ pc[w] \in {"claimed", "checked", "arming"}
    /\ Goto(w, "error", NoTx)
    /\ UNCHANGED <<storeVars, walletVars, requeue>>

\* Mutant of CheckLedger: a known txHash is returned, any other key goes on.
CheckLedgerForTx(w) ==
    /\ pc[w] = "claimed"
    /\ IF HasTx(ledger, job[w]) THEN Goto(w, "done", ledger[job[w]])
                                ELSE Goto(w, "checked", NoTx)
    /\ UNCHANGED <<storeVars, walletVars, requeue>>

\* The first critical section of send() only reads: a known txHash is returned
\* as it is, a key that is broadcasting is refused.
CheckLedger(w) ==
    /\ pc[w] = "claimed"
    /\ \/ HasTx(ledger, job[w]) /\ Goto(w, "done", ledger[job[w]])
       \/ ledger[job[w]] = Broadcasting /\ Goto(w, "error", NoTx)
       \/ ledger[job[w]] \in {Absent, Failed} /\ Goto(w, "checked", NoTx)
    /\ UNCHANGED <<storeVars, walletVars, requeue>>

\* The second critical section loads again and looks again, for a txHash only.
LoadToArm(w) ==
    /\ pc[w] = "checked"
    /\ IF HasTx(ledger, job[w]) THEN Goto(w, "done", ledger[job[w]])
                                ELSE Load(w, "arming")
    /\ UNCHANGED <<storeVars, walletVars, requeue>>

\* Mutant of Arm: the mark is written with the outcome, not before it.
ArmUnmarked(w) ==
    /\ pc[w] = "arming"
    /\ Goto(w, "armed", NoTx)
    /\ UNCHANGED <<storeVars, walletVars, requeue>>

\* It saves the mark before anything is signed.
Arm(w) ==
    /\ pc[w] = "arming"
    /\ SaveRow(snap[w], job[w], Broadcasting)
    /\ Goto(w, "armed", NoTx)
    /\ UNCHANGED <<storeVars, requeue>>

\* Mutant of SignedTx: the amount is worked out again instead of read.
RequotedTx(o) ==
    [order |-> o, from |-> "signer", n |-> attempts[o], amount |-> CHOOSE a \in Amounts : TRUE]

\* The transfer this attempt signs.
SignedTx(o) == [order |-> o, from |-> "signer", n |-> attempts[o], amount |-> amount[o]]

\* Build, sign and broadcast.  The library may raise before or after the
\* network took the transfer; it may return a txid for a transfer that was not
\* taken; a return with neither txid nor error means nothing was sent.
Broadcast(w) ==
    /\ pc[w] = "armed"
    /\ \E delivered \in BOOLEAN :
        /\ Relay(SignedTx(job[w]), delivered)
        /\ \/ Goto(w, "recording", SignedTx(job[w]))
           \/ ~delivered /\ Goto(w, "recording", NoTx)
           \/ Goto(w, "error", NoTx)
    /\ UNCHANGED <<storeVars, requeue>>

\* The last critical section loads the file once more,
LoadToRecord(w) ==
    /\ pc[w] = "recording"
    /\ Load(w, "saving")
    /\ UNCHANGED <<storeVars, walletVars, requeue>>

\* and saves the outcome over the mark; without a txid send() then raises.
Record(w) ==
    /\ pc[w] = "saving"
    /\ LET sent == result[w] # NoTx IN
        /\ SaveRow(snap[w], job[w], IF sent THEN result[w] ELSE Failed)
        /\ Goto(w, IF sent THEN "done" ELSE "error", result[w])
    /\ UNCHANGED <<storeVars, requeue>>

\* Mutant of RecordFails: the except branch marks the send failed.
RecordFailsAsFailed(w) ==
    /\ pc[w] \in {"recording", "saving"}
    /\ SaveRow(ledger, job[w], Failed)
    /\ Goto(w, "error", NoTx)
    /\ UNCHANGED <<storeVars, requeue>>

\* The history or the ledger cannot be written: send() raises, the mark stays.
RecordFails(w) ==
    /\ pc[w] \in {"recording", "saving"}
    /\ Goto(w, "error", NoTx)
    /\ UNCHANGED <<storeVars, walletVars, requeue>>

Succeed(w) ==
    /\ pc[w] = "done"
    /\ SucceedIntent(job[w], result[w])
    /\ Rest(w)
    /\ UNCHANGED <<walletVars, requeue>>

\* succeed() changed no row, or the database refused: run_once treats both as
\* a signer failure.
SucceedFails(w) ==
    /\ pc[w] = "done"
    /\ Goto(w, "error", NoTx)
    /\ UNCHANGED <<storeVars, walletVars, requeue>>

\* Any exception parks the intent for review: it may have been broadcast.
Review(w) ==
    /\ pc[w] = "error"
    /\ ReviewIntent(job[w])
    /\ Rest(w)
    /\ UNCHANGED <<walletVars, requeue>>

\* review() changed no row, or could not be persisted (logged as critical).
ReviewFails(w) ==
    /\ pc[w] = "error"
    /\ Rest(w)
    /\ UNCHANGED <<storeVars, walletVars, requeue>>

Crash(w) ==
    /\ pc[w] # "idle"
    /\ Rest(w)
    /\ UNCHANGED <<storeVars, walletVars, requeue>>

-----------------------------------------------------------------------------
(* People.  The bot sends paid orders to workers who pay them by hand. *)

\* The transfer a person makes for an order, once, from a wallet the pipeline
\* knows nothing of.
HumanTx(h, o, a) == [order |-> o, from |-> "human", n |-> h, amount |-> a]

PayByHand(h, o, a) ==
    /\ chain' = chain \cup {HumanTx(h, o, a)}
    /\ UNCHANGED <<storeVars, ledger, workerVars, requeue>>

-----------------------------------------------------------------------------
(* Administrator commands. *)

\* Mutant of Confirm: any final transfer will do.
ConfirmAnyTx(o, t) ==
    /\ t \in chain
    /\ ConfirmIntent(o, t)
    /\ UNCHANGED <<walletVars, workerVars, requeue>>

\* /payout_confirm: the txid must be a final transfer that pays this debt.
Confirm(o, t) ==
    /\ t \in chain
    /\ Pays(t, o)
    /\ ConfirmIntent(o, t)
    /\ UNCHANGED <<walletVars, workerVars, requeue>>

\* /payout_requeue up to its await: the intent is in review and inspect_attempt
\* (run in a thread) finds no ledger row.  Any other verdict ends the command.
InspectAttempt(a, o) ==
    /\ requeue[a] = NoOrder
    /\ state[o] = "review"
    /\ attempts[o] < MaxAttempts
    /\ NeverClaimed(o)
    /\ requeue' = [requeue EXCEPT ![a] = o]
    /\ UNCHANGED <<storeVars, walletVars, workerVars>>

\* The rest of the command: the row is requeued if it is in review now.
RequeueAbsent(a) ==
    /\ requeue[a] # NoOrder
    /\ \/ RequeueIntent(requeue[a])
       \/ state[requeue[a]] # "review" /\ UNCHANGED storeVars
    /\ requeue' = [requeue EXCEPT ![a] = NoOrder]
    /\ UNCHANGED <<walletVars, workerVars>>

\* The bot restarts: commands in flight are lost.
BotCrash ==
    /\ \E a \in Admins : requeue[a] # NoOrder
    /\ requeue' = [a \in Admins |-> NoOrder]
    /\ UNCHANGED <<storeVars, walletVars, workerVars>>

-----------------------------------------------------------------------------

WorkerStep(w) ==
    \/ Claim(w) \/ Refuse(w) \/ CheckLedger(w) \/ LoadToArm(w) \/ Arm(w)
    \/ Broadcast(w) \/ LoadToRecord(w) \/ Record(w) \/ RecordFails(w)
    \/ Succeed(w) \/ SucceedFails(w) \/ Review(w) \/ ReviewFails(w)

Next ==
    \/ \E o \in Orders, a \in Amounts : CreateOrder(o, a)
    \/ \E w \in Workers : WorkerStep(w) \/ Crash(w)
    \/ \E o \in Orders : \E t \in chain : Confirm(o, t)
    \/ \E h \in Humans, o \in Orders, a \in Amounts : PayByHand(h, o, a)
    \/ \E a \in Admins : (\E o \in Orders : InspectAttempt(a, o)) \/ RequeueAbsent(a)
    \/ BotCrash

Spec == Init /\ [][Next]_vars

\* The unit restarts the worker and its loop never waits on anything but the
\* table, so an enabled step of a worker is taken in the end.
FairSpec == Spec /\ \A w \in Workers : WF_vars(WorkerStep(w))

-----------------------------------------------------------------------------
(* Properties. *)

\* Whatever crashes, retries and administrators do, the signer gets at most
\* one transfer onto the chain for an order (the reason the worker never
\* retries on its own and the ledger is written before broadcasting).
SignerPaysOnce ==
    \A s, t \in chain :
        s.from = "signer" /\ t.from = "signer" /\ s.order = t.order => s = t

\* inspect_attempt: a key that is absent from the ledger, or that failed, never
\* reached the network.  Requeueing rests on it.
AbsentNeverSent ==
    \A o \in Orders : ledger[o] \in {Absent, Failed} => SignerTx(o) = {}

\* Two processes are never inside the signer for the same order, although only
\* the first of send()'s two checks refuses a key that is broadcasting.
OneSignerPerOrder ==
    \A v, w \in Workers : v # w /\ job[v] # NoOrder => job[v] # job[w]

\* A settled intent names a transfer made for this debt: the right amount to
\* the right address, also when a retry was answered from the ledger or an
\* administrator confirmed a transfer that pays a twin order.  It does not say that
\* the network took the transfer: the library may return a txid for one it did not.
SettledByItsDebt ==
    \A o \in Orders : state[o] = "succeeded" => txid[o] # NoTx /\ Pays(txid[o], o)

\* A settled intent is never reopened, re-signed or given another txid, not
\* even by a late worker or a stale administrator command.
SettledIsFinal ==
    [][\A o \in Orders : state[o] = "succeeded" =>
        state'[o] = "succeeded" /\ txid'[o] = txid[o] /\ attempts'[o] = attempts[o]]_vars

\* The debt recorded first is the debt that is paid: no later caller changes it.
DebtIsImmutable ==
    [][\A o \in Orders : state[o] # "none" => amount'[o] = amount[o]]_vars

\* The pipeline keeps the promise of PayOnce: a debt made once, settled once
\* and never unsettled, paid by the signer at most once and never before it is
\* recorded.
Promise == INSTANCE PayOnce WITH
    debt <- [o \in Orders |->
        IF state[o] = "none" THEN "none"
        ELSE IF state[o] = "succeeded" THEN "settled" ELSE "owed"],
    payments <- [o \in Orders |-> Cardinality(SignerTx(o))]

KeepsPromise == Promise!Spec

\* Every queued intent is picked up in the end, also one that was requeued.
QueuedIsClaimed ==
    \A o \in Orders : state[o] = "pending" ~> state[o] # "pending"

-----------------------------------------------------------------------------
(* The inductive invariants behind them. *)

\* An order has an amount exactly when it has an intent.
DebtRecorded ==
    \A o \in Orders : state[o] = "none" <=> amount[o] = NoAmount

\* A busy worker holds an order whose row it claimed; nobody else holds it and
\* the row is not in the queue.
HoldsClaim ==
    \A w \in Workers :
        /\ pc[w] = "idle" <=> job[w] = NoOrder
        /\ pc[w] # "idle" => state[job[w]] \in {"processing", "succeeded"}

\* What the compare-and-set claim guarantees, however the sends file is shared.
ClaimInv ==
    /\ TypeOK
    /\ DebtRecorded
    /\ HoldsClaim
    /\ OneSignerPerOrder

\* Every txHash on file, in hand or in a worker's copy of the file is that of a
\* transfer that pays the debt it is filed under.
NamesItsDebt ==
    /\ \A o \in Orders : HasTx(ledger, o) => Pays(ledger[o], o)
    /\ \A w \in Workers : result[w] # NoTx =>
         job[w] # NoOrder /\ Pays(result[w], job[w])
    /\ \A w \in Workers : \A o \in Orders :
         HasTx(snap[w], o) => Pays(snap[w][o], o)

\* What makes a settled intent name a transfer that pays it.
DebtInv ==
    /\ ClaimInv
    /\ NamesItsDebt
    /\ SettledByItsDebt

\* Past the first check the key is not broadcasting; from the mark to the record
\* it is, and before the broadcast nothing was sent yet.
LedgerTracksSigner ==
    \A w \in Workers :
        /\ pc[w] \in {"checked", "arming"} => ledger[job[w]] \in {Absent, Failed}
        /\ pc[w] \in {"armed", "recording", "saving"} => ledger[job[w]] = Broadcasting
        /\ \/ pc[w] = "armed"
           \/ pc[w] \in {"recording", "saving"} /\ result[w] = NoTx
           => SignerTx(job[w]) = {}

\* The file does not change between a load and the save that follows it.
SnapIsFresh ==
    \A w \in Workers : pc[w] \in {"arming", "saving"} =>
        /\ snap[w] = ledger
        /\ \A v \in Workers \ {w} : pc[v] \notin {"arming", "saving"}

\* What makes the signer pay once, when the file has one writer at a time.
IInv ==
    /\ ClaimInv
    /\ LedgerTracksSigner
    /\ SnapIsFresh
    /\ AbsentNeverSent
    /\ SignerPaysOnce
=============================================================================
