------------------------------ MODULE PayoutStore ------------------------------
(***************************************************************************)
(* The payout_intents table of relay/repositories/payout_store.py: one     *)
(* immutable debt per order and the compare-and-set transitions on it.     *)
(* Each operator is one transaction of the store; its guard is the WHERE   *)
(* clause of the UPDATE, so an operator that is not enabled is the call    *)
(* that changed no row and returned False or None.                         *)
(***************************************************************************)
EXTENDS Naturals

CONSTANTS
    Orders,      \* order ids that may get a payout intent
    Amounts,     \* crypto amounts a quote may settle to
    Addresses,   \* destination addresses
    Dest,        \* the address each order is paid to
    NoAmount,    \* crypto_amount of an order without an intent
    NoTx         \* txid IS NULL

\* A transfer on chain: the order whose debt it was made for, who made it (the
\* signer or a person with a wallet of their own), which attempt of theirs it
\* is, and how much it moved.  Its txid is the record itself.
Tx == [order : Orders, from : {"signer", "human"}, n : Nat, amount : Amounts]

ASSUME StoreAssumption ==
    /\ Dest \in [Orders -> Addresses]
    /\ NoAmount \notin Amounts
    /\ NoTx \notin Tx

VARIABLES
    state,     \* payout_intents.state, "none" before the row exists
    amount,    \* payout_intents.crypto_amount
    attempts,  \* payout_intents.attempts
    txid,      \* payout_intents.txid
    rowid,     \* payout_intents.id, 0 before the row exists
    lastRow    \* the AUTOINCREMENT counter

storeVars == <<state, amount, attempts, txid, rowid, lastRow>>

States == {"none", "pending", "processing", "succeeded", "review"}

StoreTypeOK ==
    /\ state \in [Orders -> States]
    /\ amount \in [Orders -> Amounts \cup {NoAmount}]
    /\ attempts \in [Orders -> Nat]
    /\ txid \in [Orders -> Tx \cup {NoTx}]
    /\ rowid \in [Orders -> Nat]
    /\ lastRow \in Nat

StoreInit ==
    /\ state = [o \in Orders |-> "none"]
    /\ amount = [o \in Orders |-> NoAmount]
    /\ attempts = [o \in Orders |-> 0]
    /\ txid = [o \in Orders |-> NoTx]
    /\ rowid = [o \in Orders |-> 0]
    /\ lastRow = 0

-----------------------------------------------------------------------------

\* Mutant of CreateIntent: an upsert, so that a later quote replaces the debt.
UpsertIntent(o, a) ==
    /\ state' = [state EXCEPT ![o] = IF @ = "none" THEN "pending" ELSE @]
    /\ amount' = [amount EXCEPT ![o] = a]
    /\ lastRow' = lastRow + (IF state[o] = "none" THEN 1 ELSE 0)
    /\ rowid' = [rowid EXCEPT ![o] = IF @ = 0 THEN lastRow' ELSE @]
    /\ UNCHANGED <<attempts, txid>>

\* create_order: INSERT OR IGNORE on the unique order_id.  For an order that
\* has a row the call returns it, or raises payout_intent_payload_mismatch when
\* the debt asked for differs; neither writes.
CreateIntent(o, a) ==
    /\ state[o] = "none"
    /\ state' = [state EXCEPT ![o] = "pending"]
    /\ amount' = [amount EXCEPT ![o] = a]
    /\ lastRow' = lastRow + 1
    /\ rowid' = [rowid EXCEPT ![o] = lastRow']
    /\ UNCHANGED <<attempts, txid>>

\* Mutant of ClaimIntent: a row that was tried before is left in the queue.
ClaimUntried(o) ==
    /\ state[o] = "pending" /\ attempts[o] = 0
    /\ state' = [state EXCEPT ![o] = "processing"]
    /\ attempts' = [attempts EXCEPT ![o] = @ + 1]
    /\ UNCHANGED <<amount, txid, rowid, lastRow>>

\* claim_next: the oldest pending row becomes processing.
ClaimIntent(o) ==
    /\ state[o] = "pending"
    /\ \A p \in Orders : state[p] = "pending" => rowid[o] <= rowid[p]
    /\ state' = [state EXCEPT ![o] = "processing"]
    /\ attempts' = [attempts EXCEPT ![o] = @ + 1]
    /\ UNCHANGED <<amount, txid, rowid, lastRow>>

\* succeed: only the claimed row, and only with a txid.
SucceedIntent(o, t) ==
    /\ state[o] = "processing"
    /\ t # NoTx
    /\ state' = [state EXCEPT ![o] = "succeeded"]
    /\ txid' = [txid EXCEPT ![o] = t]
    /\ UNCHANGED <<amount, attempts, rowid, lastRow>>

\* review: only the claimed row.
ReviewIntent(o) ==
    /\ state[o] = "processing"
    /\ state' = [state EXCEPT ![o] = "review"]
    /\ UNCHANGED <<amount, attempts, txid, rowid, lastRow>>

\* Mutant of ConfirmIntent: no look at the state, as for a typing error fixed.
ReconfirmIntent(o, t) ==
    /\ state[o] \notin {"none", "pending"}
    /\ state' = [state EXCEPT ![o] = "succeeded"]
    /\ txid' = [txid EXCEPT ![o] = t]
    /\ UNCHANGED <<amount, attempts, rowid, lastRow>>

\* admin_confirm_txid: a claimed or reviewed row takes a txid proved on chain.
ConfirmIntent(o, t) ==
    /\ state[o] \in {"processing", "review"}
    /\ t # NoTx
    /\ state' = [state EXCEPT ![o] = "succeeded"]
    /\ txid' = [txid EXCEPT ![o] = t]
    /\ UNCHANGED <<amount, attempts, rowid, lastRow>>

\* Mutant of RequeueIntent: any row that is not queued is queued.
RequeueAnyIntent(o) ==
    /\ state[o] \notin {"none", "pending"}
    /\ state' = [state EXCEPT ![o] = "pending"]
    /\ txid' = [txid EXCEPT ![o] = NoTx]
    /\ UNCHANGED <<amount, attempts, rowid, lastRow>>

\* admin_requeue_absent: a reviewed row goes back to the queue, keeping its id.
RequeueIntent(o) ==
    /\ state[o] = "review"
    /\ state' = [state EXCEPT ![o] = "pending"]
    /\ txid' = [txid EXCEPT ![o] = NoTx]
    /\ UNCHANGED <<amount, attempts, rowid, lastRow>>

\* A transfer discharges the debt of an order when it is made out to the order's
\* address with the order's amount (payout_discovery.judge, with a tolerance
\* that the model narrows to equality).  Whether it is on the chain is another
\* question.
Pays(t, o) == Dest[t.order] = Dest[o] /\ t.amount = amount[o]
=============================================================================
