------------------------------ MODULE SignerWallet -----------------------------
(***************************************************************************)
(* The hot wallet of relay/wallet/btc_wallet.py as the payout signer uses  *)
(* it: the idempotency ledger <coin>-sends.json, one row per payout_<order>*)
(* key, and the chain the signed transfers reach.  The file is only ever   *)
(* read whole and written whole.                                           *)
(***************************************************************************)
EXTENDS PayoutStore

CONSTANTS
    Absent,        \* the file has no row under the order's key
    Broadcasting,  \* the row written before anything is signed
    Failed         \* the row of a broadcast that returned no txid

Marks == {Absent, Broadcasting, Failed}

ASSUME WalletAssumption ==
    /\ Absent # Broadcasting /\ Absent # Failed /\ Broadcasting # Failed
    /\ Marks \cap (Tx \cup {NoTx}) = {}

VARIABLES
    ledger,    \* the file: the mark of each order's row, or the txHash in it
    chain      \* the transfers that reached the network

walletVars == <<ledger, chain>>

Ledgers == [Orders -> Marks \cup Tx]

EmptyLedger == [o \in Orders |-> Absent]

WalletTypeOK ==
    /\ ledger \in Ledgers
    /\ chain \subseteq Tx

WalletInit ==
    /\ ledger = EmptyLedger
    /\ chain = {}

-----------------------------------------------------------------------------

\* send() returns the row it finds when that row carries a txHash.
HasTx(rows, o) == rows[o] \in Tx

\* _save_sends: the file becomes what the process read, with one row replaced.
SaveRow(rows, o, row) ==
    /\ ledger' = [rows EXCEPT ![o] = row]
    /\ UNCHANGED chain

\* wt.send(): the wallet library either gets the transfer onto the network or
\* it does not.
Relay(t, delivered) ==
    /\ chain' = IF delivered THEN chain \cup {t} ELSE chain
    /\ UNCHANGED ledger

\* The transfers the signer made for the order.
SignerTx(o) == {t \in chain : t.order = o /\ t.from = "signer"}

\* inspect_attempt's verdict "absent": no row under the order's key.
NeverClaimed(o) == ledger[o] = Absent
=============================================================================
