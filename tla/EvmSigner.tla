-------------------------------- MODULE EvmSigner ------------------------------
(***************************************************************************)
(* The ETH and ERC-20 wallet (relay/wallet/evm_wallet.py): processes that  *)
(* share one account, the journal evm-sends.json with one row per          *)
(* idempotency key, and the lock evm-send.lock.  A process is the payout   *)
(* worker or the wallet command line inside send():                        *)
(*                                                                         *)
(*   idle -> called -> entering -> inside -> marking -> marked -> signing  *)
(*        -> saving -> broadcasting -> awaiting -> recording -> closing    *)
(*                                                                         *)
(* with the lock held from inside to broadcasting and again in closing,    *)
(* and a detour to reconciling when the key has a signed transaction.      *)
(* Between them stands the network: a pool of transactions, of which one   *)
(* is mined for each nonce.                                                *)
(***************************************************************************)
EXTENDS Naturals, FiniteSets

CONSTANTS
    Procs,    \* processes that call send()
    NoProc,
    Keys,     \* idempotency keys, one per intended transfer
    NoKey,
    Absent,   \* the journal has no row under the key
    Signing,  \* the row that claims the key before anything is signed
    OneView   \* every RPC node knows every pending transaction

\* OneView is what the nonce of the code rests on.  The code asks the first of
\* several public nodes that answers, so nothing makes it true.
ASSUME EvmAssumption ==
    /\ NoProc \notin Procs
    /\ NoKey \notin Keys
    /\ OneView \in BOOLEAN

\* The signed transaction of a key; its nonce and key stand for its hash.
Tx == [key : Keys, nonce : Nat]

Statuses == {"signed", "submitted", "confirmed", "failed"}
Row == [nonce : Nat, status : Statuses]

ASSUME RowAssumption == Absent # Signing /\ {Absent, Signing} \cap Row = {}

VARIABLES
    journal,   \* the file: Absent, Signing or the signed row of each key
    lock,      \* the process that holds the flock
    pool,      \* transactions that wait in the nodes' pools
    mined,     \* transactions in a block
    reverted,  \* those of them whose execution failed
    reported,  \* transactions some caller was told are on their way
    pc,        \* where each process is in send()
    key,       \* the key it was called with
    snap,      \* the journal as it last loaded it to save it
    row        \* the row it found, or is making

chainVars == <<pool, mined, reverted>>
procVars == <<pc, key, snap, row>>
vars == <<journal, lock, chainVars, reported, procVars>>

Steps == {"idle", "called", "entering", "inside", "marking", "marked", "signing",
          "saving", "broadcasting", "awaiting", "recording", "closing", "reconciling"}

Journals == [Keys -> {Absent, Signing} \cup Row]
Blank == [k \in Keys |-> Absent]
NoRow == [nonce |-> 0, status |-> "signed"]

TypeOK ==
    /\ journal \in Journals
    /\ lock \in Procs \cup {NoProc}
    /\ pool \subseteq Tx /\ mined \subseteq Tx
    /\ reverted \subseteq mined
    /\ reported \subseteq Tx
    /\ pc \in [Procs -> Steps]
    /\ key \in [Procs -> Keys \cup {NoKey}]
    /\ snap \in [Procs -> Journals]
    /\ row \in [Procs -> Row]

Init ==
    /\ journal = Blank
    /\ lock = NoProc
    /\ pool = {} /\ mined = {} /\ reverted = {}
    /\ reported = {}
    /\ pc = [p \in Procs |-> "idle"]
    /\ key = [p \in Procs |-> NoKey]
    /\ snap = [p \in Procs |-> Blank]
    /\ row = [p \in Procs |-> NoRow]

-----------------------------------------------------------------------------
(* The network. *)

\* The nonces below are those of mined transactions.
NextNonce == Cardinality(mined)

\* The number after the pending transactions that follow the mined ones.
IsPending(n) ==
    /\ n >= NextNonce
    /\ \A t \in pool : t.nonce # n
    /\ \A i \in NextNonce..(n - 1) : \E t \in pool : t.nonce = i

\* eth_getTransactionCount(sender, "pending"): a node that lags behind, or that
\* still has what others have dropped, tells another number.
NonceViews ==
    {n \in 0..(NextNonce + Cardinality(pool)) : OneView => IsPending(n)}

\* What the nodes do with a transaction they are sent: they take it (for a
\* better gas price also in place of another with its nonce), know it already,
\* or refuse it; the answer may be lost on the way.  An answer that the nonce
\* is too low or the transaction known counts as sent.
Accept(t) ==
    /\ t.nonce >= NextNonce
    /\ pool' = {s \in pool : s.nonce # t.nonce} \cup {t}

Benign(t) ==
    /\ t \in pool \cup mined \/ t.nonce < NextNonce
    /\ UNCHANGED pool

Mine(t) ==
    /\ t \in pool \ mined
    /\ t.nonce = NextNonce
    /\ mined' = mined \cup {t}
    /\ pool' = {s \in pool : s.nonce # t.nonce}
    /\ reverted' \in {reverted, reverted \cup {t}}
    /\ UNCHANGED <<journal, lock, reported, procVars>>

\* Nodes forget what waits for too long.
Evict(t) ==
    /\ t \in pool
    /\ pool' = pool \ {t}
    /\ UNCHANGED <<journal, lock, mined, reverted, reported, procVars>>

-----------------------------------------------------------------------------
(* send(): one process. *)

Signed(r) == r \notin {Absent, Signing}

\* The transaction a process has signed or found.
Own(p) == [key |-> key[p], nonce |-> row[p].nonce]

Goto(p, step) ==
    /\ pc' = [pc EXCEPT ![p] = step]
    /\ UNCHANGED key

Keep(p) == UNCHANGED <<snap, row>>

\* Mutant of Release: a lock file, which stays when its process raises or dies.
ReleaseAfterBroadcast(p) == lock' = IF lock = p /\ pc[p] \in {"broadcasting", "closing"} THEN NoProc ELSE lock

\* Leaving send(), or the with block: whoever holds the flock gives it up.
Release(p) == lock' = IF lock = p THEN NoProc ELSE lock

\* send() returns or raises, or the process dies (the system drops its flock).
Leave(p) ==
    /\ pc' = [pc EXCEPT ![p] = "idle"]
    /\ key' = [key EXCEPT ![p] = NoKey]
    /\ snap' = [snap EXCEPT ![p] = Blank]
    /\ row' = [row EXCEPT ![p] = NoRow]
    /\ Release(p)

Return(p) ==
    /\ Leave(p)
    /\ reported' = reported \cup {Own(p)}

Call(p, k) ==
    /\ pc[p] = "idle"
    /\ pc' = [pc EXCEPT ![p] = "called"]
    /\ key' = [key EXCEPT ![p] = k]
    /\ UNCHANGED <<journal, lock, chainVars, reported, snap, row>>

\* A signed row is never signed again, only followed up.
Follow(p) ==
    /\ Signed(journal[key[p]])
    /\ row' = [row EXCEPT ![p] = journal[key[p]]]
    /\ Goto(p, "reconciling")
    /\ UNCHANGED <<lock, snap>>

\* The look at the journal before the flock.
FastCheck(p) ==
    /\ pc[p] = "called"
    /\ \/ Follow(p)
       \/ journal[key[p]] = Signing /\ Leave(p)
       \/ journal[key[p]] = Absent /\ Goto(p, "entering") /\ Keep(p) /\ UNCHANGED lock
    /\ UNCHANGED <<journal, chainVars, reported>>

\* Mutant of Enter: a lock of threads, which keeps out no other process.
EnterUnlocked(p) ==
    /\ pc[p] = "entering"
    /\ Goto(p, "inside")
    /\ Keep(p)
    /\ UNCHANGED <<journal, lock, chainVars, reported>>

\* _proc_lock, and the preview taken out of its file.
Enter(p) ==
    /\ pc[p] = "entering"
    /\ lock = NoProc
    /\ lock' = p
    /\ Goto(p, "inside")
    /\ Keep(p)
    /\ UNCHANGED <<journal, chainVars, reported>>

\* Mutant of Refuse: an exception takes the claim of its key back.
RefuseUnclaiming(p) ==
    /\ pc[p] \in {"called", "entering", "inside", "marking", "marked", "signing",
                  "saving", "awaiting", "recording", "closing", "reconciling"}
    /\ journal' = [journal EXCEPT ![key[p]] = IF @ = Signing THEN Absent ELSE @]
    /\ Leave(p)
    /\ UNCHANGED <<chainVars, reported>>

\* Anything that raises with nothing sent: no preview, or a stale one, a file
\* that cannot be read or written, a node that does not tell the nonce.
Refuse(p) ==
    /\ pc[p] \in {"called", "entering", "inside", "marking", "marked", "signing",
                  "saving", "awaiting", "recording", "closing", "reconciling"}
    /\ Leave(p)
    /\ UNCHANGED <<journal, chainVars, reported>>

\* Mutant of Look: a claim somebody left behind is taken over.
LookTakingOver(p) ==
    /\ pc[p] = "inside"
    /\ \/ Follow(p)
       \/ /\ ~Signed(journal[key[p]])
          /\ snap' = [snap EXCEPT ![p] = journal]
          /\ Goto(p, "marking")
          /\ UNCHANGED <<lock, row>>
    /\ UNCHANGED <<journal, chainVars, reported>>

\* The look that counts, under the flock.
Look(p) ==
    /\ pc[p] = "inside"
    /\ \/ Follow(p)
       \/ journal[key[p]] = Signing /\ Leave(p)
       \/ /\ journal[key[p]] = Absent
          /\ snap' = [snap EXCEPT ![p] = journal]
          /\ Goto(p, "marking")
          /\ UNCHANGED <<lock, row>>
    /\ UNCHANGED <<journal, chainVars, reported>>

Mark(p) ==
    /\ pc[p] = "marking"
    /\ journal' = [snap[p] EXCEPT ![key[p]] = Signing]
    /\ Goto(p, "marked")
    /\ Keep(p)
    /\ UNCHANGED <<lock, chainVars, reported>>

ReadNonce(p) ==
    /\ pc[p] = "marked"
    /\ \E n \in NonceViews :
        row' = [row EXCEPT ![p] = [nonce |-> n, status |-> "signed"]]
    /\ Goto(p, "signing")
    /\ UNCHANGED <<journal, lock, chainVars, reported, snap>>

LoadToSign(p) ==
    /\ pc[p] = "signing"
    /\ snap' = [snap EXCEPT ![p] = journal]
    /\ Goto(p, "saving")
    /\ UNCHANGED <<journal, lock, chainVars, reported, row>>

\* Hash and raw transaction are on file before anybody is sent them.
SaveSigned(p) ==
    /\ pc[p] = "saving"
    /\ journal' = [snap[p] EXCEPT ![key[p]] = row[p]]
    /\ Goto(p, "broadcasting")
    /\ Keep(p)
    /\ UNCHANGED <<lock, chainVars, reported>>

\* eth_sendRawTransaction; with an answer, the flock is left and the receipt
\* awaited.  Any other protocol error and any failure of the network raise.
Broadcast(p) ==
    /\ pc[p] = "broadcasting"
    /\ \/ /\ Accept(Own(p)) \/ Benign(Own(p))
          /\ Goto(p, "awaiting")
          /\ Release(p)
          /\ Keep(p)
       \/ /\ Accept(Own(p)) \/ UNCHANGED pool
          /\ Leave(p)
    /\ UNCHANGED <<journal, mined, reverted, reported>>

\* What a receipt, or none within two minutes, says of a transaction.
Outcome(t) ==
    IF t \in reverted THEN "failed" ELSE IF t \in mined THEN "confirmed" ELSE "submitted"

AwaitReceipt(p) ==
    /\ pc[p] = "awaiting"
    /\ \E s \in {"submitted", Outcome(Own(p))} :
        row' = [row EXCEPT ![p] = [nonce |-> @.nonce, status |-> s]]
    /\ Goto(p, "recording")
    /\ UNCHANGED <<journal, lock, chainVars, reported, snap>>

\* Mutant of EnterToRecord: the outcome is saved outside of the flock.
RecordUnlocked(p) ==
    /\ pc[p] = "recording"
    /\ snap' = [snap EXCEPT ![p] = journal]
    /\ Goto(p, "closing")
    /\ UNCHANGED <<journal, lock, chainVars, reported, row>>

EnterToRecord(p) ==
    /\ pc[p] = "recording"
    /\ lock = NoProc
    /\ lock' = p
    /\ snap' = [snap EXCEPT ![p] = journal]
    /\ Goto(p, "closing")
    /\ UNCHANGED <<journal, chainVars, reported, row>>

\* The outcome is on file; a failed execution raises after that.
Close(p) ==
    /\ pc[p] = "closing"
    /\ journal' = [snap[p] EXCEPT ![key[p]] = row[p]]
    /\ IF row[p].status = "failed" THEN Leave(p) /\ UNCHANGED reported
                                   ELSE Return(p)
    /\ UNCHANGED chainVars

\* _reconcile: a transaction that is seen is reported, one that failed raises,
\* and one that is not seen (a node may just not answer) is sent out again as it
\* is.  It is reported then, also when the network lost the answer.
Reconcile(p) ==
    /\ pc[p] = "reconciling"
    /\ \/ row[p].status = "failed" /\ Leave(p) /\ UNCHANGED <<pool, reported>>
       \/ row[p].status = "confirmed" /\ Return(p) /\ UNCHANGED pool
       \/ /\ row[p].status \notin {"failed", "confirmed"}
          /\ \/ Own(p) \in reverted /\ Leave(p) /\ UNCHANGED <<pool, reported>>
             \/ Own(p) \in pool \cup (mined \ reverted) /\ Return(p) /\ UNCHANGED pool
             \/ (Accept(Own(p)) \/ UNCHANGED pool) /\ Return(p)
    /\ UNCHANGED <<journal, mined, reverted>>

Crash(p) ==
    /\ pc[p] # "idle"
    /\ Leave(p)
    /\ UNCHANGED <<journal, chainVars, reported>>

-----------------------------------------------------------------------------

Step(p) ==
    \/ FastCheck(p) \/ Enter(p) \/ Refuse(p) \/ Look(p) \/ Mark(p)
    \/ ReadNonce(p) \/ LoadToSign(p) \/ SaveSigned(p) \/ Broadcast(p)
    \/ AwaitReceipt(p) \/ EnterToRecord(p) \/ Close(p) \/ Reconcile(p)

Next ==
    \/ \E p \in Procs : (\E k \in Keys : Call(p, k)) \/ Step(p) \/ Crash(p)
    \/ \E t \in pool : Mine(t) \/ Evict(t)

Spec == Init /\ [][Next]_vars

\* Every call of the network has a timeout, so a process inside send() goes on.
FairSpec == Spec /\ \A p \in Procs : WF_vars(Step(p))

-----------------------------------------------------------------------------
(* Properties. *)

\* However many processes are called with a key, crash, time out and are called
\* again, one transaction is signed for it: the account never pays twice, and no
\* two callers are told of different ones.
OneTransferPerKey ==
    \A s, t \in pool \cup mined \cup reported : s.key = t.key => s = t

\* A transaction the nodes have or a caller was told of is on file under its key
\* with its nonce, so whoever comes back to the key follows that one up; in particular a key
\* inspect_attempt finds absent was never sent.
JournalledBeforeSent ==
    \A t \in pool \cup mined \cup reported :
        Signed(journal[t.key]) /\ journal[t.key].nonce = t.nonce

\* A row says confirmed of a mined transaction that did not fail, and failed of
\* one that did, although it is written long after the broadcast.
RowsTellTheTruth ==
    \A k \in Keys : Signed(journal[k]) =>
        LET t == [key |-> k, nonce |-> journal[k].nonce] IN
        /\ journal[k].status = "confirmed" => t \in mined \ reverted
        /\ journal[k].status = "failed" => t \in reverted

\* No save of another process loses a claim or a signed transaction, and no
\* process re-signs a key: a row may go from absent to signing, get its
\* transaction once, and change its status after that.
RowsAreNeverLost ==
    [][\A k \in Keys :
        /\ journal[k] = Signing => journal'[k] # Absent
        /\ Signed(journal[k]) =>
             Signed(journal'[k]) /\ journal'[k].nonce = journal[k].nonce]_vars

\* The flock is given up in the end, whatever raises or dies inside.
LockIsReleased == \A p \in Procs : lock = p ~> lock # p

\* The promise of the other wallets' pipeline, with a claimed key as the debt, a
\* mined transaction as the payment and a confirmed row as the settlement.
Promise == INSTANCE PayOnce WITH
    Orders <- Keys,
    debt <- [k \in Keys |->
        IF journal[k] = Absent THEN "none"
        ELSE IF Signed(journal[k]) /\ journal[k].status = "confirmed" THEN "settled"
        ELSE "owed"],
    payments <- [k \in Keys |-> Cardinality({t \in mined : t.key = k})]

KeepsPromise == Promise!Spec

-----------------------------------------------------------------------------
(* The inductive invariant behind them. *)

LockSteps == {"inside", "marking", "marked", "signing", "saving", "broadcasting", "closing"}

\* Who is between a load and a save holds the flock, and has the file.
LockProtects ==
    \A p \in Procs :
        /\ pc[p] \in LockSteps => lock = p
        /\ pc[p] \in {"marking", "saving", "closing"} => snap[p] = journal

\* Where a process is tells what the journal says of its key.
RowFollowsStep ==
    \A p \in Procs :
        /\ pc[p] # "idle" <=> key[p] # NoKey
        /\ pc[p] = "marking" => journal[key[p]] = Absent
        /\ pc[p] \in {"marked", "signing", "saving"} => journal[key[p]] = Signing
        /\ pc[p] \in {"broadcasting", "awaiting", "recording", "closing", "reconciling"} =>
             Signed(journal[key[p]]) /\ journal[key[p]].nonce = row[p].nonce

\* What a process is about to write of an outcome is what it was.
OutcomeIsTrue ==
    \A p \in Procs : pc[p] \in {"signing", "saving", "recording", "closing"} =>
        /\ row[p].status = "confirmed" => Own(p) \in mined \ reverted
        /\ row[p].status = "failed" => Own(p) \in reverted

\* What the flock guarantees of the journal.
JournalInv ==
    /\ TypeOK
    /\ LockProtects
    /\ RowFollowsStep
    /\ OutcomeIsTrue
    /\ JournalledBeforeSent
    /\ RowsTellTheTruth

\* A transaction has an outcome on file only when the process that signed it is
\* through with it: nobody else ever records one for its key.
SentSteps == {"broadcasting", "awaiting", "recording", "closing"}

ClosesAlone ==
    \A p \in Procs :
        /\ pc[p] \in {"signing", "saving"} => row[p].status = "signed"
        /\ pc[p] \in SentSteps =>
             /\ journal[key[p]].status = "signed"
             /\ \A q \in Procs \ {p} : pc[q] \in SentSteps => key[q] # key[p]

IInv == JournalInv /\ ClosesAlone
=============================================================================
