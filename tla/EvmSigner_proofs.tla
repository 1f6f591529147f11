---------------------------- MODULE EvmSigner_proofs ---------------------------
(***************************************************************************)
(* For any number of processes and keys, and whatever the nodes answer: a  *)
(* transaction is journalled before it is sent, one transaction is ever    *)
(* sent for a key, no row is lost and none tells a lie.                    *)
(***************************************************************************)
EXTENDS EvmSigner, FiniteSetTheorems, TLAPS

USE EvmAssumption, RowAssumption

-----------------------------------------------------------------------------
(* How the chain may move under the journal. *)

\* The nodes only ever get a transaction of a process's own, and whatever is
\* mined stays mined.
ChainGrows(p) ==
    /\ pool' \subseteq pool \cup {Own(p)}
    /\ mined' = mined /\ reverted' = reverted

\* A process that leaves send() takes nothing with it but the flock, and tells
\* its caller of its own transaction or of none.
LEMMA LeaveKeeps ==
    ASSUME JournalInv, NEW p \in Procs, pc[p] # "idle", Leave(p), journal' = journal,
           \/ reported' = reported
           \/ pc[p] = "reconciling" /\ reported' \subseteq reported \cup {Own(p)},
           \/ pool' = pool /\ UNCHANGED <<mined, reverted>>
           \/ pc[p] \in {"broadcasting", "reconciling"} /\ ChainGrows(p)
    PROVE  JournalInv'
<1> USE DEF JournalInv, Leave, Release, chainVars
<1>1. key[p] \in Keys /\ row[p] \in Row /\ Own(p) \in Tx
  BY DEF TypeOK, RowFollowsStep, Own, Tx, Row
<1>2. TypeOK'
  BY <1>1 DEF TypeOK, Steps, Journals, Blank, NoRow, Row, Statuses, ChainGrows, Own, Tx
<1>3. LockProtects'
  BY DEF LockProtects, TypeOK, LockSteps
<1>4. RowFollowsStep'
  BY DEF RowFollowsStep, TypeOK, NoRow, Row
<1>5. OutcomeIsTrue'
  BY DEF OutcomeIsTrue, TypeOK, NoRow, Own, ChainGrows
<1>6. JournalledBeforeSent'
  BY <1>1 DEF JournalledBeforeSent, RowFollowsStep, ChainGrows, Own
<1>7. RowsTellTheTruth'
  BY DEF RowsTellTheTruth, ChainGrows
<1> QED  BY <1>2, <1>3, <1>4, <1>5, <1>6, <1>7

\* Nothing is on file, in a pool or under way at the start.
LEMMA InitJournal == Init => JournalInv
  BY DEF Init, JournalInv, TypeOK, Journals, Blank, NoRow, Row, Statuses, Steps, LockProtects, LockSteps,
         RowFollowsStep, OutcomeIsTrue, JournalledBeforeSent, RowsTellTheTruth, Signed

\* A process that goes on with the same key keeps the invariant when what its
\* new step asks of it holds, and the others see nothing of it.
LEMMA StepKeeps ==
    ASSUME JournalInv, NEW p \in Procs, pc[p] # "idle",
           Goto(p, pc'[p]), pc'[p] \in Steps \ {"idle"}, journal' = journal, UNCHANGED chainVars,
           row' = [row EXCEPT ![p] = row'[p]], row'[p] \in Row,
           snap' = [snap EXCEPT ![p] = snap'[p]], snap'[p] \in Journals,
           \/ lock' = lock
           \/ lock = NoProc /\ lock' = p
           \/ lock = p /\ lock' = NoProc,
           pc'[p] \in LockSteps => lock' = p,
           pc'[p] \in {"marking", "saving", "closing"} => snap'[p] = journal,
           pc'[p] = "marking" => journal[key[p]] = Absent,
           pc'[p] \in {"marked", "signing", "saving"} => journal[key[p]] = Signing,
           pc'[p] \in {"broadcasting", "awaiting", "recording", "closing", "reconciling"} =>
               Signed(journal[key[p]]) /\ journal[key[p]].nonce = row'[p].nonce,
           pc'[p] \in {"signing", "saving", "recording", "closing"} =>
               LET t == [key |-> key[p], nonce |-> row'[p].nonce] IN
               /\ row'[p].status = "confirmed" => t \in mined \ reverted
               /\ row'[p].status = "failed" => t \in reverted,
           reported' = reported
    PROVE  JournalInv'
<1> USE DEF JournalInv, Goto, chainVars
<1>1. TypeOK'
  BY DEF TypeOK
<1>2. LockProtects'
  BY DEF LockProtects, TypeOK, LockSteps
<1>3. RowFollowsStep'
  BY DEF RowFollowsStep, TypeOK
<1>4. OutcomeIsTrue'
  BY DEF OutcomeIsTrue, TypeOK, Own
<1>5. JournalledBeforeSent' /\ RowsTellTheTruth'
  BY DEF JournalledBeforeSent, RowsTellTheTruth
<1> QED  BY <1>1, <1>2, <1>3, <1>4, <1>5

\* What a process has in hand.
LEMMA InHand ==
    ASSUME JournalInv, NEW p \in Procs
    PROVE  /\ pc \in [Procs -> Steps] /\ row \in [Procs -> Row] /\ snap \in [Procs -> Journals]
           /\ row[p] \in Row /\ snap[p] \in Journals
           /\ row = [row EXCEPT ![p] = row[p]] /\ snap = [snap EXCEPT ![p] = snap[p]]
           /\ pc[p] # "idle" => key[p] \in Keys /\ Own(p) \in Tx
           /\ \A k \in Keys : Signed(journal[k]) => journal[k] \in Row
           /\ journal \in Journals
           /\ pc[p] \in LockSteps => lock = p
  BY DEF JournalInv, TypeOK, RowFollowsStep, LockProtects, Own, Tx, Row, Signed, Journals

\* A save under the flock changes one row, which is not signed yet or keeps its
\* nonce; the process that saves goes on, and nobody else is at a load or a save.
LEMMA SaveKeeps ==
    ASSUME JournalInv, NEW p \in Procs, pc[p] \in {"marking", "saving"},
           NEW r \in {Signing, row[p]}, r = (IF pc[p] = "marking" THEN Signing ELSE row[p]),
           journal' = [journal EXCEPT ![key[p]] = r],
           Goto(p, IF pc[p] = "marking" THEN "marked" ELSE "broadcasting"), Keep(p),
           UNCHANGED <<lock, chainVars, reported>>
    PROVE  JournalInv'
<1> USE DEF JournalInv, Goto, Keep, chainVars
<1>1. /\ key[p] \in Keys /\ row[p] \in Row /\ lock = p
      /\ ~Signed(journal[key[p]])
  BY InHand DEF RowFollowsStep, Signed, LockSteps
<1>2. TypeOK'
  BY <1>1 DEF TypeOK, Journals, Steps
<1>3. LockProtects'
  BY <1>1 DEF LockProtects, TypeOK, LockSteps
<1>4. RowFollowsStep'
  <2>1. ASSUME NEW q \in Procs, q # p, pc[q] \in {"marking", "marked", "signing", "saving",
               "broadcasting", "awaiting", "recording", "closing", "reconciling"}
        PROVE  key[q] # key[p]
    BY <2>1, <1>1 DEF LockProtects, LockSteps, RowFollowsStep, TypeOK
  <2> QED
    BY <1>1, <2>1 DEF RowFollowsStep, TypeOK, Journals, Signed
<1>5. OutcomeIsTrue'
  BY DEF OutcomeIsTrue, TypeOK, Own
<1>6. JournalledBeforeSent' /\ RowsTellTheTruth'
  BY <1>1 DEF JournalledBeforeSent, RowsTellTheTruth, TypeOK, Journals, Signed, Tx,
              OutcomeIsTrue, Own
<1> QED  BY <1>2, <1>3, <1>4, <1>5, <1>6

\* The last save replaces the row of a transaction by the same one with its
\* outcome, and the process leaves.
LEMMA CloseKeeps ==
    ASSUME JournalInv, NEW p \in Procs, pc[p] = "closing", Close(p)
    PROVE  JournalInv'
<1> USE DEF JournalInv, Close, Return, Leave, Release, chainVars
<1>1. /\ key[p] \in Keys /\ row[p] \in Row /\ lock = p /\ Own(p) \in Tx
      /\ Signed(journal[key[p]]) /\ journal[key[p]].nonce = row[p].nonce
      /\ journal' = [journal EXCEPT ![key[p]] = row[p]]
  BY InHand DEF RowFollowsStep, LockProtects, LockSteps
<1>2. TypeOK'
  <2>1. journal' \in Journals /\ Blank \in Journals /\ NoRow \in Row
    BY <1>1 DEF TypeOK, Journals, Blank, NoRow, Row, Statuses
  <2>2. reported' \subseteq Tx /\ "idle" \in Steps
    BY <1>1 DEF TypeOK, Steps
  <2> QED  BY <2>1, <2>2 DEF TypeOK
<1>3. LockProtects'
  BY <1>1 DEF LockProtects, TypeOK, LockSteps
<1>4. RowFollowsStep'
  BY <1>1 DEF RowFollowsStep, TypeOK, Journals, Signed, LockProtects, LockSteps
<1>5. OutcomeIsTrue'
  BY DEF OutcomeIsTrue, TypeOK, Own, NoRow
<1>6. JournalledBeforeSent'
  <2>1. /\ reported' \subseteq reported \cup {Own(p)}
        /\ journal'[key[p]] = row[p] /\ Signed(row[p])
    BY <1>1 DEF TypeOK, Journals, Signed
  <2> QED  BY <1>1, <2>1 DEF JournalledBeforeSent, TypeOK, Journals, Signed, Tx, Own
<1>7. RowsTellTheTruth'
  BY <1>1 DEF RowsTellTheTruth, TypeOK, Journals, Signed, OutcomeIsTrue, Own
<1> QED  BY <1>2, <1>3, <1>4, <1>5, <1>6, <1>7

-----------------------------------------------------------------------------
(* The induction. *)

LEMMA NextJournal == JournalInv /\ [Next]_vars => JournalInv'
<1> SUFFICES ASSUME JournalInv, [Next]_vars PROVE JournalInv'
  OBVIOUS
<1> USE DEF Steps
<1>1. ASSUME NEW p \in Procs, NEW k \in Keys, Call(p, k) PROVE JournalInv'
  BY <1>1 DEF Call, JournalInv, TypeOK, LockProtects, LockSteps, RowFollowsStep, OutcomeIsTrue, Own,
              JournalledBeforeSent, RowsTellTheTruth, chainVars
<1>2. ASSUME NEW p \in Procs, FastCheck(p) PROVE JournalInv'
  <2>1. CASE Follow(p)
    BY <1>2, <2>1, InHand, StepKeeps DEF FastCheck, Follow, LockSteps, Goto, chainVars
  <2>2. CASE Leave(p)
    BY <1>2, <2>2, LeaveKeeps DEF FastCheck, JournalInv, TypeOK, chainVars
  <2>3. CASE Goto(p, "entering") /\ Keep(p) /\ UNCHANGED lock
    BY <1>2, <2>3, InHand, StepKeeps DEF FastCheck, Keep, LockSteps, Goto, chainVars
  <2> QED  BY <1>2, <2>1, <2>2, <2>3 DEF FastCheck
<1>3. ASSUME NEW p \in Procs, Enter(p) PROVE JournalInv'
  BY <1>3, InHand, StepKeeps DEF Enter, Keep, LockSteps, Goto, chainVars
<1>4. ASSUME NEW p \in Procs, Refuse(p) PROVE JournalInv'
  BY <1>4, LeaveKeeps DEF Refuse, JournalInv, TypeOK, chainVars
<1>5. ASSUME NEW p \in Procs, Look(p) PROVE JournalInv'
  <2>1. CASE Follow(p)
    BY <1>5, <2>1, InHand, StepKeeps DEF Look, Follow, LockSteps, Goto, chainVars
  <2>2. CASE Leave(p)
    BY <1>5, <2>2, LeaveKeeps DEF Look, JournalInv, TypeOK, chainVars
  <2>3. CASE /\ journal[key[p]] = Absent /\ snap' = [snap EXCEPT ![p] = journal]
             /\ Goto(p, "marking") /\ UNCHANGED <<lock, row>>
    BY <1>5, <2>3, InHand, StepKeeps DEF Look, LockSteps, Goto, chainVars
  <2> QED  BY <1>5, <2>1, <2>2, <2>3 DEF Look
<1>6. ASSUME NEW p \in Procs, Mark(p) PROVE JournalInv'
  BY <1>6, SaveKeeps DEF Mark, JournalInv, LockProtects
<1>7. ASSUME NEW p \in Procs, ReadNonce(p) PROVE JournalInv'
  <2>1. PICK n \in NonceViews : row' = [row EXCEPT ![p] = [nonce |-> n, status |-> "signed"]]
    BY <1>7 DEF ReadNonce
  <2>2. [nonce |-> n, status |-> "signed"] \in Row
    BY DEF NonceViews, Row, Statuses
  <2>3. journal[key[p]] = Signing
    BY <1>7 DEF ReadNonce, JournalInv, RowFollowsStep
  <2> QED  BY <1>7, <2>1, <2>2, <2>3, InHand, StepKeeps DEF ReadNonce, LockSteps, Goto, chainVars
<1>8. ASSUME NEW p \in Procs, LoadToSign(p) PROVE JournalInv'
  <2>1. journal[key[p]] = Signing
    BY <1>8 DEF LoadToSign, JournalInv, RowFollowsStep
  <2>2. /\ row[p].status = "confirmed" => Own(p) \in mined \ reverted
        /\ row[p].status = "failed" => Own(p) \in reverted
    BY <1>8 DEF LoadToSign, JournalInv, OutcomeIsTrue
  <2> QED  BY <1>8, <2>1, <2>2, InHand, StepKeeps DEF LoadToSign, LockSteps, Own, Goto, chainVars
<1>9. ASSUME NEW p \in Procs, SaveSigned(p) PROVE JournalInv'
  BY <1>9, SaveKeeps DEF SaveSigned, JournalInv, LockProtects
<1>10. ASSUME NEW p \in Procs, Broadcast(p) PROVE JournalInv'
  <2>1. CASE Leave(p)
    <3>1. ChainGrows(p) \/ (pool' = pool /\ UNCHANGED <<mined, reverted>>)
      BY <1>10, <2>1 DEF Broadcast, Accept, Benign, ChainGrows
    <3> QED  BY <1>10, <2>1, <3>1, LeaveKeeps DEF Broadcast, JournalInv, TypeOK, Keep
  <2>2. CASE Goto(p, "awaiting") /\ Release(p) /\ Keep(p)
    <3>1. pool' \subseteq pool \cup {Own(p)}
      BY <1>10, <2>2 DEF Broadcast, Accept, Benign
    <3>2. /\ key[p] \in Keys /\ Own(p) \in Tx /\ lock = p
          /\ Signed(journal[key[p]]) /\ journal[key[p]].nonce = row[p].nonce
      BY <1>10, InHand DEF Broadcast, JournalInv, RowFollowsStep, LockSteps
    <3> USE <1>10, <2>2, <3>1, <3>2 DEF Broadcast, JournalInv, Goto, Release, Keep
    <3>3. TypeOK'
      BY DEF TypeOK
    <3>4. LockProtects'
      BY DEF LockProtects, TypeOK, LockSteps
    <3>5. RowFollowsStep'
      BY DEF RowFollowsStep, TypeOK
    <3>6. OutcomeIsTrue'
      BY DEF OutcomeIsTrue, TypeOK, Own
    <3>7. JournalledBeforeSent' /\ RowsTellTheTruth'
      BY DEF JournalledBeforeSent, RowsTellTheTruth, Own
    <3> QED  BY <3>3, <3>4, <3>5, <3>6, <3>7
  <2> QED  BY <1>10, <2>1, <2>2 DEF Broadcast
<1>11. ASSUME NEW p \in Procs, AwaitReceipt(p) PROVE JournalInv'
  <2>1. PICK s \in {"submitted", Outcome(Own(p))} : row' = [row EXCEPT ![p] = [nonce |-> @.nonce, status |-> s]]
    BY <1>11 DEF AwaitReceipt
  <2>2. row'[p] \in Row /\ row'[p].nonce = row[p].nonce /\ row'[p].status = s
        /\ row' = [row EXCEPT ![p] = row'[p]]
    BY <2>1, InHand DEF Row, Statuses, Outcome, JournalInv, TypeOK
  <2>3. /\ s = "confirmed" => Own(p) \in mined \ reverted
        /\ s = "failed" => Own(p) \in reverted
    BY <2>1 DEF Outcome
  <2>4. Signed(journal[key[p]]) /\ journal[key[p]].nonce = row[p].nonce
    BY <1>11 DEF AwaitReceipt, JournalInv, RowFollowsStep
  <2> QED  BY <1>11, <2>2, <2>3, <2>4, InHand, StepKeeps DEF AwaitReceipt, LockSteps, Own, Goto, chainVars
<1>12. ASSUME NEW p \in Procs, EnterToRecord(p) PROVE JournalInv'
  <2>1. /\ Signed(journal[key[p]]) /\ journal[key[p]].nonce = row[p].nonce
        /\ row[p].status = "confirmed" => Own(p) \in mined \ reverted
        /\ row[p].status = "failed" => Own(p) \in reverted
    BY <1>12 DEF EnterToRecord, JournalInv, RowFollowsStep, OutcomeIsTrue
  <2> QED  BY <1>12, <2>1, InHand, StepKeeps DEF EnterToRecord, LockSteps, Own, Goto, chainVars
<1>13. ASSUME NEW p \in Procs, Close(p) PROVE JournalInv'
  BY <1>13, CloseKeeps DEF Close
<1>14. ASSUME NEW p \in Procs, Reconcile(p) PROVE JournalInv'
  <2>1. /\ Leave(p)
        /\ ChainGrows(p) \/ pool' = pool
        /\ reported' \subseteq reported \cup {Own(p)}
    BY <1>14 DEF Reconcile, Return, Accept, ChainGrows
  <2> QED  BY <1>14, <2>1, InHand, LeaveKeeps DEF Reconcile, JournalInv, TypeOK, ChainGrows
<1>15. ASSUME NEW p \in Procs, Crash(p) PROVE JournalInv'
  BY <1>15, LeaveKeeps DEF Crash, JournalInv, TypeOK, chainVars
<1>16. ASSUME NEW t \in pool, Mine(t) PROVE JournalInv'
  <2>1. t \in Tx /\ pool' \subseteq pool /\ mined' = mined \cup {t}
    BY <1>16 DEF Mine, JournalInv, TypeOK
  <2>2. t.nonce = NextNonce
    BY <1>16 DEF Mine
  <2> QED
    BY <1>16, <2>1 DEF Mine, JournalInv, TypeOK, LockProtects, RowFollowsStep, OutcomeIsTrue, Own,
              JournalledBeforeSent, RowsTellTheTruth, procVars
<1>17. ASSUME NEW t \in pool, Evict(t) PROVE JournalInv'
  BY <1>17 DEF Evict, JournalInv, TypeOK, LockProtects, RowFollowsStep, OutcomeIsTrue, Own,
              JournalledBeforeSent, RowsTellTheTruth, procVars
<1>18. CASE UNCHANGED vars
  BY <1>18 DEF vars, chainVars, procVars, JournalInv, TypeOK, LockProtects, RowFollowsStep,
              OutcomeIsTrue, Own, JournalledBeforeSent, RowsTellTheTruth
<1> QED
  BY <1>1, <1>2, <1>3, <1>4, <1>5, <1>6, <1>7, <1>8, <1>9, <1>10, <1>11, <1>12, <1>13,
     <1>14, <1>15, <1>16, <1>17, <1>18 DEF Next, Step

-----------------------------------------------------------------------------
(* One process closes a key. *)

\* Steps after which every process that has signed is where it was or further
\* on, with the same row on file.
LEMMA OthersClose ==
    ASSUME ClosesAlone, NEW p \in Procs,
           \A q \in Procs \ {p} : pc'[q] = pc[q] /\ key'[q] = key[q] /\ row'[q] = row[q],
           pc'[p] \in {"signing", "saving"} => row'[p].status = "signed",
           pc'[p] \in SentSteps => pc[p] \in SentSteps /\ key'[p] = key[p],
           \A q \in Procs : pc'[q] \in SentSteps => journal'[key[q]] = journal[key[q]]
    PROVE  ClosesAlone'
  BY DEF ClosesAlone, SentSteps

\* No step lets two processes at the outcome of one key.
LEMMA ClosesAloneStep ==
    ASSUME IInv, [Next]_vars
    PROVE  ClosesAlone'
<1>i. JournalInv /\ ClosesAlone /\ TypeOK /\ journal \in Journals
  BY DEF IInv, JournalInv, TypeOK
<1>f. ASSUME NEW q \in Procs, pc[q] \in SentSteps
      PROVE  Signed(journal[key[q]]) /\ key[q] \in Keys
  BY <1>f, <1>i, InHand DEF JournalInv, RowFollowsStep, SentSteps
<1> USE DEF TypeOK
<1>1. ASSUME NEW p \in Procs, NEW k \in Keys, Call(p, k) PROVE ClosesAlone'
  BY <1>1, <1>i, OthersClose DEF Call, SentSteps
<1>2. ASSUME NEW p \in Procs, Leave(p), journal' = journal PROVE ClosesAlone'
  BY <1>2, <1>i, OthersClose DEF Leave, SentSteps
<1>3. ASSUME NEW p \in Procs, Goto(p, pc'[p]), journal' = journal,
             pc'[p] \in {"entering", "inside", "marking", "reconciling"},
             \A q \in Procs \ {p} : row'[q] = row[q]
      PROVE  ClosesAlone'
  BY <1>3, <1>i, OthersClose DEF Goto, SentSteps
<1>4. ASSUME NEW p \in Procs, FastCheck(p) \/ Look(p) \/ Enter(p) PROVE ClosesAlone'
  BY <1>4, <1>2, <1>3, <1>i DEF FastCheck, Look, Follow, Enter, Goto, Keep
<1>5. ASSUME NEW p \in Procs, Mark(p) PROVE ClosesAlone'
  <2>1. /\ snap[p] = journal /\ ~Signed(journal[key[p]]) /\ key[p] \in Keys
        /\ journal' = [journal EXCEPT ![key[p]] = Signing]
    BY <1>5, <1>i, InHand DEF Mark, JournalInv, LockProtects, RowFollowsStep, Signed
  <2>2. \A q \in Procs : pc[q] \in SentSteps => journal'[key[q]] = journal[key[q]]
    BY <2>1, <1>f, <1>i DEF Journals
  <2> QED  BY <2>2, <1>5, <1>i, OthersClose DEF Mark, Goto, Keep, SentSteps
<1>6. ASSUME NEW p \in Procs, ReadNonce(p) \/ LoadToSign(p) PROVE ClosesAlone'
  <2>1. row'[p].status = "signed"
    BY <1>6, <1>i DEF ReadNonce, LoadToSign, ClosesAlone
  <2> QED
    BY <2>1, <1>6, <1>i, OthersClose DEF ReadNonce, LoadToSign, Goto, SentSteps
<1>7. ASSUME NEW p \in Procs, SaveSigned(p) PROVE ClosesAlone'
  <2>1. /\ snap[p] = journal /\ ~Signed(journal[key[p]]) /\ key[p] \in Keys
        /\ journal' = [journal EXCEPT ![key[p]] = row[p]] /\ row[p].status = "signed"
    BY <1>7, <1>i, InHand
    DEF SaveSigned, JournalInv, LockProtects, RowFollowsStep, Signed, ClosesAlone
  <2>2. \A q \in Procs : pc[q] \in SentSteps =>
            key[q] # key[p] /\ journal'[key[q]] = journal[key[q]]
    BY <2>1, <1>f, <1>i DEF Journals
  <2>3. journal'[key[p]].status = "signed"
    BY <2>1, <1>i DEF Journals
  <2> QED
    BY <2>2, <2>3, <1>7, <1>i DEF SaveSigned, Goto, Keep, SentSteps, ClosesAlone
<1>8. ASSUME NEW p \in Procs, Broadcast(p) PROVE ClosesAlone'
  BY <1>8, <1>2, <1>i, OthersClose DEF Broadcast, Goto, Keep, SentSteps
<1>9. ASSUME NEW p \in Procs, AwaitReceipt(p) \/ EnterToRecord(p) PROVE ClosesAlone'
  BY <1>9, <1>i, OthersClose DEF AwaitReceipt, EnterToRecord, Goto, SentSteps
<1>10. ASSUME NEW p \in Procs, Close(p) PROVE ClosesAlone'
  <2>1. /\ snap[p] = journal /\ key[p] \in Keys /\ pc[p] \in SentSteps /\ Leave(p)
        /\ journal' = [journal EXCEPT ![key[p]] = row[p]]
    BY <1>10, <1>i, InHand DEF Close, Return, JournalInv, LockProtects, SentSteps
  <2>2. \A q \in Procs \ {p} : pc[q] \in SentSteps => journal'[key[q]] = journal[key[q]]
    BY <2>1, <1>f, <1>i DEF Journals, ClosesAlone
  <2> QED  BY <2>1, <2>2, <1>i, OthersClose DEF Leave, SentSteps
<1>11. ASSUME NEW p \in Procs, Refuse(p) \/ Reconcile(p) \/ Crash(p) PROVE ClosesAlone'
  BY <1>11, <1>2 DEF Refuse, Reconcile, Return, Crash
<1>12. ASSUME UNCHANGED <<journal, procVars>> PROVE ClosesAlone'
  BY <1>12, <1>i DEF procVars, ClosesAlone
<1> QED
  BY <1>1, <1>4, <1>5, <1>6, <1>7, <1>8, <1>9, <1>10, <1>11, <1>12
  DEF Next, Step, Mine, Evict, vars

\* Nobody has signed anything at the start.
LEMMA InitIInv == Init => IInv
<1>1. Init => ClosesAlone
  BY DEF Init, ClosesAlone, SentSteps
<1> QED  BY <1>1, InitJournal DEF IInv

LEMMA NextIInv == IInv /\ [Next]_vars => IInv'
  BY NextJournal, ClosesAloneStep DEF IInv

-----------------------------------------------------------------------------
(* The theorems. *)

\* The invariant holds always.
THEOREM AlwaysIInv == Spec => []IInv
  BY InitIInv, NextIInv, PTL DEF Spec

\* A transaction the nodes have is on file with its nonce.
THEOREM JournalComesFirst == Spec => []JournalledBeforeSent
<1>1. IInv => JournalledBeforeSent
  BY DEF IInv, JournalInv
<1> QED  BY AlwaysIInv, <1>1, PTL

\* At most one transaction is ever sent for a key.
THEOREM TransfersAreUnique == Spec => []OneTransferPerKey
<1>1. IInv => OneTransferPerKey
  BY DEF IInv, JournalInv, TypeOK, JournalledBeforeSent, OneTransferPerKey, Tx
<1> QED  BY AlwaysIInv, <1>1, PTL

\* Confirmed and failed on file are so on chain.
THEOREM JournalIsTrue == Spec => []RowsTellTheTruth
<1>1. IInv => RowsTellTheTruth
  BY DEF IInv, JournalInv
<1> QED  BY AlwaysIInv, <1>1, PTL

\* No save loses a claim or a signed transaction, and none is signed again: each
\* save is of a file nobody else has changed since it was loaded.
THEOREM NothingIsLost == Spec => RowsAreNeverLost
<1> DEFINE Kept == \A k \in Keys :
        /\ journal[k] = Signing => journal'[k] # Absent
        /\ Signed(journal[k]) =>
             Signed(journal'[k]) /\ journal'[k].nonce = journal[k].nonce
<1>1. IInv /\ [Next]_vars => [Kept]_vars
  <2> SUFFICES ASSUME JournalInv, Next PROVE Kept
    BY DEF IInv, vars, chainVars, procVars
  <2>1. ASSUME journal' = journal PROVE Kept
    BY <2>1
  <2>2. ASSUME NEW p \in Procs, pc[p] \in {"marking", "saving", "closing"},
               NEW r, r = Signing \/ r = row[p], r = Signing => pc[p] = "marking",
               journal' = [snap[p] EXCEPT ![key[p]] = r]
        PROVE  Kept
    <3>1. key[p] \in Keys /\ row[p] \in Row /\ journal \in Journals /\ snap[p] = journal
      BY <2>2, InHand DEF JournalInv, LockProtects
    <3>2. /\ pc[p] = "marking" => journal[key[p]] = Absent
          /\ pc[p] = "saving" => journal[key[p]] = Signing
          /\ pc[p] = "closing" => journal[key[p]].nonce = row[p].nonce
      BY <2>2 DEF JournalInv, RowFollowsStep
    <3>3. row[p] \notin {Absent, Signing}
      BY <3>1
    <3> QED  BY <2>2, <3>1, <3>2, <3>3 DEF Journals, Signed
  <2>3. ASSUME NEW p \in Procs, Mark(p) \/ SaveSigned(p) \/ Close(p) PROVE Kept
    <3>1. CASE Mark(p)
      <4>1. pc[p] = "marking" /\ journal' = [snap[p] EXCEPT ![key[p]] = Signing]
        BY <3>1 DEF Mark
      <4> QED  BY <4>1, <2>2
    <3>2. CASE SaveSigned(p) \/ Close(p)
      <4>1. pc[p] \in {"saving", "closing"} /\ journal' = [snap[p] EXCEPT ![key[p]] = row[p]]
        BY <3>2 DEF SaveSigned, Close
      <4>2. row[p] # Signing
        BY InHand
      <4> QED  BY <4>1, <4>2, <2>2
    <3> QED  BY <2>3, <3>1, <3>2
  <2> QED
    BY <2>1, <2>3 DEF Next, Step, Call, FastCheck, Enter, Refuse, Look, ReadNonce, LoadToSign,
       Broadcast, AwaitReceipt, EnterToRecord, Reconcile, Crash, Mine, Evict
<1> QED  BY AlwaysIInv, <1>1, PTL DEF RowsAreNeverLost, Spec
-----------------------------------------------------------------------------
(* The promise of PayOnce. *)

MinedFor(k) == {t \in mined : t.key = k}

\* No key is claimed and nothing is mined at the start.
LEMMA PromiseInit == Init => Promise!Init
<1> SUFFICES ASSUME Init PROVE Promise!Init
  OBVIOUS
<1>1. \A k \in Keys : journal[k] = Absent /\ MinedFor(k) = {}
  BY DEF Init, Blank, MinedFor
<1>2. Cardinality({}) = 0
  BY FS_EmptySet
<1> QED  BY <1>1, <1>2 DEF Promise!Init, MinedFor

\* A mined transaction is the first of its key, and the key was claimed before.
LEMMA MiningPays ==
    ASSUME IInv, NEW t \in pool, Mine(t)
    PROVE  Promise!Next
<1>1. t \in Tx /\ t.key \in Keys /\ Signed(journal[t.key]) /\ journal[t.key] # Absent
  BY DEF IInv, JournalInv, TypeOK, Tx, JournalledBeforeSent, Signed
<1>2. MinedFor(t.key) = {}
  <2>1. OneTransferPerKey
    BY DEF IInv, JournalInv, TypeOK, JournalledBeforeSent, OneTransferPerKey, Tx
  <2> QED  BY <2>1 DEF OneTransferPerKey, Mine, MinedFor
<1>3. /\ mined' = mined \cup {t} /\ journal' = journal
      /\ {s \in mined' : s.key = t.key} = {t}
      /\ \A k \in Keys \ {t.key} : {s \in mined' : s.key = k} = MinedFor(k)
  BY <1>2 DEF Mine, MinedFor
<1>4. Cardinality({}) = 0 /\ Cardinality({t}) = 1
  BY FS_EmptySet, FS_Singleton
<1>5. /\ Cardinality({s \in mined : s.key = t.key}) = 0
      /\ Cardinality({s \in mined' : s.key = t.key}) = 1
      /\ \A k \in Keys \ {t.key} :
           Cardinality({s \in mined' : s.key = k}) = Cardinality({s \in mined : s.key = k})
  BY <1>2, <1>3, <1>4 DEF MinedFor
<1>6. PICK k \in Keys : k = t.key
  BY <1>1
<1> DEFINE C(j) == Cardinality({s \in mined : s.key = j})
<1>7. [j \in Keys |-> C(j)]' = [[j \in Keys |-> C(j)] EXCEPT ![k] = 1]
  <2>1. /\ C(k)' = 1
        /\ \A j \in Keys \ {k} : C(j)' = C(j)
    BY <1>5, <1>6
  <2> HIDE DEF C
  <2> QED  BY <2>1
<1>8. Promise!Pay(k)
  BY <1>1, <1>3, <1>5, <1>6, <1>7 DEF Promise!Pay, Signed
<1> QED  BY <1>8 DEF Promise!Next

\* A save claims a key, gives it its transaction or settles it; none unsettles it.
LEMMA SavingOwesOrSettles ==
    ASSUME IInv, NEW p \in Procs, Mark(p) \/ SaveSigned(p) \/ Close(p)
    PROVE  [Promise!Next]_(Promise!vars)
<1>i. /\ JournalInv /\ ClosesAlone /\ journal \in Journals /\ pc[p] # "idle"
      /\ UNCHANGED mined
  BY DEF IInv, JournalInv, TypeOK, Mark, SaveSigned, Close, chainVars
<1>k. key[p] \in Keys /\ snap[p] = journal /\ row[p] \in Row
  BY <1>i, InHand DEF Mark, SaveSigned, Close, JournalInv, LockProtects
<1>o. PICK k \in Keys : k = key[p]
  BY <1>k
<1>1. CASE Mark(p)
  <2>1. journal[k] = Absent /\ journal' = [journal EXCEPT ![k] = Signing]
    BY <1>1, <1>i, <1>k, <1>o DEF Mark, JournalInv, RowFollowsStep
  <2>2. Promise!Owe(k)
    BY <2>1, <1>i, <1>k DEF Promise!Owe, Journals, Signed
  <2> QED  BY <2>2 DEF Promise!Next
<1>2. CASE SaveSigned(p)
  <2>1. /\ journal[k] = Signing /\ row[p].status = "signed"
        /\ journal' = [journal EXCEPT ![k] = row[p]]
    BY <1>2, <1>i, <1>k, <1>o DEF SaveSigned, JournalInv, RowFollowsStep, ClosesAlone
  <2>2. UNCHANGED Promise!vars
    BY <2>1, <1>i, <1>k DEF Promise!vars, Journals, Signed
  <2> QED  BY <2>2
<1>3. CASE Close(p)
  <2>1. /\ Signed(journal[k]) /\ journal[k].status = "signed"
        /\ journal' = [journal EXCEPT ![k] = row[p]] /\ Signed(row[p])
    BY <1>3, <1>i, <1>k, <1>o
    DEF Close, JournalInv, RowFollowsStep, ClosesAlone, SentSteps, Signed
  <2>2. CASE row[p].status = "confirmed"
    <3>1. Promise!Settle(k)
      BY <2>1, <2>2, <1>i, <1>k DEF Promise!Settle, Journals, Signed
    <3> QED  BY <3>1 DEF Promise!Next
  <2>3. CASE row[p].status # "confirmed"
    <3>1. UNCHANGED Promise!vars
      BY <2>1, <2>3, <1>i, <1>k DEF Promise!vars, Journals, Signed
    <3> QED  BY <3>1
  <2> QED  BY <2>2, <2>3
<1> QED  BY <1>1, <1>2, <1>3

\* The wallet keeps the promise of PayOnce for its keys: a key is claimed before
\* its transaction can be mined, one is mined for it at most, and a key that was
\* closed as confirmed stays so, whoever else is called with it.
THEOREM WalletKeepsPromise == Spec => KeepsPromise
<1>1. Init => Promise!Init
  BY PromiseInit
<1>2. IInv /\ [Next]_vars => [Promise!Next]_(Promise!vars)
  <2> SUFFICES ASSUME IInv, [Next]_vars PROVE [Promise!Next]_(Promise!vars)
    OBVIOUS
  <2>1. ASSUME UNCHANGED <<journal, mined>> PROVE UNCHANGED Promise!vars
    BY <2>1 DEF Promise!vars
  <2>2. ASSUME NEW p \in Procs, Step(p), ~(Mark(p) \/ SaveSigned(p) \/ Close(p))
        PROVE  UNCHANGED <<journal, mined>>
    BY <2>2 DEF Step, FastCheck, Enter, Refuse, Look, ReadNonce, LoadToSign, Broadcast,
       AwaitReceipt, EnterToRecord, Reconcile, chainVars
  <2>3. ASSUME \/ \E p \in Procs : (\E k \in Keys : Call(p, k)) \/ Crash(p)
               \/ \E t \in pool : Evict(t)
               \/ UNCHANGED vars
        PROVE  UNCHANGED <<journal, mined>>
    BY <2>3 DEF Call, Crash, Evict, vars, chainVars
  <2> QED  BY <2>1, <2>2, <2>3, MiningPays, SavingOwesOrSettles DEF Next
<1> QED  BY <1>1, <1>2, AlwaysIInv, PTL DEF Spec, KeepsPromise, Promise!Spec
=============================================================================
