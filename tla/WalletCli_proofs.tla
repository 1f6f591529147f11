--------------------------- MODULE WalletCli_proofs ----------------------------
(***************************************************************************)
(* What outlives the lost updates of the sends file, for any orders,       *)
(* workers and administrators, when the wallet command line writes it      *)
(* beside the payout worker: claims, debts and settlements do.  That a key *)
(* is absent only if it was never sent, and with it the single payment, do *)
(* not: AbsentNeverSent is violated by the run wallet_cli_lost_update.     *)
(***************************************************************************)
EXTENDS WalletCli, PayoutWorker_proofs

USE StoreAssumption, WalletAssumption, WorkerAssumption

\* The copy of the file in the command line's hands is as good as a worker's:
\* whatever txHash it carries is that of a transfer that pays its key's debt.
CliInv ==
    /\ DebtInv
    /\ cliSnap \in Ledgers
    /\ \A o \in Orders : HasTx(cliSnap, o) => Pays(cliSnap[o], o)

LEMMA CliInit == InitWithCli => CliInv
<1> SUFFICES ASSUME InitWithCli PROVE CliInv
  OBVIOUS
<1>1. DebtInv
  BY DebtInit DEF InitWithCli
<1>2. /\ cliSnap \in Ledgers
      /\ \A o \in Orders : ~HasTx(cliSnap, o)
  BY DEF InitWithCli, Ledgers, EmptyLedger, HasTx, Marks
<1> QED  BY <1>1, <1>2 DEF CliInv

\* A step of the pipeline changes no debt, so the copy goes on paying.
LEMMA CliWaits ==
    ASSUME CliInv, [Next]_vars, UNCHANGED cliVars
    PROVE  CliInv'
<1>1. DebtInv' /\ ClaimInv
  BY DebtStep DEF CliInv, DebtInv
<1>2. cliSnap' = cliSnap
  BY DEF cliVars
<1>3. ASSUME NEW o \in Orders, HasTx(cliSnap, o)
      PROVE  Dest[cliSnap[o].order] = Dest[o] /\ cliSnap[o].amount = amount'[o]
  <2>1. cliSnap[o] \in Tx /\ Pays(cliSnap[o], o)
    BY <1>3 DEF CliInv, HasTx
  <2> QED  BY <1>1, <2>1, PaysStays
<1>4. \A o \in Orders : HasTx(cliSnap, o)' => Pays(cliSnap[o], o)'
  BY <1>2, <1>3 DEF HasTx, Pays
<1> QED  BY <1>1, <1>2, <1>4 DEF CliInv

\* The command line loads what is on file.
LEMMA CliLoads == CliInv /\ CliLoad => CliInv'
<1> SUFFICES ASSUME CliInv, CliLoad PROVE CliInv'
  OBVIOUS
<1>1. UNCHANGED vars /\ cliSnap' = ledger
  BY DEF CliLoad
<1>2. DebtInv'
  BY <1>1, DebtStep DEF CliInv
<1>3. cliSnap' \in Ledgers
  BY <1>1 DEF CliInv, DebtInv, ClaimInv, TypeOK, WalletTypeOK
<1>4. \A o \in Orders : HasTx(cliSnap, o)' => Pays(cliSnap[o], o)'
  BY <1>1 DEF CliInv, DebtInv, NamesItsDebt, HasTx, Pays, vars, storeVars
<1> QED  BY <1>2, <1>3, <1>4 DEF CliInv

\* What it saves may undo a worker's rows; those it brings back still pay.
LEMMA CliSaves == CliInv /\ CliSave => CliInv'
<1> SUFFICES ASSUME CliInv, CliSave PROVE CliInv'
  OBVIOUS
<1> USE DEF CliInv, DebtInv
<1>1. /\ ledger' = cliSnap /\ cliSnap' = EmptyLedger
      /\ UNCHANGED <<storeVars, chain, workerVars, requeue>>
  BY DEF CliSave
<1>2. ClaimInv'
  BY <1>1 DEF ClaimInv, TypeOK, StoreTypeOK, WalletTypeOK, DebtRecorded, HoldsClaim,
              OneSignerPerOrder, storeVars, workerVars
<1>3. SettledByItsDebt'
  BY <1>1 DEF SettledByItsDebt, Pays, storeVars
<1>4. NamesItsDebt'
  BY <1>1 DEF NamesItsDebt, HasTx, Pays, storeVars, workerVars
<1>5. /\ cliSnap' \in Ledgers
      /\ \A o \in Orders : ~HasTx(cliSnap, o)'
  BY <1>1 DEF Ledgers, EmptyLedger, HasTx, Marks
<1> QED  BY <1>2, <1>3, <1>4, <1>5

LEMMA CliStep == CliInv /\ [NextWithCli]_<<vars, cliVars>> => CliInv'
  BY CliWaits, CliLoads, CliSaves DEF NextWithCli

\* Claims, debts and the txids of settled intents stay right, whatever the
\* command line writes over (_save_sends).
THEOREM CliKeepsDebts == SpecWithCli => []DebtInv
<1>1. CliInv => DebtInv
  BY DEF CliInv
<1> QED  BY CliInit, CliStep, <1>1, PTL DEF SpecWithCli

\* Nothing the command line does changes a debt or a settled intent.
THEOREM CliKeepsSettlements == SpecWithCli => DebtIsImmutable /\ SettledIsFinal
<1>1. CliInv /\ [NextWithCli]_<<vars, cliVars>> =>
        [\A o \in Orders : state[o] # "none" => amount'[o] = amount[o]]_vars
  <2> SUFFICES ASSUME CliInv, [NextWithCli]_<<vars, cliVars>>, NEW o \in Orders,
                      state[o] # "none"
               PROVE  amount'[o] = amount[o]
    OBVIOUS
  <2>1. CASE [Next]_vars
    BY <2>1, DebtStays DEF CliInv, DebtInv, ClaimInv, DebtRecorded
  <2>2. CASE CliSave
    BY <2>2 DEF CliSave, storeVars
  <2> QED  BY <2>1, <2>2 DEF NextWithCli, CliLoad
<1>2. CliInv /\ [NextWithCli]_<<vars, cliVars>> =>
        [\A o \in Orders : state[o] = "succeeded" =>
           state'[o] = "succeeded" /\ txid'[o] = txid[o] /\ attempts'[o] = attempts[o]]_vars
  <2> SUFFICES ASSUME CliInv, [NextWithCli]_<<vars, cliVars>>, NEW o \in Orders,
                      state[o] = "succeeded"
               PROVE  state'[o] = "succeeded" /\ txid'[o] = txid[o] /\ attempts'[o] = attempts[o]
    OBVIOUS
  <2>1. CASE [Next]_vars
    BY <2>1, SettledStays DEF CliInv, DebtInv
  <2>2. CASE CliSave
    BY <2>2 DEF CliSave, storeVars
  <2> QED  BY <2>1, <2>2 DEF NextWithCli, CliLoad
<1> QED  BY CliInit, CliStep, <1>1, <1>2, PTL DEF SpecWithCli, DebtIsImmutable, SettledIsFinal
=============================================================================
