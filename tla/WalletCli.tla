-------------------------------- MODULE WalletCli ------------------------------
(***************************************************************************)
(* The operator's wallet command line (relay/wallet/btc_cli.py, transfer)  *)
(* beside the payout worker.  It runs the same send() in another process,  *)
(* under a key of its own that no order has, on the same sends file.       *)
(***************************************************************************)
EXTENDS PayoutWorker

VARIABLES
    cli,     \* "out" of send()'s load-and-save sections, or "in" one
    cliSnap  \* the sends file as the CLI loaded it

cliVars == <<cli, cliSnap>>

InitWithCli ==
    /\ Init
    /\ cli = "out"
    /\ cliSnap = EmptyLedger

CliLoad ==
    /\ cli = "out"
    /\ cli' = "in"
    /\ cliSnap' = ledger
    /\ UNCHANGED vars

\* _save_sends: only the CLI's own row differs from what it had loaded.
CliSave ==
    /\ cli = "in"
    /\ cli' = "out"
    /\ cliSnap' = EmptyLedger
    /\ ledger' = cliSnap
    /\ UNCHANGED <<storeVars, chain, workerVars, requeue>>

NextWithCli == (Next /\ UNCHANGED cliVars) \/ CliLoad \/ CliSave

SpecWithCli == InitWithCli /\ [][NextWithCli]_<<vars, cliVars>>

\* The workers of FairSpec beside it; nobody has to use the command line.
FairWithCli == SpecWithCli /\ \A w \in Workers : WF_vars(WorkerStep(w))
=============================================================================
