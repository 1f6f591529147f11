------------------------------- MODULE SellPayout ------------------------------
(***************************************************************************)
(* The rubles owed for crypto a customer sold: the deposit an order        *)
(* reserves, the claim of the order by an administrator's button, the      *)
(* payout the Vertu rail creates (once per call: the rail knows no         *)
(* idempotency key) and the two readers that carry its outcome back to the *)
(* order, the relay's sweep and the rail's callback.                       *)
(*                                                                         *)
(* The buttons run in the bot, several at a time because the deposit check *)
(* and the payout call leave the event loop; the readers run in the relay. *)
(* Either process may die between any two steps.                           *)
(***************************************************************************)
EXTENDS Naturals, FiniteSets

CONSTANTS
    Sells,       \* sell orders
    ByRail,        \* those whose destination the rail pays; people pay the others
    Deposits,    \* confirmed transfers of the size the orders ask for
    Jobs,        \* administrators' buttons that may run at once
    Readers,     \* "sweep" and "callback", or one of them
    Batch,       \* how many payouts the sweep lists at a time
    MaxPayouts,  \* how many payouts the rail creates
    MaxCrashes   \* how many times the bot or the relay dies

None == 0
Payouts == 1 .. MaxPayouts

ASSUME SellAssumption ==
    /\ ByRail \subseteq Sells
    /\ Sells \subseteq Nat \ {None} /\ None \notin Deposits
    /\ Readers \subseteq {"sweep", "callback"}
    /\ Batch \in Nat \ {0} /\ MaxPayouts \in Nat /\ MaxCrashes \in Nat

VARIABLES
    order,    \* sell_orders: status, tx_hash, payout_ref and payout_status
    aged,     \* orders whose row nobody has written for three days
    rail,     \* the payouts that exist at Vertu
    hand,     \* how many times a person was told to transfer the money
    forced,   \* orders whose deposit check the main administrator skipped
    reopened, \* orders put back by a person, or by a button whose number was lost,
              \* while a payout of theirs existed or was on its way
    job,      \* each button being served
    reader,   \* what each reader is doing
    ledger,   \* sell_settlement_ledger: the payout that settled each order
    volume,   \* how often the customer's VIP volume was credited for an order
    crashes

vars == <<order, aged, rail, hand, forced, reopened, job, reader, ledger, volume, crashes>>

RailStates == {"pending", "paid", "declined"}
Free == [pc |-> "idle", sell |-> None, seen |-> "pending", deposit |-> None,
         ref |-> None, st |-> "pending"]
Asleep == [pc |-> "idle", sell |-> None, ref |-> None, asked |-> None, st |-> "pending"]

Order == [status : {"pending", "paying", "paid", "rejected"},
          tx : Deposits \cup {None}, ref : Payouts \cup {None},
          pst : RailStates \cup {"none", "unknown"}]
Job == [pc : {"idle", "check", "found", "claim", "send", "posting", "made", "mark",
              "credit", "refused", "lost", "unclear"},
        sell : Sells \cup {None}, seen : {"pending", "paying", "paid", "rejected"},
        deposit : Deposits \cup {None}, ref : Payouts \cup {None},
        st : RailStates \cup {"unknown", "manual"}]
Reading == [pc : {"idle", "read", "asked", "told", "noted"}, sell : Sells \cup {None},
            ref : Payouts \cup {None}, asked : Payouts \cup {None}, st : RailStates]

TypeOK ==
    /\ order \in [Sells -> Order]
    /\ rail \in [Payouts -> [sell : Sells \cup {None}, st : RailStates]]
    /\ hand \in [Sells -> Nat] /\ volume \in [Sells -> Nat]
    /\ aged \subseteq Sells /\ forced \subseteq Sells /\ reopened \subseteq Sells
    /\ job \in [Jobs -> Job]
    /\ reader \in [Readers -> Reading]
    /\ ledger \in [Sells -> Payouts \cup {None}]
    /\ crashes \in 0 .. MaxCrashes

Init ==
    /\ order = [s \in Sells |-> [status |-> "pending", tx |-> None, ref |-> None, pst |-> "none"]]
    /\ rail = [p \in Payouts |-> [sell |-> None, st |-> "pending"]]
    /\ hand = [s \in Sells |-> 0] /\ volume = [s \in Sells |-> 0]
    /\ aged = {} /\ forced = {} /\ reopened = {}
    /\ job = [j \in Jobs |-> Free]
    /\ reader = [r \in Readers |-> Asleep]
    /\ ledger = [s \in Sells |-> None]
    /\ crashes = 0

\* Every write of a row renews its updated_at.
Renewed(s, written) == IF written THEN aged \ {s} ELSE aged

Live(s) == {p \in Payouts : rail[p].sell = s /\ rail[p].st # "declined"}

-----------------------------------------------------------------------------
\* The button.

\* sell_confirm looks at the order and leaves the event loop for the check.
SellConfirm(j, s) ==
    /\ job[j].pc = "idle" /\ order[s].status # "paid"
    /\ job' = [job EXCEPT ![j] = [Free EXCEPT !.pc = "check", !.sell = s]]
    /\ UNCHANGED <<order, aged, rail, hand, forced, reopened, reader, ledger, volume, crashes>>

\* verify_sell_deposit reads the row again, whatever its status is by now, and the
\* blockchain shows it a deposit no other order had reserved, or none.
Verify(j) ==
    /\ job[j].pc = "check"
    /\ LET s == job[j].sell
       IN \/ \E d \in Deposits :
               /\ \A t \in Sells \ {s} : order[t].tx # d
               /\ job' = [job EXCEPT ![j].pc = "found", ![j].deposit = d,
                                     ![j].seen = order[s].status]
          \/ job' = [job EXCEPT ![j] = Free]
    /\ UNCHANGED <<order, aged, rail, hand, forced, reopened, reader, ledger, volume, crashes>>

\* Mutant of Reservable: the order's own state is checked, the other orders are not.
ReservableTwice(s, d, seen) == order[s].status = seen /\ order[s].tx \in {None, d}

Reservable(s, d, seen) ==
    /\ order[s].status = seen /\ order[s].tx \in {None, d}
    /\ \A t \in Sells \ {s} : order[t].tx # d

\* Mutant of ReserveTxid: the check is confirmed though the reservation was refused.
ReserveUnheeded(j) ==
    /\ job[j].pc = "found"
    /\ LET s == job[j].sell
           d == job[j].deposit
           ok == Reservable(s, d, job[j].seen)
       IN /\ order' = IF ok THEN [order EXCEPT ![s].tx = d] ELSE order
          /\ aged' = Renewed(s, ok)
          /\ job' = [job EXCEPT ![j] = [Free EXCEPT !.pc = "claim", !.sell = s]]
    /\ UNCHANGED <<rail, hand, forced, reopened, reader, ledger, volume, crashes>>

ReserveTxid(j) ==
    /\ job[j].pc = "found"
    /\ LET s == job[j].sell
           d == job[j].deposit
           ok == Reservable(s, d, job[j].seen)
       IN /\ order' = IF ok THEN [order EXCEPT ![s].tx = d] ELSE order
          /\ aged' = Renewed(s, ok)
          /\ job' = [job EXCEPT ![j] = IF ok THEN [Free EXCEPT !.pc = "claim", !.sell = s] ELSE Free]
    /\ UNCHANGED <<rail, hand, forced, reopened, reader, ledger, volume, crashes>>

\* sell_force: the main administrator pays without the check.
SellForce(j, s) ==
    /\ job[j].pc = "idle"
    /\ forced' = forced \cup {s}
    /\ job' = [job EXCEPT ![j] = [Free EXCEPT !.pc = "claim", !.sell = s]]
    /\ UNCHANGED <<order, aged, rail, hand, reopened, reader, ledger, volume, crashes>>

\* Mutant of Claimable: an order being paid can be claimed once more.
ClaimPaying(s) == order[s].status # "paid"

Claimable(s) == order[s].status \notin {"paid", "paying"}

Claim(j) ==
    /\ job[j].pc = "claim"
    /\ LET s == job[j].sell
       IN \/ /\ Claimable(s)
             /\ order' = [order EXCEPT ![s].status = "paying"] /\ aged' = aged \ {s}
             /\ job' = [job EXCEPT ![j].pc = "send"]
          \/ /\ ~Claimable(s)
             /\ job' = [job EXCEPT ![j] = Free]
             /\ UNCHANGED <<order, aged>>
    /\ UNCHANGED <<rail, hand, forced, reopened, reader, ledger, volume, crashes>>

\* already_sent: a live payout and an outcome nobody knows both forbid another.
Unclear(s) == order[s].pst = "unknown"
Duplicate(s) == ~Unclear(s) /\ order[s].ref # None /\ order[s].pst # "declined"

\* send_rub up to the call of the rail; whatever it cannot read or accepts no longer
\* is an answer that no money went.
SendRub(j) ==
    /\ job[j].pc = "send"
    /\ LET s == job[j].sell
       IN \/ job' = [job EXCEPT ![j] =
               CASE s \notin ByRail -> [@ EXCEPT !.pc = "mark", !.st = "manual"]
                 [] s \in ByRail /\ Unclear(s) -> [@ EXCEPT !.pc = "unclear"]
                 [] s \in ByRail /\ Duplicate(s) ->
                      [@ EXCEPT !.pc = "mark", !.ref = order[s].ref, !.st = order[s].pst]
                 [] OTHER -> [@ EXCEPT !.pc = "posting"]]
          \/ job' = [job EXCEPT ![j].pc = "refused"]
    /\ UNCHANGED <<order, aged, rail, hand, forced, reopened, reader, ledger, volume, crashes>>

\* create_payout: the rail makes a new payout for every call it accepts, and may have
\* paid or declined it by the time it answers.  The answer may come without the
\* number, or be lost on the way.
CreatePayout(j, p, st) ==
    /\ job[j].pc = "posting"
    /\ rail[p].sell = None /\ \A q \in 1 .. p - 1 : rail[q].sell # None
    /\ rail' = [rail EXCEPT ![p] = [sell |-> job[j].sell, st |-> st]]
    /\ \/ job' = [job EXCEPT ![j].pc = "made", ![j].ref = p, ![j].st = st]
       \/ job' = [job EXCEPT ![j].pc = "made", ![j].st = "unknown"]
       \/ job' = [job EXCEPT ![j].pc = "lost"]
    /\ UNCHANGED <<order, aged, hand, forced, reopened, reader, ledger, volume, crashes>>

\* The rail refuses, or answers with neither a payout nor its number.
RefusePayout(j) ==
    /\ job[j].pc = "posting"
    /\ \/ job' = [job EXCEPT ![j].pc = "refused"]
       \/ job' = [job EXCEPT ![j].pc = "made", ![j].st = "unknown"]
    /\ UNCHANGED <<order, aged, rail, hand, forced, reopened, reader, ledger, volume, crashes>>

RecordProvider(j) ==
    /\ job[j].pc = "made"
    /\ LET s == job[j].sell
           open == order[s].status # "paid"
       IN /\ order' = IF open THEN [order EXCEPT ![s].ref = job[j].ref, ![s].pst = job[j].st]
                      ELSE order
          /\ aged' = Renewed(s, open)
    /\ job' = [job EXCEPT ![j].pc = IF job[j].ref = None THEN "unclear" ELSE "mark"]
    /\ UNCHANGED <<rail, hand, forced, reopened, reader, ledger, volume, crashes>>

\* record_provider raises: _do_sell_payout takes it for a payout that was not made.
RecordFails(j) ==
    /\ job[j].pc = "made"
    /\ job' = [job EXCEPT ![j].pc = "lost", ![j].ref = None]
    /\ UNCHANGED <<order, aged, rail, hand, forced, reopened, reader, ledger, volume, crashes>>

\* Mutant of Released: the order is put back whatever has become of it.
ReleaseAny(s) == [order EXCEPT ![s].status = "pending"]

Released(s) == IF order[s].status = "paying" THEN [order EXCEPT ![s].status = "pending"] ELSE order

\* The administrator is told that no money went, or that nobody knows: only the
\* first gives the order back.
ReportFailure(j) ==
    /\ job[j].pc \in {"refused", "lost", "unclear"}
    /\ LET s == job[j].sell
           back == job[j].pc # "unclear" /\ order[s].status = "paying"
       IN /\ order' = IF job[j].pc # "unclear" THEN Released(s) ELSE order
          /\ aged' = Renewed(s, back)
          /\ reopened' = IF back /\ job[j].pc = "lost" THEN reopened \cup {s} ELSE reopened
    /\ job' = [job EXCEPT ![j] = Free]
    /\ UNCHANGED <<rail, hand, forced, reader, ledger, volume, crashes>>

\* mark_manual_or_processing: paid when a person pays or the rail already has.
Mark(j) ==
    /\ job[j].pc = "mark"
    /\ LET s == job[j].sell
           settled == job[j].st \in {"manual", "paid"}
       IN /\ order' = IF settled /\ order[s].status = "paying"
                        THEN [order EXCEPT ![s].status = "paid"] ELSE order
          /\ aged' = Renewed(s, order[s].status = "paying")
          /\ hand' = IF job[j].st = "manual" THEN [hand EXCEPT ![s] = @ + 1] ELSE hand
          /\ job' = [job EXCEPT ![j] = IF settled THEN [Free EXCEPT !.pc = "credit", !.sell = s]
                                       ELSE Free]
    /\ UNCHANGED <<rail, forced, reopened, reader, ledger, volume, crashes>>

CreditVolume(j) ==
    /\ job[j].pc = "credit"
    /\ volume' = [volume EXCEPT ![job[j].sell] = @ + 1]
    /\ job' = [job EXCEPT ![j] = Free]
    /\ UNCHANGED <<order, aged, rail, hand, forced, reopened, reader, ledger, crashes>>

Reject(s) ==
    /\ Claimable(s)
    /\ order' = [order EXCEPT ![s].status = "rejected"] /\ aged' = aged \ {s}
    /\ UNCHANGED <<rail, hand, forced, reopened, job, reader, ledger, volume, crashes>>

\* A button that may yet have money moved for an order, or has not recorded that it
\* did.
Holds(j, s) ==
    /\ job[j].sell = s
    /\ \/ job[j].pc \in {"send", "posting", "made", "refused", "lost"}
       \/ job[j].pc = "mark" /\ job[j].st = "manual"

\* sell_unclaim: an administrator puts back an order that has no number.  The store
\* asks nothing else; whether a payout exists is for the person to find out.
Unclaim(s) ==
    /\ order[s].status = "paying" /\ order[s].ref = None
    /\ order' = [order EXCEPT ![s].status = "pending"] /\ aged' = aged \ {s}
    /\ reopened' = IF Live(s) # {} \/ \E j \in Jobs : Holds(j, s)
                     THEN reopened \cup {s} ELSE reopened
    /\ UNCHANGED <<rail, hand, forced, job, reader, ledger, volume, crashes>>

-----------------------------------------------------------------------------
\* The readers.

RailDecides(p) ==
    /\ rail[p].sell # None /\ rail[p].st = "pending"
    /\ \E st \in {"paid", "declined"} : rail' = [rail EXCEPT ![p].st = st]
    /\ UNCHANGED <<order, aged, hand, forced, reopened, job, reader, ledger, volume, crashes>>

\* What has a number and no final status; three days without a write hide it.
Unfinished(s) == order[s].ref # None /\ order[s].pst \notin {"paid", "declined"}

ThreeDaysPass(s) ==
    /\ Unfinished(s) /\ s \notin aged
    /\ aged' = aged \cup {s}
    /\ UNCHANGED <<order, rail, hand, forced, reopened, job, reader, ledger, volume, crashes>>

\* Mutant of Listed: the sweep takes only payouts it has not asked about.
ListedUnasked(r, s) == order[s].ref # None /\ (r = "sweep" => order[s].pst \notin RailStates)

\* active_vertu_payouts lists the first of the unfinished; the callback finds any.
Listed(r, s) ==
    /\ order[s].ref # None
    /\ r = "sweep" =>
         /\ Unfinished(s) /\ s \notin aged
         /\ Cardinality({t \in Sells \ aged : Unfinished(t) /\ t < s}) < Batch

Pick(r, s) ==
    /\ reader[r].pc = "idle" /\ Listed(r, s)
    /\ reader' = [reader EXCEPT ![r] = [Asleep EXCEPT !.pc = "read", !.sell = s,
                                                      !.ref = order[s].ref]]
    /\ UNCHANGED <<order, aged, rail, hand, forced, reopened, job, ledger, volume, crashes>>

\* refresh_status reads the reference once more before it asks the rail.
Ask(r) ==
    /\ reader[r].pc = "read"
    /\ LET ref == order[reader[r].sell].ref
       IN reader' = [reader EXCEPT ![r] = IF ref = None THEN Asleep
                                          ELSE [@ EXCEPT !.pc = "asked", !.asked = ref]]
    /\ UNCHANGED <<order, aged, rail, hand, forced, reopened, job, ledger, volume, crashes>>

Hear(r) ==
    /\ reader[r].pc = "asked"
    /\ \/ reader' = [reader EXCEPT ![r].pc = "told", ![r].st = rail[reader[r].asked].st]
       \/ reader' = [reader EXCEPT ![r] = Asleep]      \* no answer
    /\ UNCHANGED <<order, aged, rail, hand, forced, reopened, job, ledger, volume, crashes>>

UpdateStatus(r) ==
    /\ reader[r].pc = "told"
    /\ LET s == reader[r].sell
           open == order[s].status # "paid"
       IN /\ order' = IF open THEN [order EXCEPT ![s].pst = reader[r].st] ELSE order
          /\ aged' = Renewed(s, open)
    /\ reader' = [reader EXCEPT ![r] = IF reader[r].st = "pending" THEN Asleep
                                       ELSE [@ EXCEPT !.pc = "noted"]]
    /\ UNCHANGED <<rail, hand, forced, reopened, job, ledger, volume, crashes>>

\* Mutant of Settleable: the payout asked about need not be the order's any more.
SettleAnyRef(r, s) == ledger[s] = None /\ order[s].status = "paying" /\ order[s].pst = "paid"

Settleable(r, s) ==
    /\ ledger[s] = None /\ order[s].status = "paying"
    /\ order[s].ref = reader[r].ref /\ order[s].pst = "paid"

\* settle_vertu: the status, the ledger row and the volume in one transaction.
Settle(r) ==
    /\ reader[r].pc = "noted" /\ reader[r].st = "paid"
    /\ LET s == reader[r].sell
       IN \/ /\ Settleable(r, s)
             /\ order' = [order EXCEPT ![s].status = "paid"] /\ aged' = aged \ {s}
             /\ ledger' = [ledger EXCEPT ![s] = reader[r].ref]
             /\ volume' = [volume EXCEPT ![s] = @ + 1]
          \/ ~Settleable(r, s) /\ UNCHANGED <<order, aged, ledger, volume>>
    /\ reader' = [reader EXCEPT ![r] = Asleep]
    /\ UNCHANGED <<rail, hand, forced, reopened, job, crashes>>

\* mark_rejected: the rail declined, so an order still paying waits again.
MarkRejected(r) ==
    /\ reader[r].pc = "noted" /\ reader[r].st = "declined"
    /\ LET s == reader[r].sell
       IN order' = Released(s) /\ aged' = Renewed(s, order[s].status = "paying")
    /\ reader' = [reader EXCEPT ![r] = Asleep]
    /\ UNCHANGED <<rail, hand, forced, reopened, job, ledger, volume, crashes>>

BotDies ==
    /\ crashes < MaxCrashes /\ \E j \in Jobs : job[j] # Free
    /\ job' = [j \in Jobs |-> Free] /\ crashes' = crashes + 1
    /\ UNCHANGED <<order, aged, rail, hand, forced, reopened, reader, ledger, volume>>

RelayDies ==
    /\ crashes < MaxCrashes /\ \E r \in Readers : reader[r] # Asleep
    /\ reader' = [r \in Readers |-> Asleep] /\ crashes' = crashes + 1
    /\ UNCHANGED <<order, aged, rail, hand, forced, reopened, job, ledger, volume>>

Press(j) == \E s \in Sells : SellForce(j, s) \/ SellConfirm(j, s)

Serve(j) ==
    \/ Verify(j) \/ ReserveTxid(j) \/ Claim(j) \/ SendRub(j)
    \/ RefusePayout(j) \/ \E p \in Payouts, st \in RailStates : CreatePayout(j, p, st)
    \/ RecordProvider(j) \/ RecordFails(j) \/ ReportFailure(j) \/ Mark(j) \/ CreditVolume(j)

Read(r) ==
    \/ \E s \in Sells : Pick(r, s)
    \/ Ask(r) \/ Hear(r) \/ UpdateStatus(r) \/ Settle(r) \/ MarkRejected(r)

Next ==
    \/ \E j \in Jobs : Press(j) \/ Serve(j)
    \/ \E r \in Readers : Read(r)
    \/ \E s \in Sells : Reject(s) \/ Unclaim(s) \/ ThreeDaysPass(s)
    \/ \E p \in Payouts : RailDecides(p)
    \/ BotDies \/ RelayDies

Spec == Init /\ [][Next]_vars

\* vertu_poll_task sweeps every half minute, a restarted relay starts it again, and
\* the rail answers often enough.  A button pressed is served while the bot lives.
\* Nothing makes the rail decide, or call back, or a person press.
FairSpec ==
    /\ Spec
    /\ \A j \in Jobs : WF_vars(Serve(j))
    /\ \A r \in Readers \cap {"sweep"} :
          /\ WF_vars(Ask(r) \/ UpdateStatus(r) \/ Settle(r) \/ MarkRejected(r))
          /\ SF_vars(reader[r].pc = "asked" /\ Hear(r) /\ reader'[r].pc = "told")
          /\ WF_vars(Hear(r))
          /\ \A s \in Sells : SF_vars(Pick(r, s))

-----------------------------------------------------------------------------
\* Money moved for an order: a payout the rail has not declined, or a person's.
Moved(s) == Live(s) # {} \/ hand[s] > 0

\* An order whose check nobody skipped gets money only against a deposit reserved
\* for it alone (sell_guard: one deposit must not pay for two orders).
PaidForADeposit ==
    \A s \in Sells \ forced : Moved(s) =>
        order[s].tx # None /\ \A t \in Sells \ {s} : order[t].tx # order[s].tx

\* A row of the ledger names a payout of that very order that the rail has paid, and
\* the order is closed: answers that crossed on the way cannot settle another payout
\* (settle_vertu).
LedgerIsTrue ==
    \A s \in Sells : ledger[s] # None =>
        /\ rail[ledger[s]] = [sell |-> s, st |-> "paid"]
        /\ order[s].status = "paid" /\ order[s].ref = ledger[s]

\* "Выплаченная заявка терминальна" (mark_rejected): no late answer, button or
\* release reopens an order that is paid or gives it another payout, and a deposit
\* it has is never exchanged (a check under way may still reserve its first).
PaidStaysPaid ==
    [][\A s \in Sells : order[s].status = "paid" =>
          /\ order'[s].status = "paid" /\ order'[s].ref = order[s].ref
          /\ order'[s].pst = order[s].pst
          /\ order'[s].tx = order[s].tx \/ order[s].tx = None]_vars

\* "две одновременные кнопки у двух админов иначе дадут ДВА перевода одному клиенту"
\* (_do_sell_payout): an order never has two payouts that are paid or may be, unless
\* it was put back while it had one or was about to.
OneTransfer == \A s \in Sells \ reopened : Cardinality(Live(s)) + hand[s] <= 1

\* _vertu_payout_sweep "доводит до конца": a payout the order refers to, that the
\* sweep has still to hear of and the rail has decided, does not leave the order in
\* paying, if the sweep reaches it in three days.
OutcomeReachesOrder ==
    \A s \in Sells, p \in Payouts :
        (/\ s \notin reopened /\ Unfinished(s) /\ order[s].status = "paying"
         /\ order[s].ref = p /\ rail[p].st # "pending")
            ~> (order[s].status # "paying" \/ order[s].ref # p \/ s \in aged)
-----------------------------------------------------------------------------
(* The inductive invariants behind them. *)

\* A button or a reader at work has an order, and a number that is on record or in
\* somebody's hands is that of a payout made for that order.
OrderRef(s) == order[s].ref # None => order[s].pst # "none" /\ rail[order[s].ref].sell = s

JobRef(j) ==
    /\ job[j].pc # "idle" => job[j].sell \in Sells
    /\ job[j].pc = "found" => job[j].deposit # None
    /\ job[j].pc = "made" => job[j].st # "manual"
    /\ job[j].ref # None => job[j].pc \in {"made", "mark"} /\ rail[job[j].ref].sell = job[j].sell

ReaderRef(r) ==
    /\ reader[r].pc = "idle" => reader[r].ref = None
    /\ reader[r].pc # "idle" =>
         /\ reader[r].sell \in Sells /\ reader[r].ref # None
         /\ rail[reader[r].ref].sell = reader[r].sell
         /\ reader[r].pc # "read" =>
              reader[r].asked # None /\ rail[reader[r].asked].sell = reader[r].sell

RefsAreReal ==
    /\ \A s \in Sells : OrderRef(s)
    /\ \A j \in Jobs : JobRef(j)
    /\ \A r \in Readers : ReaderRef(r)

\* A number is recorded once: while its button still has it to record, no order,
\* other button or reader has it.
RecordedOnce ==
    \A j \in Jobs : job[j].pc = "made" /\ job[j].ref # None =>
        /\ \A s \in Sells : order[s].ref # job[j].ref
        /\ \A i \in Jobs \ {j} : job[i].ref # job[j].ref
        /\ \A r \in Readers : reader[r].ref # job[j].ref

\* A reader's answer is the rail's last word, on the very payout the order still
\* refers to if that is the one the reader was sent for.
AnswersAreTrue ==
    \A r \in Readers : reader[r].pc \in {"asked", "told", "noted"} =>
        /\ order[reader[r].sell].ref = reader[r].ref => reader[r].asked = reader[r].ref
        /\ reader[r].pc # "asked" /\ reader[r].st # "pending" =>
             rail[reader[r].asked].st = reader[r].st

\* Nothing is paid for an order that was neither forced nor given a deposit of its
\* own, and no button is on its way to do so.
HasDeposit(s) == s \in forced \/ order[s].tx # None

DepositFirst ==
    /\ \A s, t \in Sells : s # t /\ order[s].tx # None => order[s].tx # order[t].tx
    /\ \A j \in Jobs : job[j].pc \notin {"idle", "check", "found"} => HasDeposit(job[j].sell)
    /\ \A p \in Payouts : rail[p].sell # None => HasDeposit(rail[p].sell)
    /\ \A s \in Sells : hand[s] > 0 => HasDeposit(s)

SellInv ==
    /\ TypeOK
    /\ RefsAreReal
    /\ RecordedOnce
    /\ AnswersAreTrue
    /\ DepositFirst
    /\ LedgerIsTrue

\* Payouts are for the orders the rail pays and transfers by hand for the others;
\* an order has one of them at most, and none while it waits to be claimed.
Untaken(s) == order[s].ref = None \/ order[s].pst = "declined"

OneOf(s) ==
    /\ hand[s] > 0 => hand[s] = 1 /\ s \notin ByRail /\ order[s].status = "paid"
    /\ \A p, q \in Live(s) : p = q
    /\ ~Untaken(s) => Live(s) \subseteq {order[s].ref}
    /\ order[s].status \in {"pending", "rejected"} => Live(s) = {} /\ Untaken(s)

OneEach ==
    /\ \A p \in Payouts : rail[p].sell # None => rail[p].sell \in ByRail \cup reopened
    /\ \A s \in Sells \ reopened : OneOf(s)

SawPaid(j) == job[j].pc \in {"made", "mark"} /\ job[j].st = "paid"

\* Such a button is the only one, the order is claimed, and nobody reads of it.
Alone(j, s) ==
    /\ order[s].status = "paying" /\ Untaken(s)
    /\ job[j].pc \notin {"made", "lost"} => Live(s) = {}
    /\ job[j].pc = "made" /\ job[j].ref # None => Live(s) \subseteq {job[j].ref}
    /\ job[j].pc = "posting" => s \in ByRail
    /\ job[j].pc = "mark" => s \notin ByRail
    /\ \A i \in Jobs \ {j} : job[i].sell = s => ~Holds(i, s) /\ ~SawPaid(i)
    /\ \A r \in Readers : reader[r].pc # "idle" => reader[r].sell # s

HoldsAlone == \A j \in Jobs, s \in Sells \ reopened : Holds(j, s) => Alone(j, s)

\* A payout that a button saw paid is one.
SeenPaid ==
    \A j \in Jobs : job[j].sell \notin reopened /\ SawPaid(j) =>
        job[j].ref # None /\ rail[job[j].ref].st = "paid"

\* While the sweep is at an order, the order stays where it found it.
Follows(r, s) ==
    /\ order[s].status \in {"paying", "paid"} /\ order[s].ref = reader[r].ref
    /\ Live(s) \subseteq {reader[r].ref}
    /\ reader[r].pc = "noted" /\ reader[r].st = "declined" /\ order[s].status = "paying" =>
         order[s].pst = "declined"

SweepFollows ==
    \A r \in Readers :
        reader[r].pc # "idle" /\ reader[r].sell \notin reopened => Follows(r, reader[r].sell)

\* What makes an order that was not reopened paid once when the sweep is the only
\* reader.
SweepInv ==
    /\ SellInv
    /\ OneEach
    /\ HoldsAlone
    /\ SeenPaid
    /\ SweepFollows
=============================================================================
