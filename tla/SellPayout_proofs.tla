-------------------------- MODULE SellPayout_proofs ---------------------------
(***************************************************************************)
(* For any number of orders, deposits, buttons and payouts, whatever is    *)
(* lost and however often a process dies: the tables keep their shape,     *)
(* money goes only against a deposit of the order's own, the settlement    *)
(* ledger is true and a paid order stays as it was paid.  While only the   *)
(* sweep reads, an order is paid once, unless it was put back while a      *)
(* payout of it existed or was on its way.                                 *)
(***************************************************************************)
EXTENDS SellPayout, FiniteSetTheorems, TLAPS

\* Of the assumptions, what the proofs need: an order's number is no more than a name.
LEMMA SellNames ==
    /\ ByRail \subseteq Sells
    /\ None \notin Sells \cup Deposits
    /\ Readers \subseteq {"sweep", "callback"}
    /\ MaxPayouts \in Nat /\ MaxCrashes \in Nat
  BY SellAssumption

USE SellNames

\* What a step notes aside of the tables and the processes are orders.
AsideTyped == aged' \subseteq Sells /\ reopened' \subseteq Sells

\* Putting an order back changes its status alone, and only from paying.
LEMMA ReleasedRow ==
    ASSUME TypeOK, NEW s \in Sells
    PROVE  /\ Released(s) \in [Sells -> Order]
           /\ \A t \in Sells :
                /\ Released(s)[t].ref = order[t].ref /\ Released(s)[t].tx = order[t].tx
                /\ Released(s)[t].pst = order[t].pst
                /\ order[t].status # "paying" => Released(s)[t] = order[t]
                /\ t # s => Released(s)[t] = order[t]
                /\ Released(s)[t].status \in {order[t].status, "pending"}
<1> DEFINE n == [order[s] EXCEPT !.status = "pending"]
<1>0. order \in [Sells -> Order] /\ order[s] \in Order
  BY DEF TypeOK
<1>1. CASE order[s].status = "paying"
  <2>1. Released(s) = [order EXCEPT ![s] = n]
    BY <1>1 DEF Released
  <2>2. /\ n \in Order /\ n.status = "pending" /\ n.ref = order[s].ref
        /\ n.tx = order[s].tx /\ n.pst = order[s].pst
    BY <1>0 DEF Order
  <2> HIDE DEF n
  <2> QED  BY <1>0, <1>1, <2>1, <2>2
<1>2. CASE order[s].status # "paying"
  BY <1>0, <1>2 DEF Released
<1> QED  BY <1>1, <1>2

\* So does any step that sets it.
LEMMA StatusRow ==
    ASSUME TypeOK, NEW s \in Sells, NEW v \in {"pending", "paying", "paid", "rejected"},
           order' = [order EXCEPT ![s].status = v]
    PROVE  /\ order' \in [Sells -> Order]
           /\ order'[s].status = v
           /\ \A t \in Sells :
                /\ order'[t].ref = order[t].ref /\ order'[t].tx = order[t].tx
                /\ order'[t].pst = order[t].pst
                /\ t # s => order'[t] = order[t]
  BY DEF TypeOK, Order

\* And a step of a button that sets its place.
LEMMA PcOfJob ==
    ASSUME TypeOK, NEW j \in Jobs,
           NEW c \in {"send", "posting", "made", "mark", "refused", "unclear"},
           job' = [job EXCEPT ![j].pc = c]
    PROVE  /\ job' \in [Jobs -> Job]
           /\ job'[j].pc = c /\ job'[j].sell = job[j].sell
           /\ job'[j].ref = job[j].ref /\ job'[j].st = job[j].st
           /\ \A i \in Jobs \ {j} : job'[i] = job[i]
<1> DEFINE n == [job[j] EXCEPT !.pc = c]
<1>1. job \in [Jobs -> Job]
  BY DEF TypeOK
<1>2. /\ n \in Job /\ n.pc = c /\ n.sell = job[j].sell
      /\ n.ref = job[j].ref /\ n.st = job[j].st
  <2>1. job[j] \in Job
    BY <1>1
  <2> QED  BY <2>1 DEF Job
<1>3. job' = [job EXCEPT ![j] = n]
  OBVIOUS
<1> QED  BY <1>1, <1>2, <1>3

\* A step that hears nothing new: orders change their status alone and paid ones keep
\* theirs, money is given by hand only for an order with a deposit, and buttons and
\* readers stay, let go or go on with their order and no number.
LEMMA NothingNew ==
    ASSUME SellInv, AsideTyped,
           order' \in [Sells -> Order], hand' \in [Sells -> Nat], volume' \in [Sells -> Nat],
           job' \in [Jobs -> Job], crashes' \in 0 .. MaxCrashes,
           UNCHANGED <<rail, forced, ledger>>,
           \A s \in Sells :
             /\ order'[s].ref = order[s].ref /\ order'[s].tx = order[s].tx
             /\ order'[s].pst = order[s].pst
             /\ order[s].status = "paid" => order'[s].status = "paid"
             /\ hand'[s] > 0 => hand[s] > 0 \/ HasDeposit(s),
           \A j \in Jobs : \/ job'[j] = job[j]
                           \/ job'[j] = Free
                           \/ /\ job'[j].sell = job[j].sell /\ job'[j].ref = None
                              /\ job[j].pc \notin {"idle", "check", "found"}
                              /\ job'[j].pc \in {"send", "credit"},
           reader' \in [Readers -> Reading],
           \A r \in Readers : reader'[r] = reader[r] \/ reader'[r] = Asleep
    PROVE  SellInv'
<1> USE DEF SellInv, AsideTyped
<1>1. TypeOK'
  BY DEF TypeOK
<1>2. /\ Free.pc = "idle" /\ Free.ref = None
      /\ Asleep.pc = "idle" /\ Asleep.ref = None
  BY DEF Free, Asleep
<1>3. RefsAreReal'
  <2>1. \A s \in Sells : OrderRef(s)'
    BY DEF RefsAreReal, OrderRef
  <2>2. \A j \in Jobs : JobRef(j)'
    BY <1>2 DEF RefsAreReal, JobRef
  <2>3. \A r \in Readers : ReaderRef(r)'
    BY <1>2 DEF RefsAreReal, ReaderRef
  <2> QED  BY <2>1, <2>2, <2>3 DEF RefsAreReal
<1>4. RecordedOnce'
  <2> SUFFICES ASSUME NEW j \in Jobs, job'[j].pc = "made", job'[j].ref # None
               PROVE  /\ \A s \in Sells : order[s].ref # job'[j].ref
                      /\ \A i \in Jobs \ {j} : job'[i].ref # job'[j].ref
                      /\ \A r \in Readers : reader'[r].ref # job'[j].ref
    BY DEF RecordedOnce
  <2>1. job'[j] = job[j]
    BY <1>2
  <2>2. \A i \in Jobs : job'[i].ref # None => job'[i] = job[i]
    BY <1>2
  <2>3. \A r \in Readers : reader'[r].ref # None => reader'[r] = reader[r]
    BY <1>2
  <2> QED  BY <2>1, <2>2, <2>3 DEF RecordedOnce
<1>5. AnswersAreTrue'
  <2>1. \A r \in Readers : reader'[r].pc # "idle" => reader'[r] = reader[r] /\ reader[r].sell \in Sells
    BY <1>2 DEF RefsAreReal, ReaderRef
  <2> QED  BY <2>1 DEF AnswersAreTrue
<1>6. DepositFirst'
  <2>1. \A s \in Sells : HasDeposit(s)' <=> HasDeposit(s)
    BY DEF HasDeposit
  <2>2. \A j \in Jobs : job[j].pc # "idle" => job[j].sell \in Sells
    BY DEF RefsAreReal, JobRef
  <2>3. \A j \in Jobs : job'[j].pc \notin {"idle", "check", "found"} => HasDeposit(job[j].sell)'
    BY <1>2, <2>1, <2>2 DEF DepositFirst
  <2>4. \A p \in Payouts : rail[p].sell # None => HasDeposit(rail[p].sell)'
    BY <2>1 DEF DepositFirst, TypeOK
  <2>5. \A s \in Sells : hand'[s] > 0 => HasDeposit(s)'
    BY <2>1 DEF DepositFirst
  <2>6. \A s, t \in Sells : s # t /\ order'[s].tx # None => order'[s].tx # order'[t].tx
    BY DEF DepositFirst
  <2> QED  BY <2>3, <2>4, <2>5, <2>6 DEF DepositFirst
<1>7. LedgerIsTrue'
  BY DEF LedgerIsTrue
<1> QED  BY <1>1, <1>3, <1>4, <1>5, <1>6, <1>7

\* A button that gives up does so, whatever it had in hand.
LEMMA LetGo ==
    ASSUME SellInv, AsideTyped, NEW j \in Jobs, job' = [job EXCEPT ![j] = Free],
           UNCHANGED <<order, rail, hand, forced, reader, ledger, crashes>>,
           volume' \in [Sells -> Nat]
    PROVE  SellInv'
<1>1. job' \in [Jobs -> Job] /\ \A i \in Jobs : job'[i] = job[i] \/ job'[i] = Free
  BY DEF SellInv, TypeOK, Free, Job, RailStates
<1> QED  BY <1>1, NothingNew DEF SellInv, TypeOK

\* A button that is served moves on with its order, and with no other number than the
\* one the order has.
LEMMA MovesOn ==
    ASSUME SellInv, AsideTyped, NEW j \in Jobs, job[j].pc \notin {"idle", "check", "found"},
           NEW n \in Job, job' = [job EXCEPT ![j] = n],
           UNCHANGED <<order, rail, hand, forced, reader, ledger, volume, crashes>>,
           n.sell = job[j].sell, n.pc \notin {"idle", "check", "found"},
           n.pc = "made" => n.st # "manual" /\ n.ref = None,
           n.ref # None => n.pc = "mark" /\ n.ref = order[n.sell].ref
    PROVE  SellInv'
<1> USE DEF SellInv, AsideTyped
<1>1. TypeOK'
  BY DEF TypeOK
<1>2. job[j].sell \in Sells
  BY DEF RefsAreReal, OrderRef, JobRef, ReaderRef
<1>3. RefsAreReal'
  <2>1. \A t \in Sells : OrderRef(t)'
    BY DEF RefsAreReal, OrderRef
  <2>2. job'[j] = n /\ \A i \in Jobs \ {j} : job'[i] = job[i]
    BY DEF TypeOK
  <2>3. JobRef(j)'
    BY <1>2, <2>2 DEF RefsAreReal, OrderRef, JobRef
  <2>4. \A i \in Jobs \ {j} : JobRef(i)'
    BY <2>2 DEF RefsAreReal, JobRef
  <2>5. \A r \in Readers : ReaderRef(r)'
    BY DEF RefsAreReal, ReaderRef
  <2> QED  BY <2>1, <2>3, <2>4, <2>5 DEF RefsAreReal
<1>4. RecordedOnce'
  BY <1>2 DEF RecordedOnce, TypeOK
<1>5. AnswersAreTrue'
  BY DEF AnswersAreTrue
<1>6. DepositFirst'
  BY DEF DepositFirst, HasDeposit, TypeOK
<1>7. LedgerIsTrue'
  BY DEF LedgerIsTrue
<1> QED  BY <1>1, <1>3, <1>4, <1>5, <1>6, <1>7

\* The reserved deposit is no other order's.
LEMMA ReserveTxidKeeps ==
    ASSUME SellInv, AsideTyped, NEW j \in Jobs, ReserveTxid(j)
    PROVE  SellInv'
<1> DEFINE s == job[j].sell
<1> DEFINE d == job[j].deposit
<1> USE DEF SellInv, AsideTyped
<1>1. s \in Sells /\ d \in Deposits
  BY DEF ReserveTxid, RefsAreReal, OrderRef, JobRef, ReaderRef, TypeOK, Job
<1>2. CASE ~Reservable(s, d, job[j].seen)
  <2>1. /\ job' = [job EXCEPT ![j] = Free]
        /\ UNCHANGED <<order, rail, hand, forced, reader, ledger, volume, crashes>>
    BY <1>2 DEF ReserveTxid
  <2> QED  BY <2>1, LetGo DEF TypeOK
<1>3. CASE Reservable(s, d, job[j].seen)
  <2> USE DEF Free
  <2>0. /\ order' = [order EXCEPT ![s].tx = d]
        /\ job' = [job EXCEPT ![j] = [Free EXCEPT !.pc = "claim", !.sell = s]]
    BY <1>3 DEF ReserveTxid
  <2>1. UNCHANGED <<rail, hand, forced, reader, ledger, volume, crashes>>
    BY DEF ReserveTxid
  <2>2. order' \in [Sells -> Order] /\ \A t \in Sells :
           /\ order'[t].status = order[t].status /\ order'[t].ref = order[t].ref
           /\ order'[t].pst = order[t].pst
           /\ order'[t].tx = IF t = s THEN d ELSE order[t].tx
    BY <1>1, <2>0 DEF TypeOK, Order
  <2>3. job' \in [Jobs -> Job]
    BY <1>1, <2>0 DEF TypeOK, Job, RailStates
  <2>4. /\ job'[j].pc = "claim" /\ job'[j].sell = s /\ job'[j].ref = None
        /\ \A i \in Jobs \ {j} : job'[i] = job[i]
    BY <2>0 DEF TypeOK
  <2>5. TypeOK'
    BY <2>1, <2>2, <2>3 DEF TypeOK
  <2>6. RefsAreReal'
    <3>1. \A t \in Sells : OrderRef(t)'
      BY <2>1, <2>2 DEF RefsAreReal, OrderRef, JobRef, ReaderRef, OrderRef
    <3>2. JobRef(j)' /\ \A i \in Jobs \ {j} : JobRef(i)'
      BY <1>1, <2>0, <2>1, <2>4 DEF RefsAreReal, OrderRef, JobRef, ReaderRef, JobRef
    <3>3. \A r \in Readers : ReaderRef(r)'
      BY <2>1 DEF RefsAreReal, OrderRef, JobRef, ReaderRef, ReaderRef
    <3> QED  BY <3>1, <3>2, <3>3 DEF RefsAreReal
  <2>7. RecordedOnce'
    BY <2>1, <2>2, <2>4 DEF RecordedOnce
  <2>8. AnswersAreTrue'
    BY <2>1, <2>2 DEF AnswersAreTrue, RefsAreReal, OrderRef, JobRef, ReaderRef
  <2>9. DepositFirst'
    BY <1>1, <1>3, <2>1, <2>2, <2>4 DEF DepositFirst, HasDeposit, Reservable, RefsAreReal, OrderRef, JobRef, ReaderRef, TypeOK
  <2>10. LedgerIsTrue'
    BY <2>1, <2>2 DEF LedgerIsTrue
  <2> QED  BY <2>5, <2>6, <2>7, <2>8, <2>9, <2>10
<1> QED  BY <1>2, <1>3 DEF ReserveTxid

\* A claim sets the status of an order that is not paid.
LEMMA ClaimKeeps ==
    ASSUME SellInv, AsideTyped, NEW j \in Jobs, Claim(j)
    PROVE  SellInv'
<1> DEFINE s == job[j].sell
<1> USE DEF SellInv, AsideTyped
<1>1. s \in Sells
  BY DEF Claim, RefsAreReal, OrderRef, JobRef, ReaderRef
<1>2. CASE ~Claimable(s)
  BY <1>2, LetGo DEF Claim, TypeOK
<1>3. CASE Claimable(s)
  <2>1. /\ job[j].pc = "claim" /\ job' = [job EXCEPT ![j].pc = "send"]
        /\ order' = [order EXCEPT ![s].status = "paying"] /\ order[s].status # "paid"
        /\ UNCHANGED <<rail, hand, forced, reader, ledger, volume, crashes>>
    BY <1>3 DEF Claim, Claimable
  <2>2. order' \in [Sells -> Order] /\ \A t \in Sells :
           /\ order'[t].tx = order[t].tx /\ order'[t].ref = order[t].ref
           /\ order'[t].pst = order[t].pst
           /\ order[t].status = "paid" => order'[t].status = "paid"
    BY <1>1, <2>1, StatusRow
  <2>3. /\ job' \in [Jobs -> Job] /\ job'[j].pc = "send" /\ job'[j].sell = s /\ job'[j].ref = None
        /\ \A i \in Jobs \ {j} : job'[i] = job[i]
    BY <2>1, PcOfJob DEF RefsAreReal, JobRef
  <2> QED  BY <2>1, <2>2, <2>3, NothingNew DEF TypeOK
<1> QED  BY <1>2, <1>3

\* The rail is called, the order goes to a person, or an earlier payout is found.
LEMMA SendRubKeeps ==
    ASSUME SellInv, AsideTyped, NEW j \in Jobs, SendRub(j)
    PROVE  SellInv'
<1> DEFINE s == job[j].sell
<1> USE DEF SellInv, AsideTyped
<1>1. /\ s \in Sells /\ job[j].pc = "send" /\ job[j].ref = None /\ job[j] \in Job
      /\ order[s] \in Order
      /\ UNCHANGED <<order, rail, hand, forced, reader, ledger, volume, crashes>>
  BY DEF SendRub, RefsAreReal, OrderRef, JobRef, ReaderRef, TypeOK
<1>r. CASE job' = [job EXCEPT ![j].pc = "refused"]
  <2> DEFINE n == [job[j] EXCEPT !.pc = "refused"]
  <2>1. job' = [job EXCEPT ![j] = n]
    BY <1>r
  <2>2. n \in Job /\ n.sell = s /\ n.pc = "refused" /\ n.ref = None
    BY <1>1 DEF Job
  <2> HIDE DEF n
  <2> QED  BY <1>1, <2>1, <2>2, MovesOn
<1>0. SUFFICES ASSUME ~(job' = [job EXCEPT ![j].pc = "refused"]) PROVE SellInv'
  BY <1>r
<1>2. CASE s \notin ByRail
  <2> DEFINE n == [job[j] EXCEPT !.pc = "mark", !.st = "manual"]
  <2>1. job' = [job EXCEPT ![j] = n]
    BY <1>0, <1>2 DEF SendRub
  <2>2. n \in Job /\ n.sell = s /\ n.pc = "mark" /\ n.ref = None
    BY <1>1 DEF Job
  <2> HIDE DEF n
  <2> QED  BY <1>1, <2>1, <2>2, MovesOn
<1>3. CASE s \in ByRail /\ Unclear(s)
  <2> DEFINE n == [job[j] EXCEPT !.pc = "unclear"]
  <2>1. job' = [job EXCEPT ![j] = n]
    BY <1>0, <1>3 DEF SendRub, Duplicate
  <2>2. n \in Job /\ n.sell = s /\ n.pc = "unclear" /\ n.ref = None
    BY <1>1 DEF Job
  <2> HIDE DEF n
  <2> QED  BY <1>1, <2>1, <2>2, MovesOn
<1>4. CASE s \in ByRail /\ Duplicate(s)
  <2> DEFINE n == [job[j] EXCEPT !.pc = "mark", !.ref = order[s].ref, !.st = order[s].pst]
  <2>1. job' = [job EXCEPT ![j] = n]
    BY <1>0, <1>4 DEF SendRub, Duplicate
  <2>2. order[s].pst \in RailStates
    BY <1>1, <1>4 DEF Duplicate, Unclear, RefsAreReal, OrderRef, JobRef, ReaderRef, Order
  <2>3. n \in Job /\ n.sell = s /\ n.pc = "mark" /\ n.ref = order[s].ref
    BY <1>1, <2>2 DEF Job, Order
  <2> HIDE DEF n
  <2> QED  BY <1>1, <2>1, <2>3, MovesOn
<1>5. CASE s \in ByRail /\ ~Unclear(s) /\ ~Duplicate(s)
  <2> DEFINE n == [job[j] EXCEPT !.pc = "posting"]
  <2>1. job' = [job EXCEPT ![j] = n]
    BY <1>0, <1>5 DEF SendRub
  <2>2. n \in Job /\ n.sell = s /\ n.pc = "posting" /\ n.ref = None
    BY <1>1 DEF Job
  <2> HIDE DEF n
  <2> QED  BY <1>1, <2>1, <2>2, MovesOn
<1> QED  BY <1>2, <1>3, <1>4, <1>5

\* The rail's refusal, or its answer without a number, changes the button alone.
LEMMA RefusePayoutKeeps ==
    ASSUME SellInv, AsideTyped, NEW j \in Jobs, RefusePayout(j)
    PROVE  SellInv'
<1> USE DEF SellInv, AsideTyped
<1>1. /\ job[j].pc = "posting" /\ job[j].ref = None /\ job[j] \in Job
      /\ UNCHANGED <<order, rail, hand, forced, reader, ledger, volume, crashes>>
  BY DEF RefusePayout, RefsAreReal, OrderRef, JobRef, ReaderRef, TypeOK
<1>2. PICK n \in Job : /\ job' = [job EXCEPT ![j] = n] /\ n.sell = job[j].sell
                       /\ n.ref = None
                       /\ \/ n.pc = "refused"
                          \/ n.pc = "made" /\ n.st = "unknown"
  <2> DEFINE a == [job[j] EXCEPT !.pc = "refused"]
  <2> DEFINE b == [job[j] EXCEPT !.pc = "made", !.st = "unknown"]
  <2>1. job' = [job EXCEPT ![j] = a] \/ job' = [job EXCEPT ![j] = b]
    BY DEF RefusePayout
  <2>2. a \in Job /\ a.sell = job[j].sell /\ a.ref = None /\ a.pc = "refused"
    BY <1>1 DEF Job
  <2>3. b \in Job /\ b.sell = job[j].sell /\ b.ref = None /\ b.pc = "made" /\ b.st = "unknown"
    BY <1>1 DEF Job
  <2> HIDE DEF a, b
  <2> QED  BY <2>1, <2>2, <2>3
<1> QED  BY <1>1, <1>2, MovesOn

\* The rail's payout is a new one, so no number on record is its number.
LEMMA CreatePayoutKeeps ==
    ASSUME SellInv, AsideTyped, NEW j \in Jobs, NEW p \in Payouts, NEW st \in RailStates,
           CreatePayout(j, p, st)
    PROVE  SellInv'
<1> DEFINE s == job[j].sell
<1> USE DEF SellInv, AsideTyped
<1>1. /\ s \in Sells /\ job[j].pc = "posting" /\ job[j].ref = None /\ job[j] \in Job
      /\ rail[p].sell = None /\ rail' = [rail EXCEPT ![p] = [sell |-> s, st |-> st]]
      /\ UNCHANGED <<order, hand, forced, reader, ledger, volume, crashes>>
  BY DEF CreatePayout, RefsAreReal, JobRef, TypeOK
<1>2. PICK n \in Job : /\ job' = [job EXCEPT ![j] = n] /\ n.sell = s
                       /\ n.pc \in {"made", "lost"}
                       /\ n.pc = "made" => n.st # "manual"
                       /\ n.ref # None => n.pc = "made" /\ n.ref = p
  <2> DEFINE a == [job[j] EXCEPT !.pc = "made", !.ref = p, !.st = st]
  <2> DEFINE b == [job[j] EXCEPT !.pc = "made", !.st = "unknown"]
  <2> DEFINE c == [job[j] EXCEPT !.pc = "lost"]
  <2>1. \/ job' = [job EXCEPT ![j] = a] \/ job' = [job EXCEPT ![j] = b]
        \/ job' = [job EXCEPT ![j] = c]
    BY DEF CreatePayout
  <2>2. a \in Job /\ a.sell = s /\ a.pc = "made" /\ a.st = st /\ a.ref = p
    BY <1>1 DEF Job, RailStates
  <2>3. b \in Job /\ b.sell = s /\ b.pc = "made" /\ b.st = "unknown" /\ b.ref = None
    BY <1>1 DEF Job
  <2>4. c \in Job /\ c.sell = s /\ c.pc = "lost" /\ c.ref = None
    BY <1>1 DEF Job
  <2>5. st # "manual"
    BY DEF RailStates
  <2> HIDE DEF a, b, c
  <2>6. CASE job' = [job EXCEPT ![j] = a]
    BY <2>2, <2>5, <2>6
  <2>7. CASE job' = [job EXCEPT ![j] = b]
    BY <2>3, <2>7
  <2>8. CASE job' = [job EXCEPT ![j] = c]
    BY <2>4, <2>8
  <2> QED  BY <2>1, <2>6, <2>7, <2>8
<1>3. job'[j] = n /\ \A i \in Jobs \ {j} : job'[i] = job[i]
  BY <1>2 DEF TypeOK
<1>4. rail'[p] = [sell |-> s, st |-> st] /\ \A q \in Payouts \ {p} : rail'[q] = rail[q]
  BY <1>1 DEF TypeOK
<1>5. TypeOK'
  BY <1>1, <1>2 DEF TypeOK, RailStates
<1>6. /\ \A t \in Sells : order[t].ref # p /\ order[t].ref \in Payouts \cup {None}
      /\ \A i \in Jobs : job[i].ref # p /\ job[i].ref \in Payouts \cup {None}
      /\ \A r \in Readers : reader[r].ref # p /\ reader[r].ref \in Payouts \cup {None}
      /\ \A r \in Readers : reader[r].pc \notin {"idle", "read"} =>
           reader[r].asked # p /\ reader[r].asked \in Payouts
      /\ \A t \in Sells : ledger[t] # p /\ ledger[t] \in Payouts \cup {None}
  <2>1. None \notin Payouts
    BY DEF None, Payouts
  <2>2. \A t \in Sells : order[t].ref # p /\ ledger[t] # p
    <3> SUFFICES ASSUME NEW t \in Sells PROVE order[t].ref # p /\ ledger[t] # p
      OBVIOUS
    <3>1. p # None /\ t # None
      BY <2>1
    <3>2. order[t].ref # p
      BY <1>1, <3>1 DEF RefsAreReal, OrderRef
    <3>3. ASSUME ledger[t] = p PROVE FALSE
      <4>1. rail[p] = [sell |-> t, st |-> "paid"]
        BY <3>1, <3>3 DEF LedgerIsTrue
      <4>2. rail[p].sell = t
        BY <4>1
      <4> QED  BY <1>1, <3>1, <4>2
    <3> QED  BY <3>2, <3>3
  <2>3. \A i \in Jobs : job[i].ref # p
    BY <1>1, <2>1 DEF RefsAreReal, JobRef, TypeOK
  <2>4. \A r \in Readers : /\ reader[r].ref # p
                           /\ reader[r].pc \notin {"idle", "read"} =>
                                reader[r].asked # p /\ reader[r].asked # None
    BY <1>1, <2>1 DEF RefsAreReal, ReaderRef, TypeOK
  <2>5. \A t \in Sells : order[t].ref \in Payouts \cup {None} /\ ledger[t] \in Payouts \cup {None}
    BY DEF TypeOK, Order
  <2>6. \A i \in Jobs : job[i].ref \in Payouts \cup {None}
    BY DEF TypeOK, Job
  <2>7. \A r \in Readers : reader[r].ref \in Payouts \cup {None} /\ reader[r].asked \in Payouts \cup {None}
    BY DEF TypeOK, Reading
  <2> QED  BY <2>2, <2>3, <2>4, <2>5, <2>6, <2>7
<1>7. RefsAreReal'
  <2>1. \A t \in Sells : OrderRef(t)'
    BY <1>1, <1>4, <1>6 DEF RefsAreReal, OrderRef
  <2>2. JobRef(j)'
    BY <1>1, <1>2, <1>3, <1>4 DEF JobRef
  <2>3. \A i \in Jobs \ {j} : JobRef(i)'
    BY <1>3, <1>4, <1>6 DEF RefsAreReal, JobRef
  <2>4. \A r \in Readers : ReaderRef(r)'
    BY <1>1, <1>4, <1>6 DEF RefsAreReal, ReaderRef
  <2> QED  BY <2>1, <2>2, <2>3, <2>4 DEF RefsAreReal
<1>8. RecordedOnce'
  BY <1>1, <1>2, <1>3, <1>6 DEF RecordedOnce
<1>9. AnswersAreTrue'
  BY <1>1, <1>4, <1>6 DEF AnswersAreTrue
<1>10. DepositFirst'
  BY <1>1, <1>2, <1>3, <1>4 DEF DepositFirst, HasDeposit
<1>11. LedgerIsTrue'
  BY <1>1, <1>4, <1>6 DEF LedgerIsTrue
<1> QED  BY <1>5, <1>7, <1>8, <1>9, <1>10, <1>11

\* The number goes to the order and is in nobody else's hands.
LEMMA RecordProviderKeeps ==
    ASSUME SellInv, AsideTyped, NEW j \in Jobs, RecordProvider(j)
    PROVE  SellInv'
<1> DEFINE s == job[j].sell
<1> USE DEF SellInv, AsideTyped
<1>1. /\ s \in Sells /\ job[j].pc = "made" /\ job[j].st # "manual" /\ job[j] \in Job
      /\ UNCHANGED <<rail, hand, forced, reader, ledger, volume, crashes>>
  BY DEF RecordProvider, RefsAreReal, JobRef, TypeOK
<1>2. PICK c \in {"unclear", "mark"} :
         job' = [job EXCEPT ![j].pc = c] /\ (job[j].ref # None => c = "mark")
  BY DEF RecordProvider
<1>3. /\ job' \in [Jobs -> Job] /\ job'[j].pc = c /\ job'[j].sell = s
      /\ job'[j].ref = job[j].ref /\ \A i \in Jobs \ {j} : job'[i] = job[i]
  BY <1>2, PcOfJob
<1>4. /\ order' \in [Sells -> Order]
      /\ order'[s].tx = order[s].tx /\ order'[s].status = order[s].status
      /\ \/ order'[s] = order[s]
         \/ /\ order[s].status # "paid"
            /\ order'[s].ref = job[j].ref /\ order'[s].pst = job[j].st
      /\ \A t \in Sells \ {s} : order'[t] = order[t]
  <2>1. job[j].ref \in Payouts \cup {None} /\ job[j].st \in RailStates \cup {"unknown"}
    BY <1>1 DEF Job
  <2>2. order \in [Sells -> Order]
    BY DEF TypeOK
  <2>3. CASE order[s].status # "paid"
    <3>1. order' = [order EXCEPT ![s].ref = job[j].ref, ![s].pst = job[j].st]
      BY <2>3 DEF RecordProvider
    <3> QED  BY <1>1, <2>1, <2>2, <2>3, <3>1 DEF Order
  <2>4. CASE order[s].status = "paid"
    BY <2>2, <2>4 DEF RecordProvider
  <2> QED  BY <2>3, <2>4
<1>5. TypeOK'
  BY <1>1, <1>3, <1>4 DEF TypeOK
<1>6. RefsAreReal'
  <2>1. job[j].st # "none" /\ (job[j].ref # None => rail[job[j].ref].sell = s)
    BY <1>1 DEF RefsAreReal, JobRef, Job, RailStates
  <2>2. \A t \in Sells : OrderRef(t)'
    BY <1>1, <1>4, <2>1 DEF RefsAreReal, OrderRef
  <2>3. JobRef(j)' /\ \A i \in Jobs \ {j} : JobRef(i)'
    BY <1>1, <1>2, <1>3 DEF RefsAreReal, JobRef
  <2>4. \A r \in Readers : ReaderRef(r)'
    BY <1>1 DEF RefsAreReal, ReaderRef
  <2> QED  BY <2>2, <2>3, <2>4 DEF RefsAreReal
<1>7. RecordedOnce'
  BY <1>1, <1>2, <1>3, <1>4 DEF RecordedOnce
<1>8. AnswersAreTrue'
  BY <1>1, <1>4 DEF AnswersAreTrue, RecordedOnce, RefsAreReal, ReaderRef
<1>9. DepositFirst'
  <2>1. \A t \in Sells : order'[t].tx = order[t].tx
    BY <1>4
  <2>2. \A t \in Sells : HasDeposit(t)' <=> HasDeposit(t)
    BY <1>1, <2>1 DEF HasDeposit
  <2>3. \A i \in Jobs : job[i].pc # "idle" => job[i].sell \in Sells
    BY DEF RefsAreReal, JobRef
  <2>4. \A i \in Jobs : job'[i].pc \notin {"idle", "check", "found"} => HasDeposit(job[i].sell)'
    BY <1>1, <1>3, <2>2, <2>3 DEF DepositFirst
  <2>5. \A p \in Payouts : rail'[p].sell # None => HasDeposit(rail[p].sell)'
    BY <1>1, <2>2 DEF DepositFirst, TypeOK
  <2> QED  BY <1>1, <2>1, <2>2, <2>4, <2>5 DEF DepositFirst
<1>10. LedgerIsTrue'
  BY <1>1, <1>4 DEF LedgerIsTrue
<1> QED  BY <1>5, <1>6, <1>7, <1>8, <1>9, <1>10

\* A number that could not be recorded is nobody's.
LEMMA RecordFailsKeeps ==
    ASSUME SellInv, AsideTyped, NEW j \in Jobs, RecordFails(j)
    PROVE  SellInv'
<1> USE DEF SellInv, AsideTyped
<1> DEFINE n == [job[j] EXCEPT !.pc = "lost", !.ref = None]
<1>1. /\ job[j].pc = "made" /\ job[j] \in Job /\ job' = [job EXCEPT ![j] = n]
      /\ UNCHANGED <<order, rail, hand, forced, reader, ledger, volume, crashes>>
  BY DEF RecordFails, TypeOK
<1>2. n \in Job /\ n.sell = job[j].sell /\ n.pc = "lost" /\ n.ref = None
  BY <1>1 DEF Job
<1> HIDE DEF n
<1> QED  BY <1>1, <1>2, MovesOn

\* The administrator is told; only a refusal gives the order back.
LEMMA ReportFailureKeeps ==
    ASSUME SellInv, AsideTyped, NEW j \in Jobs, ReportFailure(j)
    PROVE  SellInv'
<1> USE DEF SellInv, AsideTyped
<1>1. /\ job[j].sell \in Sells /\ job' = [job EXCEPT ![j] = Free]
      /\ order' = order \/ order' = Released(job[j].sell)
      /\ UNCHANGED <<rail, hand, forced, reader, ledger, volume, crashes>>
  BY DEF ReportFailure, RefsAreReal, JobRef
<1>2. job' \in [Jobs -> Job] /\ \A i \in Jobs : job'[i] = job[i] \/ job'[i] = Free
  BY <1>1 DEF TypeOK, Free, Job, RailStates
<1>3. order' \in [Sells -> Order] /\ \A t \in Sells :
         /\ order'[t].tx = order[t].tx /\ order'[t].ref = order[t].ref
         /\ order'[t].pst = order[t].pst
         /\ order[t].status = "paid" => order'[t].status = "paid"
  BY <1>1, ReleasedRow DEF TypeOK
<1> QED  BY <1>1, <1>2, <1>3, NothingNew DEF TypeOK

\* A person is told to pay only for an order whose deposit is there.
LEMMA MarkKeeps ==
    ASSUME SellInv, AsideTyped, NEW j \in Jobs, Mark(j)
    PROVE  SellInv'
<1> DEFINE s == job[j].sell
<1> USE DEF SellInv, AsideTyped
<1>1. /\ s \in Sells /\ job[j].pc = "mark" /\ HasDeposit(s)
      /\ UNCHANGED <<rail, forced, reader, ledger, volume, crashes>>
  BY DEF Mark, RefsAreReal, JobRef, DepositFirst
<1>2. order' \in [Sells -> Order] /\ \A t \in Sells :
         /\ order'[t].tx = order[t].tx /\ order'[t].ref = order[t].ref
         /\ order'[t].pst = order[t].pst
         /\ order[t].status = "paid" => order'[t].status = "paid"
  <2>1. order' = order \/ order' = [order EXCEPT ![s].status = "paid"]
    BY DEF Mark
  <2> QED  BY <1>1, <2>1, StatusRow DEF TypeOK
<1>3. hand' \in [Sells -> Nat] /\ \A t \in Sells : hand'[t] > 0 => hand[t] > 0 \/ HasDeposit(t)
  <2>1. hand' = hand \/ hand' = [hand EXCEPT ![s] = @ + 1]
    BY DEF Mark
  <2> QED  BY <1>1, <2>1 DEF TypeOK
<1>4. /\ job' \in [Jobs -> Job] /\ \A i \in Jobs \ {j} : job'[i] = job[i]
      /\ \/ job'[j] = Free
         \/ job'[j].sell = s /\ job'[j].ref = None /\ job'[j].pc = "credit"
  <2>1. \/ job' = [job EXCEPT ![j] = [Free EXCEPT !.pc = "credit", !.sell = s]]
        \/ job' = [job EXCEPT ![j] = Free]
    BY DEF Mark
  <2> DEFINE n == [Free EXCEPT !.pc = "credit", !.sell = s]
  <2>2. n \in Job /\ n.sell = s /\ n.ref = None /\ n.pc = "credit"
    BY <1>1 DEF Free, Job, RailStates
  <2>3. Free \in Job /\ job \in [Jobs -> Job]
    BY DEF Free, Job, RailStates, TypeOK
  <2>4. job' = [job EXCEPT ![j] = n] \/ job' = [job EXCEPT ![j] = Free]
    BY <2>1
  <2> HIDE DEF n
  <2> QED  BY <2>2, <2>3, <2>4
<1> QED  BY <1>1, <1>2, <1>3, <1>4, NothingNew DEF TypeOK

\* What a reader does that has heard nothing, or has nothing left to do.
LEMMA Sleeps ==
    ASSUME SellInv, AsideTyped, NEW r \in Readers, reader' = [reader EXCEPT ![r] = Asleep],
           UNCHANGED <<rail, hand, forced, job, ledger, volume, crashes>>,
           \/ order' = order
           \/ \E s \in Sells : order' = Released(s)
    PROVE  SellInv'
<1> USE DEF SellInv, AsideTyped
<1>1. /\ reader' \in [Readers -> Reading]
      /\ \A q \in Readers : reader'[q] = reader[q] \/ reader'[q] = Asleep
  BY DEF TypeOK, Asleep, Reading, RailStates
<1>2. order' \in [Sells -> Order] /\ \A t \in Sells :
         /\ order'[t].tx = order[t].tx /\ order'[t].ref = order[t].ref
         /\ order'[t].pst = order[t].pst
         /\ order[t].status = "paid" => order'[t].status = "paid"
  <2>1. CASE order' = order
    BY <2>1 DEF TypeOK
  <2>2. ASSUME NEW s \in Sells, order' = Released(s)
        PROVE  order' \in [Sells -> Order] /\ \A t \in Sells :
                 /\ order'[t].tx = order[t].tx /\ order'[t].ref = order[t].ref
                 /\ order'[t].pst = order[t].pst
                 /\ order[t].status = "paid" => order'[t].status = "paid"
    BY <2>2, ReleasedRow
  <2> QED  BY <2>1, <2>2
<1> QED  BY <1>1, <1>2, NothingNew DEF TypeOK

\* The rows of a rejection and of a release by hand.
LEMMA RowsKeep ==
    ASSUME SellInv, AsideTyped, NEW s \in Sells, Reject(s) \/ Unclaim(s)
    PROVE  SellInv'
<1> USE DEF SellInv, AsideTyped
<1>1. /\ UNCHANGED <<rail, hand, forced, job, reader, ledger, volume, crashes>>
      /\ order[s].status # "paid"
  BY DEF Reject, Unclaim, Claimable
<1>2. PICK v \in {"pending", "rejected"} : order' = [order EXCEPT ![s].status = v]
  BY DEF Reject, Unclaim
<1>3. order' \in [Sells -> Order] /\ \A t \in Sells :
         /\ order'[t].tx = order[t].tx /\ order'[t].ref = order[t].ref
         /\ order'[t].pst = order[t].pst
         /\ order[t].status = "paid" => order'[t].status = "paid"
  BY <1>1, <1>2, StatusRow
<1> QED  BY <1>1, <1>3, NothingNew DEF TypeOK

\* The credit of the volume touches no order.
LEMMA CreditVolumeKeeps ==
    ASSUME SellInv, AsideTyped, NEW j \in Jobs, CreditVolume(j)
    PROVE  SellInv'
<1>1. job[j].sell \in Sells
  BY DEF CreditVolume, SellInv, RefsAreReal, JobRef
<1>2. volume' \in [Sells -> Nat]
  BY <1>1 DEF CreditVolume, SellInv, TypeOK
<1> QED  BY <1>2, LetGo DEF CreditVolume

\* A death of either process makes its side forget.
LEMMA DeathKeeps ==
    ASSUME SellInv, AsideTyped, BotDies \/ RelayDies
    PROVE  SellInv'
<1> USE DEF SellInv, AsideTyped
<1>1. Free \in Job /\ Asleep \in Reading
  BY DEF Free, Asleep, Job, Reading, RailStates
<1>2. UNCHANGED <<order, rail, hand, forced, ledger, volume>> /\ crashes' \in 0 .. MaxCrashes
  BY DEF BotDies, RelayDies, TypeOK
<1>3. job' \in [Jobs -> Job] /\ \A i \in Jobs : job'[i] = job[i] \/ job'[i] = Free
  BY <1>1 DEF BotDies, RelayDies, TypeOK
<1>4. /\ reader' \in [Readers -> Reading]
      /\ \A q \in Readers : reader'[q] = reader[q] \/ reader'[q] = Asleep
  BY <1>1 DEF BotDies, RelayDies, TypeOK
<1> QED  BY <1>2, <1>3, <1>4, NothingNew DEF TypeOK

\* A button that starts, or finds a deposit, has an order and no number, and it claims
\* an unchecked order only if that was forced.
LEMMA Starts ==
    ASSUME SellInv, AsideTyped, NEW j \in Jobs, NEW n \in Job, job' = [job EXCEPT ![j] = n],
           UNCHANGED <<order, rail, hand, reader, ledger, volume, crashes>>,
           forced \subseteq forced', forced' \subseteq Sells,
           n.sell \in Sells, n.ref = None, n.pc \in {"check", "found", "claim"},
           n.pc = "found" => n.deposit # None,
           n.pc = "claim" => n.sell \in forced'
    PROVE  SellInv'
<1> USE DEF SellInv, AsideTyped
<1>3. job'[j] = n /\ \A i \in Jobs \ {j} : job'[i] = job[i]
  BY DEF TypeOK
<1>5. TypeOK'
  BY DEF TypeOK
<1>6. RefsAreReal'
  <2>1. \A s \in Sells : OrderRef(s)'
    BY DEF RefsAreReal, OrderRef
  <2>2. JobRef(j)' /\ \A i \in Jobs \ {j} : JobRef(i)'
    BY <1>3 DEF RefsAreReal, JobRef
  <2>3. \A r \in Readers : ReaderRef(r)'
    BY DEF RefsAreReal, ReaderRef
  <2> QED  BY <2>1, <2>2, <2>3 DEF RefsAreReal
<1>7. RecordedOnce'
  BY <1>3 DEF RecordedOnce
<1>8. AnswersAreTrue' /\ LedgerIsTrue'
  BY DEF AnswersAreTrue, LedgerIsTrue
<1>9. DepositFirst'
  BY <1>3 DEF DepositFirst, HasDeposit
<1> QED  BY <1>5, <1>6, <1>7, <1>8, <1>9

\* A press goes to the check, or is forced.
LEMMA PressKeeps ==
    ASSUME SellInv, AsideTyped, NEW j \in Jobs, Press(j)
    PROVE  SellInv'
<1> USE DEF SellInv
<1>1. ASSUME NEW s \in Sells, SellForce(j, s) PROVE SellInv'
  <2> DEFINE n == [Free EXCEPT !.pc = "claim", !.sell = s]
  <2>1. n \in Job /\ n.sell = s /\ n.ref = None /\ n.pc = "claim"
    BY DEF Free, Job, RailStates
  <2>2. /\ job' = [job EXCEPT ![j] = n] /\ forced' = forced \cup {s}
        /\ UNCHANGED <<order, rail, hand, reader, ledger, volume, crashes>>
    BY <1>1 DEF SellForce
  <2>3. forced \subseteq Sells
    BY DEF TypeOK
  <2> HIDE DEF n
  <2> QED  BY <2>1, <2>2, <2>3, Starts
<1>2. ASSUME NEW s \in Sells, SellConfirm(j, s) PROVE SellInv'
  <2> DEFINE n == [Free EXCEPT !.pc = "check", !.sell = s]
  <2>1. n \in Job /\ n.sell = s /\ n.ref = None /\ n.pc = "check"
    BY DEF Free, Job, RailStates
  <2>2. /\ job' = [job EXCEPT ![j] = n]
        /\ UNCHANGED <<order, rail, hand, forced, reader, ledger, volume, crashes>>
    BY <1>2 DEF SellConfirm
  <2>3. forced \subseteq Sells
    BY DEF TypeOK
  <2> HIDE DEF n
  <2> QED  BY <2>1, <2>2, <2>3, Starts
<1> QED  BY <1>1, <1>2 DEF Press

\* The check finds a deposit for its order, or lets go.
LEMMA VerifyKeeps ==
    ASSUME SellInv, AsideTyped, NEW j \in Jobs, Verify(j)
    PROVE  SellInv'
<1> USE DEF SellInv
<1> DEFINE s == job[j].sell
<1>1. /\ s \in Sells /\ job[j].pc = "check" /\ job[j].ref = None /\ job[j] \in Job
      /\ forced \subseteq Sells /\ order[s] \in Order
      /\ UNCHANGED <<order, rail, hand, forced, reader, ledger, volume, crashes>>
  BY DEF Verify, RefsAreReal, JobRef, TypeOK
<1>2. CASE job' = [job EXCEPT ![j] = Free]
  BY <1>1, <1>2, LetGo DEF TypeOK
<1>3. ASSUME NEW d \in Deposits,
             job' = [job EXCEPT ![j].pc = "found", ![j].deposit = d, ![j].seen = order[s].status]
      PROVE  SellInv'
  <2> DEFINE n == [job[j] EXCEPT !.pc = "found", !.deposit = d, !.seen = order[s].status]
  <2>1. /\ n \in Job /\ n.sell = s /\ n.ref = None /\ n.pc = "found" /\ n.deposit = d
        /\ d # None
    BY <1>1 DEF Job, Order
  <2>2. job' = [job EXCEPT ![j] = n]
    BY <1>3
  <2> HIDE DEF n
  <2> QED  BY <1>1, <2>1, <2>2, Starts
<1> QED  BY <1>2, <1>3 DEF Verify

\* The rail decides a payout that waits; nobody was told of another answer.
LEMMA RailDecidesKeeps ==
    ASSUME SellInv, AsideTyped, NEW p \in Payouts, RailDecides(p)
    PROVE  SellInv'
<1> USE DEF SellInv, AsideTyped
<1>1. /\ rail[p].st = "pending"
      /\ UNCHANGED <<order, hand, forced, job, reader, ledger, volume, crashes>>
  BY DEF RailDecides
<1>2. /\ rail' \in [Payouts -> [sell : Sells \cup {None}, st : RailStates]]
      /\ \A q \in Payouts : rail'[q].sell = rail[q].sell /\ (q # p => rail'[q] = rail[q])
  BY DEF RailDecides, TypeOK, RailStates
<1>3. None \notin Payouts
  BY DEF None, Payouts
<1>4. TypeOK'
  BY <1>1, <1>2 DEF TypeOK
<1>5. RefsAreReal'
  <2>1. /\ \A s \in Sells : order[s].ref \in Payouts \cup {None}
        /\ \A j \in Jobs : job[j].ref \in Payouts \cup {None}
        /\ \A r \in Readers : reader[r].ref \in Payouts \cup {None}
                              /\ reader[r].asked \in Payouts \cup {None}
    BY DEF TypeOK, Order, Job, Reading
  <2>2. \A s \in Sells : OrderRef(s)'
    BY <1>1, <1>2, <2>1 DEF RefsAreReal, OrderRef
  <2>3. \A j \in Jobs : JobRef(j)'
    BY <1>1, <1>2, <2>1 DEF RefsAreReal, JobRef
  <2>4. \A r \in Readers : ReaderRef(r)'
    BY <1>1, <1>2, <2>1 DEF RefsAreReal, ReaderRef
  <2> QED  BY <2>2, <2>3, <2>4 DEF RefsAreReal
<1>6. RecordedOnce'
  BY <1>1 DEF RecordedOnce
<1>7. AnswersAreTrue'
  <2>1. \A r \in Readers : reader[r].pc \in {"asked", "told", "noted"} => reader[r].asked \in Payouts
    BY DEF RefsAreReal, ReaderRef, TypeOK, Reading
  <2> QED  BY <1>1, <1>2, <2>1 DEF AnswersAreTrue
<1>8. DepositFirst'
  BY <1>1, <1>2 DEF DepositFirst, HasDeposit
<1>9. LedgerIsTrue'
  <2> SUFFICES ASSUME NEW s \in Sells, ledger[s] # None
               PROVE  rail'[ledger[s]] = [sell |-> s, st |-> "paid"]
    BY <1>1 DEF LedgerIsTrue
  <2>1. ledger[s] \in Payouts /\ rail[ledger[s]] = [sell |-> s, st |-> "paid"]
    BY DEF LedgerIsTrue, TypeOK
  <2>2. ledger[s] # p
    BY <1>1, <2>1
  <2> QED  BY <1>2, <2>1, <2>2
<1> QED  BY <1>4, <1>5, <1>6, <1>7, <1>8, <1>9

\* A reader that goes on has the number of its order, and its answer is the rail's.
LEMMA ReadsOn ==
    ASSUME SellInv, AsideTyped, NEW r \in Readers, NEW n \in Reading, reader' = [reader EXCEPT ![r] = n],
           UNCHANGED <<order, rail, hand, forced, job, ledger, volume, crashes>>,
           n.pc # "idle", n.sell \in Sells, n.ref # None,
           \/ n.ref = order[n.sell].ref
           \/ reader[r].pc # "idle" /\ n.ref = reader[r].ref /\ n.sell = reader[r].sell,
           n.pc # "read" =>
             /\ n.asked # None /\ rail[n.asked].sell = n.sell
             /\ order[n.sell].ref = n.ref => n.asked = n.ref
             /\ n.pc # "asked" /\ n.st # "pending" => rail[n.asked].st = n.st
    PROVE  SellInv'
<1> USE DEF SellInv, AsideTyped
<1>1. reader'[r] = n /\ \A q \in Readers \ {r} : reader'[q] = reader[q]
  BY DEF TypeOK
<1>2. TypeOK'
  BY DEF TypeOK
<1>3. RefsAreReal'
  <2>1. \A s \in Sells : OrderRef(s)'
    BY DEF RefsAreReal, OrderRef
  <2>2. \A j \in Jobs : JobRef(j)'
    BY DEF RefsAreReal, JobRef
  <2>3. ReaderRef(r)'
    BY <1>1 DEF RefsAreReal, OrderRef, ReaderRef
  <2>4. \A q \in Readers \ {r} : ReaderRef(q)'
    BY <1>1 DEF RefsAreReal, ReaderRef
  <2> QED  BY <2>1, <2>2, <2>3, <2>4 DEF RefsAreReal
<1>4. RecordedOnce'
  BY <1>1 DEF RecordedOnce
<1>5. AnswersAreTrue'
  <2>1. n.pc \in {"asked", "told", "noted"} =>
          /\ order[n.sell].ref = n.ref => n.asked = n.ref
          /\ n.pc # "asked" /\ n.st # "pending" => rail[n.asked].st = n.st
    OBVIOUS
  <2> QED  BY <1>1, <2>1 DEF AnswersAreTrue
<1>6. DepositFirst' /\ LedgerIsTrue'
  BY DEF DepositFirst, HasDeposit, LedgerIsTrue
<1> QED  BY <1>2, <1>3, <1>4, <1>5, <1>6

\* A reader takes the number that the order has.
LEMMA PickKeeps ==
    ASSUME SellInv, AsideTyped, NEW r \in Readers, NEW s \in Sells, Pick(r, s)
    PROVE  SellInv'
<1> USE DEF SellInv, AsideTyped
<1> DEFINE n == [Asleep EXCEPT !.pc = "read", !.sell = s, !.ref = order[s].ref]
<1>1. order[s].ref \in Payouts \cup {None}
  BY DEF TypeOK, Order
<1>2. n \in Reading /\ n.pc = "read" /\ n.sell = s /\ n.ref = order[s].ref
  BY <1>1 DEF Asleep, Reading, RailStates
<1>3. /\ reader' = [reader EXCEPT ![r] = n] /\ order[s].ref # None
      /\ UNCHANGED <<order, rail, hand, forced, job, ledger, volume, crashes>>
  BY DEF Pick, Listed
<1> HIDE DEF n
<1> QED  BY <1>2, <1>3, ReadsOn

\* It asks about the number that the order has now.
LEMMA AskKeeps ==
    ASSUME SellInv, AsideTyped, NEW r \in Readers, Ask(r)
    PROVE  SellInv'
<1> USE DEF SellInv, AsideTyped
<1> DEFINE s == reader[r].sell
<1> DEFINE n == [reader[r] EXCEPT !.pc = "asked", !.asked = order[s].ref]
<1>1. /\ s \in Sells /\ reader[r].ref # None /\ reader[r].pc = "read" /\ reader[r] \in Reading
      /\ UNCHANGED <<order, rail, hand, forced, job, ledger, volume, crashes>>
  BY DEF Ask, RefsAreReal, ReaderRef, TypeOK
<1>2. CASE order[s].ref = None
  <2>1. reader' = [reader EXCEPT ![r] = Asleep]
    BY <1>2 DEF Ask
  <2> QED  BY <1>1, <2>1, Sleeps
<1>3. CASE order[s].ref # None
  <2>1. reader' = [reader EXCEPT ![r] = n]
    BY <1>3 DEF Ask
  <2>2. order[s].ref \in Payouts \cup {None} /\ rail[order[s].ref].sell = s
    BY <1>1, <1>3 DEF TypeOK, Order, RefsAreReal, OrderRef
  <2>3. /\ n \in Reading /\ n.pc = "asked" /\ n.sell = s /\ n.ref = reader[r].ref
        /\ n.asked = order[s].ref
    BY <1>1, <2>2 DEF Reading
  <2> HIDE DEF n
  <2> QED  BY <1>1, <1>3, <2>1, <2>2, <2>3, ReadsOn
<1> QED  BY <1>2, <1>3

\* What it is told is true of the payout it asked about.
LEMMA HearKeeps ==
    ASSUME SellInv, AsideTyped, NEW r \in Readers, Hear(r)
    PROVE  SellInv'
<1> USE DEF SellInv, AsideTyped
<1> DEFINE n == [reader[r] EXCEPT !.pc = "told", !.st = rail[reader[r].asked].st]
<1>1. /\ reader[r].sell \in Sells /\ reader[r].ref # None /\ reader[r].pc = "asked"
      /\ reader[r] \in Reading /\ reader[r].asked \in Payouts
      /\ rail[reader[r].asked].sell = reader[r].sell
      /\ order[reader[r].sell].ref = reader[r].ref => reader[r].asked = reader[r].ref
      /\ UNCHANGED <<order, rail, hand, forced, job, ledger, volume, crashes>>
  BY DEF Hear, RefsAreReal, ReaderRef, TypeOK, Reading, AnswersAreTrue
<1>2. \/ reader' = [reader EXCEPT ![r] = n]
      \/ reader' = [reader EXCEPT ![r] = Asleep]
  BY DEF Hear
<1>3. CASE reader' = [reader EXCEPT ![r] = Asleep]
  BY <1>1, <1>3, Sleeps
<1>4. CASE reader' = [reader EXCEPT ![r] = n]
  <2>1. rail[reader[r].asked].st \in RailStates
    BY <1>1 DEF TypeOK
  <2>2. /\ n \in Reading /\ n.pc = "told" /\ n.sell = reader[r].sell /\ n.ref = reader[r].ref
        /\ n.asked = reader[r].asked /\ n.st = rail[reader[r].asked].st
    BY <1>1, <2>1 DEF Reading
  <2>3. n.asked # None
    BY <1>1, <2>2 DEF None, Payouts
  <2> HIDE DEF n
  <2> QED  BY <1>1, <1>4, <2>2, <2>3, ReadsOn
<1> QED  BY <1>2, <1>3, <1>4

\* The answer reaches the order's status of the payout, and nothing else of it.
LEMMA UpdateStatusKeeps ==
    ASSUME SellInv, AsideTyped, NEW r \in Readers, UpdateStatus(r)
    PROVE  SellInv'
<1> USE DEF SellInv, AsideTyped
<1> DEFINE s == reader[r].sell
<1>1. /\ s \in Sells /\ reader[r].ref # None /\ reader[r].pc = "told" /\ reader[r] \in Reading
      /\ reader[r].st \in RailStates
      /\ UNCHANGED <<rail, hand, forced, job, ledger, volume, crashes>>
  BY DEF UpdateStatus, RefsAreReal, ReaderRef, TypeOK, Reading
<1>2. /\ order' \in [Sells -> Order]
      /\ \A t \in Sells :
           /\ order'[t].ref = order[t].ref /\ order'[t].tx = order[t].tx
           /\ order'[t].status = order[t].status
           /\ order'[t].pst \in {order[t].pst} \cup RailStates
           /\ order[t].status = "paid" => order'[t] = order[t]
  <2>1. \/ order' = order
        \/ order[s].status # "paid" /\ order' = [order EXCEPT ![s].pst = reader[r].st]
    BY DEF UpdateStatus
  <2>2. order \in [Sells -> Order] /\ order[s] \in Order
    BY <1>1 DEF TypeOK
  <2>3. CASE order' = order
    BY <2>2, <2>3
  <2>4. CASE order[s].status # "paid" /\ order' = [order EXCEPT ![s].pst = reader[r].st]
    <3> DEFINE n == [order[s] EXCEPT !.pst = reader[r].st]
    <3>1. /\ n \in Order /\ n.ref = order[s].ref /\ n.tx = order[s].tx
          /\ n.status = order[s].status /\ n.pst = reader[r].st
      BY <1>1, <2>2 DEF Order
    <3>2. order' = [order EXCEPT ![s] = n]
      BY <2>4
    <3> HIDE DEF n
    <3> QED  BY <1>1, <2>2, <2>4, <3>1, <3>2
  <2> QED  BY <2>1, <2>3, <2>4
<1>3. PICK n \in Reading : /\ reader' = [reader EXCEPT ![r] = n]
                           /\ \/ n = Asleep
                              \/ /\ n.pc = "noted" /\ n.sell = s /\ n.ref = reader[r].ref
                                 /\ n.asked = reader[r].asked /\ n.st = reader[r].st
  <2> DEFINE b == [reader[r] EXCEPT !.pc = "noted"]
  <2>1. Asleep \in Reading
    BY DEF Asleep, Reading, RailStates
  <2>2. /\ b \in Reading /\ b.pc = "noted" /\ b.sell = s /\ b.ref = reader[r].ref
        /\ b.asked = reader[r].asked /\ b.st = reader[r].st
    BY <1>1 DEF Reading
  <2>3. reader' = [reader EXCEPT ![r] = Asleep] \/ reader' = [reader EXCEPT ![r] = b]
    BY DEF UpdateStatus
  <2> HIDE DEF b
  <2> QED  BY <2>1, <2>2, <2>3
<1>4. reader'[r] = n /\ \A q \in Readers \ {r} : reader'[q] = reader[q]
  BY <1>3 DEF TypeOK
<1>5. TypeOK'
  BY <1>1, <1>2, <1>3 DEF TypeOK
<1>6. RefsAreReal'
  <2>1. \A t \in Sells : OrderRef(t)'
    BY <1>1, <1>2 DEF RefsAreReal, OrderRef, RailStates
  <2>2. \A j \in Jobs : JobRef(j)'
    BY <1>1 DEF RefsAreReal, JobRef
  <2>3. ReaderRef(r)'
    <3>1. reader[r].asked # None /\ rail[reader[r].asked].sell = s /\ rail[reader[r].ref].sell = s
      BY <1>1 DEF RefsAreReal, ReaderRef
    <3> QED  BY <1>1, <1>3, <1>4, <3>1 DEF ReaderRef, Asleep
  <2>4. \A q \in Readers \ {r} : ReaderRef(q)'
    BY <1>1, <1>4 DEF RefsAreReal, ReaderRef
  <2> QED  BY <2>1, <2>2, <2>3, <2>4 DEF RefsAreReal
<1>7. RecordedOnce'
  <2>1. \A q \in Readers : reader'[q].ref \in {reader[q].ref, None}
    BY <1>3, <1>4 DEF Asleep
  <2> QED  BY <1>1, <1>2, <2>1 DEF RecordedOnce
<1>8. AnswersAreTrue'
  <2> SUFFICES ASSUME NEW q \in Readers, reader'[q].pc \in {"asked", "told", "noted"}
               PROVE  /\ order'[reader'[q].sell].ref = reader'[q].ref => reader'[q].asked = reader'[q].ref
                      /\ reader'[q].pc # "asked" /\ reader'[q].st # "pending" =>
                           rail'[reader'[q].asked].st = reader'[q].st
    BY DEF AnswersAreTrue
  <2>1. /\ reader[q].pc \in {"asked", "told", "noted"} /\ reader'[q].sell = reader[q].sell
        /\ reader'[q].ref = reader[q].ref /\ reader'[q].asked = reader[q].asked
        /\ reader'[q].st = reader[q].st /\ (reader'[q].pc # "asked" => reader[q].pc # "asked")
    BY <1>1, <1>3, <1>4 DEF Asleep
  <2>2. reader[q].sell \in Sells
    BY <2>1 DEF RefsAreReal, ReaderRef
  <2> QED  BY <1>1, <1>2, <2>1, <2>2 DEF AnswersAreTrue
<1>9. DepositFirst'
  <2>1. \A t \in Sells : HasDeposit(t)' <=> HasDeposit(t)
    BY <1>1, <1>2 DEF HasDeposit
  <2>2. \A j \in Jobs : job[j].pc # "idle" => job[j].sell \in Sells
    BY DEF RefsAreReal, JobRef
  <2>3. \A j \in Jobs : job[j].pc \notin {"idle", "check", "found"} => HasDeposit(job[j].sell)'
    BY <1>1, <2>1, <2>2 DEF DepositFirst
  <2>4. \A p \in Payouts : rail[p].sell # None => HasDeposit(rail[p].sell)'
    BY <1>1, <2>1 DEF DepositFirst, TypeOK
  <2> QED  BY <1>1, <1>2, <2>1, <2>3, <2>4 DEF DepositFirst
<1>10. LedgerIsTrue'
  BY <1>1, <1>2 DEF LedgerIsTrue
<1> QED  BY <1>5, <1>6, <1>7, <1>8, <1>9, <1>10

\* The answer that settles is about the payout the order refers to, so the rail paid it.
LEMMA SettleKeeps ==
    ASSUME SellInv, AsideTyped, NEW r \in Readers, Settle(r)
    PROVE  SellInv'
<1> USE DEF SellInv, AsideTyped
<1> DEFINE s == reader[r].sell
<1>1. /\ s \in Sells /\ reader[r].ref # None /\ reader[r].pc = "noted" /\ reader[r].st = "paid"
      /\ reader[r] \in Reading /\ reader' = [reader EXCEPT ![r] = Asleep]
      /\ UNCHANGED <<rail, hand, forced, job, crashes>>
  BY DEF Settle, RefsAreReal, ReaderRef, TypeOK
<1>2. CASE ~Settleable(r, s)
  <2>1. UNCHANGED <<order, ledger, volume>>
    BY <1>2 DEF Settle
  <2> QED  BY <1>1, <2>1, Sleeps
<1>3. CASE Settleable(r, s)
  <2>1. /\ order' = [order EXCEPT ![s].status = "paid"]
        /\ ledger' = [ledger EXCEPT ![s] = reader[r].ref]
        /\ volume' = [volume EXCEPT ![s] = @ + 1]
        /\ order[s].ref = reader[r].ref
    BY <1>3 DEF Settle, Settleable
  <2>2. /\ order' \in [Sells -> Order] /\ order'[s].status = "paid"
        /\ \A t \in Sells : /\ order'[t].ref = order[t].ref /\ order'[t].tx = order[t].tx
                            /\ order'[t].pst = order[t].pst
                            /\ t # s => order'[t] = order[t]
    BY <1>1, <2>1, StatusRow
  <2>3. rail[reader[r].ref] = [sell |-> s, st |-> "paid"]
    <3>1. reader[r].ref \in Payouts
      BY <1>1 DEF Reading
    <3>2. rail[reader[r].ref].sell = s /\ rail[reader[r].ref].st = "paid"
      BY <1>1, <2>1 DEF RefsAreReal, ReaderRef, AnswersAreTrue
    <3> QED  BY <3>1, <3>2 DEF TypeOK
  <2>4. LedgerIsTrue'
    <3>1. /\ ledger'[s] = reader[r].ref
          /\ \A t \in Sells \ {s} : ledger'[t] = ledger[t]
      BY <1>1, <2>1 DEF TypeOK
    <3>2. \A t \in Sells \ {s} : ledger[t] # None =>
            /\ rail[ledger[t]] = [sell |-> t, st |-> "paid"]
            /\ order'[t].status = "paid" /\ order'[t].ref = ledger[t]
      BY <2>2 DEF LedgerIsTrue
    <3> QED  BY <1>1, <2>1, <2>2, <2>3, <3>1, <3>2 DEF LedgerIsTrue
  <2>5. /\ reader' \in [Readers -> Reading] /\ ledger' \in [Sells -> Payouts \cup {None}]
        /\ volume' \in [Sells -> Nat]
    BY <1>1, <2>1 DEF TypeOK, Reading, Asleep, RailStates
  <2>6. TypeOK'
    BY <1>1, <2>2, <2>5 DEF TypeOK
  <2>7. \A q \in Readers : reader'[q] = reader[q] \/ reader'[q] = Asleep
    BY <1>1 DEF TypeOK
  <2>a. Asleep.ref = None /\ Asleep.pc = "idle"
    BY DEF Asleep
  <2>8. RefsAreReal'
    <3>1. \A t \in Sells : OrderRef(t)'
      BY <1>1, <2>2 DEF RefsAreReal, OrderRef
    <3>2. \A j \in Jobs : JobRef(j)'
      BY <1>1 DEF RefsAreReal, JobRef
    <3>3. \A q \in Readers : ReaderRef(q)'
      BY <1>1, <2>7 DEF RefsAreReal, ReaderRef, Asleep
    <3> QED  BY <3>1, <3>2, <3>3 DEF RefsAreReal
  <2>9. RecordedOnce'
    <3>1. \A q \in Readers : reader'[q].ref = reader[q].ref \/ reader'[q].ref = None
      BY <2>7, <2>a
    <3> QED  BY <1>1, <2>2, <3>1 DEF RecordedOnce
  <2>10. AnswersAreTrue'
    <3> SUFFICES ASSUME NEW q \in Readers, reader'[q].pc \in {"asked", "told", "noted"}
                 PROVE  /\ order'[reader'[q].sell].ref = reader'[q].ref =>
                             reader'[q].asked = reader'[q].ref
                        /\ reader'[q].pc # "asked" /\ reader'[q].st # "pending" =>
                             rail[reader'[q].asked].st = reader'[q].st
      BY <1>1 DEF AnswersAreTrue
    <3>1. reader'[q] = reader[q]
      BY <2>7, <2>a
    <3>2. order'[reader[q].sell].ref = order[reader[q].sell].ref
      BY <2>2, <3>1 DEF RefsAreReal, ReaderRef
    <3>3. /\ order[reader[q].sell].ref = reader[q].ref => reader[q].asked = reader[q].ref
          /\ reader[q].pc # "asked" /\ reader[q].st # "pending" =>
               rail[reader[q].asked].st = reader[q].st
      BY <3>1 DEF AnswersAreTrue
    <3> QED  BY <3>1, <3>2, <3>3
  <2>11. DepositFirst'
    <3>1. \A t \in Sells : HasDeposit(t)' <=> HasDeposit(t)
      BY <1>1, <2>2 DEF HasDeposit
    <3>2. \A j \in Jobs : job[j].pc # "idle" => job[j].sell \in Sells
      BY DEF RefsAreReal, JobRef
    <3>3. \A j \in Jobs : job[j].pc \notin {"idle", "check", "found"} => HasDeposit(job[j].sell)'
      BY <1>1, <3>1, <3>2 DEF DepositFirst
    <3>4. \A p \in Payouts : rail[p].sell # None => HasDeposit(rail[p].sell)'
      BY <1>1, <3>1 DEF DepositFirst, TypeOK
    <3> QED  BY <1>1, <2>2, <3>1, <3>3, <3>4 DEF DepositFirst
  <2> QED  BY <2>4, <2>6, <2>8, <2>9, <2>10, <2>11
<1> QED  BY <1>2, <1>3

\* The refusal of a payout gives its order back, if the order is still being paid.
LEMMA MarkRejectedKeeps ==
    ASSUME SellInv, AsideTyped, NEW r \in Readers, MarkRejected(r)
    PROVE  SellInv'
<1>1. reader[r].sell \in Sells
  BY DEF SellInv, MarkRejected, RefsAreReal, ReaderRef
<1> QED  BY <1>1, Sleeps DEF MarkRejected

\* Nothing has happened at the start.
LEMMA SellInvInit == Init => SellInv
<1> SUFFICES ASSUME Init PROVE SellInv
  OBVIOUS
<1>1. None \notin Payouts
  BY DEF None, Payouts
<1>2. /\ Free \in Job /\ Free.pc = "idle" /\ Free.ref = None
      /\ Asleep \in Reading /\ Asleep.pc = "idle" /\ Asleep.ref = None
  BY DEF Free, Asleep, Job, Reading, RailStates
<1>3. TypeOK
  BY <1>2 DEF Init, TypeOK, Order, RailStates
<1>4. RefsAreReal /\ RecordedOnce /\ AnswersAreTrue
  BY <1>2 DEF Init, RefsAreReal, OrderRef, JobRef, ReaderRef, RecordedOnce, AnswersAreTrue
<1>5. DepositFirst /\ LedgerIsTrue
  BY <1>2 DEF Init, DepositFirst, HasDeposit, LedgerIsTrue
<1> QED  BY <1>3, <1>4, <1>5 DEF SellInv

\* Time changes no table.
LEMMA AgeKeeps ==
    ASSUME SellInv, AsideTyped, NEW s \in Sells, ThreeDaysPass(s)
    PROVE  SellInv'
  BY NothingNew DEF ThreeDaysPass, SellInv, TypeOK

LEMMA AsideStep == ASSUME SellInv, [Next]_vars PROVE AsideTyped
<1> USE DEF AsideTyped
<1>0. /\ aged \subseteq Sells /\ reopened \subseteq Sells
      /\ \A s, w : Renewed(s, w) \subseteq Sells
      /\ \A j \in Jobs : job[j].pc # "idle" => job[j].sell \in Sells
  BY DEF SellInv, TypeOK, Renewed, RefsAreReal, JobRef
<1>1. ASSUME NEW j \in Jobs, Press(j) PROVE AsideTyped
  BY <1>0, <1>1 DEF Press, SellForce, SellConfirm
<1>2. ASSUME NEW j \in Jobs, Serve(j) PROVE AsideTyped
  <2>1. CASE ReserveTxid(j) \/ Claim(j) \/ RecordProvider(j) \/ Mark(j)
    BY <1>0, <2>1 DEF ReserveTxid, Claim, RecordProvider, Mark
  <2>2. CASE ReportFailure(j)
    BY <1>0, <2>2 DEF ReportFailure
  <2>3. CASE Verify(j) \/ SendRub(j) \/ RefusePayout(j) \/ RecordFails(j) \/ CreditVolume(j)
    BY <1>0, <2>3 DEF Verify, SendRub, RefusePayout, RecordFails, CreditVolume
  <2>4. ASSUME NEW p \in Payouts, NEW st \in RailStates, CreatePayout(j, p, st) PROVE AsideTyped
    BY <1>0, <2>4 DEF CreatePayout
  <2> QED  BY <1>2, <2>1, <2>2, <2>3, <2>4 DEF Serve
<1>3. ASSUME NEW r \in Readers, Read(r) PROVE AsideTyped
  BY <1>0, <1>3 DEF Read, Pick, Ask, Hear, UpdateStatus, Settle, MarkRejected
<1>4. ASSUME NEW s \in Sells, Reject(s) \/ Unclaim(s) \/ ThreeDaysPass(s) PROVE AsideTyped
  BY <1>0, <1>4 DEF Reject, Unclaim, ThreeDaysPass
<1>5. CASE BotDies \/ RelayDies \/ (\E p \in Payouts : RailDecides(p)) \/ UNCHANGED vars
  BY <1>0, <1>5 DEF BotDies, RelayDies, RailDecides, vars
<1> QED  BY <1>1, <1>2, <1>3, <1>4, <1>5 DEF Next

\* Every step of a button, a reader, a person, the rail or a death keeps it.
LEMMA SellInvStep == SellInv /\ [Next]_vars => SellInv'
<1> SUFFICES ASSUME SellInv, [Next]_vars PROVE SellInv'
  OBVIOUS
<1> AsideTyped
  BY AsideStep
<1>1. ASSUME NEW j \in Jobs, Press(j) PROVE SellInv'
  BY <1>1, PressKeeps
<1>2. ASSUME NEW j \in Jobs, Serve(j) PROVE SellInv'
  BY <1>2, VerifyKeeps, ReserveTxidKeeps, ClaimKeeps, SendRubKeeps, RefusePayoutKeeps,
     CreatePayoutKeeps, RecordProviderKeeps, RecordFailsKeeps, ReportFailureKeeps, MarkKeeps,
     CreditVolumeKeeps DEF Serve
<1>3. ASSUME NEW r \in Readers, Read(r) PROVE SellInv'
  BY <1>3, PickKeeps, AskKeeps, HearKeeps, UpdateStatusKeeps, SettleKeeps, MarkRejectedKeeps
     DEF Read
<1>4. ASSUME NEW s \in Sells, Reject(s) \/ Unclaim(s) \/ ThreeDaysPass(s) PROVE SellInv'
  BY <1>4, RowsKeep, AgeKeeps
<1>5. ASSUME NEW p \in Payouts, RailDecides(p) PROVE SellInv'
  BY <1>5, RailDecidesKeeps
<1>6. CASE BotDies \/ RelayDies
  BY <1>6, DeathKeeps
<1>7. CASE UNCHANGED vars
  BY <1>7 DEF vars, SellInv, AsideTyped, TypeOK, RefsAreReal, OrderRef, JobRef, ReaderRef, RecordedOnce,
              AnswersAreTrue, DepositFirst, HasDeposit, LedgerIsTrue
<1> QED  BY <1>1, <1>2, <1>3, <1>4, <1>5, <1>6, <1>7 DEF Next

\* Every reachable state satisfies the inductive invariant.
THEOREM AlwaysSellInv == Spec => []SellInv
  BY SellInvInit, SellInvStep, PTL DEF Spec

\* The tables keep their shape: no handler writes a status its readers do not know.
THEOREM SellTypes == Spec => []TypeOK
<1>1. SellInv => TypeOK
  BY DEF SellInv
<1> QED  BY <1>1, AlwaysSellInv, PTL

\* The settlement ledger names only payouts of that order that the rail has paid.
THEOREM LedgerStaysTrue == Spec => []LedgerIsTrue
<1>1. SellInv => LedgerIsTrue
  BY DEF SellInv
<1> QED  BY <1>1, AlwaysSellInv, PTL

\* Whoever presses what and when, an order whose deposit check nobody skipped gets money
\* only against a deposit that no other order has.
THEOREM MoneyForADeposit == Spec => []PaidForADeposit
<1>1. SellInv => PaidForADeposit
  <2> SUFFICES ASSUME SellInv, NEW s \in Sells \ forced, Moved(s)
               PROVE  order[s].tx # None /\ \A t \in Sells \ {s} : order[t].tx # order[s].tx
    BY DEF PaidForADeposit
  <2>1. HasDeposit(s)
    BY DEF SellInv, DepositFirst, Moved, Live
  <2> QED  BY <2>1 DEF SellInv, DepositFirst, HasDeposit
<1> QED  BY <1>1, AlwaysSellInv, PTL

\* Every write to a row of the table asks first that the row is not paid, but for the
\* reservation of a deposit, which asks that the row has no other.
KeepsPaid(t) ==
    /\ order'[t].status = order[t].status /\ order'[t].ref = order[t].ref
    /\ order'[t].pst = order[t].pst
    /\ order'[t].tx = order[t].tx \/ order[t].tx = None

LEMMA PaidStep ==
    ASSUME SellInv, Next, NEW t \in Sells, order[t].status = "paid"
    PROVE  KeepsPaid(t)
<1> USE DEF SellInv
<1>1. order \in [Sells -> Order]
  BY DEF TypeOK
<1>0. SUFFICES ASSUME order'[t] # order[t] PROVE KeepsPaid(t)
  BY DEF KeepsPaid
<1>2. ASSUME NEW j \in Jobs, Press(j) PROVE order'[t] = order[t]
  BY <1>2 DEF Press, SellConfirm, SellForce
<1>3. ASSUME NEW j \in Jobs, Serve(j) PROVE KeepsPaid(t)
  <2>1. CASE ReserveTxid(j)
    <3>1. job[j].sell \in Sells
      BY <2>1 DEF ReserveTxid, RefsAreReal, JobRef
    <3>2. /\ order' = [order EXCEPT ![t].tx = job[j].deposit]
          /\ order[t].tx \in {None, job[j].deposit}
      BY <1>0, <1>1, <2>1, <3>1 DEF ReserveTxid, Reservable
    <3> QED  BY <1>1, <3>2 DEF KeepsPaid, Order
  <2>2. CASE Claim(j)
    BY <1>0, <1>1, <2>2 DEF Claim, Claimable
  <2>3. CASE RecordProvider(j)
    BY <1>0, <1>1, <2>3 DEF RecordProvider
  <2>4. CASE ReportFailure(j)
    BY <1>0, <1>1, <2>4 DEF ReportFailure, Released
  <2>5. CASE Mark(j)
    BY <1>0, <1>1, <2>5 DEF Mark
  <2>6. CASE \/ Verify(j) \/ SendRub(j) \/ RefusePayout(j) \/ RecordFails(j) \/ CreditVolume(j)
             \/ \E p \in Payouts, st \in RailStates : CreatePayout(j, p, st)
    BY <1>0, <2>6 DEF Verify, SendRub, RefusePayout, RecordFails, CreditVolume, CreatePayout
  <2> QED  BY <1>3, <2>1, <2>2, <2>3, <2>4, <2>5, <2>6 DEF Serve
<1>4. ASSUME NEW r \in Readers, Read(r) PROVE order'[t] = order[t]
  <2>1. CASE UpdateStatus(r)
    BY <1>1, <2>1 DEF UpdateStatus
  <2>2. CASE Settle(r)
    BY <1>1, <2>2 DEF Settle, Settleable
  <2>3. CASE MarkRejected(r)
    BY <1>1, <2>3 DEF MarkRejected, Released
  <2>4. CASE Ask(r) \/ Hear(r) \/ \E s \in Sells : Pick(r, s)
    BY <2>4 DEF Ask, Hear, Pick
  <2> QED  BY <1>4, <2>1, <2>2, <2>3, <2>4 DEF Read
<1>5. ASSUME NEW s \in Sells, Reject(s) \/ Unclaim(s) \/ ThreeDaysPass(s)
      PROVE  order'[t] = order[t]
  BY <1>1, <1>5 DEF Reject, Unclaim, ThreeDaysPass, Claimable
<1>6. CASE BotDies \/ RelayDies \/ \E p \in Payouts : RailDecides(p)
  BY <1>0, <1>6 DEF BotDies, RelayDies, RailDecides
<1> QED  BY <1>0, <1>2, <1>3, <1>4, <1>5, <1>6 DEF Next

\* No late answer, button or release reopens an order that is paid, gives it another
\* payout or exchanges its deposit.
THEOREM PaidForGood == Spec => PaidStaysPaid
<1>1. SellInv /\ [Next]_vars =>
        [\A s \in Sells : order[s].status = "paid" =>
            /\ order'[s].status = "paid" /\ order'[s].ref = order[s].ref
            /\ order'[s].pst = order[s].pst
            /\ order'[s].tx = order[s].tx \/ order[s].tx = None]_vars
  BY PaidStep DEF KeepsPaid
<1> QED  BY <1>1, AlwaysSellInv, PTL DEF Spec, PaidStaysPaid

-----------------------------------------------------------------------------
\* One transfer for an order that was not put back too early, while the sweep alone
\* carries outcomes back.

\* What was put back too early stays so.
Grows == reopened \subseteq reopened' /\ reopened' \subseteq Sells

\* Only the rail's payouts and decisions change what is live.
LEMMA LiveStays == ASSUME rail' = rail PROVE \A s \in Sells : Live(s)' = Live(s)
  BY DEF Live

\* A step that neither changes what an order says of its payment nor takes a button to
\* where it holds the order, nor a reader to another one.
LEMMA Quiet ==
    ASSUME SweepInv, SellInv', Grows, UNCHANGED <<rail, hand>>,
           \A s \in Sells : /\ order'[s].status = order[s].status
                            /\ order'[s].ref = order[s].ref /\ order'[s].pst = order[s].pst,
           \A j \in Jobs : \/ job'[j] = job[j]
                           \/ job'[j].pc \in {"idle", "check", "found", "claim", "unclear", "credit"},
           \A r \in Readers : reader'[r].pc # "idle" =>
             /\ reader[r].pc # "idle" /\ reader'[r].sell = reader[r].sell
             /\ reader'[r].ref = reader[r].ref
             /\ reader'[r].pc = "noted" => reader'[r] = reader[r]
    PROVE  SweepInv'
<1> USE DEF SweepInv, Grows
<1>1. \A s \in Sells : Live(s)' = Live(s) /\ Untaken(s)' = Untaken(s)
  BY LiveStays DEF Untaken
<1>2. \A s \in Sells \ reopened' : OneOf(s)'
  BY <1>1 DEF OneEach, OneOf
<1>3. OneEach'
  BY <1>2 DEF OneEach
<1>4. HoldsAlone'
  <2> SUFFICES ASSUME NEW j \in Jobs, NEW s \in Sells \ reopened', Holds(j, s)' PROVE Alone(j, s)'
    BY DEF HoldsAlone
  <2>1. job'[j] = job[j]
    BY DEF Holds
  <2>2. Alone(j, s)
    BY <2>1 DEF Holds, HoldsAlone
  <2>3. \A i \in Jobs \ {j} : job'[i].sell = s =>
           ~Holds(i, s)' /\ ~SawPaid(i)'
    BY <2>2 DEF Alone, Holds, SawPaid
  <2> QED  BY <1>1, <2>1, <2>2, <2>3 DEF Alone
<1>5. SeenPaid'
  BY DEF SeenPaid, SawPaid
<1>6. SweepFollows'
  <2> SUFFICES ASSUME NEW r \in Readers, reader'[r].pc # "idle", reader'[r].sell \notin reopened'
               PROVE  Follows(r, reader[r].sell)'
    BY DEF SweepFollows
  <2>1. Follows(r, reader[r].sell) /\ reader[r].sell \in Sells
    BY DEF SweepFollows, SellInv, RefsAreReal, ReaderRef
  <2> QED  BY <1>1, <2>1 DEF Follows
<1> QED  BY <1>3, <1>4, <1>5, <1>6

\* A step that touches one order only, which was put back too early.
LEMMA Elsewhere ==
    ASSUME SweepInv, SellInv', Grows, NEW s \in reopened',
           \A t \in Sells \ {s} : order'[t] = order[t] /\ hand'[t] = hand[t],
           \A p \in Payouts : \/ rail'[p] = rail[p]
                              \/ (rail[p].sell \in {None, s} /\ rail'[p].sell = s),
           \A j \in Jobs : job'[j] = job[j] \/ job'[j].sell \in {None, s},
           \A r \in Readers : \/ reader'[r] = reader[r]
                              \/ reader'[r].pc = "idle" \/ reader'[r].sell = s
    PROVE  SweepInv'
<1> USE DEF SweepInv, Grows
<1>1. \A t \in Sells \ {s} : Live(t)' = Live(t) /\ Untaken(t)' = Untaken(t)
  BY DEF Live, Untaken
<1>2. OneEach'
  <2>1. \A t \in Sells \ reopened' : OneOf(t)'
    BY <1>1 DEF OneEach, OneOf
  <2>2. \A p \in Payouts : rail'[p].sell # None => rail'[p].sell \in ByRail \cup reopened'
    BY DEF OneEach
  <2> QED  BY <2>1, <2>2 DEF OneEach
<1>3. HoldsAlone'
  <2> SUFFICES ASSUME NEW j \in Jobs, NEW t \in Sells \ reopened', Holds(j, t)' PROVE Alone(j, t)'
    BY DEF HoldsAlone
  <2>1. t # s /\ t # None
    OBVIOUS
  <2>2. \A i \in Jobs : job'[i].sell = t => job'[i] = job[i]
    BY <2>1
  <2>3. job'[j] = job[j] /\ Alone(j, t)
    BY <2>2 DEF Holds, HoldsAlone
  <2>4. \A i \in Jobs \ {j} : job'[i].sell = t => ~Holds(i, t)' /\ ~SawPaid(i)'
    BY <2>2, <2>3 DEF Alone, Holds, SawPaid
  <2>5. \A r \in Readers : reader'[r].pc # "idle" => reader'[r].sell # t
    BY <2>1, <2>3 DEF Alone
  <2> QED  BY <1>1, <2>1, <2>3, <2>4, <2>5 DEF Alone
<1>4. SeenPaid'
  <2> SUFFICES ASSUME NEW j \in Jobs, job'[j].sell \notin reopened', SawPaid(j)'
               PROVE  job'[j].ref # None /\ rail'[job'[j].ref].st = "paid"
    BY DEF SeenPaid
  <2>1. job'[j].sell \in Sells
    BY DEF SawPaid, SellInv, RefsAreReal, JobRef
  <2>2. job'[j] = job[j]
    BY <2>1
  <2>3. /\ job[j].ref # None /\ rail[job[j].ref].st = "paid"
        /\ rail[job[j].ref].sell = job[j].sell
    BY <2>2 DEF SeenPaid, SawPaid, SellInv, RefsAreReal, JobRef
  <2>4. job[j].ref \in Payouts
    BY <2>3 DEF SellInv, TypeOK, Job
  <2>5. rail[job[j].ref].sell \notin {None, s}
    BY <2>1, <2>2, <2>3
  <2> QED  BY <2>2, <2>3, <2>4, <2>5
<1>5. SweepFollows'
  <2> SUFFICES ASSUME NEW r \in Readers, reader'[r].pc # "idle", reader'[r].sell \notin reopened'
               PROVE  Follows(r, reader[r].sell)'
    BY DEF SweepFollows
  <2>1. /\ reader'[r] = reader[r] /\ reader[r].sell \in Sells \ {s}
        /\ Follows(r, reader[r].sell)
    BY DEF SweepFollows, SellInv, RefsAreReal, ReaderRef
  <2> QED  BY <1>1, <2>1 DEF Follows
<1> QED  BY <1>2, <1>3, <1>4, <1>5

\* So a button that serves such an order says nothing of the others.
LEMMA ReopenedServed ==
    ASSUME SweepInv, SellInv', Grows, NEW j \in Jobs, Serve(j), job[j].sell \in reopened'
    PROVE  SweepInv'
<1> DEFINE s == job[j].sell
<1>1. /\ order \in [Sells -> Order] /\ job \in [Jobs -> Job] /\ job[j] \in Job
      /\ hand \in [Sells -> Nat] /\ rail \in [Payouts -> [sell : Sells \cup {None}, st : RailStates]]
      /\ s \in Sells
  BY DEF SweepInv, SellInv, TypeOK, Grows
<1>2. \A t \in Sells \ {s} : order'[t] = order[t] /\ hand'[t] = hand[t]
  <2>1. CASE ReserveTxid(j) \/ Claim(j)
    BY <1>1, <2>1 DEF ReserveTxid, Claim
  <2>2. CASE RecordProvider(j) \/ ReportFailure(j)
    BY <1>1, <2>2 DEF RecordProvider, ReportFailure, Released
  <2>3. CASE Mark(j)
    BY <1>1, <2>3 DEF Mark
  <2>4. CASE Verify(j) \/ SendRub(j) \/ RefusePayout(j) \/ RecordFails(j) \/ CreditVolume(j)
    BY <2>4 DEF Verify, SendRub, RefusePayout, RecordFails, CreditVolume
  <2>5. CASE \E p \in Payouts, st \in RailStates : CreatePayout(j, p, st)
    BY <2>5 DEF CreatePayout
  <2> QED  BY <2>1, <2>2, <2>3, <2>4, <2>5 DEF Serve
<1>3. /\ reader' = reader
      /\ \A p \in Payouts : rail'[p] = rail[p] \/ (rail[p].sell \in {None, s} /\ rail'[p].sell = s)
  <2>1. CASE \E p \in Payouts, st \in RailStates : CreatePayout(j, p, st)
    <3>1. PICK p \in Payouts, st \in RailStates : CreatePayout(j, p, st)
      BY <2>1
    <3>2. /\ rail' = [rail EXCEPT ![p] = [sell |-> s, st |-> st]] /\ reader' = reader
          /\ rail[p].sell = None
      BY <3>1 DEF CreatePayout
    <3> QED  BY <1>1, <3>2
  <2>2. CASE ~\E p \in Payouts, st \in RailStates : CreatePayout(j, p, st)
    <3>1. UNCHANGED <<rail, reader>>
      BY <2>2 DEF Serve, Verify, ReserveTxid, Claim, SendRub, RefusePayout, RecordProvider,
                  RecordFails, ReportFailure, Mark, CreditVolume
    <3> QED  BY <3>1
  <2> QED  BY <2>1, <2>2
<1>4. \A i \in Jobs : job'[i] = job[i] \/ job'[i].sell \in {None, s}
  <2>1. \A i \in Jobs \ {j} : job'[i] = job[i]
    BY <1>1 DEF Serve, Verify, ReserveTxid, Claim, SendRub, RefusePayout, CreatePayout,
                RecordProvider, RecordFails, ReportFailure, Mark, CreditVolume
  <2>2. CASE Verify(j)
    <3>0. Free.sell = None
      BY DEF Free
    <3>1. CASE job' = [job EXCEPT ![j] = Free]
      BY <1>1, <3>0, <3>1
    <3>2. ASSUME NEW d \in Deposits,
                 job' = [job EXCEPT ![j].pc = "found", ![j].deposit = d, ![j].seen = order[s].status]
          PROVE  job'[j].sell = s
      BY <1>1, <3>2 DEF Job
    <3> QED  BY <2>1, <2>2, <3>1, <3>2 DEF Verify
  <2>3. CASE ReserveTxid(j) \/ Claim(j)
    <3> DEFINE n == [Free EXCEPT !.pc = "claim", !.sell = s]
    <3> DEFINE c == [job[j] EXCEPT !.pc = "send"]
    <3>1. n.sell = s /\ Free.sell = None /\ c.sell = s
      BY <1>1 DEF Free, Job
    <3>2. \/ job' = [job EXCEPT ![j] = n] \/ job' = [job EXCEPT ![j] = Free]
          \/ job' = [job EXCEPT ![j] = c]
      BY <2>3 DEF ReserveTxid, Claim
    <3> HIDE DEF n, c
    <3> QED  BY <1>1, <3>1, <3>2
  <2>4. CASE SendRub(j)
    <3> DEFINE a == [job[j] EXCEPT !.pc = "refused"]
    <3> DEFINE b == [job[j] EXCEPT !.pc = "mark", !.st = "manual"]
    <3> DEFINE c == [job[j] EXCEPT !.pc = "unclear"]
    <3> DEFINE d == [job[j] EXCEPT !.pc = "mark", !.ref = order[s].ref, !.st = order[s].pst]
    <3> DEFINE e == [job[j] EXCEPT !.pc = "posting"]
    <3>1. a.sell = s /\ b.sell = s /\ c.sell = s /\ d.sell = s /\ e.sell = s
      BY <1>1 DEF Job
    <3>2. \E n \in {a, b, c, d, e} : job' = [job EXCEPT ![j] = n]
      BY <2>4 DEF SendRub
    <3> HIDE DEF a, b, c, d, e
    <3> QED  BY <1>1, <3>1, <3>2
  <2>5. CASE RefusePayout(j)
    BY <1>1, <2>1, <2>5 DEF RefusePayout, Job
  <2>6. CASE \E p \in Payouts, st \in RailStates : CreatePayout(j, p, st)
    BY <1>1, <2>1, <2>6 DEF CreatePayout, Job
  <2>7. CASE RecordProvider(j) \/ RecordFails(j) \/ ReportFailure(j)
    BY <1>1, <2>1, <2>7 DEF RecordProvider, RecordFails, ReportFailure, Free, Job
  <2>8. CASE Mark(j) \/ CreditVolume(j)
    <3> DEFINE n == [Free EXCEPT !.pc = "credit", !.sell = s]
    <3>1. n.sell = s /\ Free.sell = None
      BY DEF Free
    <3>2. job' = [job EXCEPT ![j] = n] \/ job' = [job EXCEPT ![j] = Free]
      BY <2>8 DEF Mark, CreditVolume
    <3> HIDE DEF n
    <3> QED  BY <1>1, <3>1, <3>2
  <2> QED  BY <2>2, <2>3, <2>4, <2>5, <2>6, <2>7, <2>8 DEF Serve
<1>5. s \in reopened'
  OBVIOUS
<1> HIDE DEF s
<1> QED  BY <1>2, <1>3, <1>4, <1>5, Elsewhere

\* Nor does a reader that is at such an order.
LEMMA ReopenedRead ==
    ASSUME SweepInv, SellInv', Grows, NEW r \in Readers, reader[r].sell \in reopened',
           UpdateStatus(r) \/ Settle(r) \/ MarkRejected(r)
    PROVE  SweepInv'
<1> DEFINE s == reader[r].sell
<1>1. /\ order \in [Sells -> Order] /\ reader \in [Readers -> Reading] /\ reader[r] \in Reading
      /\ s \in Sells
  BY DEF SweepInv, SellInv, TypeOK, Grows
<1>2. UNCHANGED <<rail, hand, job>> /\ \A t \in Sells \ {s} : order'[t] = order[t]
  BY <1>1 DEF UpdateStatus, Settle, MarkRejected, Released
<1>3. \A q \in Readers : \/ reader'[q] = reader[q]
                         \/ reader'[q].pc = "idle" \/ reader'[q].sell = s
  <2> DEFINE n == [reader[r] EXCEPT !.pc = "noted"]
  <2>1. n.sell = s
    BY <1>1 DEF Reading
  <2>2. reader' = [reader EXCEPT ![r] = Asleep] \/ reader' = [reader EXCEPT ![r] = n]
    BY DEF UpdateStatus, Settle, MarkRejected
  <2>3. Asleep.pc = "idle"
    BY DEF Asleep
  <2> HIDE DEF n
  <2> QED  BY <1>1, <2>1, <2>2, <2>3
<1>4. s \in reopened'
  OBVIOUS
<1> HIDE DEF s
<1> QED  BY <1>2, <1>3, <1>4, Elsewhere

\* A step that sets the status of one order that is not paid: to paid, or to one from
\* which it may be claimed when no money is live and nobody is at it.
LEMMA StatusSet ==
    ASSUME SweepInv, SellInv', Grows, NEW s \in Sells \ reopened', order[s].status # "paid", rail' = rail,
           NEW v \in {"paid", "pending", "rejected"}, order' = [order EXCEPT ![s].status = v],
           v # "paid" => Live(s) = {} /\ Untaken(s) /\ hand' = hand,
           v # "paid" => \A r \in Readers : reader'[r].pc # "idle" => reader'[r].sell # s,
           \/ hand' = hand
           \/ s \notin ByRail /\ hand' = [hand EXCEPT ![s] = @ + 1],
           \A j \in Jobs : \/ job'[j] = job[j] /\ ~Holds(j, s)
                           \/ job'[j].pc \in {"idle", "credit"},
           \A r \in Readers : reader'[r].pc # "idle" => reader'[r] = reader[r]
    PROVE  SweepInv'
<1> USE DEF SweepInv, Grows
<1>1. \A t \in Sells : Live(t)' = Live(t)
  BY LiveStays
<1>2. /\ order'[s].status = v
      /\ \A t \in Sells : /\ order'[t].ref = order[t].ref /\ order'[t].pst = order[t].pst
                          /\ t # s => order'[t] = order[t]
  BY StatusRow DEF SellInv
<1>3. \A t \in Sells : Untaken(t)' = Untaken(t)
  BY <1>2 DEF Untaken
<1>4. hand[s] = 0 /\ \A t \in Sells \ {s} : hand'[t] = hand[t]
  BY DEF SellInv, TypeOK, OneEach, OneOf
<1>5. hand'[s] > 0 => hand'[s] = 1 /\ s \notin ByRail /\ v = "paid"
  BY <1>4 DEF SellInv, TypeOK
<1>6. OneOf(s)'
  BY <1>1, <1>2, <1>3, <1>5 DEF OneEach, OneOf
<1>7. \A t \in Sells \ (reopened' \cup {s}) : OneOf(t)'
  BY <1>1, <1>2, <1>3, <1>4 DEF OneEach, OneOf
<1>8. OneEach'
  BY <1>6, <1>7 DEF OneEach
<1>9. HoldsAlone'
  <2> SUFFICES ASSUME NEW j \in Jobs, NEW t \in Sells \ reopened', Holds(j, t)' PROVE Alone(j, t)'
    BY DEF HoldsAlone
  <2>1. job'[j] = job[j] /\ t # s
    BY DEF Holds
  <2>2. Alone(j, t)
    BY <2>1 DEF Holds, HoldsAlone
  <2>3. \A i \in Jobs \ {j} : job'[i].sell = t =>
           ~Holds(i, t)' /\ ~SawPaid(i)'
    BY <2>2 DEF Alone, Holds, SawPaid
  <2> QED  BY <1>1, <1>2, <1>3, <2>1, <2>2, <2>3 DEF Alone
<1>10. SeenPaid'
  BY DEF SeenPaid, SawPaid
<1>11. SweepFollows'
  <2> SUFFICES ASSUME NEW r \in Readers, reader'[r].pc # "idle", reader'[r].sell \notin reopened'
               PROVE  Follows(r, reader[r].sell)'
    BY DEF SweepFollows
  <2>1. Follows(r, reader[r].sell) /\ reader[r].sell \in Sells /\ reader'[r] = reader[r]
    BY DEF SweepFollows, SellInv, RefsAreReal, ReaderRef
  <2> QED  BY <1>1, <1>2, <2>1 DEF Follows
<1> QED  BY <1>8, <1>9, <1>10, <1>11

\* What a button that holds an order knows of it.
LEMMA Holder ==
    ASSUME SweepInv, NEW j \in Jobs,
           job[j].sell \notin reopened,
           \/ job[j].pc \in {"send", "posting", "made", "refused", "lost"}
           \/ job[j].pc = "mark" /\ job[j].st = "manual"
    PROVE  job[j].sell \in Sells /\ Holds(j, job[j].sell) /\ Alone(j, job[j].sell)
  BY DEF SweepInv, SellInv, RefsAreReal, JobRef, Holds, HoldsAlone

\* A claim finds an order that nobody is at.
LEMMA ClaimAlone ==
    ASSUME SweepInv, SellInv', Grows, NEW j \in Jobs, Claim(j),
           job[j].sell \notin reopened'
    PROVE  SweepInv'
<1> DEFINE s == job[j].sell
<1> USE DEF SweepInv, Grows
<1>1. s \in Sells /\ job[j].pc = "claim" /\ UNCHANGED <<rail, hand, reader>>
  BY DEF Claim, SellInv, RefsAreReal, JobRef
<1>2. CASE ~Claimable(s)
  <2>1. order' = order /\ job' = [job EXCEPT ![j] = Free]
    BY <1>2 DEF Claim
  <2>2. \A i \in Jobs : job'[i] = job[i] \/ job'[i].pc = "idle"
    BY <2>1 DEF SellInv, TypeOK, Free
  <2> QED  BY <1>1, <2>1, <2>2, Quiet
<1>3. CASE Claimable(s)
  <2>1. /\ order' = [order EXCEPT ![s].status = "paying"]
        /\ job' = [job EXCEPT ![j].pc = "send"]
        /\ order[s].status \in {"pending", "rejected"}
    BY <1>1, <1>3 DEF Claim, Claimable, SellInv, TypeOK, Order
  <2>2. Live(s) = {} /\ Untaken(s) /\ ~(hand[s] > 0)
    BY <1>1, <2>1 DEF OneEach, OneOf
  <2>3. \A t \in Sells : Live(t)' = Live(t)
    BY <1>1, LiveStays
  <2>4. /\ order'[s].status = "paying"
        /\ \A t \in Sells : /\ order'[t].ref = order[t].ref /\ order'[t].pst = order[t].pst
                            /\ t # s => order'[t] = order[t]
    <3>1. TypeOK /\ s \in Sells /\ order' = [order EXCEPT ![s].status = "paying"]
      BY <1>1, <2>1 DEF SellInv
    <3> HIDE DEF s
    <3> QED  BY <3>1, StatusRow
  <2>5. \A t \in Sells : Untaken(t)' = Untaken(t)
    BY <2>4 DEF Untaken
  <2>6. /\ job'[j].pc = "send" /\ job'[j].sell = s
        /\ \A i \in Jobs \ {j} : job'[i] = job[i]
    BY <2>1, PcOfJob DEF SellInv
  <2>7. OneEach'
    <3>1. \A t \in Sells \ reopened' : OneOf(t)'
      BY <1>1, <2>2, <2>3, <2>4, <2>5 DEF OneEach, OneOf
    <3> QED  BY <1>1, <3>1 DEF OneEach
  <2>8. \A i \in Jobs : job[i].sell = s => ~Holds(i, s) /\ ~SawPaid(i)
    <3> SUFFICES ASSUME NEW i \in Jobs, job[i].sell = s PROVE ~Holds(i, s) /\ ~SawPaid(i)
      OBVIOUS
    <3>1. ~Holds(i, s)
      BY <1>1, <2>1 DEF HoldsAlone, Alone
    <3>2. ASSUME SawPaid(i) PROVE FALSE
      <4>1. job[i].ref # None /\ rail[job[i].ref].st = "paid" /\ rail[job[i].ref].sell = s
        BY <3>2 DEF SeenPaid, SawPaid, SellInv, RefsAreReal, JobRef
      <4>2. job[i].ref \in Payouts
        BY <4>1 DEF SellInv, TypeOK, Job
      <4> QED  BY <2>2, <4>1, <4>2 DEF Live
    <3> QED  BY <3>1, <3>2
  <2>9. \A r \in Readers : reader[r].pc # "idle" => reader[r].sell # s
    BY <2>1 DEF SweepFollows, Follows
  <2>10. HoldsAlone'
    <3> SUFFICES ASSUME NEW i \in Jobs, NEW t \in Sells \ reopened', Holds(i, t)' PROVE Alone(i, t)'
      BY DEF HoldsAlone
    <3>1. CASE i = j
      <4>1. t = s
        BY <2>6, <3>1 DEF Holds
      <4>2. \A k \in Jobs \ {i} : job'[k].sell = t =>
               ~Holds(k, t)' /\ ~SawPaid(k)'
        BY <2>6, <2>8, <3>1, <4>1 DEF Holds, SawPaid
      <4> QED  BY <1>1, <2>2, <2>3, <2>4, <2>5, <2>6, <2>9, <3>1, <4>1, <4>2 DEF Alone
    <3>2. CASE i # j
      <4>1. t # s /\ job'[i] = job[i]
        BY <2>6, <2>8, <3>2 DEF Holds
      <4>2. Alone(i, t)
        BY <4>1 DEF Holds, HoldsAlone
      <4>3. \A k \in Jobs \ {i} : job'[k].sell = t =>
               ~Holds(k, t)' /\ ~SawPaid(k)'
        BY <2>6, <4>1, <4>2 DEF Alone, Holds, SawPaid
      <4> QED  BY <1>1, <2>3, <2>4, <2>5, <4>1, <4>2, <4>3 DEF Alone
    <3> QED  BY <3>1, <3>2
  <2>11. SeenPaid'
    BY <1>1, <2>6 DEF SeenPaid, SawPaid
  <2>12. SweepFollows'
    <3> SUFFICES ASSUME NEW r \in Readers, reader[r].pc # "idle", reader[r].sell \notin reopened'
                 PROVE  Follows(r, reader[r].sell)'
      BY <1>1 DEF SweepFollows
    <3>1. Follows(r, reader[r].sell) /\ reader[r].sell \in Sells /\ reader[r].sell # s
      BY <2>9 DEF SweepFollows, SellInv, RefsAreReal, ReaderRef
    <3> QED  BY <1>1, <2>3, <2>4, <3>1 DEF Follows
  <2> QED  BY <2>7, <2>10, <2>11, <2>12
<1> QED  BY <1>2, <1>3

\* A button that goes on with its order changes no table, so what it holds it held.
LEMMA GoesOn ==
    ASSUME SweepInv, SellInv', Grows, UNCHANGED <<order, rail, hand, reader>>,
           NEW j \in Jobs, NEW n, job' = [job EXCEPT ![j] = n], n.sell = job[j].sell,
           job[j].pc \in {"send", "posting", "made"}, n.sell \notin reopened',
           job[j].pc = "made" => n.pc = "lost",
           \/ n.pc = "mark" /\ n.st = "manual" /\ n.sell \notin ByRail
           \/ n.pc = "posting" /\ n.sell \in ByRail
           \/ n.pc \in {"refused", "lost", "unclear"}
           \/ n.pc = "made" /\ n.st # "paid" /\ n.ref = None
    PROVE  SweepInv'
<1> USE DEF SweepInv, Grows
<1> DEFINE s == job[j].sell
<1>1. \A t \in Sells : Live(t)' = Live(t) /\ Untaken(t)' = Untaken(t)
  BY LiveStays DEF Untaken
<1>2. job'[j] = n /\ \A i \in Jobs \ {j} : job'[i] = job[i]
  BY DEF SellInv, TypeOK
<1>3. s \in Sells /\ Holds(j, s) /\ Alone(j, s)
  BY Holder
<1>4. OneEach'
  <2>1. \A t \in Sells \ reopened' : OneOf(t)'
    BY <1>1 DEF OneEach, OneOf
  <2> QED  BY <2>1 DEF OneEach
<1>5. HoldsAlone'
  <2> SUFFICES ASSUME NEW i \in Jobs, NEW t \in Sells \ reopened', Holds(i, t)' PROVE Alone(i, t)'
    BY DEF HoldsAlone
  <2>1. CASE i = j
    <3>1. t = s /\ (job[j].pc # "made" => Live(s) = {})
      BY <1>2, <1>3, <2>1 DEF Holds, Alone
    <3>2. \A k \in Jobs \ {i} : job'[k].sell = t =>
             ~Holds(k, t)' /\ ~SawPaid(k)'
      BY <1>2, <1>3, <2>1, <3>1 DEF Alone, Holds, SawPaid
    <3> QED  BY <1>1, <1>2, <1>3, <2>1, <3>1, <3>2 DEF Alone, Holds, SawPaid
  <2>2. CASE i # j
    <3>1. job'[i] = job[i] /\ Alone(i, t) /\ t # s
      BY <1>2, <1>3, <2>2 DEF Holds, HoldsAlone, Alone
    <3>2. \A k \in Jobs \ {i} : job'[k].sell = t =>
             ~Holds(k, t)' /\ ~SawPaid(k)'
      BY <1>2, <3>1 DEF Alone, Holds, SawPaid
    <3> QED  BY <1>1, <3>1, <3>2 DEF Alone
  <2> QED  BY <2>1, <2>2
<1>6. SeenPaid'
  <2> SUFFICES ASSUME NEW i \in Jobs, job'[i].sell \notin reopened', SawPaid(i)'
               PROVE  job'[i].ref # None /\ rail[job'[i].ref].st = "paid"
    BY DEF SeenPaid
  <2>1. job'[i] = job[i]
    BY <1>2 DEF SawPaid
  <2> QED  BY <2>1 DEF SeenPaid, SawPaid
<1>7. SweepFollows'
  <2> SUFFICES ASSUME NEW r \in Readers, reader[r].pc # "idle", reader[r].sell \notin reopened'
                 PROVE  Follows(r, reader[r].sell)'
    BY DEF SweepFollows
  <2>1. Follows(r, reader[r].sell) /\ reader[r].sell \in Sells
    BY DEF SweepFollows, SellInv, RefsAreReal, ReaderRef
  <2> QED  BY <1>1, <2>1 DEF Follows
<1> QED  BY <1>4, <1>5, <1>6, <1>7

\* Nothing of an order that a button holds is live, so it is no duplicate.
LEMMA SendRubAlone ==
    ASSUME SweepInv, SellInv', Grows, NEW j \in Jobs, SendRub(j),
           job[j].sell \notin reopened'
    PROVE  SweepInv'
<1> DEFINE s == job[j].sell
<1>1. /\ job[j].pc = "send" /\ UNCHANGED <<order, rail, hand, reader>>
      /\ s \in Sells /\ Alone(j, s) /\ job[j] \in Job
  BY Holder DEF SendRub, SweepInv, SellInv, TypeOK, Grows
<1>2. ~Duplicate(s)
  BY <1>1 DEF Alone, Untaken, Duplicate
<1>r. CASE job' = [job EXCEPT ![j].pc = "refused"]
  <2> DEFINE n == [job[j] EXCEPT !.pc = "refused"]
  <2>1. job' = [job EXCEPT ![j] = n]
    BY <1>r
  <2>2. n.sell = s /\ n.pc = "refused"
    BY <1>1 DEF Job
  <2> HIDE DEF n
  <2> QED  BY <1>1, <2>1, <2>2, GoesOn
<1>0. SUFFICES ASSUME ~(job' = [job EXCEPT ![j].pc = "refused"]) PROVE SweepInv'
  BY <1>r
<1>3. CASE s \notin ByRail
  <2> DEFINE n == [job[j] EXCEPT !.pc = "mark", !.st = "manual"]
  <2>1. job' = [job EXCEPT ![j] = n]
    BY <1>0, <1>3 DEF SendRub
  <2>2. n.sell = s /\ n.pc = "mark" /\ n.st = "manual"
    BY <1>1 DEF Job
  <2> HIDE DEF n
  <2> QED  BY <1>1, <1>3, <2>1, <2>2, GoesOn
<1>4. CASE s \in ByRail /\ Unclear(s)
  <2> DEFINE n == [job[j] EXCEPT !.pc = "unclear"]
  <2>1. job' = [job EXCEPT ![j] = n]
    BY <1>0, <1>2, <1>4 DEF SendRub
  <2>2. n.sell = s /\ n.pc = "unclear"
    BY <1>1 DEF Job
  <2> HIDE DEF n
  <2> QED  BY <1>1, <2>1, <2>2, GoesOn
<1>5. CASE s \in ByRail /\ ~Unclear(s)
  <2> DEFINE n == [job[j] EXCEPT !.pc = "posting"]
  <2>1. job' = [job EXCEPT ![j] = n]
    BY <1>0, <1>2, <1>5 DEF SendRub
  <2>2. n.sell = s /\ n.pc = "posting"
    BY <1>1 DEF Job
  <2> HIDE DEF n
  <2> QED  BY <1>1, <1>5, <2>1, <2>2, GoesOn
<1> QED  BY <1>3, <1>4, <1>5

\* A refusal leaves the order to the button that holds it.
LEMMA RefusePayoutAlone ==
    ASSUME SweepInv, SellInv', Grows, NEW j \in Jobs, RefusePayout(j),
           job[j].sell \notin reopened'
    PROVE  SweepInv'
<1> DEFINE s == job[j].sell
<1> DEFINE a == [job[j] EXCEPT !.pc = "refused"]
<1> DEFINE b == [job[j] EXCEPT !.pc = "made", !.st = "unknown"]
<1>1. /\ job[j].pc = "posting" /\ UNCHANGED <<order, rail, hand, reader>>
      /\ s \in Sells /\ Alone(j, s) /\ job[j] \in Job /\ job[j].ref = None
  BY Holder DEF RefusePayout, SweepInv, SellInv, TypeOK, RefsAreReal, JobRef, Grows
<1>3. job' = [job EXCEPT ![j] = a] \/ job' = [job EXCEPT ![j] = b]
  BY DEF RefusePayout
<1>4. a.sell = s /\ a.pc = "refused"
  BY <1>1 DEF Job
<1>5. b.sell = s /\ b.pc = "made" /\ b.st = "unknown" /\ b.ref = None
  BY <1>1 DEF Job
<1> HIDE DEF a, b
<1>6. CASE job' = [job EXCEPT ![j] = a]
  BY <1>1, <1>4, <1>6, GoesOn
<1>7. CASE job' = [job EXCEPT ![j] = b]
  BY <1>1, <1>5, <1>7, GoesOn
<1> QED  BY <1>3, <1>6, <1>7

\* The payout is the only live one of an order that one button holds; that button has
\* its number or has lost it.
LEMMA CreatePayoutAlone ==
    ASSUME SweepInv, SellInv', Grows,
           NEW j \in Jobs, NEW p \in Payouts, NEW st \in RailStates,
           CreatePayout(j, p, st), job[j].sell \notin reopened'
    PROVE  SweepInv'
<1> USE DEF SweepInv, Grows
<1> DEFINE s == job[j].sell
<1>1. /\ job[j].pc = "posting" /\ rail[p].sell = None
      /\ rail' = [rail EXCEPT ![p] = [sell |-> s, st |-> st]]
      /\ UNCHANGED <<order, hand, reader>>
      /\ s \in Sells /\ Holds(j, s) /\ Alone(j, s) /\ job[j] \in Job /\ job[j].ref = None
  BY Holder DEF CreatePayout, SellInv, TypeOK, RefsAreReal, JobRef
<1>2. s \in ByRail /\ Live(s) = {} /\ Untaken(s)
  BY <1>1 DEF Alone
<1>3. PICK n \in Job : /\ job' = [job EXCEPT ![j] = n] /\ n.sell = s
                       /\ n.pc \in {"made", "lost"}
                       /\ n.ref # None => n.ref = p
                       /\ n.pc = "made" /\ n.st = "paid" => n.ref = p /\ st = "paid"
  <2> DEFINE a == [job[j] EXCEPT !.pc = "made", !.ref = p, !.st = st]
  <2> DEFINE b == [job[j] EXCEPT !.pc = "made", !.st = "unknown"]
  <2> DEFINE c == [job[j] EXCEPT !.pc = "lost"]
  <2>1. \/ job' = [job EXCEPT ![j] = a] \/ job' = [job EXCEPT ![j] = b]
        \/ job' = [job EXCEPT ![j] = c]
    BY DEF CreatePayout
  <2>2. a \in Job /\ a.sell = s /\ a.pc = "made" /\ a.ref = p /\ a.st = st
    BY <1>1 DEF Job, RailStates
  <2>3. b \in Job /\ b.sell = s /\ b.pc = "made" /\ b.ref = None /\ b.st = "unknown"
    BY <1>1 DEF Job
  <2>4. c \in Job /\ c.sell = s /\ c.pc = "lost" /\ c.ref = None
    BY <1>1 DEF Job
  <2> HIDE DEF a, b, c
  <2>5. CASE job' = [job EXCEPT ![j] = a]
    BY <2>2, <2>5
  <2>6. CASE job' = [job EXCEPT ![j] = b]
    BY <2>3, <2>6
  <2>7. CASE job' = [job EXCEPT ![j] = c]
    BY <2>4, <2>7
  <2> QED  BY <2>1, <2>5, <2>6, <2>7
<1>4. job'[j] = n /\ \A i \in Jobs \ {j} : job'[i] = job[i]
  BY <1>3 DEF SellInv, TypeOK
<1>5. rail'[p] = [sell |-> s, st |-> st] /\ \A q \in Payouts \ {p} : rail'[q] = rail[q]
  BY <1>1 DEF SellInv, TypeOK
<1>6. /\ \A t \in Sells : t = s => Live(t)' \subseteq {p}
      /\ \A t \in Sells \ {s} : Live(t)' = Live(t)
  <2>1. \A t \in Sells : t # None
    OBVIOUS
  <2>2. \A t \in Sells \ {s} : p \notin Live(t)
    BY <1>1, <2>1 DEF Live
  <2> QED  BY <1>1, <1>2, <1>5, <2>1, <2>2 DEF Live
<1>7. \A t \in Sells : Untaken(t)' = Untaken(t)
  BY <1>1 DEF Untaken
<1>8. OneEach'
  <2>1. \A t \in Sells \ (reopened' \cup {s}) : OneOf(t)'
    BY <1>1, <1>6, <1>7 DEF OneEach, OneOf
  <2>2. \A t \in Sells : t = s => OneOf(t)'
    BY <1>1, <1>2, <1>6, <1>7 DEF OneEach, OneOf, Alone
  <2>3. \A q \in Payouts : rail'[q].sell # None => rail'[q].sell \in ByRail \cup reopened'
    BY <1>2, <1>5 DEF OneEach
  <2> QED  BY <2>1, <2>2, <2>3 DEF OneEach
<1>9. HoldsAlone'
  <2> SUFFICES ASSUME NEW i \in Jobs, NEW t \in Sells \ reopened', Holds(i, t)' PROVE Alone(i, t)'
    BY DEF HoldsAlone
  <2>1. CASE i = j
    <3>1. t = s
      BY <1>3, <1>4, <2>1 DEF Holds
    <3>2. \A k \in Jobs \ {i} : job'[k].sell = t =>
             ~Holds(k, t)' /\ ~SawPaid(k)'
      BY <1>1, <1>4, <2>1, <3>1 DEF Alone, Holds, SawPaid
    <3>3. Live(t)' \subseteq {p} /\ (job'[i].ref # None => job'[i].ref = p)
      BY <1>3, <1>4, <1>6, <2>1, <3>1
    <3> QED  BY <1>1, <1>2, <1>3, <1>4, <1>6, <1>7, <2>1, <3>1, <3>2, <3>3 DEF Alone
  <2>2. CASE i # j
    <3>1. job'[i] = job[i] /\ Alone(i, t) /\ t # s
      BY <1>1, <1>4, <2>2 DEF Holds, HoldsAlone, Alone
    <3>2. \A k \in Jobs \ {i} : job'[k].sell = t =>
             ~Holds(k, t)' /\ ~SawPaid(k)'
      BY <1>3, <1>4, <3>1 DEF Alone, Holds, SawPaid
    <3> QED  BY <1>1, <1>6, <1>7, <3>1, <3>2 DEF Alone
  <2> QED  BY <2>1, <2>2
<1>10. SeenPaid'
  <2> SUFFICES ASSUME NEW i \in Jobs, job'[i].sell \notin reopened', SawPaid(i)'
               PROVE  job'[i].ref # None /\ rail'[job'[i].ref].st = "paid"
    BY DEF SeenPaid, SawPaid
  <2>1. CASE i = j
    BY <1>3, <1>4, <1>5, <2>1 DEF None, Payouts, SawPaid
  <2>2. CASE i # j
    <3>1. job'[i] = job[i] /\ job[i].ref # None /\ rail[job[i].ref].st = "paid"
      BY <1>4, <2>2 DEF SeenPaid, SawPaid
    <3>2. job[i].ref \in Payouts /\ job[i].ref # p
      <4>1. job[i].ref \in Payouts
        BY <3>1 DEF SellInv, TypeOK, Job
      <4>2. rail[job[i].ref].sell \in Sells
        BY <3>1 DEF SellInv, RefsAreReal, JobRef
      <4> QED  BY <1>1, <4>1, <4>2
    <3> QED  BY <1>5, <3>1, <3>2
  <2> QED  BY <2>1, <2>2
<1>11. SweepFollows'
  <2> SUFFICES ASSUME NEW r \in Readers, reader[r].pc # "idle", reader[r].sell \notin reopened'
                 PROVE  Follows(r, reader[r].sell)'
    BY <1>1 DEF SweepFollows
  <2>1. /\ Follows(r, reader[r].sell) /\ reader[r].sell \in Sells /\ reader[r].sell # s
    BY <1>1 DEF SweepFollows, SellInv, RefsAreReal, ReaderRef, Alone
  <2> QED  BY <1>1, <1>6, <2>1 DEF Follows
<1> QED  BY <1>8, <1>9, <1>10, <1>11

\* The holder records what it made; from then on the order itself has the number.
LEMMA RecordProviderAlone ==
    ASSUME SweepInv, SellInv', Grows, NEW j \in Jobs, RecordProvider(j),
           job[j].sell \notin reopened'
    PROVE  SweepInv'
<1> USE DEF SweepInv, Grows
<1> DEFINE s == job[j].sell
<1>1. /\ job[j].pc = "made" /\ UNCHANGED <<rail, hand, reader>>
      /\ s \in Sells /\ Holds(j, s) /\ Alone(j, s)
  BY Holder DEF RecordProvider, Grows
<1>2. PICK c \in {"unclear", "mark"} : job' = [job EXCEPT ![j].pc = c]
  BY DEF RecordProvider
<1>3. /\ job'[j].pc = c /\ job'[j].sell = s
      /\ job'[j].ref = job[j].ref /\ job'[j].st = job[j].st
      /\ \A i \in Jobs \ {j} : job'[i] = job[i]
  BY <1>2, PcOfJob DEF SellInv
<1>4. /\ order'[s].status = "paying" /\ order'[s].ref = job[j].ref
      /\ \A t \in Sells \ {s} : order'[t] = order[t]
  <2>1. order[s].status = "paying"
    BY <1>1 DEF Alone
  <2>2. order' = [order EXCEPT ![s].ref = job[j].ref, ![s].pst = job[j].st]
    BY <2>1 DEF RecordProvider
  <2>3. order \in [Sells -> Order] /\ order[s] \in Order
    BY <1>1 DEF SellInv, TypeOK
  <2> QED  BY <1>1, <2>1, <2>2, <2>3 DEF Order
<1>5. \A t \in Sells : Live(t)' = Live(t)
  BY <1>1, LiveStays
<1>6. \A t \in Sells \ {s} : Untaken(t)' = Untaken(t)
  BY <1>4 DEF Untaken
<1>7. ~Holds(j, s)' /\ \A t \in Sells : ~Holds(j, t)'
  <2>1. job[j].st # "manual"
    BY <1>1 DEF SellInv, RefsAreReal, JobRef
  <2> QED  BY <1>2, <1>3, <2>1 DEF Holds
<1>8. OneEach'
  <2>1. \A t \in Sells \ (reopened' \cup {s}) : OneOf(t)'
    BY <1>1, <1>4, <1>5, <1>6 DEF OneEach, OneOf
  <2>2. \A t \in Sells : t = s => OneOf(t)'
    <3>1. OneOf(s) /\ order[s].status = "paying"
      BY <1>1 DEF OneEach, Alone
    <3>2. job[j].ref # None => Live(s) \subseteq {job[j].ref}
      BY <1>1 DEF Alone
    <3> QED  BY <1>1, <1>4, <1>5, <3>1, <3>2 DEF OneOf, Untaken
  <2> QED  BY <1>1, <2>1, <2>2 DEF OneEach
<1>9. HoldsAlone'
  <2> SUFFICES ASSUME NEW i \in Jobs, NEW t \in Sells \ reopened', Holds(i, t)' PROVE Alone(i, t)'
    BY DEF HoldsAlone
  <2>1. i # j /\ job'[i] = job[i]
    BY <1>3, <1>7
  <2>2. Alone(i, t) /\ t # s
    BY <1>1, <2>1 DEF Holds, HoldsAlone, Alone
  <2>3. \A k \in Jobs \ {i} : job'[k].sell = t =>
           ~Holds(k, t)' /\ ~SawPaid(k)'
    BY <1>3, <2>1, <2>2 DEF Alone, Holds, SawPaid
  <2> QED  BY <1>1, <1>4, <1>5, <1>6, <2>1, <2>2, <2>3 DEF Alone
<1>10. SeenPaid'
  BY <1>1, <1>2, <1>3 DEF SeenPaid, SawPaid
<1>11. SweepFollows'
  <2> SUFFICES ASSUME NEW r \in Readers, reader[r].pc # "idle", reader[r].sell \notin reopened'
                 PROVE  Follows(r, reader[r].sell)'
    BY <1>1 DEF SweepFollows
  <2>1. Follows(r, reader[r].sell) /\ reader[r].sell \in Sells /\ reader[r].sell # s
    BY <1>1 DEF SweepFollows, SellInv, RefsAreReal, ReaderRef, Alone
  <2> QED  BY <1>1, <1>4, <1>5, <2>1 DEF Follows
<1> QED  BY <1>8, <1>9, <1>10, <1>11

\* What could not be recorded is still in the hands of the button that made it.
LEMMA RecordFailsAlone ==
    ASSUME SweepInv, SellInv', Grows, NEW j \in Jobs, RecordFails(j),
           job[j].sell \notin reopened'
    PROVE  SweepInv'
<1> DEFINE n == [job[j] EXCEPT !.pc = "lost", !.ref = None]
<1>1. /\ job[j].pc = "made" /\ job[j] \in Job /\ job' = [job EXCEPT ![j] = n]
      /\ UNCHANGED <<order, rail, hand, reader>>
  BY DEF RecordFails, SweepInv, SellInv, TypeOK
<1>2. n.sell = job[j].sell /\ n.pc = "lost" /\ n.ref = None
  BY <1>1 DEF Job
<1> HIDE DEF n
<1> QED  BY <1>1, <1>2, GoesOn

\* A refusal is told of an order that nothing is live for, an unclear outcome changes
\* nothing, and what was lost puts the order back too early.
LEMMA ReportFailureAlone ==
    ASSUME SweepInv, SellInv', Grows, NEW j \in Jobs, ReportFailure(j),
           job[j].sell \notin reopened'
    PROVE  SweepInv'
<1> USE DEF SweepInv, Grows
<1> DEFINE s == job[j].sell
<1>1. /\ job[j].pc \in {"refused", "lost", "unclear"} /\ UNCHANGED <<rail, hand, reader>>
      /\ s \in Sells \ reopened' /\ \A i \in Jobs : job'[i] = IF i = j THEN Free ELSE job[i]
  BY DEF ReportFailure, SellInv, TypeOK, RefsAreReal, JobRef
<1>2. CASE job[j].pc = "unclear"
  <2>1. order' = order
    BY <1>2 DEF ReportFailure
  <2> QED  BY <1>1, <2>1, Quiet DEF Free
<1>3. CASE job[j].pc = "refused"
  <2>1. Alone(j, s)
    BY <1>3, Holder DEF Grows
  <2>2. /\ order[s].status = "paying" /\ Untaken(s) /\ Live(s) = {}
        /\ \A i \in Jobs \ {j} : ~Holds(i, s)
        /\ \A r \in Readers : reader[r].pc # "idle" => reader[r].sell # s
    BY <1>3, <2>1 DEF Alone, Holds, SawPaid
  <2>3. order' = [order EXCEPT ![s].status = "pending"]
    BY <1>3, <2>2 DEF ReportFailure, Released
  <2>4. \A i \in Jobs : (job'[i] = job[i] /\ ~Holds(i, s)) \/ job'[i].pc \in {"idle", "credit"}
    BY <1>1, <2>2 DEF Free
  <2> HIDE DEF s
  <2> QED  BY <1>1, <2>2, <2>3, <2>4, StatusSet
<1>4. CASE job[j].pc = "lost"
  <2>1. order[s].status = "paying"
    BY <1>4, Holder DEF Alone, Grows
  <2>2. s \in reopened'
    BY <1>4, <2>1 DEF ReportFailure
  <2> QED  BY <2>2
<1> QED  BY <1>1, <1>2, <1>3, <1>4

\* A person is told once, for an order that the rail does not pay; what the rail has
\* paid closes the order that nobody else holds.
LEMMA MarkAlone ==
    ASSUME SweepInv, SellInv', Grows, NEW j \in Jobs, Mark(j),
           job[j].sell \notin reopened'
    PROVE  SweepInv'
<1> USE DEF SweepInv, Grows
<1> DEFINE s == job[j].sell
<1>1. job[j].pc = "mark" /\ UNCHANGED <<rail, reader>> /\ s \in Sells \ reopened'
  BY DEF Mark, SellInv, RefsAreReal, JobRef
<1>2. job'[j].pc \in {"idle", "credit"} /\ \A i \in Jobs \ {j} : job'[i] = job[i]
  <2>1. \/ job' = [job EXCEPT ![j] = [Free EXCEPT !.pc = "credit", !.sell = s]]
        \/ job' = [job EXCEPT ![j] = Free]
    BY DEF Mark
  <2> DEFINE n == [Free EXCEPT !.pc = "credit", !.sell = s]
  <2>2. n.pc = "credit" /\ Free.pc = "idle"
    BY DEF Free
  <2>3. job' = [job EXCEPT ![j] = n] \/ job' = [job EXCEPT ![j] = Free]
    BY <2>1
  <2> HIDE DEF n
  <2> QED  BY <2>2, <2>3 DEF SellInv, TypeOK
<1>3. CASE order' = order /\ hand' = hand
  BY <1>1, <1>2, <1>3, Quiet
<1>4. CASE job[j].st = "manual"
  <2>1. Alone(j, s)
    BY <1>1, <1>4, Holder DEF Grows
  <2>2. /\ order[s].status = "paying" /\ s \notin ByRail
        /\ \A i \in Jobs \ {j} : ~Holds(i, s)
    BY <1>1, <2>1 DEF Alone, Holds, SawPaid
  <2>3. order' = [order EXCEPT ![s].status = "paid"] /\ hand' = [hand EXCEPT ![s] = @ + 1]
    BY <1>4, <2>2 DEF Mark
  <2>4. \A i \in Jobs : (job'[i] = job[i] /\ ~Holds(i, s)) \/ job'[i].pc \in {"idle", "credit"}
    BY <1>2, <2>2
  <2> HIDE DEF s
  <2> QED  BY <1>1, <2>2, <2>3, <2>4, StatusSet
<1>5. CASE job[j].st = "paid" /\ order[s].status = "paying"
  <2>1. \A i \in Jobs \ {j} : ~Holds(i, s)
    BY <1>1, <1>5 DEF HoldsAlone, Alone, SawPaid, Holds
  <2>2. order' = [order EXCEPT ![s].status = "paid"] /\ hand' = hand
    BY <1>5 DEF Mark
  <2>3. \A i \in Jobs : (job'[i] = job[i] /\ ~Holds(i, s)) \/ job'[i].pc \in {"idle", "credit"}
    BY <1>2, <2>1
  <2> HIDE DEF s
  <2> QED  BY <1>1, <1>5, <2>2, <2>3, StatusSet
<1>6. \/ order' = order /\ hand' = hand
      \/ job[j].st = "manual"
      \/ job[j].st = "paid" /\ order[s].status = "paying"
  BY DEF Mark
<1> QED  BY <1>3, <1>4, <1>5, <1>6

\* A decision makes nothing live that was not.
LEMMA RailDecidesAlone ==
    ASSUME SweepInv, SellInv', Grows, NEW p \in Payouts, RailDecides(p)
    PROVE  SweepInv'
<1> USE DEF SweepInv, Grows
<1>1. rail[p].st = "pending" /\ UNCHANGED <<order, hand, job, reader>>
  BY DEF RailDecides
<1>2. \A q \in Payouts : rail'[q].sell = rail[q].sell /\ (q # p => rail'[q] = rail[q])
  BY DEF RailDecides, SellInv, TypeOK
<1>3. \A s \in Sells : Live(s)' \subseteq Live(s)
  BY <1>1, <1>2 DEF Live
<1>4. \A s \in Sells : Untaken(s)' = Untaken(s)
  BY <1>1 DEF Untaken
<1>5. OneEach'
  <2>1. \A s \in Sells \ reopened' : OneOf(s)'
    <3> SUFFICES ASSUME NEW s \in Sells \ reopened' PROVE OneOf(s)'
      OBVIOUS
    <3>1. OneOf(s) /\ Live(s)' \subseteq Live(s) /\ Untaken(s)' = Untaken(s)
      BY <1>3, <1>4 DEF OneEach
    <3>2. \A q, x \in Live(s)' : q = x
      BY <3>1 DEF OneOf
    <3>3. ~Untaken(s) => Live(s)' \subseteq {order[s].ref}
      BY <3>1 DEF OneOf
    <3>4. order[s].status \in {"pending", "rejected"} => Live(s)' = {} /\ Untaken(s)
      BY <3>1 DEF OneOf
    <3> QED  BY <1>1, <3>1, <3>2, <3>3, <3>4 DEF OneOf
  <2> QED  BY <1>1, <1>2, <2>1 DEF OneEach
<1>6. HoldsAlone'
  <2> SUFFICES ASSUME NEW j \in Jobs, NEW s \in Sells \ reopened', Holds(j, s)' PROVE Alone(j, s)'
    BY DEF HoldsAlone
  <2>1. Alone(j, s) /\ Live(s)' \subseteq Live(s) /\ Untaken(s)' = Untaken(s)
    BY <1>1, <1>3, <1>4 DEF Holds, HoldsAlone
  <2>2. job[j].pc \notin {"made", "lost"} => Live(s)' = {}
    BY <2>1 DEF Alone
  <2>3. job[j].pc = "made" /\ job[j].ref # None => Live(s)' \subseteq {job[j].ref}
    BY <2>1 DEF Alone
  <2> QED  BY <1>1, <2>1, <2>2, <2>3 DEF Alone, Holds, SawPaid
<1>7. SeenPaid'
  <2>1. \A j \in Jobs : job[j].ref # None => job[j].ref \in Payouts
    BY DEF SellInv, TypeOK, Job
  <2> QED  BY <1>1, <1>2, <2>1 DEF SeenPaid, SawPaid
<1>8. SweepFollows'
  <2> SUFFICES ASSUME NEW r \in Readers, reader[r].pc # "idle",
                      NEW s \in Sells \ reopened', s = reader[r].sell
               PROVE  Follows(r, s)'
    BY <1>1 DEF SweepFollows, SellInv, RefsAreReal, ReaderRef
  <2>1. Follows(r, s) /\ Live(s)' \subseteq Live(s)
    BY <1>3 DEF SweepFollows
  <2> QED  BY <1>1, <2>1 DEF Follows
<1> QED  BY <1>5, <1>6, <1>7, <1>8

\* The sweep picks an order whose payout is on record, which no button holds.
LEMMA PickAlone ==
    ASSUME SweepInv, SellInv', Grows, NEW s \in Sells, Pick("sweep", s), "sweep" \in Readers
    PROVE  SweepInv'
<1> USE DEF SweepInv, Grows
<1>1. /\ order[s].ref # None /\ order[s].pst \notin {"paid", "declined"}
      /\ reader' = [reader EXCEPT !["sweep"] = [Asleep EXCEPT !.pc = "read", !.sell = s,
                                                              !.ref = order[s].ref]]
      /\ UNCHANGED <<order, rail, hand, job>>
  BY DEF Pick, Listed, Unfinished
<1>2. ~Untaken(s)
  BY <1>1 DEF Untaken
<1>3. /\ reader'["sweep"].pc = "read" /\ reader'["sweep"].sell = s
      /\ reader'["sweep"].ref = order[s].ref
      /\ \A r \in Readers \ {"sweep"} : reader'[r] = reader[r]
  BY <1>1 DEF SellInv, TypeOK, Asleep
<1>4. \A t \in Sells : Live(t)' = Live(t) /\ Untaken(t)' = Untaken(t)
  BY <1>1, LiveStays DEF Untaken
<1>5. OneEach'
  <2>1. \A t \in Sells \ reopened' : OneOf(t)'
    BY <1>1, <1>4 DEF OneEach, OneOf
  <2> QED  BY <1>1, <2>1 DEF OneEach
<1>6. HoldsAlone'
  <2> SUFFICES ASSUME NEW j \in Jobs, NEW t \in Sells \ reopened', Holds(j, t)' PROVE Alone(j, t)'
    BY DEF HoldsAlone
  <2>a. Holds(j, t)
    BY <1>1 DEF Holds
  <2>1. Alone(j, t) /\ t # s
    BY <1>2, <2>a DEF HoldsAlone, Alone
  <2> QED  BY <1>1, <1>3, <1>4, <2>1 DEF Alone, Holds, SawPaid
<1>7. SeenPaid'
  BY <1>1 DEF SeenPaid, SawPaid
<1>8. SweepFollows'
  <2> SUFFICES ASSUME NEW r \in Readers, reader'[r].pc # "idle", reader'[r].sell \notin reopened'
               PROVE  Follows(r, reader[r].sell)'
    BY DEF SweepFollows
  <2>1. CASE r = "sweep"
    <3>1. OneOf(s)
      BY <1>3, <2>1 DEF OneEach
    <3>2. order[s].status \in {"paying", "paid"} /\ Live(s) \subseteq {order[s].ref}
      BY <1>2, <3>1 DEF OneOf, SellInv, TypeOK, Order
    <3> QED  BY <1>1, <1>3, <1>4, <2>1, <3>2 DEF Follows
  <2>2. CASE r # "sweep"
    <3>1. Follows(r, reader[r].sell) /\ reader[r].sell \in Sells /\ reader'[r] = reader[r]
      BY <1>3, <2>2 DEF SweepFollows, SellInv, RefsAreReal, ReaderRef
    <3> QED  BY <1>1, <1>4, <3>1 DEF Follows
  <2> QED  BY <2>1, <2>2
<1> QED  BY <1>5, <1>6, <1>7, <1>8

\* The status it notes is that of the payout the order still refers to, and no button
\* holds the order.
LEMMA UpdateStatusAlone ==
    ASSUME SweepInv, SellInv', Grows, Readers \subseteq {"sweep"}, NEW x \in Readers, UpdateStatus(x),
           reader[x].sell \notin reopened'
    PROVE  SweepInv'
<1> USE DEF SweepInv, Grows
<1> DEFINE s == reader[x].sell
<1>1. /\ reader[x].pc = "told" /\ s \in Sells /\ reader[x].ref # None
      /\ UNCHANGED <<rail, hand, job>> /\ Follows(x, s)
  BY DEF UpdateStatus, SellInv, RefsAreReal, ReaderRef, SweepFollows
<1>2. /\ \A t \in Sells : /\ order'[t].status = order[t].status /\ order'[t].ref = order[t].ref
                          /\ t # s => order'[t] = order[t]
      /\ order[s].status # "paid" => order'[s].pst = reader[x].st
      /\ order[s].status = "paid" => order'[s] = order[s]
  <2>1. order \in [Sells -> Order] /\ order[s] \in Order
    BY <1>1 DEF SellInv, TypeOK
  <2>2. CASE order[s].status # "paid"
    <3> DEFINE n == [order[s] EXCEPT !.pst = reader[x].st]
    <3>1. n.pst = reader[x].st /\ n.status = order[s].status /\ n.ref = order[s].ref
      BY <2>1 DEF Order
    <3>2. order' = [order EXCEPT ![s] = n]
      BY <2>2 DEF UpdateStatus
    <3> HIDE DEF n
    <3> QED  BY <1>1, <2>1, <2>2, <3>1, <3>2
  <2>3. CASE order[s].status = "paid"
    BY <2>3 DEF UpdateStatus
  <2> QED  BY <2>2, <2>3
<1>3. \/ reader'[x].pc = "idle"
      \/ /\ reader'[x].pc = "noted" /\ reader'[x].sell = s
         /\ reader'[x].ref = reader[x].ref /\ reader'[x].st = reader[x].st
  <2>1. reader[x] \in Reading
    BY DEF SellInv, TypeOK
  <2> DEFINE n == [reader[x] EXCEPT !.pc = "noted"]
  <2>2. n.pc = "noted" /\ n.sell = s /\ n.ref = reader[x].ref /\ n.st = reader[x].st
    BY <2>1 DEF Reading
  <2>3. reader' = [reader EXCEPT ![x] = Asleep] \/ reader' = [reader EXCEPT ![x] = n]
    BY DEF UpdateStatus
  <2> HIDE DEF n
  <2> QED  BY <2>2, <2>3 DEF Asleep, SellInv, TypeOK
<1>4. \A r \in Readers : r = x
  OBVIOUS
<1>5. \A t \in Sells : Live(t)' = Live(t)
  BY <1>1, LiveStays
<1>6. \A t \in Sells \ {s} : Untaken(t)' = Untaken(t)
  BY <1>2 DEF Untaken
<1>7. OneEach'
  <2>1. \A t \in Sells \ (reopened' \cup {s}) : OneOf(t)'
    BY <1>1, <1>2, <1>5, <1>6 DEF OneEach, OneOf
  <2>2. \A t \in Sells : t = s => OneOf(t)'
    BY <1>1, <1>2, <1>5 DEF OneEach, OneOf, Follows
  <2> QED  BY <1>1, <2>1, <2>2 DEF OneEach
<1>8. HoldsAlone'
  <2> SUFFICES ASSUME NEW j \in Jobs, NEW t \in Sells \ reopened', Holds(j, t)' PROVE Alone(j, t)'
    BY DEF HoldsAlone
  <2>1. Alone(j, t) /\ t # s
    BY <1>1 DEF Holds, HoldsAlone, Alone
  <2>2. \A r \in Readers : reader'[r].pc # "idle" => reader'[r].sell # t
    BY <1>3, <1>4, <2>1
  <2> QED  BY <1>1, <1>2, <1>5, <1>6, <2>1, <2>2 DEF Alone, Holds, SawPaid
<1>9. SeenPaid'
  BY <1>1 DEF SeenPaid, SawPaid
<1>10. SweepFollows'
  <2> SUFFICES ASSUME NEW r \in Readers, reader'[r].pc # "idle", reader'[r].sell \notin reopened'
               PROVE  Follows(r, reader[r].sell)'
    BY DEF SweepFollows
  <2>1. r = x /\ reader'[x].sell = s
    BY <1>3, <1>4
  <2> QED  BY <1>1, <1>2, <1>3, <1>5, <2>1 DEF Follows
<1> QED  BY <1>7, <1>8, <1>9, <1>10

\* What the sweep does with the outcome it has noted.
LEMMA OutcomeAlone ==
    ASSUME SweepInv, SellInv', Grows, Readers \subseteq {"sweep"}, NEW x \in Readers,
           Settle(x) \/ MarkRejected(x), reader[x].sell \notin reopened'
    PROVE  SweepInv'
<1> USE DEF SweepInv, Grows
<1> DEFINE s == reader[x].sell
<1>1. /\ reader[x].pc = "noted" /\ s \in Sells \ reopened' /\ reader[x].ref # None
      /\ UNCHANGED <<rail, hand, job>> /\ Follows(x, s)
      /\ \A r \in Readers : reader'[r].pc = "idle"
  <2>1. reader[x].pc = "noted" /\ UNCHANGED <<rail, hand, job>>
    BY DEF Settle, MarkRejected
  <2>2. \A r \in Readers : r = x
    OBVIOUS
  <2>3. reader' = [reader EXCEPT ![x] = Asleep]
    BY DEF Settle, MarkRejected
  <2> QED  BY <2>1, <2>2, <2>3
           DEF SellInv, TypeOK, RefsAreReal, ReaderRef, SweepFollows, Asleep
<1>2. \A j \in Jobs : ~Holds(j, s)
  BY <1>1 DEF HoldsAlone, Alone
<1>3. CASE order' = order
  BY <1>1, <1>3, Quiet
<1>4. CASE order' # order /\ Settle(x)
  <2>1. order[s].status # "paid" /\ order' = [order EXCEPT ![s].status = "paid"]
    BY <1>4 DEF Settle, Settleable
  <2> HIDE DEF s
  <2> QED  BY <1>1, <1>2, <2>1, StatusSet
<1>5. CASE order' # order /\ MarkRejected(x)
  <2>1. /\ order[s].status = "paying" /\ order' = [order EXCEPT ![s].status = "pending"]
        /\ reader[x].st = "declined"
    BY <1>5 DEF MarkRejected, Released
  <2>2. order[s].pst = "declined" /\ order[s].ref = reader[x].ref /\ Live(s) \subseteq {reader[x].ref}
    BY <1>1, <2>1 DEF Follows
  <2>3. rail[reader[x].ref].st = "declined"
    BY <1>1, <2>1, <2>2 DEF SellInv, AnswersAreTrue
  <2>4. Live(s) = {} /\ Untaken(s)
    BY <2>2, <2>3 DEF Live, Untaken
  <2> HIDE DEF s
  <2> QED  BY <1>1, <1>2, <2>1, <2>4, StatusSet
<1> QED  BY <1>3, <1>4, <1>5

\* What neither holds an order nor says anything of its payment.
LEMMA QuietSteps ==
    ASSUME SweepInv, SellInv', Grows,
           \/ \E j \in Jobs : Press(j) \/ Verify(j) \/ ReserveTxid(j) \/ CreditVolume(j)
           \/ \E r \in Readers : Ask(r) \/ Hear(r)
           \/ (\E s \in Sells : ThreeDaysPass(s)) \/ BotDies \/ RelayDies
    PROVE  SweepInv'
<1> USE DEF SweepInv, Grows
<1>1. order \in [Sells -> Order] /\ job \in [Jobs -> Job] /\ reader \in [Readers -> Reading]
  BY DEF SellInv, TypeOK
<1>2. Free.pc = "idle" /\ Asleep.pc = "idle"
  BY DEF Free, Asleep
<1>3. ASSUME NEW j \in Jobs, Press(j) PROVE SweepInv'
  <2>1. UNCHANGED <<order, rail, hand, reader>>
    BY <1>3 DEF Press, SellConfirm, SellForce
  <2>2. \A i \in Jobs : job'[i] = job[i] \/ job'[i].pc \in {"check", "claim"}
    <3>1. ASSUME NEW x \in Sells, SellForce(j, x) PROVE job'[j].pc = "claim"
      <4> DEFINE n == [Free EXCEPT !.pc = "claim", !.sell = x]
      <4>1. n.pc = "claim"
        BY DEF Free
      <4>2. job' = [job EXCEPT ![j] = n]
        BY <3>1 DEF SellForce
      <4> HIDE DEF n
      <4> QED  BY <1>1, <4>1, <4>2
    <3>2. ASSUME NEW x \in Sells, SellConfirm(j, x) PROVE job'[j].pc = "check"
      <4> DEFINE n == [Free EXCEPT !.pc = "check", !.sell = x]
      <4>1. n.pc = "check"
        BY DEF Free
      <4>2. job' = [job EXCEPT ![j] = n]
        BY <3>2 DEF SellConfirm
      <4> HIDE DEF n
      <4> QED  BY <1>1, <4>1, <4>2
    <3>3. job'[j].pc \in {"check", "claim"}
      BY <1>3, <3>1, <3>2 DEF Press
    <3>4. \A i \in Jobs \ {j} : job'[i] = job[i]
      BY <1>1, <1>3 DEF Press, SellConfirm, SellForce
    <3> QED  BY <3>3, <3>4
  <2> QED  BY <2>1, <2>2, Quiet
<1>4. ASSUME NEW j \in Jobs, ReserveTxid(j) PROVE SweepInv'
  <2>1. UNCHANGED <<rail, hand, reader>> /\ job[j].sell \in Sells
    BY <1>4 DEF ReserveTxid, SellInv, RefsAreReal, JobRef
  <2>2. \A t \in Sells : /\ order'[t].status = order[t].status
                         /\ order'[t].ref = order[t].ref /\ order'[t].pst = order[t].pst
    <3>1. order' = order \/ order' = [order EXCEPT ![job[j].sell].tx = job[j].deposit]
      BY <1>4 DEF ReserveTxid
    <3> QED  BY <1>1, <2>1, <3>1 DEF Order
  <2>3. \A i \in Jobs : job'[i] = job[i] \/ job'[i].pc \in {"idle", "claim"}
    <3>1. \/ job' = [job EXCEPT ![j] = [Free EXCEPT !.pc = "claim", !.sell = job[j].sell]]
          \/ job' = [job EXCEPT ![j] = Free]
      BY <1>4 DEF ReserveTxid
    <3> DEFINE n == [Free EXCEPT !.pc = "claim", !.sell = job[j].sell]
    <3>2. n.pc = "claim"
      BY DEF Free
    <3>3. job' = [job EXCEPT ![j] = n] \/ job' = [job EXCEPT ![j] = Free]
      BY <3>1
    <3> HIDE DEF n
    <3> QED  BY <1>1, <1>2, <3>2, <3>3
  <2> QED  BY <2>1, <2>2, <2>3, Quiet
<1>5. ASSUME NEW j \in Jobs, CreditVolume(j) PROVE SweepInv'
  <2>1. /\ UNCHANGED <<order, rail, hand, reader>>
        /\ \A i \in Jobs : job'[i] = job[i] \/ job'[i].pc = "idle"
    BY <1>1, <1>2, <1>5 DEF CreditVolume
  <2> QED  BY <2>1, Quiet
<1>6. ASSUME NEW r \in Readers, Ask(r) \/ Hear(r) PROVE SweepInv'
  <2>1. UNCHANGED <<order, rail, hand, job>> /\ reader[r].pc # "idle" /\ reader[r] \in Reading
    BY <1>1, <1>6 DEF Ask, Hear
  <2>2. \/ reader' = [reader EXCEPT ![r] = Asleep]
        \/ reader' = [reader EXCEPT ![r].pc = "asked", ![r].asked = order[reader[r].sell].ref]
        \/ reader' = [reader EXCEPT ![r].pc = "told", ![r].st = rail[reader[r].asked].st]
    BY <1>6 DEF Ask, Hear
  <2>3. \/ reader'[r].pc = "idle"
        \/ /\ reader'[r].pc \in {"asked", "told"} /\ reader'[r].sell = reader[r].sell
           /\ reader'[r].ref = reader[r].ref
    BY <1>1, <1>2, <2>1, <2>2 DEF Reading
  <2>4. \A q \in Readers \ {r} : reader'[q] = reader[q]
    BY <1>1, <2>2
  <2> QED  BY <2>1, <2>3, <2>4, Quiet
<1>8. ASSUME NEW j \in Jobs, Verify(j) PROVE SweepInv'
  <2>1. UNCHANGED <<order, rail, hand, reader>> /\ job[j] \in Job
    BY <1>1, <1>8 DEF Verify
  <2>2. \/ job' = [job EXCEPT ![j] = Free]
        \/ \E d \in Deposits :
             job' = [job EXCEPT ![j].pc = "found", ![j].deposit = d,
                                ![j].seen = order[job[j].sell].status]
    BY <1>8 DEF Verify
  <2>3. \A i \in Jobs \ {j} : job'[i] = job[i]
    BY <1>1, <2>2
  <2>4. job'[j].pc \in {"idle", "found"}
    <3>1. CASE job' = [job EXCEPT ![j] = Free]
      BY <1>1, <1>2, <3>1
    <3>2. ASSUME NEW d \in Deposits,
                 job' = [job EXCEPT ![j].pc = "found", ![j].deposit = d,
                                    ![j].seen = order[job[j].sell].status]
          PROVE  job'[j].pc = "found"
      BY <1>1, <2>1, <3>2 DEF Job
    <3> QED  BY <2>2, <3>1, <3>2
  <2> QED  BY <2>1, <2>3, <2>4, Quiet
<1>9. ASSUME NEW s \in Sells, ThreeDaysPass(s) PROVE SweepInv'
  <2>1. UNCHANGED <<order, rail, hand, job, reader>>
    BY <1>9 DEF ThreeDaysPass
  <2> QED  BY <2>1, Quiet
<1>7. CASE BotDies \/ RelayDies
  <2>1. /\ UNCHANGED <<order, rail, hand>>
        /\ \A j \in Jobs : job'[j] = job[j] \/ job'[j].pc = "idle"
        /\ \A r \in Readers : reader'[r] = reader[r] \/ reader'[r].pc = "idle"
    BY <1>1, <1>2, <1>7 DEF BotDies, RelayDies
  <2> QED  BY <2>1, Quiet
<1> QED  BY <1>3, <1>4, <1>5, <1>6, <1>7, <1>8, <1>9

\* A rejection is of an order that nobody is at, and so is a release by hand unless
\* it comes too early.
LEMMA RowsAlone ==
    ASSUME SweepInv, SellInv', Grows, NEW s \in Sells, Reject(s) \/ Unclaim(s)
    PROVE  SweepInv'
<1> USE DEF SweepInv, Grows
<1>1. /\ UNCHANGED <<rail, hand, job, reader>> /\ order[s].status # "paid"
  BY DEF Reject, Unclaim, Claimable
<1>2. PICK v \in {"pending", "rejected"} : order' = [order EXCEPT ![s].status = v]
  BY DEF Reject, Unclaim
<1>s. CASE s \in reopened'
  <2>1. order \in [Sells -> Order] /\ \A t \in Sells \ {s} : order'[t] = order[t]
    BY <1>2 DEF SellInv, TypeOK
  <2> QED  BY <1>1, <1>s, <2>1, Elsewhere
<1>0. SUFFICES ASSUME s \notin reopened' PROVE SweepInv'
  BY <1>s
<1>3. CASE Reject(s)
  <2>1. order[s].status \in {"pending", "rejected"}
    BY <1>3 DEF Reject, Claimable, SellInv, TypeOK, Order
  <2>2. Live(s) = {} /\ Untaken(s)
    BY <1>0, <2>1 DEF OneEach, OneOf
  <2>3. \A j \in Jobs : ~Holds(j, s)
    BY <1>0, <2>1 DEF HoldsAlone, Alone
  <2>4. \A r \in Readers : reader[r].pc # "idle" => reader[r].sell # s
    BY <1>0, <2>1 DEF SweepFollows, Follows
  <2> QED  BY <1>0, <1>1, <1>2, <2>2, <2>3, <2>4, StatusSet
<1>4. CASE Unclaim(s)
  <2>1. Live(s) = {} /\ order[s].ref = None /\ \A j \in Jobs : ~Holds(j, s)
    BY <1>0, <1>4 DEF Unclaim
  <2>2. Untaken(s)
    BY <2>1 DEF Untaken
  <2>3. \A r \in Readers : reader[r].pc # "idle" => reader[r].sell # s
    BY <1>0, <2>1 DEF SweepFollows, Follows, SellInv, RefsAreReal, ReaderRef
  <2> QED  BY <1>0, <1>1, <1>2, <2>1, <2>2, <2>3, StatusSet
<1> QED  BY <1>3, <1>4

\* At the start nothing is live and nobody is at work.
LEMMA SweepInvInit == Init => SweepInv
<1> SUFFICES ASSUME Init PROVE SweepInv
  OBVIOUS
<1>1. SellInv
  BY SellInvInit
<1>2. Free.pc = "idle" /\ Asleep.pc = "idle"
  BY DEF Free, Asleep
<1>3. \A s \in Sells : Live(s) = {} /\ Untaken(s)
  BY DEF Init, Live, Untaken
<1>4. OneEach
  BY <1>3 DEF Init, OneEach, OneOf
<1>5. HoldsAlone /\ SeenPaid /\ SweepFollows
  BY <1>2 DEF Init, HoldsAlone, Holds, SeenPaid, SawPaid, SweepFollows
<1> QED  BY <1>1, <1>4, <1>5 DEF SweepInv

\* No step takes back that an order was put back too early.
LEMMA GrowStep == ASSUME SellInv, [Next]_vars PROVE Grows
<1>1. reopened' \subseteq Sells
  BY AsideStep DEF AsideTyped
<1>2. ASSUME NEW j \in Jobs, Press(j) \/ Serve(j) PROVE reopened \subseteq reopened'
  BY <1>2 DEF Press, SellForce, SellConfirm, Serve, Verify, ReserveTxid, Claim, SendRub,
              RefusePayout, CreatePayout, RecordProvider, RecordFails, ReportFailure, Mark,
              CreditVolume
<1>3. ASSUME NEW r \in Readers, Read(r) PROVE reopened \subseteq reopened'
  BY <1>3 DEF Read, Pick, Ask, Hear, UpdateStatus, Settle, MarkRejected
<1>4. ASSUME NEW s \in Sells, Reject(s) \/ Unclaim(s) \/ ThreeDaysPass(s)
      PROVE  reopened \subseteq reopened'
  BY <1>4 DEF Reject, Unclaim, ThreeDaysPass
<1>5. CASE BotDies \/ RelayDies \/ (\E p \in Payouts : RailDecides(p)) \/ UNCHANGED vars
  BY <1>1, <1>5 DEF BotDies, RelayDies, RailDecides, vars, Grows
<1>6. reopened \subseteq reopened'
  BY <1>2, <1>3, <1>4, <1>5 DEF Next, Grows
<1> QED  BY <1>1, <1>6 DEF Grows

\* With the sweep alone, every step keeps an order to one transfer, or puts it back.
LEMMA SweepInvStep ==
    ASSUME Readers \subseteq {"sweep"}, SweepInv, [Next]_vars
    PROVE  SweepInv'
<1>0. SellInv' /\ Grows
  BY SellInvStep, GrowStep DEF SweepInv
<1>1. ASSUME NEW j \in Jobs, Press(j) PROVE SweepInv'
  BY <1>0, <1>1, QuietSteps
<1>2. ASSUME NEW j \in Jobs, Serve(j) PROVE SweepInv'
  <2>1. CASE Verify(j) \/ ReserveTxid(j) \/ CreditVolume(j)
    BY <1>0, <2>1, QuietSteps
  <2>2. CASE job[j].sell \in reopened'
    BY <1>0, <1>2, <2>2, ReopenedServed
  <2>3. CASE job[j].sell \notin reopened'
    BY <1>0, <1>2, <2>1, <2>3, ClaimAlone, SendRubAlone, RefusePayoutAlone, CreatePayoutAlone,
       RecordProviderAlone, RecordFailsAlone, ReportFailureAlone, MarkAlone DEF Serve
  <2> QED  BY <2>2, <2>3
<1>3. ASSUME NEW r \in Readers, Read(r) PROVE SweepInv'
  <2>1. CASE Ask(r) \/ Hear(r)
    BY <1>0, <2>1, QuietSteps
  <2>2. r = "sweep"
    OBVIOUS
  <2>3. CASE \E s \in Sells : Pick(r, s)
    BY <1>0, <2>2, <2>3, PickAlone
  <2>4. CASE UpdateStatus(r) \/ Settle(r) \/ MarkRejected(r)
    BY <1>0, <2>4, ReopenedRead, UpdateStatusAlone, OutcomeAlone
  <2> QED  BY <1>3, <2>1, <2>3, <2>4 DEF Read
<1>4. ASSUME NEW s \in Sells, Reject(s) \/ Unclaim(s) PROVE SweepInv'
  BY <1>0, <1>4, RowsAlone
<1>5. ASSUME NEW p \in Payouts, RailDecides(p) PROVE SweepInv'
  BY <1>0, <1>5, RailDecidesAlone
<1>6. CASE BotDies \/ RelayDies \/ \E s \in Sells : ThreeDaysPass(s)
  BY <1>0, <1>6, QuietSteps
<1>7. CASE UNCHANGED vars
  BY <1>0, <1>7 DEF vars, SweepInv, OneEach, OneOf, Untaken, Live, HoldsAlone, Holds, Alone,
                    SeenPaid, SawPaid, SweepFollows, Follows
<1> QED  BY <1>1, <1>2, <1>3, <1>4, <1>5, <1>6, <1>7 DEF Next

\* At most one payout is live, and none if a person was told to pay.
LEMMA OneTransferFollows == SweepInv => OneTransfer
<1> SUFFICES ASSUME SweepInv, NEW s \in Sells \ reopened PROVE Cardinality(Live(s)) + hand[s] <= 1
  BY DEF OneTransfer
<1>1. OneOf(s) /\ hand[s] \in Nat
  BY DEF SweepInv, OneEach, SellInv, TypeOK
<1>2. CASE Live(s) = {}
  <2>1. Cardinality(Live(s)) = 0
    BY <1>2, FS_EmptySet
  <2> QED  BY <1>1, <2>1 DEF OneOf
<1>3. CASE Live(s) # {}
  <2>1. PICK p \in Live(s) : Live(s) = {p}
    BY <1>1, <1>3 DEF OneOf
  <2>2. Cardinality(Live(s)) = 1
    BY <2>1, FS_Singleton
  <2>3. s \in ByRail
    BY <2>1 DEF Live, SweepInv, OneEach
  <2>4. hand[s] = 0
    BY <1>1, <2>3 DEF OneOf
  <2> QED  BY <2>2, <2>4
<1> QED  BY <1>2, <1>3

\* While the sweep is the only reader, an order is never paid twice, however many
\* administrators press, whatever the rail answers and whenever either process dies,
\* unless it was put back while a payout of it existed or was on its way.
THEOREM PaidOnce ==
    ASSUME Readers \subseteq {"sweep"}
    PROVE  Spec => []OneTransfer
<1>1. Init => SweepInv
  BY SweepInvInit
<1>2. SweepInv /\ [Next]_vars => SweepInv'
  BY SweepInvStep
<1>3. SweepInv => OneTransfer
  BY OneTransferFollows
<1> QED  BY <1>1, <1>2, <1>3, PTL DEF Spec
==============================================================================
