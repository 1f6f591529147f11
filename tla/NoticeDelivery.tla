----------------------------- MODULE NoticeDelivery ----------------------------
(***************************************************************************)
(* The bot's notification jobs in their hardened delivery (off by default, *)
(* PostgresB53HardenedBotNotificationStore switches it on): dispatchers    *)
(* that claim a job, ask for the permission to send it, send it and file   *)
(* the evidence of what Telegram said; the reconciler, which every minute  *)
(* closes what a dispatcher left behind; and the operator, who revokes     *)
(* recipients.  A dispatcher may die between any two transactions.         *)
(*                                                                         *)
(* A job is claimed once in its life, since nothing puts it back: its      *)
(* attempt token, its attempt and its authorization are the job's own.     *)
(***************************************************************************)
EXTENDS Naturals, FiniteSets

CONSTANTS
    Jobs,         \* notification jobs
    NoJob,
    Recipients,   \* Telegram users
    To,           \* whom each job is for
    Dispatchers,  \* loops that deliver jobs
    MaxChanges    \* how many times the operator revokes or restores somebody

ASSUME NoticeAssumption ==
    /\ NoJob \notin Jobs
    /\ To \in [Jobs -> Recipients]
    /\ MaxChanges \in Nat

VARIABLES
    state,       \* of each job's row
    permitted,   \* jobs with a row in submit_authorizations
    evidence,    \* the terminal evidence of each job's attempt
    revoked,     \* recipients whose revocation is in force
    quarantine,  \* jobs with a row in recipient_quarantines
    step,        \* what each dispatcher is about to do
    item,        \* the job it does it with
    submitted,   \* how often each job's message was handed to Telegram
    delivered,   \* jobs whose message Telegram took
    changes

jobVars == <<state, permitted, evidence, quarantine>>
telegram == <<submitted, delivered>>
operator == <<revoked, changes>>
vars == <<jobVars, telegram, operator, step, item>>

Final == {"sent", "manual", "quarantined"}
Steps == {"idle", "render", "send", "accepted", "failed", "write accepted",
          "write uncertain", "consume", "park"}

TypeOK ==
    /\ state \in [Jobs -> {"none", "pending", "sending"} \cup Final]
    /\ permitted \subseteq Jobs /\ quarantine \subseteq Jobs /\ delivered \subseteq Jobs
    /\ evidence \in [Jobs -> {"none", "ACCEPTED", "UNCERTAIN"}]
    /\ revoked \subseteq Recipients
    /\ step \in [Dispatchers -> Steps]
    /\ item \in [Dispatchers -> Jobs \cup {NoJob}]
    /\ submitted \in [Jobs -> Nat]
    /\ changes \in 0 .. MaxChanges

Init ==
    /\ state = [j \in Jobs |-> "none"]
    /\ permitted = {} /\ quarantine = {} /\ delivered = {} /\ revoked = {}
    /\ evidence = [j \in Jobs |-> "none"]
    /\ step = [d \in Dispatchers |-> "idle"]
    /\ item = [d \in Dispatchers |-> NoJob]
    /\ submitted = [j \in Jobs |-> 0]
    /\ changes = 0

\* The database refuses new jobs for a revoked recipient.
Enqueue(j) ==
    /\ state[j] = "none"
    /\ To[j] \notin revoked
    /\ state' = [state EXCEPT ![j] = "pending"]
    /\ UNCHANGED <<permitted, evidence, quarantine, telegram, operator, step, item>>

-----------------------------------------------------------------------------
(* The dispatcher. *)

Goto(d, s) ==
    /\ step' = [step EXCEPT ![d] = s]
    /\ UNCHANGED item

\* The pass goes on with another job, or ends.
Drop(d) ==
    /\ step' = [step EXCEPT ![d] = "idle"]
    /\ item' = [item EXCEPT ![d] = NoJob]

\* Mutant of Claimable: an attempt that left nothing behind is taken over.
ClaimableAgain(j) ==
    /\ state[j] = "pending" \/ (state[j] = "sending" /\ evidence[j] = "none")
    /\ To[j] \notin revoked

Claimable(j) == state[j] = "pending" /\ To[j] \notin revoked

Claim(d, j) ==
    /\ step[d] = "idle"
    /\ Claimable(j)
    /\ state' = [state EXCEPT ![j] = "sending"]
    /\ step' = [step EXCEPT ![d] = "render"]
    /\ item' = [item EXCEPT ![d] = j]
    /\ UNCHANGED <<permitted, evidence, quarantine, telegram, operator>>

\* A payload that cannot be rendered is left to people.
RenderFails(d) ==
    /\ step[d] = "render"
    /\ LET j == item[d] IN
       state' = IF state[j] = "sending" /\ j \notin permitted
                  THEN [state EXCEPT ![j] = "manual"] ELSE state
    /\ Drop(d)
    /\ UNCHANGED <<permitted, evidence, quarantine, telegram, operator>>

\* Mutant of MaySubmit: what was revoked in the meantime does not count.
MaySubmitNow(j) == state[j] = "sending" /\ To[j] \notin revoked

\* DENY_STALE and DENY_REVOKED are the denials.
MaySubmit(j) == state[j] = "sending" /\ j \notin quarantine /\ To[j] \notin revoked

\* pre_submit, whose answer may be lost.
PreSubmit(d) ==
    /\ step[d] = "render"
    /\ \/ /\ MaySubmit(item[d])
          /\ permitted' = permitted \cup {item[d]}
          /\ Goto(d, "send") \/ Drop(d)
       \/ /\ ~MaySubmit(item[d])
          /\ Drop(d)
          /\ UNCHANGED permitted
    /\ UNCHANGED <<state, evidence, quarantine, telegram, operator>>

\* Telegram takes the message and says so, or the call raises, whatever became of
\* the message.
Send(d) ==
    /\ step[d] = "send"
    /\ LET j == item[d] IN
       /\ submitted' = [submitted EXCEPT ![j] = @ + 1]
       /\ \/ delivered' = delivered \cup {j} /\ Goto(d, "accepted")
          \/ delivered' \in {delivered, delivered \cup {j}} /\ Goto(d, "failed")
    /\ UNCHANGED <<jobVars, operator>>

\* record_evidence reads the job, which it does not lock, with the attempt, whose
\* lock it may have to wait for.  A receipt that cannot be filed is uncertain.
LookUpAttempt(d) ==
    /\ \/ step[d] = "accepted" /\ state[item[d]] = "sending" /\ Goto(d, "write accepted")
       \/ step[d] = "accepted" /\ Goto(d, "failed")
       \/ step[d] = "failed" /\ state[item[d]] = "sending" /\ Goto(d, "write uncertain")
       \/ step[d] = "failed" /\ Drop(d)
    /\ UNCHANGED <<jobVars, telegram, operator>>

\* The evidence is filed once, and what contradicts it raises.
File(j, outcome) ==
    /\ evidence[j] = "none"
    /\ evidence' = [evidence EXCEPT ![j] = outcome]

WriteAccepted(d) ==
    /\ step[d] = "write accepted"
    /\ \/ File(item[d], "ACCEPTED") /\ (Goto(d, "consume") \/ Goto(d, "failed"))
       \/ Goto(d, "failed") /\ UNCHANGED evidence
    /\ UNCHANGED <<state, permitted, quarantine, telegram, operator>>

WriteUncertain(d) ==
    /\ step[d] = "write uncertain"
    /\ \/ File(item[d], "UNCERTAIN") /\ (Goto(d, "park") \/ Drop(d))
       \/ Drop(d) /\ UNCHANGED evidence
    /\ UNCHANGED <<state, permitted, quarantine, telegram, operator>>

\* Mutant of Consumed: an accepted message is sent, whoever closed its job.
ConsumedAnyway(j) ==
    IF evidence[j] = "ACCEPTED" THEN [state EXCEPT ![j] = "sent"] ELSE state

\* consume_accepted, for the dispatcher and for the reconciler.
Consumed(j) ==
    IF state[j] = "sending" /\ evidence[j] = "ACCEPTED"
    THEN [state EXCEPT ![j] = "sent"] ELSE state

Consume(d) ==
    /\ step[d] = "consume"
    /\ state' \in {Consumed(item[d]), state}
    /\ Drop(d)
    /\ UNCHANGED <<permitted, evidence, quarantine, telegram, operator>>

\* mark_manual.
Park(d) ==
    /\ step[d] = "park"
    /\ LET j == item[d] IN
       state' \in {state, IF state[j] = "sending" /\ evidence[j] = "UNCERTAIN"
                            THEN [state EXCEPT ![j] = "manual"] ELSE state}
    /\ Drop(d)
    /\ UNCHANGED <<permitted, evidence, quarantine, telegram, operator>>

Die(d) ==
    /\ step[d] # "idle"
    /\ Drop(d)
    /\ UNCHANGED <<jobVars, telegram, operator>>

-----------------------------------------------------------------------------
(* The reconciler and the operator. *)

\* Mutant of Stale: only an attempt that was never permitted is given up.
StaleUnpermitted(j) == state[j] = "sending" /\ evidence[j] = "none" /\ j \notin permitted

\* A quarter of an hour after its claim; a stalled dispatcher may still have it.
Stale(j) == state[j] = "sending" /\ evidence[j] = "none"

\* Mutant of Reconcile: what was permitted and left is taken for sent.
ReconcileOptimistic(j) ==
    /\ \/ state[j] = "sending" /\ evidence[j] = "ACCEPTED" /\ state' = Consumed(j)
       \/ Stale(j) /\ state' = [state EXCEPT ![j] = IF j \in permitted THEN "sent" ELSE "manual"]
    /\ UNCHANGED <<permitted, evidence, quarantine, telegram, operator, step, item>>

\* One job of bot_b63_reconcile_batch: an accepted message is closed, and a stale
\* attempt is left to people, never sent again.
Reconcile(j) ==
    /\ \/ state[j] = "sending" /\ evidence[j] = "ACCEPTED" /\ state' = Consumed(j)
       \/ Stale(j) /\ state' = [state EXCEPT ![j] = "manual"]
    /\ UNCHANGED <<permitted, evidence, quarantine, telegram, operator, step, item>>

\* What a revocation meets; a job can be filed in quarantine once only, so the whole
\* revocation fails while an earlier one's job is still being sent.
Met(r) == {j \in Jobs : To[j] = r /\ state[j] \in {"pending", "sending"}}

Revoke(r) ==
    /\ changes < MaxChanges
    /\ r \notin revoked
    /\ Met(r) \cap quarantine = {}
    /\ revoked' = revoked \cup {r}
    /\ quarantine' = quarantine \cup Met(r)
    /\ state' = [j \in Jobs |->
                    IF j \in Met(r) /\ state[j] = "pending" THEN "quarantined" ELSE state[j]]
    /\ changes' = changes + 1
    /\ UNCHANGED <<permitted, evidence, telegram, step, item>>

\* Nothing comes out of quarantine.
Restore(r) ==
    /\ changes < MaxChanges
    /\ r \in revoked
    /\ revoked' = revoked \ {r}
    /\ changes' = changes + 1
    /\ UNCHANGED <<jobVars, telegram, step, item>>

Serve(d) ==
    \/ \E j \in Jobs : Claim(d, j)
    \/ RenderFails(d) \/ PreSubmit(d) \/ Send(d) \/ LookUpAttempt(d)
    \/ WriteAccepted(d) \/ WriteUncertain(d) \/ Consume(d) \/ Park(d)

Next ==
    \/ \E d \in Dispatchers : Serve(d) \/ Die(d)
    \/ \E j \in Jobs : Enqueue(j) \/ Reconcile(j)
    \/ \E r \in Recipients : Revoke(r) \/ Restore(r)

Spec == Init /\ [][Next]_vars

\* The dispatcher loop polls for ever and its supervisor restarts it; a timer starts
\* the reconciler every minute.
FairSpec ==
    /\ Spec
    /\ \A d \in Dispatchers : WF_vars(Serve(d))
    /\ \A j \in Jobs : WF_vars(Reconcile(j))

-----------------------------------------------------------------------------
(* Properties. *)

\* Whoever dies, stalls or is overtaken by the reconciler, a job's message is handed
\* to Telegram at most once: what is uncertain is left to people.
SubmittedOnce == \A j \in Jobs : submitted[j] <= 1

\* A job that is closed as sent was permitted and reached Telegram, whether its
\* dispatcher or the reconciler closed it, and what nobody was permitted to send
\* has not left.
SentIsTrue ==
    \A j \in Jobs :
        /\ state[j] = "sent" => j \in delivered /\ evidence[j] = "ACCEPTED"
        /\ j \notin permitted => submitted[j] = 0

\* A job whose recipient was revoked before its permission stays unsent for good,
\* also when the recipient is restored before the dispatcher asks.
QuarantineHolds ==
    [][\A j \in quarantine \ permitted :
        j \notin permitted' /\ submitted'[j] = submitted[j]]_vars

\* A closed job stays as it is, whatever a late dispatcher still files about it.
ClosedStaysClosed ==
    [][\A j \in Jobs : state[j] \in Final => state'[j] = state[j]]_vars

\* No job waits for ever, except one whose outcome was filed as uncertain by a
\* dispatcher that could not park it: nobody comes back to that one.
NothingHangs ==
    \A j \in Jobs : state[j] \in {"pending", "sending"} ~>
        state[j] \in Final \/ evidence[j] = "UNCERTAIN"

-----------------------------------------------------------------------------
(* The inductive invariant behind them. *)

\* A job has one dispatcher at most, from its claim on.
OneDispatcher ==
    /\ \A d \in Dispatchers :
        /\ step[d] = "idle" <=> item[d] = NoJob
        /\ item[d] # NoJob => state[item[d]] \notin {"none", "pending", "quarantined"}
    /\ \A d, e \in Dispatchers : item[d] = item[e] /\ item[d] # NoJob => d = e

\* What a dispatcher is about to do tells what its job has been through.
Tells(d) ==
    /\ step[d] = "render" => item[d] \notin permitted
    /\ step[d] \notin {"idle", "render"} => item[d] \in permitted
    /\ step[d] = "send" => submitted[item[d]] = 0
    /\ step[d] \in {"render", "send", "accepted"} => evidence[item[d]] = "none"
    /\ step[d] \in {"accepted", "write accepted"} => item[d] \in delivered

StepTells == \A d \in Dispatchers : Tells(d)

\* A job nobody has claimed was not permitted, nor one in quarantine since.
UnclaimedIsUntouched ==
    \A j \in Jobs :
        /\ state[j] \in {"none", "pending", "quarantined"} =>
             j \notin permitted /\ evidence[j] = "none"
        /\ j \notin permitted => submitted[j] = 0 /\ evidence[j] = "none"
        /\ evidence[j] = "ACCEPTED" => j \in delivered

IInv ==
    /\ TypeOK
    /\ OneDispatcher
    /\ StepTells
    /\ UnclaimedIsUntouched
    /\ SubmittedOnce
    /\ SentIsTrue
=============================================================================
