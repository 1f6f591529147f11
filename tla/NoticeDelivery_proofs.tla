------------------------- MODULE NoticeDelivery_proofs -------------------------
(***************************************************************************)
(* For any number of jobs, recipients and dispatchers, and however often   *)
(* the operator changes his mind: a message is handed to Telegram at most  *)
(* once, sent is true, and quarantine and closing hold.                    *)
(***************************************************************************)
EXTENDS NoticeDelivery, TLAPS

USE NoticeAssumption

\* Nobody has touched anything at the start.
LEMMA InitIInv == Init => IInv
  BY DEF Init, IInv, TypeOK, OneDispatcher, StepTells, UnclaimedIsUntouched, SubmittedOnce,
         SentIsTrue, Steps, Final, Tells

\* What a dispatcher that is at work has in hand.
LEMMA AtWork ==
    ASSUME IInv, NEW d \in Dispatchers, step[d] # "idle"
    PROVE  /\ item[d] \in Jobs
           /\ state[item[d]] \in {"sending", "sent", "manual"}
           /\ \A e \in Dispatchers \ {d} : item[e] # item[d]
  BY DEF IInv, TypeOK, OneDispatcher, Final

\* A claim takes a job nobody has or has had.
LEMMA ClaimKeeps ==
    ASSUME IInv, NEW d \in Dispatchers, NEW j \in Jobs, Claim(d, j)
    PROVE  IInv'
<1> USE DEF IInv, Claim, Claimable, jobVars, telegram, operator
<1>1. j \notin permitted /\ evidence[j] = "none" /\ \A e \in Dispatchers : item[e] # j
  BY DEF UnclaimedIsUntouched, OneDispatcher
<1>2. TypeOK'
  BY DEF TypeOK, Steps, Final
<1>3. OneDispatcher'
  BY <1>1 DEF OneDispatcher, TypeOK
<1>4. StepTells'
  <2> SUFFICES ASSUME NEW e \in Dispatchers PROVE Tells(e)'
    BY DEF StepTells
  <2>1. Tells(e)
    BY DEF StepTells
  <2>2. CASE e = d
    BY <1>1, <2>1, <2>2 DEF Tells, TypeOK
  <2>3. CASE e # d
    <3>1. step'[e] = step[e] /\ item'[e] = item[e]
      BY <2>3 DEF TypeOK
    <3>2. item[e] # NoJob \/ step[e] = "idle"
      BY DEF OneDispatcher
    <3> QED  BY <1>1, <2>1, <2>3, <3>1, <3>2 DEF Tells, TypeOK, OneDispatcher
  <2> QED  BY <2>2, <2>3
<1>5. UnclaimedIsUntouched' /\ SubmittedOnce' /\ SentIsTrue'
  BY <1>1 DEF UnclaimedIsUntouched, SubmittedOnce, SentIsTrue, TypeOK
<1> QED  BY <1>2, <1>3, <1>4, <1>5

\* Closing a job that is being sent disturbs nobody, provided that sent is only said
\* on the evidence; the dispatchers go where they go.
LEMMA CloseKeeps ==
    ASSUME IInv, NEW j \in Jobs,
           \/ state' = state
           \/ state[j] = "sending" /\ state' = [state EXCEPT ![j] = "manual"]
           \/ state' = Consumed(j),
           UNCHANGED <<permitted, evidence, quarantine, telegram, operator>>,
           \/ UNCHANGED <<step, item>>
           \/ \E d \in Dispatchers : Drop(d)
    PROVE  IInv'
<1> USE DEF IInv, jobVars, telegram, operator, Consumed, Drop
<1>1. TypeOK'
  BY DEF TypeOK, Steps, Final
<1>2. OneDispatcher'
  BY DEF OneDispatcher, TypeOK
<1>3. StepTells'
  <2>1. CASE UNCHANGED <<step, item>>
    BY <2>1 DEF StepTells, Tells
  <2>2. ASSUME NEW d \in Dispatchers, Drop(d) PROVE StepTells'
    BY <2>2 DEF StepTells, Tells, TypeOK
  <2> QED  BY <2>1, <2>2
<1>4. UnclaimedIsUntouched' /\ SubmittedOnce'
  BY DEF UnclaimedIsUntouched, SubmittedOnce, TypeOK
<1>5. SentIsTrue'
  BY DEF SentIsTrue, UnclaimedIsUntouched, TypeOK
<1> QED  BY <1>1, <1>2, <1>3, <1>4, <1>5

\* The permission is given before anything was handed over.
LEMMA PreSubmitKeeps ==
    ASSUME IInv, NEW d \in Dispatchers, PreSubmit(d)
    PROVE  IInv'
<1> USE DEF IInv, PreSubmit, MaySubmit, Goto, Drop, jobVars, telegram, operator
<1>1. /\ item[d] \in Jobs /\ item[d] \notin permitted /\ submitted[item[d]] = 0
      /\ \A e \in Dispatchers \ {d} : item[e] # item[d]
  BY AtWork DEF StepTells, Tells, UnclaimedIsUntouched
<1>2. TypeOK'
  BY <1>1 DEF TypeOK, Steps
<1>3. OneDispatcher'
  BY DEF OneDispatcher, TypeOK
<1>4. StepTells'
  <2> SUFFICES ASSUME NEW e \in Dispatchers PROVE Tells(e)'
    BY DEF StepTells
  <2>1. Tells(e)
    BY DEF StepTells
  <2>2. CASE e = d
    BY <1>1, <2>1, <2>2 DEF Tells, TypeOK
  <2>3. CASE e # d
    <3>1. step'[e] = step[e] /\ item'[e] = item[e]
      BY <2>3 DEF TypeOK
    <3>2. item[e] # NoJob \/ step[e] = "idle"
      BY DEF OneDispatcher
    <3> QED  BY <1>1, <2>1, <2>3, <3>1, <3>2 DEF Tells, TypeOK, OneDispatcher
  <2> QED  BY <2>2, <2>3
<1>5. UnclaimedIsUntouched' /\ SubmittedOnce' /\ SentIsTrue'
  BY <1>1 DEF UnclaimedIsUntouched, SubmittedOnce, SentIsTrue
<1> QED  BY <1>2, <1>3, <1>4, <1>5

\* The message leaves once.
LEMMA SendKeeps ==
    ASSUME IInv, NEW d \in Dispatchers, Send(d)
    PROVE  IInv'
<1> USE DEF IInv, Send, Goto, jobVars, telegram, operator
<1>1. /\ item[d] \in Jobs /\ item[d] \in permitted /\ submitted[item[d]] = 0
      /\ \A e \in Dispatchers \ {d} : item[e] # item[d]
  BY AtWork DEF StepTells, Tells
<1>2. TypeOK'
  <2>1. submitted' \in [Jobs -> Nat] /\ delivered' \subseteq Jobs
    BY <1>1 DEF TypeOK
  <2>2. step' \in [Dispatchers -> Steps]
    BY DEF TypeOK, Steps
  <2> QED  BY <2>1, <2>2 DEF TypeOK
<1>3. OneDispatcher'
  BY DEF OneDispatcher, TypeOK
<1>4. StepTells'
  <2> SUFFICES ASSUME NEW e \in Dispatchers PROVE Tells(e)'
    BY DEF StepTells
  <2>1. Tells(e)
    BY DEF StepTells
  <2>2. CASE e = d
    BY <1>1, <2>1, <2>2 DEF Tells, TypeOK
  <2>3. CASE e # d
    <3>1. step'[e] = step[e] /\ item'[e] = item[e]
      BY <2>3 DEF TypeOK
    <3>2. item[e] # NoJob \/ step[e] = "idle"
      BY DEF OneDispatcher
    <3> QED  BY <1>1, <2>1, <2>3, <3>1, <3>2 DEF Tells, TypeOK, OneDispatcher
  <2> QED  BY <2>2, <2>3
<1>5. UnclaimedIsUntouched' /\ SubmittedOnce' /\ SentIsTrue'
  BY <1>1 DEF UnclaimedIsUntouched, SubmittedOnce, SentIsTrue, TypeOK
<1> QED  BY <1>2, <1>3, <1>4, <1>5

\* Evidence is filed of a permitted job, and as accepted only if it was.
LEMMA WriteKeeps ==
    ASSUME IInv, NEW d \in Dispatchers, LookUpAttempt(d) \/ WriteAccepted(d) \/ WriteUncertain(d)
    PROVE  IInv'
<1> USE DEF IInv
<1>1. /\ item[d] \in Jobs /\ item[d] \in permitted
      /\ state[item[d]] \in {"sending", "sent", "manual"}
      /\ \A e \in Dispatchers \ {d} : item[e] # item[d]
      /\ step[d] \in {"accepted", "write accepted"} => item[d] \in delivered
  BY AtWork DEF StepTells, Tells, LookUpAttempt, WriteAccepted, WriteUncertain
<1>2. PICK o \in {"none", "ACCEPTED", "UNCERTAIN"} :
          /\ o = "none" => evidence' = evidence
          /\ o # "none" => File(item[d], o)
          /\ o = "ACCEPTED" => item[d] \in delivered
  BY <1>1 DEF LookUpAttempt, WriteAccepted, WriteUncertain, jobVars
<1>3. /\ evidence' = evidence \/ (evidence[item[d]] = "none" /\ evidence' = [evidence EXCEPT ![item[d]] = o])
      /\ evidence' \in [Jobs -> {"none", "ACCEPTED", "UNCERTAIN"}]
  BY <1>2 DEF File, TypeOK
<1>4. UNCHANGED <<state, permitted, quarantine, telegram, operator>>
  BY DEF LookUpAttempt, WriteAccepted, WriteUncertain, jobVars
<1>5. \/ Drop(d)
      \/ \E s \in {"failed", "write accepted", "write uncertain", "consume", "park"} :
            Goto(d, s) /\ (s = "write accepted" => item[d] \in delivered)
  BY <1>1 DEF LookUpAttempt, WriteAccepted, WriteUncertain
<1> USE <1>4 DEF Goto, Drop, telegram, operator
<1>6. TypeOK'
  <2>1. step' \in [Dispatchers -> Steps] /\ item' \in [Dispatchers -> Jobs \cup {NoJob}]
    BY <1>5 DEF TypeOK, Steps
  <2> QED  BY <1>3, <2>1 DEF TypeOK
<1>7. OneDispatcher'
  <2>1. CASE Drop(d)
    BY <2>1 DEF OneDispatcher, TypeOK
  <2>2. CASE item' = item /\ \E s \in Steps \ {"idle"} : step' = [step EXCEPT ![d] = s]
    <3>1. step[d] # "idle"
      BY DEF LookUpAttempt, WriteAccepted, WriteUncertain
    <3> QED  BY <2>2, <3>1 DEF OneDispatcher, TypeOK
  <2> QED  BY <1>5, <2>1, <2>2 DEF Steps
<1>8. StepTells'
  <2> SUFFICES ASSUME NEW e \in Dispatchers PROVE Tells(e)'
    BY DEF StepTells
  <2>1. Tells(e)
    BY DEF StepTells
  <2>2. CASE e = d
    BY <1>1, <1>5, <2>2 DEF Tells, TypeOK
  <2>3. CASE e # d
    <3>1. step'[e] = step[e] /\ item'[e] = item[e] /\ item[e] # item[d]
      BY <1>1, <1>5, <2>3 DEF TypeOK
    <3>2. evidence'[item[e]] = evidence[item[e]] \/ item[e] = NoJob
      BY <1>3, <3>1 DEF TypeOK
    <3>3. item[e] # NoJob \/ step[e] = "idle"
      BY DEF OneDispatcher
    <3> QED  BY <2>1, <3>1, <3>2, <3>3 DEF Tells
  <2> QED  BY <2>2, <2>3
<1>9. UnclaimedIsUntouched'
  BY <1>1, <1>2, <1>3 DEF UnclaimedIsUntouched, TypeOK
<1>10. SubmittedOnce' /\ SentIsTrue'
  BY <1>1, <1>3 DEF SubmittedOnce, SentIsTrue, TypeOK
<1> QED  BY <1>6, <1>7, <1>8, <1>9, <1>10

\* Revoking and restoring reach nothing that has been claimed.
LEMMA OperatorKeeps ==
    ASSUME IInv, NEW r \in Recipients, Revoke(r) \/ Restore(r)
    PROVE  IInv'
<1> USE DEF IInv, Revoke, Restore, Met, jobVars, telegram, operator
<1>1. TypeOK'
  BY DEF TypeOK, Final
<1>2. OneDispatcher'
  BY DEF OneDispatcher, TypeOK
<1>3. StepTells' /\ SubmittedOnce'
  BY DEF StepTells, Tells, SubmittedOnce
<1>4. UnclaimedIsUntouched'
  BY DEF UnclaimedIsUntouched, TypeOK
<1>5. SentIsTrue'
  BY DEF SentIsTrue, UnclaimedIsUntouched, TypeOK
<1> QED  BY <1>1, <1>2, <1>3, <1>4, <1>5

LEMMA NextIInv == IInv /\ [Next]_vars => IInv'
<1> SUFFICES ASSUME IInv, [Next]_vars PROVE IInv'
  OBVIOUS
<1>1. ASSUME NEW d \in Dispatchers, NEW j \in Jobs, Claim(d, j) PROVE IInv'
  BY <1>1, ClaimKeeps
<1>2. ASSUME NEW d \in Dispatchers, RenderFails(d) \/ Consume(d) \/ Park(d) \/ Die(d)
      PROVE  IInv'
  <2>1. item[d] \in Jobs
    BY <1>2, AtWork DEF RenderFails, Consume, Park, Die
  <2> QED
    BY <1>2, <2>1, CloseKeeps DEF RenderFails, Consume, Park, Die, jobVars
<1>3. ASSUME NEW d \in Dispatchers, PreSubmit(d) PROVE IInv'
  BY <1>3, PreSubmitKeeps
<1>4. ASSUME NEW d \in Dispatchers, Send(d) PROVE IInv'
  BY <1>4, SendKeeps
<1>5. ASSUME NEW d \in Dispatchers, LookUpAttempt(d) \/ WriteAccepted(d) \/ WriteUncertain(d)
      PROVE  IInv'
  BY <1>5, WriteKeeps
<1>6. ASSUME NEW j \in Jobs, Enqueue(j) PROVE IInv'
  <2> USE <1>6 DEF Enqueue, IInv, telegram, operator
  <2>1. TypeOK'
    BY DEF TypeOK
  <2>2. OneDispatcher'
    BY DEF OneDispatcher, TypeOK
  <2>3. StepTells' /\ SubmittedOnce'
    BY DEF StepTells, Tells, SubmittedOnce
  <2>4. UnclaimedIsUntouched' /\ SentIsTrue'
    BY DEF UnclaimedIsUntouched, SentIsTrue, TypeOK
  <2> QED  BY <2>1, <2>2, <2>3, <2>4
<1>7. ASSUME NEW j \in Jobs, Reconcile(j) PROVE IInv'
  BY <1>7, CloseKeeps DEF Reconcile, Stale
<1>8. ASSUME NEW r \in Recipients, Revoke(r) \/ Restore(r) PROVE IInv'
  BY <1>8, OperatorKeeps
<1>9. CASE UNCHANGED vars
  <2> USE <1>9 DEF vars, jobVars, telegram, operator, IInv
  <2>1. TypeOK' /\ OneDispatcher'
    BY DEF TypeOK, OneDispatcher
  <2>2. StepTells' /\ UnclaimedIsUntouched' /\ SubmittedOnce' /\ SentIsTrue'
    BY DEF StepTells, Tells, UnclaimedIsUntouched, SubmittedOnce, SentIsTrue
  <2> QED  BY <2>1, <2>2
<1> QED
  BY <1>1, <1>2, <1>3, <1>4, <1>5, <1>6, <1>7, <1>8, <1>9 DEF Next, Serve

-----------------------------------------------------------------------------
(* The theorems. *)

\* The inductive invariant holds always: a job has one dispatcher, and where that one
\* is tells what has become of the job.
THEOREM AlwaysIInv == Spec => []IInv
  BY InitIInv, NextIInv, PTL DEF Spec

\* A message is handed to Telegram at most once, whoever crashes.
THEOREM NeverSentTwice == Spec => []SubmittedOnce
<1>1. IInv => SubmittedOnce
  BY DEF IInv
<1> QED  BY AlwaysIInv, <1>1, PTL

\* A job closed as sent was delivered.
THEOREM SentMeansDelivered == Spec => []SentIsTrue
<1>1. IInv => SentIsTrue
  BY DEF IInv
<1> QED  BY AlwaysIInv, <1>1, PTL

\* A job revoked before its permission is never permitted and never leaves.
THEOREM QuarantineIsKept == Spec => QuarantineHolds
<1> DEFINE Held == \A j \in quarantine \ permitted :
                      j \notin permitted' /\ submitted'[j] = submitted[j]
<1>1. IInv /\ [Next]_vars => [Held]_vars
  <2> SUFFICES ASSUME IInv, Next PROVE Held
    BY DEF vars, jobVars, telegram, operator
  <2>1. ASSUME permitted' = permitted, submitted' = submitted PROVE Held
    BY <2>1
  <2>2. ASSUME NEW d \in Dispatchers, PreSubmit(d) PROVE Held
    BY <2>2 DEF PreSubmit, MaySubmit, telegram
  <2>3. ASSUME NEW d \in Dispatchers, Send(d) PROVE Held
    <3>1. item[d] \in permitted
      BY <2>3 DEF Send, IInv, StepTells, Tells
    <3> QED  BY <2>3, <3>1 DEF Send, jobVars, IInv, TypeOK
  <2> QED
    BY <2>1, <2>2, <2>3 DEF Next, Serve, Claim, RenderFails, LookUpAttempt, WriteAccepted,
       WriteUncertain, Consume, Park, Die, Enqueue, Reconcile, Revoke, Restore, jobVars, telegram
<1> QED  BY AlwaysIInv, <1>1, PTL DEF QuarantineHolds, Spec

\* Sent, manual and quarantined are final.
THEOREM ClosingIsFinal == Spec => ClosedStaysClosed
<1> DEFINE Kept == \A j \in Jobs : state[j] \in Final => state'[j] = state[j]
<1>1. IInv /\ [Next]_vars => [Kept]_vars
  <2> SUFFICES ASSUME IInv, Next PROVE Kept
    BY DEF vars, jobVars
  <2>1. ASSUME state' = state PROVE Kept
    BY <2>1
  <2>2. ASSUME NEW d \in Dispatchers, NEW j \in Jobs, Claim(d, j) PROVE Kept
    BY <2>2 DEF Claim, Claimable, Final, IInv, TypeOK
  <2>3. ASSUME NEW d \in Dispatchers, RenderFails(d) \/ Consume(d) \/ Park(d) PROVE Kept
    <3>1. \/ state' = state
          \/ state[item[d]] = "sending" /\ \E s : state' = [state EXCEPT ![item[d]] = s]
      BY <2>3 DEF RenderFails, Consume, Consumed, Park
    <3> QED  BY <3>1, <2>1 DEF Final, IInv, TypeOK
  <2>4. ASSUME NEW j \in Jobs, Enqueue(j) \/ Reconcile(j) PROVE Kept
    BY <2>4 DEF Enqueue, Reconcile, Consumed, Stale, Final, IInv, TypeOK
  <2>5. ASSUME NEW r \in Recipients, Revoke(r) \/ Restore(r) PROVE Kept
    BY <2>5 DEF Revoke, Restore, Met, Final, jobVars
  <2> QED
    BY <2>1, <2>2, <2>3, <2>4, <2>5 DEF Next, Serve, PreSubmit, Send, LookUpAttempt,
       WriteAccepted, WriteUncertain, Die, jobVars
<1> QED  BY AlwaysIInv, <1>1, PTL DEF ClosedStaysClosed, Spec
=============================================================================
