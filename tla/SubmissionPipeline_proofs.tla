----------------------- MODULE SubmissionPipeline_proofs -----------------------
(***************************************************************************)
(* Theorems about SubmissionPipeline and its history SubmissionCauses, for *)
(* every number of submissions and workers and every set and number of     *)
(* faults.                                                                 *)
(***************************************************************************)
EXTENDS SubmissionCauses, TLAPS

USE ConstantsAssumption

------------------------------------------------------------------------------
(* Operators *)

\* The submission statuses of the abstract module, as a set of strings.
LEMMA StatusValues ==
  /\ Terminal \subseteq Lifecycle!SubmissionStatus
  /\ "QUEUED" \in Lifecycle!SubmissionStatus
  /\ "RUNNING" \in Lifecycle!SubmissionStatus
  /\ "SYSTEM_ERROR" \in Terminal
  /\ "NONE" \notin Lifecycle!SubmissionStatus
  /\ Terminal \cap {"NONE", "QUEUED", "RUNNING"} = {}
BY DEF Terminal, Lifecycle!SubmissionStatus, Lifecycle!Terminal

\* A slot belongs to a worker.
LEMMA SlotWorker == \A k \in Slots : k[1] \in Workers
BY DEF Slots

\* updateMany writes the new status into the row or leaves the table alone.
LEMMA UpdateManyRow ==
  ASSUME NEW from, NEW to, NEW s \in Submissions,
         NEW S, status \in [Submissions -> S], to \in S
  PROVE  /\ UpdateMany(s, from, to) \in [Submissions -> S]
         /\ UpdateMany(s, from, to)[s] = IF status[s] \in from THEN to ELSE status[s]
         /\ \A r \in Submissions \ {s} : UpdateMany(s, from, to)[r] = status[r]
BY DEF UpdateMany

------------------------------------------------------------------------------
(* Type correctness *)

LEMMA TypeInit == Init => TypeOK
BY StatusValues DEF Init, TypeOK, SlotPc

LEMMA TypeApi ==
  ASSUME TypeOK, NEW s \in Submissions, ApiStep(s) PROVE TypeOK'
<1> USE StatusValues DEF TypeOK, queueVars, slotVars, handlerVars
<1>1. CASE RejectSubmission(s)
  BY <1>1 DEF RejectSubmission
<1>2. CASE InsertSubmission(s)
  BY <1>2 DEF InsertSubmission
<1>3. CASE AddSubmissionJob(s)
  BY <1>3 DEF AddSubmissionJob
<1>4. CASE AddSubmissionJobFails(s)
  BY <1>4 DEF AddSubmissionJobFails, Fault
<1> QED
  BY <1>1, <1>2, <1>3, <1>4 DEF ApiStep

LEMMA TypeHandler ==
  ASSUME TypeOK, NEW s \in Submissions, HandlerStep(s) PROVE TypeOK'
<1> USE StatusValues DEF TypeOK, queueVars, slotVars, handlerVars, EndHandler
<1>1. CASE SendToDeadLetterQueue(s)
  BY <1>1 DEF SendToDeadLetterQueue
<1>2. CASE SendToDeadLetterQueueFails(s)
  BY <1>2 DEF SendToDeadLetterQueueFails, Fault
<1>3. CASE MarkSystemError(s)
  BY <1>3 DEF MarkSystemError, UpdateMany
<1>4. CASE MarkSystemErrorFails(s)
  BY <1>4 DEF MarkSystemErrorFails, Fault
<1> QED
  BY <1>1, <1>2, <1>3, <1>4 DEF HandlerStep

LEMMA TypeSlot ==
  ASSUME TypeOK, NEW k \in Slots, SlotProgress(k) \/ SlotFault(k) PROVE TypeOK'
<1> USE StatusValues DEF TypeOK, queueVars, slotVars, handlerVars, Goto, Free, SlotPc
<1>0. pc[k] # "idle" => cur[k] \in Submissions
  OBVIOUS
<1>1. CASE LoadSubmission(k)
  BY <1>1 DEF LoadSubmission
<1>2. CASE ClaimSubmission(k)
  BY <1>0, <1>2 DEF ClaimSubmission, UpdateMany
<1>3. CASE EvaluateSubmission(k)
  BY <1>3 DEF EvaluateSubmission
<1>4. CASE FinalizeSubmission(k)
  BY <1>0, <1>4 DEF FinalizeSubmission, UpdateMany
<1>5. CASE CompleteJob(k)
  BY <1>0, <1>5 DEF CompleteJob
<1>6. CASE FailJob(k)
  BY <1>0, <1>6, SlotWorker DEF FailJob, OnFailed
<1>7. CASE FailJobWithoutLock(k)
  BY <1>7 DEF FailJobWithoutLock
<1>8. CASE LoadSubmissionFails(k)
  BY <1>8 DEF LoadSubmissionFails, Fault
<1>9. CASE ClaimSubmissionFails(k)
  BY <1>0, <1>9 DEF ClaimSubmissionFails, Fault, UpdateMany
<1>10. CASE EvaluateSubmissionFails(k)
  BY <1>10 DEF EvaluateSubmissionFails, Fault
<1>11. CASE FinalizeSubmissionFails(k)
  BY <1>0, <1>11 DEF FinalizeSubmissionFails, Fault, UpdateMany
<1>12. CASE LoseLock(k)
  BY <1>0, <1>12 DEF LoseLock, Fault
<1> QED
  BY <1>1, <1>2, <1>3, <1>4, <1>5, <1>6, <1>7, <1>8, <1>9, <1>10, <1>11, <1>12
  DEF SlotProgress, SlotFault

LEMMA TypeProcess ==
  ASSUME TypeOK, NEW w \in Workers, ProcessStep(w) PROVE TypeOK'
<1> USE DEF TypeOK, queueVars, slotVars, handlerVars, SlotPc
<1>1. ASSUME Die(w), faults' \in Nat PROVE TypeOK'
  BY <1>1 DEF Die
<1>2. CASE Crash(w)
  BY <1>1, <1>2 DEF Crash, Fault
<1>3. CASE Shutdown(w)
  BY <1>3 DEF Shutdown, Fault
<1>4. CASE CloseDlq(w)
  BY <1>4 DEF CloseDlq
<1>5. CASE Exit(w)
  BY <1>1, <1>5 DEF Exit
<1>6. CASE Restart(w)
  BY <1>6 DEF Restart
<1> QED
  BY <1>2, <1>3, <1>4, <1>5, <1>6 DEF ProcessStep

LEMMA TypeStep == TypeOK /\ [Next]_vars => TypeOK'
<1> SUFFICES ASSUME TypeOK, [Next]_vars PROVE TypeOK'
  OBVIOUS
<1>1. ASSUME NEW s \in Submissions, PromoteJob(s) PROVE TypeOK'
  BY <1>1 DEF PromoteJob, TypeOK, slotVars, handlerVars
<1>2. ASSUME NEW k \in Slots, NEW s \in Submissions, PickUp(k, s) PROVE TypeOK'
  BY <1>2 DEF PickUp, Goto, TypeOK, SlotPc, handlerVars
<1>3. ASSUME NEW w \in Workers, NEW s \in Submissions, StalledCheck(w, s)
      PROVE  TypeOK'
  <2> USE DEF TypeOK, slotVars, handlerVars
  <2>1. CASE RecoverStalledJob(w, s)
    BY <2>1 DEF RecoverStalledJob
  <2>2. CASE FailStalledJob(w, s)
    BY <2>2 DEF FailStalledJob, OnFailed
  <2> QED
    BY <1>3, <2>1, <2>2 DEF StalledCheck
<1>4. CASE UNCHANGED vars
  BY <1>4 DEF vars, TypeOK, queueVars, slotVars, handlerVars
<1> QED
  BY <1>1, <1>2, <1>3, <1>4, TypeApi, TypeHandler, TypeSlot, TypeProcess DEF Next

\* Every variable keeps its type, and a busy slot works on a submission.
THEOREM TypeCorrect == Spec => []TypeOK
  BY TypeInit, TypeStep, PTL DEF Spec

------------------------------------------------------------------------------
(* The rows *)

\* A step leaves a row alone, inserts it, or moves it along VALID_TRANSITIONS.
RowStep(s) ==
  \/ status'[s] = status[s]
  \/ api[s] = "idle" /\ status[s] = "NONE" /\ status'[s] = "QUEUED"
  \/ status'[s] \in Lifecycle!ValidTransitions(status[s])

\* The rows of all other submissions are not written.
OnlyRow(s) == \A r \in Submissions \ {s} : status'[r] = status[r]

\* The state machine, one line of VALID_TRANSITIONS at a time.
LEMMA Transitions ==
  /\ Lifecycle!ValidTransitions("QUEUED") = {"RUNNING", "SYSTEM_ERROR"}
  /\ Lifecycle!ValidTransitions("RUNNING") = Terminal
  /\ \A x : x \notin {"QUEUED", "RUNNING"} => Lifecycle!ValidTransitions(x) = {}
BY DEF Lifecycle!ValidTransitions, Terminal

\* The claim, the verdict and the mark each write one row, legally.
LEMMA ClaimWrites ==
  ASSUME TypeOK, NEW s \in Submissions, status' = UpdateMany(s, ClaimFrom, "RUNNING")
  PROVE  RowStep(s) /\ OnlyRow(s)
BY Transitions DEF UpdateMany, ClaimFrom, RowStep, OnlyRow, TypeOK

LEMMA FinalizeWrites ==
  ASSUME TypeOK, NEW s \in Submissions, NEW verdict \in EngineVerdicts,
         status' = UpdateMany(s, FinalizeFrom, verdict)
  PROVE  RowStep(s) /\ OnlyRow(s)
BY Transitions DEF UpdateMany, FinalizeFrom, RowStep, OnlyRow, TypeOK

LEMMA MarkWrites ==
  ASSUME TypeOK, NEW s \in Submissions,
         status' = UpdateMany(s, MarkFrom, "SYSTEM_ERROR")
  PROVE  RowStep(s) /\ OnlyRow(s)
BY Transitions, StatusValues DEF UpdateMany, MarkFrom, RowStep, OnlyRow, TypeOK

\* Every step writes at most one row.
LEMMA RowsStep ==
  ASSUME TypeOK, RowInv, [Next]_vars
  PROVE  \/ status' = status
         \/ \E s \in Submissions : RowStep(s) /\ OnlyRow(s)
<1>1. ASSUME NEW s \in Submissions, ApiStep(s)
      PROVE  status' = status \/ (RowStep(s) /\ OnlyRow(s))
  BY <1>1 DEF ApiStep, RejectSubmission, InsertSubmission, AddSubmissionJob,
     AddSubmissionJobFails, RowStep, OnlyRow, RowInv, TypeOK
<1>2. ASSUME NEW s \in Submissions, HandlerStep(s)
      PROVE  status' = status \/ (RowStep(s) /\ OnlyRow(s))
  <2>1. CASE MarkSystemError(s)
    BY <2>1, MarkWrites DEF MarkSystemError
  <2>2. CASE ~MarkSystemError(s)
    BY <1>2, <2>2 DEF HandlerStep, SendToDeadLetterQueue,
       SendToDeadLetterQueueFails, MarkSystemErrorFails
  <2> QED
    BY <2>1, <2>2
<1>3. ASSUME NEW k \in Slots, SlotProgress(k) \/ SlotFault(k)
      PROVE  \/ status' = status
             \/ cur[k] \in Submissions /\ RowStep(cur[k]) /\ OnlyRow(cur[k])
  <2>1. CASE ClaimSubmission(k) \/ ClaimSubmissionFails(k)
    BY <2>1, ClaimWrites DEF ClaimSubmission, ClaimSubmissionFails, TypeOK
  <2>2. CASE FinalizeSubmission(k) \/ FinalizeSubmissionFails(k)
    <3>1. cur[k] \in Submissions /\ result[k] \in EngineVerdicts
      BY <2>2 DEF FinalizeSubmission, FinalizeSubmissionFails, TypeOK, RowInv
    <3> QED
      BY <2>2, <3>1, FinalizeWrites DEF FinalizeSubmission, FinalizeSubmissionFails
  <2>3. CASE ~(ClaimSubmission(k) \/ ClaimSubmissionFails(k))
             /\ ~(FinalizeSubmission(k) \/ FinalizeSubmissionFails(k))
    BY <1>3, <2>3 DEF SlotProgress, SlotFault, LoadSubmission, EvaluateSubmission,
       CompleteJob, FailJob, FailJobWithoutLock, LoadSubmissionFails,
       EvaluateSubmissionFails, LoseLock
  <2> QED
    BY <2>1, <2>2, <2>3
<1>4. ASSUME NEW k \in Slots, NEW s \in Submissions, PickUp(k, s)
      PROVE  status' = status
  BY <1>4 DEF PickUp
<1>5. ASSUME NEW s \in Submissions, PromoteJob(s) PROVE status' = status
  BY <1>5 DEF PromoteJob
<1>6. ASSUME NEW w \in Workers, NEW s \in Submissions, StalledCheck(w, s)
      PROVE  status' = status
  BY <1>6 DEF StalledCheck, RecoverStalledJob, FailStalledJob
<1>7. ASSUME NEW w \in Workers, ProcessStep(w) PROVE status' = status
  BY <1>7 DEF ProcessStep, Crash, Shutdown, CloseDlq, Exit, Restart, Die
<1>8. CASE UNCHANGED vars
  BY <1>8 DEF vars
<1> QED
  BY <1>1, <1>2, <1>3, <1>4, <1>5, <1>6, <1>7, <1>8 DEF Next

\* ... so a row never vanishes, is claimed once, and a verdict is final.
LEMMA RowsAdvance ==
  ASSUME TypeOK, RowInv, [Next]_vars, NEW s \in Submissions
  PROVE  /\ status[s] # "NONE" => status'[s] # "NONE"
         /\ status[s] \notin {"NONE", "QUEUED"} => status'[s] \notin {"NONE", "QUEUED"}
         /\ status[s] \in Terminal => status'[s] = status[s]
BY RowsStep, Transitions, StatusValues DEF RowStep, OnlyRow, TypeOK

------------------------------------------------------------------------------
(* RowInv is inductive *)

LEMMA RowInvInit == Init => RowInv
BY DEF Init, RowInv, SingleEvaluation, CompletedWasClaimed, Evaluates

\* A step that moves no slot and completes no job, and keeps every row.
LEMMA RowInvSameSlots ==
  ASSUME TypeOK, RowInv, [Next]_vars, UNCHANGED <<pc, cur, result>>,
         \A s \in Submissions :
           /\ jobState'[s] = "completed" => jobState[s] = "completed"
           /\ api'[s] = "idle" => api[s] = "idle" /\ status'[s] = status[s]
           /\ api'[s] = "inserted" \/ jobState'[s] # "none" => status'[s] # "NONE"
  PROVE  RowInv'
BY RowsAdvance DEF RowInv, TypeOK, SingleEvaluation, CompletedWasClaimed, Evaluates

LEMMA RowInvApi ==
  ASSUME TypeOK, RowInv, NEW s \in Submissions, ApiStep(s) PROVE RowInv'
<1> USE RowInvSameSlots DEF Next, slotVars, TypeOK, RowInv
<1>0. [Next]_vars
  OBVIOUS
<1>1. CASE RejectSubmission(s)
  BY <1>0, <1>1 DEF RejectSubmission, queueVars
<1>2. CASE InsertSubmission(s)
  BY <1>0, <1>2 DEF InsertSubmission, queueVars
<1>3. CASE AddSubmissionJob(s)
  BY <1>0, <1>3 DEF AddSubmissionJob
<1>4. CASE AddSubmissionJobFails(s)
  BY <1>0, <1>4 DEF AddSubmissionJobFails, queueVars
<1> QED
  BY <1>1, <1>2, <1>3, <1>4 DEF ApiStep

\* A step of slot k: what it must not spoil.
LEMMA RowInvSlotStep ==
  ASSUME TypeOK, RowInv, [Next]_vars, api' = api, NEW k \in Slots,
         \A j \in Slots \ {k} :
           pc'[j] = pc[j] /\ cur'[j] = cur[j] /\ result'[j] = result[j],
         \A s \in Submissions :
           /\ status[s] = "NONE" => status'[s] = "NONE"
           /\ jobState'[s] # "none" => jobState[s] # "none"
           /\ jobState'[s] = "completed" =>
                jobState[s] = "completed" \/ status[s] \notin {"NONE", "QUEUED"},
         pc'[k] # "idle" => cur'[k] \in Submissions /\ status'[cur'[k]] # "NONE",
         Evaluates(k)' \/ pc'[k] = "return" =>
           status'[cur'[k]] \notin {"NONE", "QUEUED"},
         pc'[k] = "finalize" => result'[k] \in EngineVerdicts,
         Evaluates(k)' =>
           \A j \in Slots \ {k} : ~(Evaluates(j) /\ cur[j] = cur'[k])
  PROVE  RowInv'
<1>1. \A s \in Submissions :
        /\ api'[s] = "idle" => status'[s] = "NONE"
        /\ api'[s] = "inserted" \/ jobState'[s] # "none" => status'[s] # "NONE"
  BY RowsAdvance DEF RowInv
<1>2. ASSUME NEW j \in Slots
      PROVE  /\ pc'[j] # "idle" => status'[cur'[j]] # "NONE"
             /\ Evaluates(j)' \/ pc'[j] = "return" =>
                  status'[cur'[j]] \notin {"NONE", "QUEUED"}
             /\ pc'[j] = "finalize" => result'[j] \in EngineVerdicts
  <2>1. CASE j = k
    BY <2>1
  <2>2. CASE j # k
    <3>1. pc[j] # "idle" => cur[j] \in Submissions
      BY DEF TypeOK
    <3> QED
      BY <2>2, <3>1, RowsAdvance DEF RowInv, Evaluates
  <2> QED
    BY <2>1, <2>2
<1>3. SingleEvaluation'
  BY DEF SingleEvaluation, RowInv, Evaluates
<1>4. CompletedWasClaimed'
  BY RowsAdvance DEF CompletedWasClaimed, RowInv
<1> QED
  BY <1>1, <1>2, <1>3, <1>4 DEF RowInv

LEMMA RowInvSlot ==
  ASSUME TypeOK, RowInv, JobInv, NEW k \in Slots, SlotProgress(k) \/ SlotFault(k)
  PROVE  RowInv'
<1>0. [Next]_vars
  BY DEF Next
<1>a. pc[k] # "idle" => cur[k] \in Submissions /\ status[cur[k]] # "NONE"
  BY DEF TypeOK, RowInv
<1>b. Evaluates(k) \/ pc[k] = "return" => status[cur[k]] \notin {"NONE", "QUEUED"}
  BY DEF RowInv
<1>c. \A j \in Slots \ {k} : Evaluates(j) /\ Evaluates(k) => cur[j] # cur[k]
  BY DEF RowInv, SingleEvaluation
<1>d. \A j \in Slots : Evaluates(j) => status[cur[j]] # "QUEUED"
  BY DEF RowInv
<1> USE RowInvSlotStep, <1>0, <1>a, <1>b
    DEF TypeOK, Goto, Free, Evaluates, queueVars, UpdateMany
<1>1. CASE LoadSubmission(k)
  BY <1>1 DEF LoadSubmission
<1>2. CASE ClaimSubmission(k)
  BY <1>2, <1>d DEF ClaimSubmission, ClaimFrom
<1>3. CASE EvaluateSubmission(k)
  BY <1>3, <1>c DEF EvaluateSubmission
<1>4. CASE FinalizeSubmission(k)
  BY <1>4, RowsAdvance DEF FinalizeSubmission, FinalizeFrom
<1>5. CASE CompleteJob(k)
  BY <1>5 DEF CompleteJob, HoldsLock, JobInv
<1>6. CASE FailJob(k)
  BY <1>6 DEF FailJob, HoldsLock, JobInv
<1>7. CASE FailJobWithoutLock(k)
  BY <1>7 DEF FailJobWithoutLock
<1>8. CASE LoadSubmissionFails(k)
  BY <1>8 DEF LoadSubmissionFails
<1>9. CASE ClaimSubmissionFails(k)
  BY <1>9 DEF ClaimSubmissionFails, ClaimFrom
<1>10. CASE EvaluateSubmissionFails(k)
  BY <1>10 DEF EvaluateSubmissionFails
<1>11. CASE FinalizeSubmissionFails(k)
  BY <1>11, RowsAdvance DEF FinalizeSubmissionFails, FinalizeFrom
<1>12. CASE LoseLock(k)
  BY <1>12, <1>c DEF LoseLock, RowInv, slotVars
<1> QED
  BY <1>1, <1>2, <1>3, <1>4, <1>5, <1>6, <1>7, <1>8, <1>9, <1>10, <1>11, <1>12
  DEF SlotProgress, SlotFault

LEMMA RowInvStep ==
  ASSUME TypeOK, RowInv, JobInv, [Next]_vars PROVE RowInv'
<1>1. ASSUME NEW s \in Submissions, HandlerStep(s) PROVE RowInv'
  <2> USE <1>1, RowInvSameSlots, RowsAdvance
      DEF Next, RowInv, TypeOK, queueVars, slotVars, UpdateMany, MarkFrom
  <2>1. CASE SendToDeadLetterQueue(s)
    BY <2>1 DEF SendToDeadLetterQueue
  <2>2. CASE SendToDeadLetterQueueFails(s)
    BY <2>2 DEF SendToDeadLetterQueueFails
  <2>3. CASE MarkSystemError(s)
    BY <2>3 DEF MarkSystemError
  <2>4. CASE MarkSystemErrorFails(s)
    BY <2>4 DEF MarkSystemErrorFails
  <2> QED
    BY <2>1, <2>2, <2>3, <2>4 DEF HandlerStep
<1>2. ASSUME NEW s \in Submissions, PromoteJob(s) PROVE RowInv'
  BY <1>2, RowInvSameSlots DEF Next, PromoteJob, RowInv, TypeOK, slotVars
<1>3. ASSUME NEW w \in Workers, NEW s \in Submissions, StalledCheck(w, s)
      PROVE  RowInv'
  <2> USE RowInvSameSlots DEF RowInv, TypeOK, slotVars
  <2>1. CASE RecoverStalledJob(w, s)
    BY <2>1 DEF RecoverStalledJob, IsStalled
  <2>2. CASE FailStalledJob(w, s)
    BY <2>2 DEF FailStalledJob, IsStalled
  <2> QED
    BY <1>3, <2>1, <2>2 DEF StalledCheck
<1>4. ASSUME NEW k \in Slots, NEW s \in Submissions, PickUp(k, s) PROVE RowInv'
  <2>1. status[s] # "NONE" /\ ~Evaluates(k)
    BY <1>4 DEF PickUp, RowInv, Evaluates
  <2> QED
    BY <1>4, <2>1, RowInvSlotStep DEF PickUp, Goto, TypeOK, Evaluates
<1>5. ASSUME NEW w \in Workers, ProcessStep(w) PROVE RowInv'
  <2>1. ASSUME Die(w) PROVE RowInv'
    BY <2>1 DEF Die, RowInv, TypeOK, SingleEvaluation, CompletedWasClaimed, Evaluates
  <2>2. CASE Crash(w)
    BY <2>1, <2>2 DEF Crash
  <2>3. CASE Exit(w)
    BY <2>1, <2>3 DEF Exit
  <2>4. CASE Shutdown(w) \/ CloseDlq(w) \/ Restart(w)
    BY <2>4, RowInvSameSlots
    DEF Shutdown, CloseDlq, Restart, RowInv, TypeOK, queueVars, slotVars
  <2> QED
    BY <1>5, <2>2, <2>3, <2>4 DEF ProcessStep
<1>6. CASE UNCHANGED vars
  BY <1>6, RowInvSameSlots DEF vars, RowInv, queueVars, slotVars
<1> QED
  BY <1>1, <1>2, <1>3, <1>4, <1>5, <1>6, RowInvApi, RowInvSlot DEF Next

------------------------------------------------------------------------------
(* JobInv is inductive *)

LEMMA JobInvInit == Init => JobInv
BY DEF Init, JobInv

LEMMA JobInvSlot ==
  ASSUME TypeOK, JobInv, NEW k \in Slots, SlotProgress(k) \/ SlotFault(k)
  PROVE  JobInv'
<1>a. pc[k] # "idle" => cur[k] \in Submissions
  BY DEF TypeOK
<1>b. \A s \in Submissions : lock[s] = k => s = cur[k]
  BY DEF JobInv
<1> USE <1>a, <1>b DEF TypeOK, JobInv, Goto, Free, queueVars, handlerVars
<1>1. CASE LoadSubmission(k) \/ LoadSubmissionFails(k)
  BY <1>1 DEF LoadSubmission, LoadSubmissionFails
<1>2. CASE ClaimSubmission(k) \/ ClaimSubmissionFails(k)
  BY <1>2 DEF ClaimSubmission, ClaimSubmissionFails
<1>3. CASE EvaluateSubmission(k) \/ EvaluateSubmissionFails(k)
  BY <1>3 DEF EvaluateSubmission, EvaluateSubmissionFails
<1>4. CASE FinalizeSubmission(k) \/ FinalizeSubmissionFails(k)
  BY <1>4 DEF FinalizeSubmission, FinalizeSubmissionFails
<1>5. CASE CompleteJob(k)
  BY <1>5 DEF CompleteJob, HoldsLock
<1>6. CASE FailJob(k)
  <2>1. jobState[cur[k]] = "active" /\ attemptsMade[cur[k]] + 1 <= MaxAttempts
    BY <1>6 DEF FailJob, HoldsLock
  <2>2. attemptsMade[cur[k]] + 1 >= MaxAttempts =>
          attemptsMade[cur[k]] + 1 = MaxAttempts
    BY <1>6, <2>1 DEF FailJob
  <2> QED
    BY <1>6, <2>1, <2>2 DEF FailJob, HoldsLock, OnFailed, IsExhausted, RetryLeft
<1>7. CASE FailJobWithoutLock(k)
  BY <1>7 DEF FailJobWithoutLock, HoldsLock
<1>8. CASE LoseLock(k)
  BY <1>8 DEF LoseLock, HoldsLock, slotVars
<1> QED
  BY <1>1, <1>2, <1>3, <1>4, <1>5, <1>6, <1>7, <1>8 DEF SlotProgress, SlotFault

LEMMA JobInvStep ==
  ASSUME TypeOK, JobInv, [Next]_vars PROVE JobInv'
<1>1. ASSUME NEW s \in Submissions, ApiStep(s) PROVE JobInv'
  <2> USE DEF TypeOK, JobInv, queueVars, slotVars, handlerVars
  <2>1. CASE RejectSubmission(s)
    BY <2>1 DEF RejectSubmission
  <2>2. CASE InsertSubmission(s)
    BY <2>2 DEF InsertSubmission
  <2>3. CASE AddSubmissionJob(s)
    BY <2>3 DEF AddSubmissionJob
  <2>4. CASE AddSubmissionJobFails(s)
    BY <2>4 DEF AddSubmissionJobFails
  <2> QED
    BY <1>1, <2>1, <2>2, <2>3, <2>4 DEF ApiStep
<1>2. ASSUME NEW s \in Submissions, HandlerStep(s) PROVE JobInv'
  <2> USE DEF TypeOK, JobInv, queueVars, slotVars, EndHandler
  <2>1. CASE SendToDeadLetterQueue(s)
    BY <2>1 DEF SendToDeadLetterQueue
  <2>2. CASE SendToDeadLetterQueueFails(s)
    BY <2>2 DEF SendToDeadLetterQueueFails
  <2>3. CASE MarkSystemError(s) \/ MarkSystemErrorFails(s)
    BY <2>3 DEF MarkSystemError, MarkSystemErrorFails
  <2> QED
    BY <1>2, <2>1, <2>2, <2>3 DEF HandlerStep
<1>3. ASSUME NEW s \in Submissions, PromoteJob(s) PROVE JobInv'
  BY <1>3 DEF PromoteJob, TypeOK, JobInv, slotVars, handlerVars
<1>4. ASSUME NEW k \in Slots, NEW s \in Submissions, PickUp(k, s) PROVE JobInv'
  BY <1>4 DEF PickUp, Goto, TypeOK, JobInv, handlerVars
<1>5. ASSUME NEW w \in Workers, NEW s \in Submissions, StalledCheck(w, s)
      PROVE  JobInv'
  <2> USE DEF TypeOK, JobInv, slotVars, handlerVars, IsStalled
  <2>1. CASE RecoverStalledJob(w, s)
    BY <2>1 DEF RecoverStalledJob
  <2>2. CASE FailStalledJob(w, s)
    <3>1. ~IsExhausted(attemptsMade[s])
      BY <2>2 DEF FailStalledJob, IsExhausted
    <3> QED
      BY <2>2, <3>1 DEF FailStalledJob, OnFailed
  <2> QED
    BY <1>5, <2>1, <2>2 DEF StalledCheck
<1>6. ASSUME NEW w \in Workers, ProcessStep(w) PROVE JobInv'
  <2> USE DEF TypeOK, JobInv, queueVars, slotVars, handlerVars
  <2>1. ASSUME Die(w) PROVE JobInv'
    <3>1. \A k \in Slots : k[1] = w => k \in SlotsOf(w)
      BY DEF Slots, SlotsOf
    <3> QED
      BY <2>1, <3>1 DEF Die
  <2>2. CASE Crash(w) \/ Exit(w)
    BY <2>1, <2>2 DEF Crash, Exit
  <2>3. CASE Shutdown(w) \/ CloseDlq(w) \/ Restart(w)
    BY <2>3 DEF Shutdown, CloseDlq, Restart
  <2> QED
    BY <1>6, <2>2, <2>3 DEF ProcessStep
<1>7. CASE UNCHANGED vars
  BY <1>7 DEF vars, JobInv, queueVars, slotVars, handlerVars
<1> QED
  BY <1>1, <1>2, <1>3, <1>4, <1>5, <1>6, <1>7, JobInvSlot DEF Next

------------------------------------------------------------------------------
(* Safety *)

\* IndInv is inductive, hence it holds in every reachable state.
THEOREM Invariant == Spec => []IndInv
<1>1. Init => IndInv
  BY TypeInit, RowInvInit, JobInvInit DEF IndInv
<1>2. IndInv /\ [Next]_vars => IndInv'
  BY TypeStep, RowInvStep, JobInvStep DEF IndInv
<1> QED
  BY <1>1, <1>2, PTL DEF Spec

\* No submission is evaluated by two slots at once, whatever is lost, crashes
\* or is recovered.
THEOREM SingleEvaluationHolds == Spec => []SingleEvaluation
<1>1. IndInv => SingleEvaluation
  BY DEF IndInv, RowInv
<1> QED
  BY <1>1, Invariant, PTL

\* A job completes only after its submission was claimed.
THEOREM CompletedWasClaimedHolds == Spec => []CompletedWasClaimed
<1>1. IndInv => CompletedWasClaimed
  BY DEF IndInv, RowInv
<1> QED
  BY <1>1, Invariant, PTL

\* The dead-letter queue holds exhausted jobs only.
THEOREM QuarantineOnlyExhaustedHolds == Spec => []QuarantineOnlyExhausted
<1>1. IndInv => QuarantineOnlyExhausted
  BY DEF IndInv, JobInv, TypeOK, QuarantineOnlyExhausted
<1> QED
  BY <1>1, Invariant, PTL

\* Retries and recoveries of a job are bounded.
THEOREM RetriesBoundedHolds == Spec => []RetriesBounded
<1>1. IndInv => RetriesBounded
  BY DEF IndInv, JobInv, RetriesBounded
<1> QED
  BY <1>1, Invariant, PTL

\* A verdict, once written, is never overwritten.
THEOREM VerdictFinalHolds == Spec => VerdictFinal
<1>1. IndInv /\ [Next]_vars =>
        [\A s \in Submissions : status[s] \in Terminal => status'[s] = status[s]]_vars
  BY RowsAdvance DEF IndInv
<1> QED
  BY <1>1, Invariant, PTL DEF Spec, VerdictFinal

\* The pipeline implements the state machine of the submission status.
THEOREM Refinement == Spec => ImplementsLifecycle
<1>1. Init => Lifecycle!Init
  BY DEF Init, Lifecycle!Init
<1>2. IndInv /\ [Next]_vars => [Lifecycle!Next]_status
  <2> SUFFICES ASSUME IndInv, [Next]_vars, status' # status PROVE Lifecycle!Next
    OBVIOUS
  <2>1. PICK s \in Submissions : RowStep(s) /\ OnlyRow(s)
    BY RowsStep DEF IndInv
  <2>2. status \in [Submissions -> Lifecycle!SubmissionStatus \cup {"NONE"}]
        /\ status' \in [Submissions -> Lifecycle!SubmissionStatus \cup {"NONE"}]
    BY TypeStep DEF IndInv, TypeOK
  <2>3. status' = [status EXCEPT ![s] = status'[s]]
    BY <2>1, <2>2 DEF OnlyRow
  <2>4. status'[s] # status[s]
    BY <2>2, <2>3
  <2>5. Lifecycle!Create(s) \/ Lifecycle!Transition(s)
    BY <2>1, <2>3, <2>4 DEF RowStep, Lifecycle!Create, Lifecycle!Transition
  <2> QED
    BY <2>5 DEF Lifecycle!Next
<1> QED
  BY <1>1, <1>2, Invariant, PTL DEF Spec, Lifecycle!Spec, ImplementsLifecycle

------------------------------------------------------------------------------
(* SubmissionCauses: a claim begins an evaluation, which ends with a verdict  *)
(* in the row or with a loss                                                  *)

\* worker.close() has waited for the slots of a worker that closes.
ClosingIsIdle ==
  \A w \in Workers : mode[w] = "closing" => \A k \in SlotsOf(w) : pc[k] = "idle"

CausesInv == IndInv /\ ClosingIsIdle /\ RunningIsEvaluated

\* Slots of a worker, and the worker of a slot.
LEMMA SlotOf ==
  \A w \in Workers : \A k : k \in SlotsOf(w) <=> k \in Slots /\ k[1] = w
BY DEF Slots, SlotsOf

\* Only an open worker picks up jobs, and it closes when its slots are idle.
LEMMA ClosingStep ==
  ASSUME IndInv, ClosingIsIdle, [Next]_vars
  PROVE  ClosingIsIdle'
<1> USE DEF ClosingIsIdle, queueVars, slotVars, handlerVars
<1>0. /\ pc \in [Slots -> SlotPc] /\ cur \in [Slots -> Submissions \cup {NoSubmission}]
      /\ mode \in [Workers -> {"up", "draining", "closing", "down"}]
  BY DEF IndInv, TypeOK
<1>1. CASE UNCHANGED <<pc, mode>>
  BY <1>1
<1>2. ASSUME NEW k \in Slots, pc[k] # "idle", UNCHANGED mode,
             \A j \in Slots \ {k} : pc'[j] = pc[j]
      PROVE  ClosingIsIdle'
  BY <1>2, SlotOf
<1>3. ASSUME NEW k \in Slots, NEW s \in Submissions, PickUp(k, s) PROVE ClosingIsIdle'
  BY <1>0, <1>3, SlotOf, SlotWorker DEF PickUp, Goto
<1>4. ASSUME NEW w \in Workers, ProcessStep(w) PROVE ClosingIsIdle'
  <2>1. ASSUME Die(w) PROVE ClosingIsIdle'
    <3>1. \A k \in Slots : pc[k] = "idle" => pc'[k] = "idle"
      BY <2>1 DEF Die
    <3>2. \A v \in Workers : mode'[v] = "closing" => mode[v] = "closing"
      BY <1>0, <2>1 DEF Die
    <3> QED
      BY <3>1, <3>2, SlotOf
  <2>2. CASE Crash(w)
    BY <2>1, <2>2 DEF Crash
  <2>3. CASE Exit(w)
    BY <2>1, <2>3 DEF Exit
  <2>4. CASE CloseDlq(w)
    BY <1>0, <2>4 DEF CloseDlq
  <2>5. CASE Shutdown(w) \/ Restart(w)
    BY <1>0, <2>5 DEF Shutdown, Restart
  <2> QED
    BY <1>4, <2>2, <2>3, <2>4, <2>5 DEF ProcessStep
<1>5. ASSUME NEW k \in Slots, SlotProgress(k) \/ SlotFault(k) PROVE ClosingIsIdle'
  <2>1. pc[k] # "idle" /\ UNCHANGED mode /\ \A j \in Slots \ {k} : pc'[j] = pc[j]
    BY <1>0, <1>5 DEF SlotProgress, SlotFault, Goto, Free, LoadSubmission,
       ClaimSubmission, EvaluateSubmission, FinalizeSubmission, CompleteJob, FailJob,
       FailJobWithoutLock, LoadSubmissionFails, ClaimSubmissionFails,
       EvaluateSubmissionFails, FinalizeSubmissionFails, LoseLock
  <2> QED
    BY <1>2, <2>1
<1>6. ASSUME NEW s \in Submissions, ApiStep(s) \/ HandlerStep(s) \/ PromoteJob(s)
      PROVE  ClosingIsIdle'
  <2>1. UNCHANGED <<pc, mode>>
    BY <1>6 DEF ApiStep, HandlerStep, PromoteJob, RejectSubmission, InsertSubmission,
       AddSubmissionJob, AddSubmissionJobFails, SendToDeadLetterQueue,
       SendToDeadLetterQueueFails, MarkSystemError, MarkSystemErrorFails
  <2> QED
    BY <1>1, <2>1
<1>7. ASSUME NEW w \in Workers, NEW s \in Submissions, StalledCheck(w, s)
      PROVE  ClosingIsIdle'
  <2>1. UNCHANGED <<pc, mode>>
    BY <1>7 DEF StalledCheck, RecoverStalledJob, FailStalledJob
  <2> QED
    BY <1>1, <2>1
<1>8. CASE UNCHANGED vars
  BY <1>1, <1>8 DEF vars
<1> QED
  BY <1>3, <1>4, <1>5, <1>6, <1>7, <1>8 DEF Next

\* What has to hold of one submission after a step.
EvaluatedNext(s) == status'[s] = "RUNNING" => \E k \in Slots : Evaluates(k)' /\ cur'[k] = s

\* A step that sets no row to RUNNING and leaves the evaluations alone.
LEMMA EvaluationKept ==
  ASSUME RunningIsEvaluated, NEW s \in Submissions \ harmed,
         status'[s] = "RUNNING" => status[s] = "RUNNING",
         \A k \in Slots : Evaluates(k) /\ cur[k] = s => Evaluates(k)' /\ cur'[k] = s
  PROVE  EvaluatedNext(s)
BY DEF RunningIsEvaluated, EvaluatedNext

\* A slot claims a row, decides it, or loses it under one of the names.
LEMMA EvaluationSlot ==
  ASSUME IndInv, RunningIsEvaluated, NEW s \in Submissions \ harmed,
         ~AttemptLostAfterClaim(s), NEW k \in Slots, SlotProgress(k) \/ SlotFault(k)
  PROVE  EvaluatedNext(s)
<1> USE DEF slotVars, Goto, Evaluates
<1>0. /\ pc \in [Slots -> SlotPc] /\ cur \in [Slots -> Submissions \cup {NoSubmission}]
      /\ status \in [Submissions -> Lifecycle!SubmissionStatus \cup {"NONE"}]
      /\ pc[k] # "idle" => cur[k] \in Submissions
      /\ pc[k] = "finalize" => result[k] \in EngineVerdicts
  BY DEF IndInv, TypeOK, RowInv
<1>1. CASE LoadSubmission(k) \/ LoadSubmissionFails(k) \/ LoseLock(k)
  <2>1. /\ UNCHANGED <<status, cur>>
        /\ \A j \in Slots : pc[j] \in {"execute", "finalize"} => pc'[j] = pc[j]
    BY <1>0, <1>1 DEF LoadSubmission, LoadSubmissionFails, LoseLock
  <2> QED
    BY <2>1, EvaluationKept
<1>2. CASE CompleteJob(k) \/ FailJob(k) \/ FailJobWithoutLock(k)
  <2>1. /\ UNCHANGED status
        /\ \A j \in Slots : pc[j] \in {"execute", "finalize"} =>
             pc'[j] = pc[j] /\ cur'[j] = cur[j]
    BY <1>0, <1>2 DEF CompleteJob, FailJob, FailJobWithoutLock, Free
  <2> QED
    BY <2>1, EvaluationKept
<1>3. CASE ClaimSubmission(k)
  <2>1. pc[k] = "claim" /\ cur[k] \in Submissions /\ UNCHANGED cur
    BY <1>0, <1>3 DEF ClaimSubmission
  <2>2. \A j \in Slots \ {k} : pc'[j] = pc[j]
    BY <1>0, <1>3 DEF ClaimSubmission
  <2>3. CASE cur[k] = s /\ status[s] = "QUEUED"
    <3>1. pc'[k] = "execute"
      BY <1>0, <1>3, <2>3 DEF ClaimSubmission, ClaimFrom
    <3> QED
      BY <2>1, <2>3, <3>1 DEF EvaluatedNext
  <2>4. CASE ~(cur[k] = s /\ status[s] = "QUEUED")
    <3>1. status'[s] = status[s]
      BY <1>0, <1>3, <2>1, <2>4 DEF ClaimSubmission, ClaimFrom, UpdateMany
    <3> QED
      BY <2>1, <2>2, <3>1, EvaluationKept
  <2> QED
    BY <2>3, <2>4
<1>4. CASE EvaluateSubmission(k)
  <2>1. /\ UNCHANGED <<status, cur>>
        /\ pc'[k] = "finalize" /\ \A j \in Slots \ {k} : pc'[j] = pc[j]
    BY <1>0, <1>4, ConstantsAssumption, Transitions DEF EvaluateSubmission, ConstantsAssumption
  <2> QED
    BY <2>1, EvaluationKept
<1>5. CASE FinalizeSubmission(k)
  <2>1. /\ pc[k] = "finalize" /\ cur[k] \in Submissions /\ UNCHANGED cur
        /\ \A j \in Slots \ {k} : pc'[j] = pc[j]
        /\ result[k] \in Terminal
    BY <1>0, <1>5, ConstantsAssumption DEF FinalizeSubmission, ConstantsAssumption
  <2>2. CASE cur[k] = s
    <3>1. status'[s] # "RUNNING"
      BY <1>0, <1>5, <2>1, <2>2, StatusValues DEF FinalizeSubmission, FinalizeFrom, UpdateMany
    <3> QED
      BY <3>1 DEF EvaluatedNext
  <2>3. CASE cur[k] # s
    <3>1. status'[s] = status[s]
      BY <1>0, <1>5, <2>1, <2>3 DEF FinalizeSubmission, UpdateMany
    <3> QED
      BY <2>1, <2>3, <3>1, EvaluationKept
  <2> QED
    BY <2>2, <2>3
<1>6. CASE ClaimSubmissionFails(k) \/ EvaluateSubmissionFails(k) \/ FinalizeSubmissionFails(k)
  <2>1. CASE cur[k] = s
    BY <1>6, <2>1 DEF AttemptLostAfterClaim, EvaluatedNext
  <2>2. CASE cur[k] # s
    <3>1. /\ cur[k] \in Submissions /\ UNCHANGED cur
          /\ \A j \in Slots \ {k} : pc'[j] = pc[j]
      BY <1>0, <1>6 DEF ClaimSubmissionFails, EvaluateSubmissionFails,
         FinalizeSubmissionFails
    <3>2. status'[s] = status[s]
      BY <1>0, <1>6, <2>2, <3>1 DEF ClaimSubmissionFails, EvaluateSubmissionFails,
         FinalizeSubmissionFails, UpdateMany
    <3> QED
      BY <2>2, <3>1, <3>2, EvaluationKept
  <2> QED
    BY <2>1, <2>2
<1> QED
  BY <1>1, <1>2, <1>3, <1>4, <1>5, <1>6 DEF SlotProgress, SlotFault

\* A process that ends during an evaluation was killed.
LEMMA EvaluationProcess ==
  ASSUME IndInv, ClosingIsIdle, RunningIsEvaluated, NEW s \in Submissions \ harmed,
         ~EvaluationKilled(s), NEW w \in Workers, ProcessStep(w)
  PROVE  EvaluatedNext(s)
<1> USE DEF slotVars, Evaluates
<1>1. ASSUME Die(w), \A k \in SlotsOf(w) : ~(Evaluates(k) /\ cur[k] = s)
      PROVE  EvaluatedNext(s)
  <2>1. /\ UNCHANGED status
        /\ \A k \in Slots : k[1] # w => pc'[k] = pc[k] /\ cur'[k] = cur[k]
    BY <1>1 DEF Die
  <2> QED
    BY <1>1, <2>1, SlotOf, EvaluationKept
<1>2. CASE Crash(w)
  BY <1>1, <1>2 DEF Crash, EvaluationKilled
<1>3. CASE Exit(w)
  BY <1>1, <1>3 DEF Exit, ClosingIsIdle
<1>4. CASE Shutdown(w) \/ CloseDlq(w) \/ Restart(w)
  <2>1. UNCHANGED <<status, pc, cur>>
    BY <1>4 DEF Shutdown, CloseDlq, Restart
  <2> QED
    BY <2>1, EvaluationKept
<1> QED
  BY <1>2, <1>3, <1>4 DEF ProcessStep

\* A step that harms nobody further leaves every RUNNING row with its slot.
LEMMA RunningStep ==
  ASSUME CausesInv, [CausesNext]_<<vars, harmed>> PROVE RunningIsEvaluated'
<1> SUFFICES ASSUME NEW s \in Submissions, s \notin harmed' PROVE EvaluatedNext(s)
  BY DEF RunningIsEvaluated, EvaluatedNext, Evaluates
<1> USE DEF queueVars, slotVars, handlerVars, Evaluates
<1>0. /\ IndInv /\ ClosingIsIdle /\ RunningIsEvaluated
      /\ pc \in [Slots -> SlotPc] /\ cur \in [Slots -> Submissions \cup {NoSubmission}]
      /\ status \in [Submissions -> Lifecycle!SubmissionStatus \cup {"NONE"}]
      /\ s \in Submissions \ harmed
  BY DEF CausesInv, IndInv, TypeOK, CausesNext
<1>1. CASE UNCHANGED <<vars, harmed>>
  <2>1. UNCHANGED <<status, pc, cur>>
    BY <1>1 DEF vars
  <2> QED
    BY <1>0, <2>1, EvaluationKept
<1>2. CASE CausesNext
  <2>0. Next /\ ~AttemptLostAfterClaim(s) /\ ~EvaluationKilled(s)
    BY <1>2 DEF CausesNext, Harms
  <2>1. ASSUME NEW k \in Slots, SlotProgress(k) \/ SlotFault(k) PROVE EvaluatedNext(s)
    BY <1>0, <2>0, <2>1, EvaluationSlot
  <2>2. ASSUME NEW w \in Workers, ProcessStep(w) PROVE EvaluatedNext(s)
    BY <1>0, <2>0, <2>2, EvaluationProcess
  <2>3. ASSUME NEW k \in Slots, NEW r \in Submissions, PickUp(k, r)
        PROVE  EvaluatedNext(s)
    <3>1. /\ UNCHANGED status
          /\ \A j \in Slots : pc[j] # "idle" => pc'[j] = pc[j] /\ cur'[j] = cur[j]
      BY <1>0, <2>3 DEF PickUp, Goto
    <3> QED
      BY <1>0, <3>1, EvaluationKept
  <2>4. ASSUME NEW r \in Submissions, ApiStep(r) \/ HandlerStep(r) \/ PromoteJob(r)
        PROVE  EvaluatedNext(s)
    <3>1. UNCHANGED <<pc, cur>>
      BY <2>4 DEF ApiStep, HandlerStep, PromoteJob, RejectSubmission, InsertSubmission,
         AddSubmissionJob, AddSubmissionJobFails, SendToDeadLetterQueue,
         SendToDeadLetterQueueFails, MarkSystemError, MarkSystemErrorFails
    <3>2. status'[s] = "RUNNING" => status[s] = "RUNNING"
      BY <1>0, <2>4 DEF ApiStep, HandlerStep, PromoteJob, RejectSubmission,
         InsertSubmission, AddSubmissionJob, AddSubmissionJobFails,
         SendToDeadLetterQueue, SendToDeadLetterQueueFails, MarkSystemError,
         MarkSystemErrorFails, UpdateMany
    <3> QED
      BY <1>0, <3>1, <3>2, EvaluationKept
  <2>5. ASSUME NEW w \in Workers, NEW r \in Submissions, StalledCheck(w, r)
        PROVE  EvaluatedNext(s)
    <3>1. UNCHANGED <<status, pc, cur>>
      BY <2>5 DEF StalledCheck, RecoverStalledJob, FailStalledJob
    <3> QED
      BY <1>0, <3>1, EvaluationKept
  <2> QED
    BY <2>0, <2>1, <2>2, <2>3, <2>4, <2>5 DEF Next
<1> QED
  BY <1>1, <1>2

\* The two halves of the induction.
LEMMA CausesInvInit == CausesInit => CausesInv
<1>1. CausesInit => IndInv
  BY TypeInit, RowInvInit, JobInvInit DEF CausesInit, IndInv
<1>2. CausesInit => ClosingIsIdle
  BY DEF CausesInit, Init, ClosingIsIdle
<1>3. CausesInit => RunningIsEvaluated
  BY DEF CausesInit, Init, RunningIsEvaluated
<1> QED
  BY <1>1, <1>2, <1>3 DEF CausesInv

\* Every step of the pipeline with its history keeps CausesInv.
LEMMA CausesInvStep ==
  ASSUME CausesInv, [CausesNext]_<<vars, harmed>> PROVE CausesInv'
<1>1. IndInv /\ ClosingIsIdle /\ [Next]_vars
  BY DEF CausesInv, CausesNext
<1>2. IndInv'
  BY <1>1, TypeStep, RowInvStep, JobInvStep DEF IndInv
<1>3. ClosingIsIdle'
  BY <1>1, ClosingStep
<1> QED
  BY <1>2, <1>3, RunningStep DEF CausesInv

------------------------------------------------------------------------------
(* NothingForgotten: the QUEUED rows *)

Unfinished == {"wait", "active", "delayed"}

\* What has to hold of one submission after a step; that an unfinished job has
\* an attempt left is part of JobInv.
PendingNext(s) ==
  status'[s] = "QUEUED" =>
    api'[s] = "inserted" \/ handler'[s] # "none" \/ jobState'[s] \in Unfinished

\* A step that queues no row and ends nothing a queued one waits for.
LEMMA PendingKept ==
  ASSUME QueuedIsPending, NEW s \in Submissions \ harmed,
         status'[s] = "QUEUED" => status[s] = "QUEUED",
         api[s] = "inserted" => api'[s] = "inserted",
         handler[s] # "none" => handler'[s] # "none",
         jobState[s] \in Unfinished => jobState'[s] \in Unfinished
  PROVE  PendingNext(s)
BY DEF QueuedIsPending, PendingNext, Unfinished

\* The request queues the row and hands it on to its job, or loses it.
LEMMA PendingApi ==
  ASSUME IndInv, QueuedIsPending, NEW s \in Submissions \ harmed,
         ~JobNeverAdded(s), NEW r \in Submissions, ApiStep(r)
  PROVE  PendingNext(s)
<1> USE DEF queueVars, handlerVars
<1>0. /\ status \in [Submissions -> Lifecycle!SubmissionStatus \cup {"NONE"}]
      /\ api \in [Submissions -> {"idle", "inserted", "responded", "rejected", "error"}]
      /\ jobState \in [Submissions ->
           {"none", "wait", "active", "delayed", "completed", "failed"}]
  BY DEF IndInv, TypeOK
<1>1. CASE r # s
  <2>1. /\ status'[s] = status[s] /\ api'[s] = api[s]
        /\ jobState'[s] = jobState[s] /\ UNCHANGED handler
    BY <1>0, <1>1 DEF ApiStep, RejectSubmission, InsertSubmission, AddSubmissionJob,
       AddSubmissionJobFails
  <2> QED
    BY <2>1, PendingKept
<1>2. CASE r = s /\ RejectSubmission(r)
  <2>1. UNCHANGED <<status, jobState, handler>> /\ api[s] = "idle"
    BY <1>2 DEF RejectSubmission
  <2> QED
    BY <2>1, PendingKept
<1>3. CASE r = s /\ InsertSubmission(r)
  BY <1>0, <1>3 DEF InsertSubmission, PendingNext
<1>4. CASE r = s /\ AddSubmissionJob(r)
  BY <1>0, <1>4 DEF AddSubmissionJob, PendingNext, Unfinished
<1>5. CASE r = s /\ AddSubmissionJobFails(r)
  BY <1>5 DEF JobNeverAdded
<1> QED
  BY <1>1, <1>2, <1>3, <1>4, <1>5 DEF ApiStep

\* A job that ends was claimed, is retried, or is left to the handler.
LEMMA PendingSlot ==
  ASSUME IndInv, QueuedIsPending, NEW s \in Submissions \ harmed,
         NEW k \in Slots, SlotProgress(k) \/ SlotFault(k)
  PROVE  PendingNext(s)
<1> USE DEF queueVars, slotVars, handlerVars, HoldsLock
<1>0. /\ status \in [Submissions -> Lifecycle!SubmissionStatus \cup {"NONE"}]
      /\ jobState \in [Submissions ->
           {"none", "wait", "active", "delayed", "completed", "failed"}]
      /\ handler \in [Submissions -> {"none", "quarantine", "mark"}]
      /\ attemptsMade \in [Submissions -> Nat]
      /\ pc[k] # "idle" => cur[k] \in Submissions
      /\ pc[k] = "finalize" => result[k] \in Terminal
      /\ pc[k] = "return" => status[cur[k]] # "QUEUED"
  BY ConstantsAssumption DEF IndInv, TypeOK, RowInv, ConstantsAssumption
<1>1. CASE CompleteJob(k)
  <2>1. UNCHANGED <<status, api, handler>> /\ pc[k] = "return"
    BY <1>1 DEF CompleteJob
  <2>2. CASE cur[k] = s
    BY <1>0, <2>1, <2>2 DEF PendingNext
  <2>3. CASE cur[k] # s
    <3>1. jobState'[s] = jobState[s]
      BY <1>0, <1>1, <2>1, <2>3 DEF CompleteJob
    <3> QED
      BY <2>1, <3>1, PendingKept
  <2> QED
    BY <2>2, <2>3
<1>2. CASE FailJob(k)
  <2>1. /\ UNCHANGED <<status, api>> /\ cur[k] \in Submissions
        /\ lock[cur[k]] = k
    BY <1>0, <1>2 DEF FailJob
  <2>2. CASE cur[k] # s
    <3>1. jobState'[s] = jobState[s] /\ handler'[s] = handler[s]
      BY <1>0, <1>2, <2>1, <2>2 DEF FailJob, OnFailed
    <3> QED
      BY <2>1, <3>1, PendingKept
  <2>3. CASE cur[k] = s
    <3>1. CASE RetryLeft(attemptsMade[s] + 1)
      <4>1. jobState'[s] = "delayed"
        BY <1>0, <1>2, <2>1, <2>3, <3>1 DEF FailJob
      <4> QED
        BY <4>1 DEF PendingNext, Unfinished
    <3>2. CASE ~RetryLeft(attemptsMade[s] + 1)
      <4>1. IsExhausted(attemptsMade[s] + 1)
        BY <1>0, <3>2, ConstantsAssumption DEF RetryLeft, IsExhausted, ConstantsAssumption
      <4>2. handler'[s] = "quarantine"
        BY <1>0, <1>2, <2>1, <2>3, <4>1 DEF FailJob, OnFailed
      <4> QED
        BY <4>2 DEF PendingNext
    <3> QED
      BY <3>1, <3>2
  <2> QED
    BY <2>2, <2>3
<1>3. CASE ~(CompleteJob(k) \/ FailJob(k))
  <2>1. UNCHANGED <<api, jobState, handler>>
    BY <1>3 DEF SlotProgress, SlotFault, LoadSubmission, ClaimSubmission,
       EvaluateSubmission, FinalizeSubmission, FailJobWithoutLock, LoadSubmissionFails,
       ClaimSubmissionFails, EvaluateSubmissionFails, FinalizeSubmissionFails, LoseLock
  <2>2. status'[s] = "QUEUED" => status[s] = "QUEUED"
    <3>1. CASE pc[k] = "finalize"
      <4>1. result[k] # "QUEUED" /\ cur[k] \in Submissions
        BY <1>0, <3>1, StatusValues
      <4>2. UNCHANGED status \/ status' = UpdateMany(cur[k], FinalizeFrom, result[k])
        BY <1>3, <3>1 DEF SlotProgress, SlotFault, LoadSubmission, ClaimSubmission,
           EvaluateSubmission, FinalizeSubmission, FailJobWithoutLock,
           LoadSubmissionFails, ClaimSubmissionFails, EvaluateSubmissionFails,
           FinalizeSubmissionFails, LoseLock
      <4> QED
        BY <1>0, <4>1, <4>2 DEF UpdateMany
    <3>2. CASE pc[k] # "finalize"
      <4>1. UNCHANGED status \/ status' = UpdateMany(cur[k], ClaimFrom, "RUNNING")
        BY <1>3, <3>2 DEF SlotProgress, SlotFault, LoadSubmission, ClaimSubmission,
           EvaluateSubmission, FinalizeSubmission, FailJobWithoutLock,
           LoadSubmissionFails, ClaimSubmissionFails, EvaluateSubmissionFails,
           FinalizeSubmissionFails, LoseLock
      <4> QED
        BY <1>0, <4>1 DEF UpdateMany
    <3> QED
      BY <3>1, <3>2
  <2> QED
    BY <2>1, <2>2, PendingKept
<1> QED
  BY <1>1, <1>2, <1>3

\* The 'failed' handler marks the row, or is cut off.
LEMMA PendingHandler ==
  ASSUME IndInv, QueuedIsPending, NEW s \in Submissions \ harmed,
         ~HandlerCutOff(s), NEW r \in Submissions, HandlerStep(r)
  PROVE  PendingNext(s)
<1> USE DEF queueVars, handlerVars
<1>0. /\ status \in [Submissions -> Lifecycle!SubmissionStatus \cup {"NONE"}]
      /\ handler \in [Submissions -> {"none", "quarantine", "mark"}]
  BY DEF IndInv, TypeOK
<1>1. UNCHANGED <<api, jobState>>
  BY DEF HandlerStep, SendToDeadLetterQueue, SendToDeadLetterQueueFails,
     MarkSystemError, MarkSystemErrorFails
<1>2. CASE r # s
  <2>1. handler'[s] = handler[s] /\ status'[s] = status[s]
    BY <1>0, <1>2 DEF HandlerStep, SendToDeadLetterQueue, SendToDeadLetterQueueFails,
       MarkSystemError, MarkSystemErrorFails, EndHandler, UpdateMany
  <2> QED
    BY <1>1, <2>1, PendingKept
<1>3. CASE r = s /\ SendToDeadLetterQueue(r)
  BY <1>0, <1>3 DEF SendToDeadLetterQueue, PendingNext
<1>4. CASE r = s /\ MarkSystemError(r)
  BY <1>0, <1>4 DEF MarkSystemError, MarkFrom, UpdateMany, PendingNext
<1>5. CASE r = s /\ (SendToDeadLetterQueueFails(r) \/ MarkSystemErrorFails(r))
  BY <1>5 DEF HandlerCutOff
<1> QED
  BY <1>2, <1>3, <1>4, <1>5 DEF HandlerStep

\* The steps of BullMQ keep a job unfinished, or let it stall once too often.
LEMMA PendingQueue ==
  ASSUME IndInv, QueuedIsPending, NEW s \in Submissions \ harmed,
         ~StalledTooOften(s), NEW r \in Submissions,
         \/ PromoteJob(r)
         \/ \E k \in Slots : PickUp(k, r)
         \/ \E w \in Workers : StalledCheck(w, r)
  PROVE  PendingNext(s)
<1> USE DEF queueVars, handlerVars, Unfinished
<1>0. /\ jobState \in [Submissions ->
           {"none", "wait", "active", "delayed", "completed", "failed"}]
      /\ handler \in [Submissions -> {"none", "quarantine", "mark"}]
  BY DEF IndInv, TypeOK
<1>1. CASE PromoteJob(r)
  <2>1. UNCHANGED <<status, api, handler>>
    BY <1>1 DEF PromoteJob
  <2>2. jobState[s] \in Unfinished => jobState'[s] \in Unfinished
    BY <1>0, <1>1 DEF PromoteJob
  <2> QED
    BY <2>1, <2>2, PendingKept
<1>2. ASSUME NEW k \in Slots, PickUp(k, r) PROVE PendingNext(s)
  <2>1. UNCHANGED <<status, api, handler>>
    BY <1>2 DEF PickUp
  <2>2. jobState[s] \in Unfinished => jobState'[s] \in Unfinished
    BY <1>0, <1>2 DEF PickUp
  <2> QED
    BY <2>1, <2>2, PendingKept
<1>3. ASSUME NEW w \in Workers, RecoverStalledJob(w, r) PROVE PendingNext(s)
  <2>1. UNCHANGED <<status, api, handler>>
    BY <1>3 DEF RecoverStalledJob
  <2>2. jobState[s] \in Unfinished => jobState'[s] \in Unfinished
    BY <1>0, <1>3 DEF RecoverStalledJob
  <2> QED
    BY <2>1, <2>2, PendingKept
<1>4. ASSUME NEW w \in Workers, FailStalledJob(w, r) PROVE PendingNext(s)
  <2>1. r # s
    BY <1>4 DEF StalledTooOften
  <2>2. /\ UNCHANGED <<status, api>>
        /\ jobState'[s] = jobState[s] /\ handler'[s] = handler[s]
    BY <1>0, <1>4, <2>1 DEF FailStalledJob, OnFailed
  <2> QED
    BY <2>2, PendingKept
<1> QED
  BY <1>1, <1>2, <1>3, <1>4 DEF StalledCheck

\* A process that ends takes its handlers with it, and no job.
LEMMA PendingProcess ==
  ASSUME IndInv, QueuedIsPending, NEW s \in Submissions \ harmed,
         ~HandlerCutOff(s), NEW w \in Workers, ProcessStep(w)
  PROVE  PendingNext(s)
<1> USE DEF queueVars, handlerVars
<1>1. CASE Crash(w) \/ Exit(w)
  <2>1. host[s] # w
    BY <1>1 DEF HandlerCutOff
  <2>2. UNCHANGED <<status, api, jobState>> /\ handler'[s] = handler[s]
    BY <1>1, <2>1 DEF Crash, Exit, Die
  <2> QED
    BY <2>2, PendingKept
<1>2. CASE Shutdown(w) \/ CloseDlq(w) \/ Restart(w)
  <2>1. UNCHANGED <<status, api, jobState, handler>>
    BY <1>2 DEF Shutdown, CloseDlq, Restart
  <2> QED
    BY <2>1, PendingKept
<1> QED
  BY <1>1, <1>2 DEF ProcessStep

\* A step that harms nobody further leaves every QUEUED row with someone.
LEMMA PendingStep ==
  ASSUME IndInv, IndInv', QueuedIsPending, [CausesNext]_<<vars, harmed>>
  PROVE  QueuedIsPending'
<1>1. ASSUME NEW s \in Submissions, s \notin harmed' PROVE PendingNext(s)
  <2> USE DEF queueVars, handlerVars
  <2>0. s \in Submissions \ harmed
    BY <1>1 DEF CausesNext
  <2>1. CASE UNCHANGED <<vars, harmed>>
    BY <2>0, <2>1, PendingKept DEF vars
  <2>2. CASE CausesNext
    <3>0. /\ Next
          /\ ~JobNeverAdded(s) /\ ~HandlerCutOff(s) /\ ~StalledTooOften(s)
      BY <1>1, <2>2 DEF CausesNext, Harms
    <3>1. ASSUME NEW r \in Submissions, ApiStep(r) PROVE PendingNext(s)
      BY <2>0, <3>0, <3>1, PendingApi
    <3>2. ASSUME NEW r \in Submissions, HandlerStep(r) PROVE PendingNext(s)
      BY <2>0, <3>0, <3>2, PendingHandler
    <3>3. ASSUME NEW r \in Submissions,
                 \/ PromoteJob(r)
                 \/ \E k \in Slots : PickUp(k, r)
                 \/ \E w \in Workers : StalledCheck(w, r)
          PROVE  PendingNext(s)
      BY <2>0, <3>0, <3>3, PendingQueue
    <3>4. ASSUME NEW k \in Slots, SlotProgress(k) \/ SlotFault(k) PROVE PendingNext(s)
      BY <2>0, <3>4, PendingSlot
    <3>5. ASSUME NEW w \in Workers, ProcessStep(w) PROVE PendingNext(s)
      BY <2>0, <3>0, <3>5, PendingProcess
    <3> QED
      BY <3>0, <3>1, <3>2, <3>3, <3>4, <3>5 DEF Next
  <2> QED
    BY <2>1, <2>2
<1>2. ASSUME NEW s \in Submissions, jobState'[s] \in Unfinished
      PROVE  attemptsMade'[s] < MaxAttempts
  BY <1>2 DEF IndInv, JobInv, Unfinished
<1> QED
  BY <1>1, <1>2 DEF QueuedIsPending, PendingNext, Unfinished

\* NothingForgotten: an undecided submission that met none of the named losses
\* is being evaluated, or has a request, a job with an attempt left or a handler
\* that will come back to it (createSubmission, submissionConsumer.ts, worker.ts).
THEOREM NothingForgottenHolds == CausesSpec => []NothingForgotten
<1>1. CausesInit => CausesInv /\ QueuedIsPending
  <2>1. CausesInit => QueuedIsPending
    BY DEF CausesInit, Init, QueuedIsPending
  <2> QED
    BY <2>1, CausesInvInit
<1>2. CausesInv /\ QueuedIsPending /\ [CausesNext]_<<vars, harmed>>
        => (CausesInv /\ QueuedIsPending)'
  <2> SUFFICES ASSUME CausesInv, QueuedIsPending, [CausesNext]_<<vars, harmed>>
               PROVE  CausesInv' /\ QueuedIsPending'
    OBVIOUS
  <2>1. CausesInv'
    BY CausesInvStep
  <2>2. IndInv /\ IndInv'
    BY <2>1 DEF CausesInv
  <2> QED
    BY <2>1, <2>2, PendingStep
<1>3. CausesInv /\ QueuedIsPending => NothingForgotten
  BY DEF CausesInv, NothingForgotten
<1> QED
  BY <1>1, <1>2, <1>3, PTL DEF CausesSpec

==============================================================================
