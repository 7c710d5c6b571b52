-------------------------- MODULE SubmissionPipeline --------------------------
(***************************************************************************)
(* The life of a submission through the three processes that share it:     *)
(*   - the API server inserts the row in PostgreSQL and then, in a second  *)
(*     step, adds the BullMQ job (createSubmission, addSubmissionJob);     *)
(*   - worker processes take jobs from Redis and run executeSubmission-    *)
(*     Async: load the row, claim it with a conditional UPDATE, evaluate   *)
(*     the code, write the verdict with a second conditional UPDATE;       *)
(*   - the worker's 'failed' handler quarantines an exhausted job in the   *)
(*     dead-letter queue and then marks the row SYSTEM_ERROR.              *)
(*                                                                         *)
(* Every "await" of the code is a point where other processes may step, so *)
(* each of these is an action of its own.  BullMQ (locks, backoff, stalled *)
(* jobs) is external and modelled as src/ configures and relies on it.     *)
(*                                                                         *)
(* A fault is an error the code handles or survives: a failed statement, a *)
(* statement executed whose reply is lost, a killed process, an expired    *)
(* lock.  Faults names the kinds an instance may meet, MaxFaults how many. *)
(***************************************************************************)
EXTENDS Integers, FiniteSets

CONSTANTS
  Submissions,      \* ids of the submissions users make
  Workers,          \* worker processes (worker.ts)
  Concurrency,      \* jobs one worker processes at a time
  MaxAttempts,      \* "attempts" of addSubmissionJob
  MaxStalled,       \* "maxStalledCount" of createSubmissionWorker
  EngineVerdicts,   \* verdicts ExecutionEngine.execute may return
  Faults,           \* kinds of fault that may happen
  MaxFaults,        \* bound on the number of faults
  NoSlot, NoSubmission, NoWorker

FaultKinds ==
  {"enqueue",       \* the job is not added after the row was inserted
   "load",          \* findUnique fails
   "claim",         \* the claiming UPDATE fails and has no effect
   "claimAck",      \* ... is executed, but its reply is lost
   "engine",        \* ExecutionEngine.execute throws
   "finalize",      \* the UPDATE of the verdict fails and has no effect
   "finalizeAck",   \* ... is executed, but its reply is lost
   "quarantine",    \* the dead-letter queue cannot be reached
   "mark",          \* the UPDATE to SYSTEM_ERROR fails
   "lock",          \* a running job's lock expires, its code runs on
   "crash",         \* a worker process is killed
   "shutdown"}      \* a worker process is told to stop

VARIABLES
  status,           \* PostgreSQL: submission -> status column
  api,              \* createSubmission: how far the request has come
  jobState,         \* Redis: where BullMQ keeps the submission's job
  attemptsMade,     \* Redis: failed attempts of the job
  stalledCount,     \* Redis: how often the job was found stalled
  lock,             \* Redis: slot that holds the job's lock
  pc, cur, result,  \* per slot: next step, its submission, engine's verdict
  handler, host,    \* 'failed' handler of a submission, worker running it
  dlq,              \* Redis: submissions in the dead-letter queue
  mode,             \* worker processes: up, draining, closing, down
  faults            \* number of faults so far

queueVars   == <<jobState, attemptsMade, stalledCount, lock>>
slotVars    == <<pc, cur, result>>
handlerVars == <<handler, host, dlq>>
vars == <<status, api, queueVars, slotVars, handlerVars, mode, faults>>

Lifecycle == INSTANCE SubmissionLifecycle WITH Submissions <- Submissions, status <- status

Terminal == Lifecycle!Terminal
Slots == Workers \X (1..Concurrency)
SlotsOf(w) == {w} \X (1..Concurrency)

ASSUME ConstantsAssumption ==
  /\ Concurrency \in Nat \ {0}
  /\ MaxAttempts \in Nat \ {0}
  /\ MaxStalled \in Nat
  /\ MaxFaults \in Nat
  /\ EngineVerdicts \subseteq Terminal
  /\ Faults \subseteq FaultKinds
  /\ NoSlot \notin Slots
  /\ NoSubmission \notin Submissions
  /\ NoWorker \notin Workers

------------------------------------------------------------------------------
(* State *)

SlotPc == {"idle", "load", "claim", "execute", "finalize", "return", "throw"}

TypeOK ==
  /\ status \in [Submissions -> Lifecycle!SubmissionStatus \cup {"NONE"}]
  /\ api \in [Submissions -> {"idle", "inserted", "responded", "rejected", "error"}]
  /\ jobState \in [Submissions ->
       {"none", "wait", "active", "delayed", "completed", "failed"}]
  /\ attemptsMade \in [Submissions -> Nat]
  /\ stalledCount \in [Submissions -> Nat]
  /\ lock \in [Submissions -> Slots \cup {NoSlot}]
  /\ pc \in [Slots -> SlotPc]
  /\ cur \in [Slots -> Submissions \cup {NoSubmission}]
  /\ result \in [Slots -> EngineVerdicts \cup {"NONE"}]
  /\ handler \in [Submissions -> {"none", "quarantine", "mark"}]
  /\ host \in [Submissions -> Workers \cup {NoWorker}]
  /\ dlq \subseteq Submissions
  /\ mode \in [Workers -> {"up", "draining", "closing", "down"}]
  /\ faults \in Nat
  /\ \A k \in Slots : pc[k] # "idle" => cur[k] \in Submissions

Init ==
  /\ status = [s \in Submissions |-> "NONE"]
  /\ api = [s \in Submissions |-> "idle"]
  /\ jobState = [s \in Submissions |-> "none"]
  /\ attemptsMade = [s \in Submissions |-> 0]
  /\ stalledCount = [s \in Submissions |-> 0]
  /\ lock = [s \in Submissions |-> NoSlot]
  /\ pc = [k \in Slots |-> "idle"]
  /\ cur = [k \in Slots |-> NoSubmission]
  /\ result = [k \in Slots |-> "NONE"]
  /\ handler = [s \in Submissions |-> "none"]
  /\ host = [s \in Submissions |-> NoWorker]
  /\ dlq = {}
  /\ mode = [w \in Workers |-> "up"]
  /\ faults = 0

Fault(kind) ==
  /\ kind \in Faults
  /\ faults < MaxFaults
  /\ faults' = faults + 1

\* prisma.submission.updateMany({where: {id: s, status: {in: from}}, ...}):
\* one atomic statement, which changes the row or (count = 0) nothing.
UpdateMany(s, from, to) ==
  IF status[s] \in from THEN [status EXCEPT ![s] = to] ELSE status

------------------------------------------------------------------------------
(* API server: createSubmission *)

\* The problem is missing, or unpublished and the user no admin: 404.
RejectSubmission(s) ==
  /\ api[s] = "idle"
  /\ api' = [api EXCEPT ![s] = "rejected"]
  /\ UNCHANGED <<status, queueVars, slotVars, handlerVars, mode, faults>>

InsertSubmission(s) ==
  /\ api[s] = "idle"
  /\ api' = [api EXCEPT ![s] = "inserted"]
  /\ status' = [status EXCEPT ![s] = "QUEUED"]
  /\ UNCHANGED <<queueVars, slotVars, handlerVars, mode, faults>>

\* The row is already committed when the job is added.
AddSubmissionJob(s) ==
  /\ api[s] = "inserted"
  /\ api' = [api EXCEPT ![s] = "responded"]
  /\ jobState' = [jobState EXCEPT ![s] = "wait"]
  /\ UNCHANGED <<status, attemptsMade, stalledCount, lock, slotVars,
                 handlerVars, mode, faults>>

\* Redis refuses, or the API process dies: the client sees an error, the row
\* stays.
AddSubmissionJobFails(s) ==
  /\ api[s] = "inserted"
  /\ Fault("enqueue")
  /\ api' = [api EXCEPT ![s] = "error"]
  /\ UNCHANGED <<status, queueVars, slotVars, handlerVars, mode>>

------------------------------------------------------------------------------
(* Worker slot: processSubmissionJob and executeSubmissionAsync *)

Goto(k, step) == pc' = [pc EXCEPT ![k] = step]

\* Bug: the slot forgets its job but is not made available.
FreeKeepsStep(k) ==
  /\ UNCHANGED pc
  /\ cur' = [cur EXCEPT ![k] = NoSubmission]
  /\ result' = [result EXCEPT ![k] = "NONE"]

Free(k) ==
  /\ pc' = [pc EXCEPT ![k] = "idle"]
  /\ cur' = [cur EXCEPT ![k] = NoSubmission]
  /\ result' = [result EXCEPT ![k] = "NONE"]

PickUp(k, s) ==
  /\ mode[k[1]] = "up"
  /\ pc[k] = "idle"
  /\ jobState[s] = "wait"
  /\ jobState' = [jobState EXCEPT ![s] = "active"]
  /\ lock' = [lock EXCEPT ![s] = k]
  /\ Goto(k, "load")
  /\ cur' = [cur EXCEPT ![k] = s]
  /\ UNCHANGED <<status, api, attemptsMade, stalledCount, result,
                 handlerVars, mode, faults>>

LoadSubmission(k) ==
  /\ pc[k] = "load"
  /\ Goto(k, IF status[cur[k]] = "NONE" THEN "return" ELSE "claim")
  /\ UNCHANGED <<status, api, queueVars, cur, result, handlerVars, mode, faults>>

\* Bug: the error is caught and the job counted as done.
LoadErrorSwallowed(k) ==
  /\ pc[k] = "load"
  /\ Fault("load")
  /\ Goto(k, "return")
  /\ UNCHANGED <<status, api, queueVars, cur, result, handlerVars, mode>>

\* Outside the try block: the raw error leaves executeSubmissionAsync.
LoadSubmissionFails(k) ==
  /\ pc[k] = "load"
  /\ Fault("load")
  /\ Goto(k, "throw")
  /\ UNCHANGED <<status, api, queueVars, cur, result, handlerVars, mode>>

\* Bug: a retry may claim the row again.
ClaimAgain == {"QUEUED", "RUNNING"}

ClaimFrom == {"QUEUED"}

\* count = 0: the function returns, and the job counts as done.
ClaimSubmission(k) ==
  /\ pc[k] = "claim"
  /\ status' = UpdateMany(cur[k], ClaimFrom, "RUNNING")
  /\ Goto(k, IF status[cur[k]] \in ClaimFrom THEN "execute" ELSE "return")
  /\ UNCHANGED <<api, queueVars, cur, result, handlerVars, mode, faults>>

ClaimSubmissionFails(k) ==
  /\ pc[k] = "claim"
  /\ \/ /\ Fault("claim")
        /\ UNCHANGED status
     \/ /\ Fault("claimAck")
        /\ status' = UpdateMany(cur[k], ClaimFrom, "RUNNING")
  /\ Goto(k, "throw")
  /\ UNCHANGED <<api, queueVars, cur, result, handlerVars, mode>>

\* ExecutionEngine.execute, then the check of the transition it asks for.
EvaluateSubmission(k) ==
  /\ pc[k] = "execute"
  /\ \E verdict \in EngineVerdicts :
       /\ result' = [result EXCEPT ![k] = verdict]
       /\ Goto(k, IF verdict \in Lifecycle!ValidTransitions("RUNNING")
                    THEN "finalize" ELSE "return")
  /\ UNCHANGED <<status, api, queueVars, cur, handlerVars, mode, faults>>

\* Inside the try block: rethrown as InfrastructureError.
EvaluateSubmissionFails(k) ==
  /\ pc[k] = "execute"
  /\ Fault("engine")
  /\ Goto(k, "throw")
  /\ UNCHANGED <<status, api, queueVars, cur, result, handlerVars, mode>>

\* Bug: the guard of the second UPDATE is missing, or that of the first.
FinalizeAnything == Lifecycle!SubmissionStatus
FinalizeQueued == {"QUEUED"}

FinalizeFrom == {"RUNNING"}

\* Whether the row was still RUNNING or not, the function then returns.
FinalizeSubmission(k) ==
  /\ pc[k] = "finalize"
  /\ status' = UpdateMany(cur[k], FinalizeFrom, result[k])
  /\ Goto(k, "return")
  /\ UNCHANGED <<api, queueVars, cur, result, handlerVars, mode, faults>>

FinalizeSubmissionFails(k) ==
  /\ pc[k] = "finalize"
  /\ \/ /\ Fault("finalize")
        /\ UNCHANGED status
     \/ /\ Fault("finalizeAck")
        /\ status' = UpdateMany(cur[k], FinalizeFrom, result[k])
  /\ Goto(k, "throw")
  /\ UNCHANGED <<api, queueVars, cur, result, handlerVars, mode>>

------------------------------------------------------------------------------
(* Worker slot: the outcome is reported to BullMQ, and the 'failed' handler *)

HoldsLock(k) == lock[cur[k]] = k

\* Bug: off by one, either way.
ExhaustedEarly(attempts) == attempts + 1 >= MaxAttempts
ExhaustedLate(attempts) == attempts > MaxAttempts

IsExhausted(attempts) == attempts >= MaxAttempts

\* Bug: one retry too many.
RetryOnceMore(attempts) == attempts <= MaxAttempts

\* "attempts" of the job, for BullMQ.
RetryLeft(attempts) == attempts < MaxAttempts

\* worker.on('failed'): nothing is done until the attempts are exhausted.
OnFailed(w, s, attempts) ==
  /\ handler' = IF IsExhausted(attempts)
                  THEN [handler EXCEPT ![s] = "quarantine"] ELSE handler
  /\ host' = IF IsExhausted(attempts) THEN [host EXCEPT ![s] = w] ELSE host
  /\ UNCHANGED dlq

\* A processor that returned.  Without the lock BullMQ refuses the report.
CompleteJob(k) ==
  /\ pc[k] = "return"
  /\ IF HoldsLock(k)
       THEN /\ jobState' = [jobState EXCEPT ![cur[k]] = "completed"]
            /\ lock' = [lock EXCEPT ![cur[k]] = NoSlot]
       ELSE UNCHANGED <<jobState, lock>>
  /\ Free(k)
  /\ UNCHANGED <<status, api, attemptsMade, stalledCount, handlerVars, mode, faults>>

\* A processor that threw while it holds the lock: retry with backoff while
\* attempts are left, otherwise the job has failed for good.
FailJob(k) ==
  LET s == cur[k]
      attempts == attemptsMade[s] + 1
  IN
  /\ pc[k] = "throw"
  /\ HoldsLock(k)
  /\ attemptsMade' = [attemptsMade EXCEPT ![s] = attempts]
  /\ jobState' = [jobState EXCEPT ![s] =
                    IF RetryLeft(attempts) THEN "delayed" ELSE "failed"]
  /\ lock' = [lock EXCEPT ![s] = NoSlot]
  /\ OnFailed(k[1], s, attempts)
  /\ Free(k)
  /\ UNCHANGED <<status, api, stalledCount, mode, faults>>

\* ... and one that threw after losing it: no report, no 'failed' event.
FailJobWithoutLock(k) ==
  /\ pc[k] = "throw"
  /\ ~HoldsLock(k)
  /\ Free(k)
  /\ UNCHANGED <<status, api, queueVars, handlerVars, mode, faults>>

EndHandler(s) ==
  /\ handler' = [handler EXCEPT ![s] = "none"]
  /\ host' = [host EXCEPT ![s] = NoWorker]

SendToDeadLetterQueue(s) ==
  /\ handler[s] = "quarantine"
  /\ mode[host[s]] \in {"up", "draining"}     \* its connection is still open
  /\ dlq' = dlq \cup {s}
  /\ handler' = [handler EXCEPT ![s] = "mark"]
  /\ UNCHANGED <<status, api, queueVars, slotVars, host, mode, faults>>

\* One try block for both steps: the row is not marked either.
SendToDeadLetterQueueFails(s) ==
  /\ handler[s] = "quarantine"
  /\ \/ Fault("quarantine")
     \/ mode[host[s]] = "closing" /\ UNCHANGED faults
  /\ EndHandler(s)
  /\ UNCHANGED <<status, api, queueVars, slotVars, dlq, mode>>

\* Bug: a verdict that was written but not acknowledged is overwritten.
MarkAccepted == {"QUEUED", "RUNNING", "ACCEPTED"}

MarkFrom == {"QUEUED", "RUNNING"}

MarkSystemError(s) ==
  /\ handler[s] = "mark"
  /\ status' = UpdateMany(s, MarkFrom, "SYSTEM_ERROR")
  /\ EndHandler(s)
  /\ UNCHANGED <<api, queueVars, slotVars, dlq, mode, faults>>

MarkSystemErrorFails(s) ==
  /\ handler[s] = "mark"
  /\ Fault("mark")
  /\ EndHandler(s)
  /\ UNCHANGED <<status, api, queueVars, slotVars, dlq, mode>>

------------------------------------------------------------------------------
(* BullMQ: backoff, lock expiry and stalled jobs *)

\* The backoff of a delayed job is over.
PromoteJob(s) ==
  /\ jobState[s] = "delayed"
  /\ jobState' = [jobState EXCEPT ![s] = "wait"]
  /\ UNCHANGED <<status, api, attemptsMade, stalledCount, lock, slotVars,
                 handlerVars, mode, faults>>

\* The lock is not renewed in time (a blocked event loop, an unreachable
\* Redis), but the processor of slot k goes on.
LoseLock(k) ==
  /\ pc[k] # "idle"
  /\ HoldsLock(k)
  /\ Fault("lock")
  /\ lock' = [lock EXCEPT ![cur[k]] = NoSlot]
  /\ UNCHANGED <<status, api, jobState, attemptsMade, stalledCount, slotVars,
                 handlerVars, mode>>

IsStalled(s) == jobState[s] = "active" /\ lock[s] = NoSlot

\* The stalled check of worker w: back to the queue, at most MaxStalled times.
RecoverStalledJob(w, s) ==
  /\ mode[w] = "up"
  /\ IsStalled(s)
  /\ stalledCount[s] < MaxStalled
  /\ stalledCount' = [stalledCount EXCEPT ![s] = @ + 1]
  /\ jobState' = [jobState EXCEPT ![s] = "wait"]
  /\ UNCHANGED <<status, api, attemptsMade, lock, slotVars, handlerVars, mode, faults>>

\* Once too often: the job fails, and the handler sees its attemptsMade.
FailStalledJob(w, s) ==
  /\ mode[w] = "up"
  /\ IsStalled(s)
  /\ stalledCount[s] >= MaxStalled
  /\ stalledCount' = [stalledCount EXCEPT ![s] = @ + 1]
  /\ jobState' = [jobState EXCEPT ![s] = "failed"]
  /\ OnFailed(w, s, attemptsMade[s])
  /\ UNCHANGED <<status, api, attemptsMade, lock, slotVars, mode, faults>>

------------------------------------------------------------------------------
(* Worker processes *)

\* What ends with process w: its slots, its locks, its handlers.
Die(w) ==
  /\ mode' = [mode EXCEPT ![w] = "down"]
  /\ pc' = [k \in Slots |-> IF k[1] = w THEN "idle" ELSE pc[k]]
  /\ cur' = [k \in Slots |-> IF k[1] = w THEN NoSubmission ELSE cur[k]]
  /\ result' = [k \in Slots |-> IF k[1] = w THEN "NONE" ELSE result[k]]
  /\ lock' = [s \in Submissions |-> IF lock[s] \in SlotsOf(w) THEN NoSlot ELSE lock[s]]
  /\ handler' = [s \in Submissions |-> IF host[s] = w THEN "none" ELSE handler[s]]
  /\ host' = [s \in Submissions |-> IF host[s] = w THEN NoWorker ELSE host[s]]
  /\ UNCHANGED <<status, api, jobState, attemptsMade, stalledCount, dlq>>

Crash(w) ==
  /\ mode[w] # "down"
  /\ Fault("crash")
  /\ Die(w)

\* SIGTERM, SIGINT or an uncaught exception; isShuttingDown lets one pass.
Shutdown(w) ==
  /\ mode[w] = "up"
  /\ Fault("shutdown")
  /\ mode' = [mode EXCEPT ![w] = "draining"]
  /\ UNCHANGED <<status, api, queueVars, slotVars, handlerVars>>

\* Bug: the running jobs are not waited for.
CloseAtOnce(w) ==
  /\ mode[w] = "draining"
  /\ mode' = [mode EXCEPT ![w] = "closing"]
  /\ UNCHANGED <<status, api, queueVars, slotVars, handlerVars, faults>>

\* worker.close() resolves when no processor runs; then the DLQ is closed.
CloseDlq(w) ==
  /\ mode[w] = "draining"
  /\ \A k \in SlotsOf(w) : pc[k] = "idle"
  /\ mode' = [mode EXCEPT ![w] = "closing"]
  /\ UNCHANGED <<status, api, queueVars, slotVars, handlerVars, faults>>

\* process.exit: nothing waited for the asynchronous 'failed' handlers.
Exit(w) ==
  /\ mode[w] = "closing"
  /\ Die(w)
  /\ UNCHANGED faults

\* restart: always.
Restart(w) ==
  /\ mode[w] = "down"
  /\ mode' = [mode EXCEPT ![w] = "up"]
  /\ UNCHANGED <<status, api, queueVars, slotVars, handlerVars, faults>>

------------------------------------------------------------------------------
(* Specification *)

ApiStep(s) ==
  \/ RejectSubmission(s) \/ InsertSubmission(s)
  \/ AddSubmissionJob(s) \/ AddSubmissionJobFails(s)

\* What a slot does by itself when nothing fails.
SlotProgress(k) ==
  \/ LoadSubmission(k) \/ ClaimSubmission(k)
  \/ EvaluateSubmission(k) \/ FinalizeSubmission(k)
  \/ CompleteJob(k) \/ FailJob(k) \/ FailJobWithoutLock(k)

SlotFault(k) ==
  \/ LoadSubmissionFails(k) \/ ClaimSubmissionFails(k)
  \/ EvaluateSubmissionFails(k) \/ FinalizeSubmissionFails(k)
  \/ LoseLock(k)

HandlerStep(s) ==
  \/ SendToDeadLetterQueue(s) \/ SendToDeadLetterQueueFails(s)
  \/ MarkSystemError(s) \/ MarkSystemErrorFails(s)

\* Bug: jobs over the limit are neither recovered nor failed.
StalledCheckNoLimit(w, s) == RecoverStalledJob(w, s)

StalledCheck(w, s) == RecoverStalledJob(w, s) \/ FailStalledJob(w, s)

ProcessStep(w) == Crash(w) \/ Shutdown(w) \/ CloseDlq(w) \/ Exit(w) \/ Restart(w)

Next ==
  \/ \E s \in Submissions : ApiStep(s) \/ HandlerStep(s) \/ PromoteJob(s)
  \/ \E k \in Slots : SlotProgress(k) \/ SlotFault(k)
  \/ \E k \in Slots, s \in Submissions : PickUp(k, s)
  \/ \E w \in Workers, s \in Submissions : StalledCheck(w, s)
  \/ \E w \in Workers : ProcessStep(w)

Spec == Init /\ [][Next]_vars

\* Event loops run what is ready, BullMQ's timers fire, a dead worker process
\* is restarted.  Nothing makes a user submit, or a fault happen.
Fairness ==
  /\ \A s \in Submissions :
       /\ WF_vars(AddSubmissionJob(s))
       /\ WF_vars(SendToDeadLetterQueue(s) \/ MarkSystemError(s))
       /\ WF_vars(PromoteJob(s))
       /\ WF_vars(\E k \in Slots : PickUp(k, s))
       /\ WF_vars(\E w \in Workers : StalledCheck(w, s))
  /\ \A k \in Slots : WF_vars(SlotProgress(k))
  /\ \A w \in Workers : WF_vars(CloseDlq(w) \/ Exit(w) \/ Restart(w))

FairSpec == Spec /\ Fairness

------------------------------------------------------------------------------
(* Properties *)

Evaluates(k) == pc[k] \in {"execute", "finalize"}

\* A submission is evaluated by at most one slot at a time, also when a lock
\* expired and the recovered job was picked up by another worker while the
\* first one still runs (the optimistic lock of executeSubmissionAsync).
SingleEvaluation ==
  \A j, k \in Slots : Evaluates(j) /\ Evaluates(k) /\ cur[j] = cur[k] => j = k

\* A job only completes after its submission left QUEUED: returning normally
\* from a lost claim never drops a submission nobody has begun to judge.
CompletedWasClaimed ==
  \A s \in Submissions :
    jobState[s] = "completed" => status[s] \notin {"NONE", "QUEUED"}

\* Only a job whose attempts are used up is quarantined: isExhausted of the
\* 'failed' handler lets none with a retry left through.  Nor one that failed
\* by stalling too often, which the 'stalled' listener's message says is moved
\* to the dead-letter queue: StalledJobKept below states what it says.
QuarantineOnlyExhausted ==
  \A s \in dlq : jobState[s] = "failed" /\ attemptsMade[s] = MaxAttempts

\* A job that may still run has an attempt left, and was found stalled at
\* most MaxStalled times: retries and recoveries do not go on for ever.
RetriesBounded ==
  \A s \in Submissions :
    jobState[s] \in {"wait", "active", "delayed"} =>
      attemptsMade[s] < MaxAttempts /\ stalledCount[s] <= MaxStalled

\* Terminal states are immutable, whatever a late worker, a second attempt or
\* the 'failed' handler still tries to write.
VerdictFinal ==
  [][\A s \in Submissions : status[s] \in Terminal => status'[s] = status[s]]_vars

\* The pipeline implements the state machine VALID_TRANSITIONS promises.
ImplementsLifecycle == Lifecycle!Spec

\* Every job leaves the queue: crashes, stalls and retries cannot keep one
\* waiting, active or delayed for ever.
JobsFinish ==
  \A s \in Submissions :
    jobState[s] \in {"wait", "active", "delayed"}
      ~> jobState[s] \in {"completed", "failed"}

------------------------------------------------------------------------------
(* The inductive invariant behind the safety properties *)

\* What the row says follows what has been done with the submission.
RowInv ==
  /\ \A s \in Submissions :
       /\ api[s] = "idle" => status[s] = "NONE"
       /\ api[s] = "inserted" \/ jobState[s] # "none" => status[s] # "NONE"
  /\ \A k \in Slots :
       /\ pc[k] # "idle" => status[cur[k]] # "NONE"
       /\ Evaluates(k) \/ pc[k] = "return" =>
            status[cur[k]] \notin {"NONE", "QUEUED"}
       /\ pc[k] = "finalize" => result[k] \in EngineVerdicts
  /\ SingleEvaluation
  /\ CompletedWasClaimed

\* A job is locked by a slot that runs it, and is exhausted only once failed.
JobInv ==
  \A s \in Submissions :
    /\ api[s] \in {"idle", "inserted"} => jobState[s] = "none"
    /\ lock[s] # NoSlot =>
         jobState[s] = "active" /\ pc[lock[s]] # "idle" /\ cur[lock[s]] = s
    /\ jobState[s] \in {"none", "wait", "active", "delayed"} =>
         attemptsMade[s] < MaxAttempts /\ stalledCount[s] <= MaxStalled
    /\ handler[s] # "none" \/ s \in dlq =>
         jobState[s] = "failed" /\ attemptsMade[s] = MaxAttempts

\* The invariant every step of the pipeline preserves: rows, slots and jobs
\* agree with each other.
IndInv == TypeOK /\ RowInv /\ JobInv

------------------------------------------------------------------------------
(* What comments and documents say of the pipeline, and the code does not do *)

\* "If infrastructure fails (Docker/DB), BullMQ retries up to 3 times ... When
\* retries are exhausted, ... PostgreSQL is set to SYSTEM_ERROR": a submission
\* whose attempt failed is decided by a retry, or marked in the end.
FailedAttemptDecided ==
  \A s \in Submissions : attemptsMade[s] > 0 ~> status[s] \in Terminal

\* "Job STALLED: Worker lock expired - job will be re-queued or moved to DLQ".
\* One that stalled too often fails without having used up its attempts: the
\* handler leaves it, and its row, alone.
StalledJobKept ==
  \A s \in Submissions : IsStalled(s) ~> jobState[s] = "wait" \/ s \in dlq

==============================================================================
