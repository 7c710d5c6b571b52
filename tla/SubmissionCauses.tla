--------------------------- MODULE SubmissionCauses ---------------------------
(***************************************************************************)
(* Why a submission may stay undecided.  The pipeline with a history:      *)
(* "harmed" collects the submissions that met one of the losses the code   *)
(* has no second chance for, and the properties say that there is no other *)
(* cause - every other fault is made good by a retry, a recovery or the    *)
(* SYSTEM_ERROR mark.                                                      *)
(***************************************************************************)
EXTENDS SubmissionPipeline

VARIABLE harmed                 \* history: submissions that met such a loss

\* The row is stored and its job is not added.
JobNeverAdded(s) == AddSubmissionJobFails(s)

\* An attempt fails while the row is RUNNING, where no retry can claim it.
AttemptLostAfterClaim(s) ==
  /\ status'[s] = "RUNNING"
  /\ \E k \in Slots :
       /\ cur[k] = s
       /\ \/ ClaimSubmissionFails(k)
          \/ EvaluateSubmissionFails(k)
          \/ FinalizeSubmissionFails(k)

\* The process is killed while it evaluates s.
EvaluationKilled(s) ==
  \E w \in Workers : Crash(w) /\ \E k \in SlotsOf(w) : Evaluates(k) /\ cur[k] = s

\* The job stalls once too often and fails with attempts left.
StalledTooOften(s) == \E w \in Workers : FailStalledJob(w, s)

\* The 'failed' handler ends early, by an error or with its process.
HandlerCutOff(s) ==
  \/ SendToDeadLetterQueueFails(s)
  \/ MarkSystemErrorFails(s)
  \/ \E w \in Workers : host[s] = w /\ (Crash(w) \/ Exit(w))

Harms(s) ==
  \/ JobNeverAdded(s) \/ AttemptLostAfterClaim(s) \/ EvaluationKilled(s)
  \/ StalledTooOften(s) \/ HandlerCutOff(s)

CausesInit == Init /\ harmed = {}

CausesNext == Next /\ harmed' = harmed \cup {s \in Submissions : Harms(s)}

CausesSpec ==
  /\ CausesInit
  /\ [][CausesNext]_<<vars, harmed>>
  /\ Fairness

------------------------------------------------------------------------------
(* Properties *)

\* Every stored submission is decided in the end unless it met one of the
\* five losses: failing loads and claims, expired locks, single crashes before
\* the claim and graceful shutdowns are all made good by retry, recovery,
\* quarantine and mark (submissionConsumer.ts, worker.ts).
UndecidedHasCause ==
  \A s \in Submissions :
    status[s] = "QUEUED" ~> status[s] \in Terminal \/ s \in harmed

\* A RUNNING row whose submission met no loss is being evaluated: neither a
\* lost lock nor a draining worker abandons an evaluation it has begun.
RunningIsEvaluated ==
  \A s \in Submissions \ harmed :
    status[s] = "RUNNING" => \E k \in Slots : Evaluates(k) /\ cur[k] = s

\* A QUEUED row whose submission met no loss has somebody who will come back to
\* it: the request that adds its job, a job with an attempt left, or the handler
\* that marks it.
QueuedIsPending ==
  \A s \in Submissions \ harmed :
    status[s] = "QUEUED" =>
      \/ api[s] = "inserted" \/ handler[s] # "none"
      \/ jobState[s] \in {"wait", "active", "delayed"} /\ attemptsMade[s] < MaxAttempts

\* Why nothing else than a loss leaves a submission undecided: at every moment
\* something in the system still stands for it.
NothingForgotten == RunningIsEvaluated /\ QueuedIsPending

==============================================================================
