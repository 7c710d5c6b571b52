------------------------- MODULE SubmissionLifecycle -------------------------
(***************************************************************************)
(* What the judge promises about one row of the "submissions" table: the   *)
(* state machine of submission.service.ts, without the queue, the workers  *)
(* and the faults that drive it.  A row is created QUEUED and then moves   *)
(* only along VALID_TRANSITIONS; a terminal status is never left.          *)
(***************************************************************************)

CONSTANT Submissions            \* ids of submissions (UUIDs in the code)

VARIABLE status                 \* the status column, "NONE": no row yet

\* The verdicts of the judge: no transition leaves them.
Terminal ==
  {"ACCEPTED", "WRONG_ANSWER", "TIME_LIMIT_EXCEEDED", "MEMORY_LIMIT_EXCEEDED",
   "COMPILATION_ERROR", "RUNTIME_ERROR", "SYSTEM_ERROR"}

SubmissionStatus == {"QUEUED", "RUNNING"} \cup Terminal

ValidTransitions(current) ==
  CASE current = "QUEUED"  -> {"RUNNING", "SYSTEM_ERROR"}
    [] current = "RUNNING" -> Terminal
    [] OTHER               -> {}

TypeOK == status \in [Submissions -> SubmissionStatus \cup {"NONE"}]

Init == status = [s \in Submissions |-> "NONE"]

Create(s) ==
  /\ status[s] = "NONE"
  /\ status' = [status EXCEPT ![s] = "QUEUED"]

Transition(s) ==
  \E next \in ValidTransitions(status[s]) :
    status' = [status EXCEPT ![s] = next]

Next == \E s \in Submissions : Create(s) \/ Transition(s)

Spec == Init /\ [][Next]_status

==============================================================================
