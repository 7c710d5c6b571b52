---------------------------- MODULE HttpApi_proofs ----------------------------
(***************************************************************************)
(* Proofs about HttpApi: for any number of concurrent requests, failures   *)
(* and crashes the tables are consistent, a failed request leaves nothing, *)
(* and what was acknowledged is there and is seen.                         *)
(*                                                                         *)
(* ReqInv(r) says what request r has done so far and what of it must still *)
(* be in the tables.  A step of another request keeps it, because all it   *)
(* can do to the tables is in Frame: it adds rows with its own id, removes *)
(* only test cases, and neither revives a deleted problem nor publishes one*)
(* unseen.  What is left is ReqInv(q) for the request q that takes a step. *)
(***************************************************************************)
EXTENDS HttpApi, TLAPS

USE ApiAssumption

------------------------------------------------------------------------------
(* The inductive invariant *)

\* Steps before anything is written.
Early == {"idle", "limit", "find", "findName", "write", "read"}

Written(r) ==
  problem[r] # "absent" \/ \E row \in users \cup tests \cup subs : row.id = r

\* What a request names was there when it arrived.
WellFormed(r) ==
  at[r] # "idle" =>
    /\ Op(r) \in Ops
    /\ Op(r) = "createProblem" => On(r) \in {"draft", "published"}
    /\ Op(r) = "updateProblem" => On(r)[2] \in {"draft", "published"}
    /\ ProblemOf(request[r]) # None =>
         /\ ProblemOf(request[r]) \in Problems
         /\ problem[ProblemOf(request[r])] # "absent"

StepOfRoute(r) ==
  /\ at[r] = "limit" => Op(r) = "submit"
  /\ at[r] = "findName" => Op(r) = "register"
  /\ at[r] = "read" => Op(r) = "listTests"
  /\ at[r] = "addJob" => Op(r) = "submit"
  /\ at[r] = "purge" => Op(r) \in {"createProblem", "updateProblem", "deleteProblem",
                                   "createTest", "updateTest", "deleteTest"}

\* Nothing is written early, nor by a request that failed unbroken.
WrittenInv(r) ==
  /\ at[r] \in Early => ~Written(r)
  /\ at[r] = "done" /\ ~Acknowledged(r) /\ r \notin broke => ~Written(r)

Stored(r) == [id |-> r, by |-> By(r), problem |-> On(r)] \in subs

SubmissionInv(r) ==
  /\ at[r] = "addJob" \/ (Acknowledged(r) /\ Op(r) = "submit") => Stored(r)
  /\ Acknowledged(r) /\ Op(r) = "submit" => r \in queued

\* A request in flight whose problem is published has been exposed to it.
ExposedInv(r) ==
  /\ InFlight(r) /\ Visible(ProblemOf(request[r])) => r \in exposed
  /\ at[r] = "write" /\ Op(r) = "submit" /\ ~IsAdmin(By(r)) => r \in exposed

\* Beyond authenticate there is a token.
TokenInv(r) ==
  (InFlight(r) \/ Acknowledged(r)) /\ NeedsToken(Op(r)) => By(r) # None

EffectInv(r) ==
  /\ Acknowledged(r) /\ Op(r) = "register" => \E u \in users : u.email = On(r)[1]
  /\ (at[r] = "purge" \/ Acknowledged(r)) /\ Op(r) = "deleteProblem" =>
       On(r) \in Problems /\ problem[On(r)] = "deleted"

KnownInv(r) == \A s \in known[r] : Acknowledged(s)

\* What request r has seen of those acknowledged before it.
SeenInv(r) ==
  at[r] = "done" /\ r \notin broke /\ answer[r] # 400 =>
    \A s \in known[r] :
      /\ Op(s) = "register" /\ Op(r) = "login" /\ On(r) = <<On(s)[1], TRUE>>
           => answer[r] = 200
      /\ Op(s) = "submit" /\ Op(r) = "getSubmission" /\ On(r) = s /\ By(r) = By(s)
           => answer[r] = 200
      /\ Op(s) = "submit" /\ Op(r) = "mySubmissions" /\ By(r) = By(s) => s \in got[r]

ReqInv(r) ==
  /\ WellFormed(r) /\ StepOfRoute(r) /\ WrittenInv(r) /\ SubmissionInv(r)
  /\ ExposedInv(r) /\ TokenInv(r) /\ EffectInv(r) /\ KnownInv(r) /\ SeenInv(r)

\* NoOrphans, of problems with an id.
RowsBelong ==
  \A row \in tests \cup subs : row.problem \in Problems /\ Exists(row.problem)

HttpInv ==
  /\ TypeOK /\ known \in [Requests -> SUBSET Requests]
  /\ OneAccountEach /\ RowsBelong /\ SubmittedWhilePublished
  /\ \A r \in Requests : ReqInv(r)

------------------------------------------------------------------------------
(* What a step of one request can do to the others *)

\* The rows of request q are the only ones that it adds.
RowsOf(q) ==
  /\ users \subseteq users'
  /\ \A u \in users' \ users : u.id = q /\ u.role = "USER"
  /\ subs \subseteq subs' /\ \A x \in subs' \ subs : x.id = q
  /\ \A t \in tests' \ tests : t.id = q
  /\ queued \subseteq queued'

ProblemsOf(q) ==
  \A p \in Problems :
    /\ problem[p] = "absent" /\ p # q => problem'[p] = "absent"
    /\ problem[p] # "absent" => problem'[p] # "absent"
    /\ problem[p] = "deleted" => problem'[p] = "deleted"

\* Whoever publishes a problem exposes it to the requests in flight.
ExposesTo(q) ==
  /\ exposed \subseteq exposed'
  /\ \A r \in Requests :
       InFlight(r) /\ WellFormed(r) /\ Visible(ProblemOf(request[r]))' =>
         Visible(ProblemOf(request[r])) \/ r \in exposed'

Frame(q) ==
  /\ at[q] \notin Ended
  /\ \A r \in Requests \ {q} :
       /\ request'[r] = request[r] /\ at'[r] = at[r] /\ answer'[r] = answer[r]
       /\ known'[r] = known[r] /\ got'[r] = got[r] /\ (r \in broke' <=> r \in broke)
  /\ RowsOf(q) /\ ProblemsOf(q) /\ ExposesTo(q)

\* A step of request q keeps what is known of every other request.
LEMMA FrameKeeps ==
  ASSUME HttpInv, NEW q \in Requests, Frame(q), NEW r \in Requests, r # q
  PROVE  ReqInv(r)'
<1>1. /\ request'[r] = request[r] /\ at'[r] = at[r] /\ answer'[r] = answer[r]
      /\ known'[r] = known[r] /\ got'[r] = got[r] /\ (r \in broke' <=> r \in broke)
  BY DEF Frame
<1>2. ReqInv(r) /\ known[r] \subseteq Requests
  BY DEF HttpInv
<1>3. RowsOf(q) /\ ProblemsOf(q) /\ ExposesTo(q)
  BY DEF Frame
<1>4. WellFormed(r)'
  BY <1>1, <1>2, <1>3 DEF ReqInv, WellFormed, Op, On, ProblemOf, ProblemsOf
<1>5. StepOfRoute(r)'
  BY <1>1, <1>2 DEF ReqInv, StepOfRoute, Op
<1>6. WrittenInv(r)'
  <2>1. ~Written(r) => ~Written(r)'
    BY <1>3 DEF Written, RowsOf, ProblemsOf, Problems
  <2> QED
    BY <1>1, <1>2, <2>1 DEF ReqInv, WrittenInv, Acknowledged
<1>7. SubmissionInv(r)'
  BY <1>1, <1>2, <1>3 DEF ReqInv, SubmissionInv, Stored, Acknowledged, RowsOf, Op, By, On
<1>8. ExposedInv(r)'
  <2>1. ExposedInv(r) /\ WellFormed(r)
    BY <1>2 DEF ReqInv
  <2>2. IsAdmin(By(r))' <=> IsAdmin(By(r))
    <3>1. By(r)' = By(r)
      BY <1>1 DEF By
    <3>2. IsAdmin(By(r))' <=> \E u \in users' : u.id = By(r) /\ u.role = "ADMIN"
      BY <3>1 DEF IsAdmin
    <3> QED
      BY <1>3, <3>2 DEF IsAdmin, RowsOf
  <2>3. InFlight(r)' <=> InFlight(r)
    BY <1>1 DEF InFlight
  <2>4. InFlight(r) /\ Visible(ProblemOf(request[r]))' =>
          Visible(ProblemOf(request[r])) \/ r \in exposed'
    BY <1>3, <2>1 DEF ExposesTo
  <2>5. exposed \subseteq exposed'
    BY <1>3 DEF ExposesTo
  <2>6. InFlight(r)' /\ Visible(ProblemOf(request[r]))' => r \in exposed'
    BY <2>1, <2>3, <2>4, <2>5 DEF ExposedInv
  <2>7. (at[r] = "write" /\ Op(r) = "submit" /\ ~IsAdmin(By(r)))' => r \in exposed'
    BY <1>1, <2>1, <2>2, <2>5 DEF ExposedInv, Op
  <2> QED
    BY <2>6, <2>7 DEF ExposedInv
<1>9. TokenInv(r)'
  BY <1>1, <1>2 DEF ReqInv, TokenInv, InFlight, Acknowledged, Op, By
<1>10. EffectInv(r)'
  <2>1. EffectInv(r) /\ Op(r)' = Op(r) /\ On(r)' = On(r)
        /\ (Acknowledged(r)' <=> Acknowledged(r))
    BY <1>1, <1>2 DEF ReqInv, Op, On, Acknowledged
  <2> QED
    BY <1>1, <1>3, <2>1 DEF EffectInv, RowsOf, ProblemsOf
<1>11. \A s \in known[r] : s # q /\ s \in Requests
  <2>1. answer[q] = 0
    <3>1. at[q] # "done" /\ (at[q] = "done" <=> answer[q] # 0)
      BY DEF Frame, Ended, HttpInv, TypeOK
    <3> QED
      BY <3>1
  <2>2. \A s \in known[r] : answer[s] \in {200, 201}
    BY <1>2 DEF ReqInv, KnownInv, Acknowledged
  <2> QED
    BY <1>2, <2>1, <2>2
<1>12. KnownInv(r)'
  BY <1>1, <1>2, <1>11 DEF ReqInv, KnownInv, Acknowledged, Frame
<1>13. SeenInv(r)'
  <2>1. \A s \in known[r] : request'[s] = request[s]
    BY <1>11 DEF Frame
  <2>2. SeenInv(r)
    BY <1>2 DEF ReqInv
  <2> SUFFICES ASSUME (at[r] = "done" /\ r \notin broke /\ answer[r] # 400)',
                      NEW s \in known'[r]
               PROVE  /\ (Op(s) = "register" /\ Op(r) = "login" /\ On(r) = <<On(s)[1], TRUE>>
                            => answer[r] = 200)'
                      /\ (Op(s) = "submit" /\ Op(r) = "getSubmission" /\ On(r) = s
                           /\ By(r) = By(s) => answer[r] = 200)'
                      /\ (Op(s) = "submit" /\ Op(r) = "mySubmissions" /\ By(r) = By(s)
                            => s \in got[r])'
    BY DEF SeenInv
  <2>3. at[r] = "done" /\ r \notin broke /\ answer[r] # 400 /\ s \in known[r]
    BY <1>1
  <2>4. /\ Op(s) = "register" /\ Op(r) = "login" /\ On(r) = <<On(s)[1], TRUE>>
           => answer[r] = 200
        /\ Op(s) = "submit" /\ Op(r) = "getSubmission" /\ On(r) = s /\ By(r) = By(s)
           => answer[r] = 200
        /\ Op(s) = "submit" /\ Op(r) = "mySubmissions" /\ By(r) = By(s) => s \in got[r]
    BY <2>2, <2>3 DEF SeenInv
  <2>5. request'[s] = request[s] /\ request'[r] = request[r]
    BY <1>1, <2>1, <2>3
  <2>6. (Op(s) = "register" /\ Op(r) = "login" /\ On(r) = <<On(s)[1], TRUE>>
           => answer[r] = 200)'
    BY <1>1, <2>4, <2>5 DEF Op, On, By
  <2>7. (Op(s) = "submit" /\ Op(r) = "getSubmission" /\ On(r) = s /\ By(r) = By(s)
           => answer[r] = 200)'
    BY <1>1, <2>4, <2>5 DEF Op, On, By
  <2>8. (Op(s) = "submit" /\ Op(r) = "mySubmissions" /\ By(r) = By(s) => s \in got[r])'
    BY <1>1, <2>4, <2>5 DEF Op, On, By
  <2> QED
    BY <2>6, <2>7, <2>8
<1> QED
  BY <1>4, <1>5, <1>6, <1>7, <1>8, <1>9, <1>10, <1>12, <1>13 DEF ReqInv

------------------------------------------------------------------------------
(* Steps that write no table *)

Refusals == {400, 401, 403, 404, 409, 429, 500}

Successes == {200, 201}

\* Routes that only read.
Readers == {"login", "me", "listProblems", "getProblem", "listTests",
            "getSubmission", "mySubmissions"}

\* What every step of a request under way that writes no table has in common.
Quiet(q) ==
  /\ InFlight(q)
  /\ UNCHANGED <<io, tables>>
  /\ broke \subseteq broke' /\ broke' \subseteq broke \cup {q}
  /\ faults' \in 0..MaxFaults
  /\ got' \in [Requests -> SUBSET {x.id : x \in subs}]
  /\ \A r \in Requests \ {q} : got'[r] = got[r]

\* A request under way has no answer yet.
LEMMA Unanswered ==
  ASSUME HttpInv, NEW q \in Requests, at[q] \notin Ended
  PROVE  answer[q] = 0
<1>1. at[q] # "done" /\ (at[q] = "done" <=> answer[q] # 0)
  BY DEF Ended, HttpInv, TypeOK
<1> QED
  BY <1>1

\* A quiet step leaves the tables and the other requests alone.
LEMMA QuietFrame ==
  ASSUME HttpInv, NEW q \in Requests, Quiet(q), NEW step, NEW code,
         at' = [at EXCEPT ![q] = step], answer' = [answer EXCEPT ![q] = code]
  PROVE  /\ Frame(q) /\ at'[q] = step /\ answer'[q] = code
         /\ request'[q] = request[q] /\ known'[q] = known[q]
         /\ OneAccountEach' /\ RowsBelong' /\ SubmittedWhilePublished'
<1>1. /\ UNCHANGED <<request, exposed, known, users, problem, tests, subs, queued>>
  BY DEF Quiet, io, tables
<1>0. DOMAIN at = Requests /\ DOMAIN answer = Requests
  BY DEF HttpInv, TypeOK
<1>2. RowsOf(q) /\ ProblemsOf(q)
  BY <1>1 DEF RowsOf, ProblemsOf
<1>3. ExposesTo(q)
  BY <1>1 DEF ExposesTo, Visible
<1>4. at[q] \notin Ended
  BY DEF Quiet, InFlight
<1>5. Frame(q)
  BY <1>0, <1>1, <1>2, <1>3, <1>4 DEF Frame, Quiet
<1>6. OneAccountEach' /\ RowsBelong' /\ SubmittedWhilePublished'
  BY <1>1 DEF HttpInv, OneAccountEach, RowsBelong, SubmittedWhilePublished, Exists, IsAdmin
<1> QED
  BY <1>0, <1>1, <1>5, <1>6

\* It moves its request to a step, or to an answer.
LEMMA QuietType ==
  ASSUME HttpInv, NEW q \in Requests, Quiet(q),
         NEW step \in {"find", "findName", "write", "read", "addJob", "purge", "done"},
         NEW code \in {0, 200, 201} \cup Refusals, step = "done" <=> code # 0,
         at' = [at EXCEPT ![q] = step], answer' = [answer EXCEPT ![q] = code]
  PROVE  TypeOK' /\ known' \in [Requests -> SUBSET Requests]
<1>1. /\ UNCHANGED <<request, exposed, known, users, problem, tests, subs, queued>>
      /\ known \in [Requests -> SUBSET Requests]
  BY DEF Quiet, io, tables, HttpInv
<1>2. TypeOK /\ at[q] # "idle"
  BY DEF HttpInv, Quiet, InFlight
<1>3. at' \in [Requests -> {"idle", "limit", "find", "findName", "write", "read",
                            "addJob", "purge"} \cup Ended]
  <2>1. step \in {"idle", "limit", "find", "findName", "write", "read",
                  "addJob", "purge"} \cup Ended
    BY DEF Ended
  <2> QED
    BY <1>2, <2>1 DEF TypeOK
<1>4. answer' \in [Requests -> {0, 200, 201, 400, 401, 403, 404, 409, 429, 500}]
  BY <1>2 DEF TypeOK, Refusals
<1>5. \A r \in Requests : at'[r] = "done" <=> answer'[r] # 0
  BY <1>2 DEF TypeOK
<1>6. \A r \in Requests : at'[r] # "idle" => request'[r].op \in Ops
  BY <1>1, <1>2 DEF TypeOK
<1>7. /\ DOMAIN request' = Requests /\ got' \in [Requests -> SUBSET {x.id : x \in subs'}]
      /\ faults' \in 0..MaxFaults
  BY <1>1, <1>2 DEF TypeOK, Quiet
<1>8. /\ \A u \in users' : u.id \in {v.id : v \in Seeds} \cup Requests
                           /\ u.role \in {"USER", "ADMIN"}
      /\ problem' \in [Problems -> {"absent", "draft", "published", "deleted"}]
  BY <1>1, <1>2 DEF TypeOK
<1> QED
  BY <1>1, <1>3, <1>4, <1>5, <1>6, <1>7, <1>8 DEF TypeOK

\* The invariant follows from the frame and the request that takes the step.
LEMMA StepKeeps ==
  ASSUME HttpInv, NEW q \in Requests, Frame(q), ReqInv(q)',
         TypeOK', known' \in [Requests -> SUBSET Requests],
         OneAccountEach', RowsBelong', SubmittedWhilePublished'
  PROVE  HttpInv'
<1>1. \A r \in Requests : ReqInv(r)'
  <2> SUFFICES ASSUME NEW r \in Requests PROVE ReqInv(r)'
    OBVIOUS
  <2>1. CASE r = q
    BY <2>1
  <2>2. CASE r # q
    BY <2>2, FrameKeeps
  <2> QED
    BY <2>1, <2>2
<1> QED
  BY <1>1 DEF HttpInv

\* What is acknowledged stays acknowledged.
LEMMA KnownKept ==
  ASSUME HttpInv, NEW q \in Requests, Frame(q), known'[q] = known[q]
  PROVE  KnownInv(q)'
<1>1. answer[q] = 0
  BY Unanswered DEF Frame
<1>2. \A s \in known[q] : s \in Requests /\ s # q /\ answer[s] \in {200, 201}
  BY <1>1 DEF HttpInv, ReqInv, KnownInv, Acknowledged
<1> QED
  BY <1>2 DEF KnownInv, Acknowledged, Frame

\* A request that is refused, or whose connection breaks, early.
LEMMA RefusedInv ==
  ASSUME HttpInv, NEW q \in Requests, Quiet(q), at[q] \in Early,
         NEW code \in Refusals, Answer(q, code), SeenInv(q)'
  PROVE  HttpInv'
<1>1. at' = [at EXCEPT ![q] = "done"] /\ answer' = [answer EXCEPT ![q] = code]
      /\ code # 0 /\ code \notin {200, 201}
  BY DEF Answer, Refusals
<1>2. TypeOK' /\ known' \in [Requests -> SUBSET Requests]
  BY <1>1, QuietType
<1>3. /\ Frame(q) /\ at'[q] = "done" /\ answer'[q] = code
      /\ request'[q] = request[q] /\ known'[q] = known[q]
      /\ OneAccountEach' /\ RowsBelong' /\ SubmittedWhilePublished'
  BY <1>1, QuietFrame
<1>4. /\ UNCHANGED <<request, exposed, known, users, problem, tests, subs, queued>>
      /\ at[q] # "idle" /\ ReqInv(q) /\ ~Acknowledged(q)'
  BY <1>1, <1>3 DEF Quiet, InFlight, io, tables, HttpInv, Acknowledged
<1>5. WellFormed(q)'
  BY <1>3, <1>4 DEF ReqInv, WellFormed, Op, On
<1>6. StepOfRoute(q)' /\ ExposedInv(q)' /\ TokenInv(q)' /\ SubmissionInv(q)'
      /\ EffectInv(q)'
  BY <1>3, <1>4 DEF StepOfRoute, ExposedInv, TokenInv, SubmissionInv, EffectInv,
                    InFlight, Ended
<1>7. WrittenInv(q)'
  <2>1. ~Written(q)
    BY <1>4 DEF ReqInv, WrittenInv
  <2>2. ~Written(q)'
    BY <1>4, <2>1 DEF Written
  <2> QED
    BY <2>2 DEF WrittenInv
<1>8. KnownInv(q)'
  BY <1>3, KnownKept
<1>9. ReqInv(q)'
  BY <1>5, <1>6, <1>7, <1>8 DEF ReqInv
<1> QED
  BY <1>2, <1>3, <1>9, StepKeeps

\* A request that goes on to its next query.
LEMMA ProceedsInv ==
  ASSUME HttpInv, NEW q \in Requests, Quiet(q), at[q] \in Early,
         NEW step \in {"find", "findName", "write", "read"}, Goto(q, step),
         step = "findName" => Op(q) = "register",
         step = "read" => Op(q) = "listTests",
         step = "write" /\ Op(q) = "submit" /\ ~IsAdmin(By(q)) => q \in exposed
  PROVE  HttpInv'
<1>1. PICK code \in {0, 200, 201} \cup Refusals :
        /\ code = 0 /\ at' = [at EXCEPT ![q] = step]
        /\ answer' = [answer EXCEPT ![q] = code]
  <2>1. answer[q] = 0
    BY Unanswered DEF Quiet, InFlight
  <2> QED
    BY <2>1 DEF Goto, HttpInv, TypeOK
<1>2. TypeOK' /\ known' \in [Requests -> SUBSET Requests]
  <2>1. step # "done"
    OBVIOUS
  <2> QED
    BY <1>1, <2>1, QuietType
<1>3. /\ Frame(q) /\ at'[q] = step /\ answer'[q] = code
      /\ request'[q] = request[q] /\ known'[q] = known[q]
      /\ OneAccountEach' /\ RowsBelong' /\ SubmittedWhilePublished'
  <2>1. at' = [at EXCEPT ![q] = step] /\ answer' = [answer EXCEPT ![q] = code]
    BY <1>1
  <2> QED
    BY <2>1, QuietFrame
<1>4. /\ UNCHANGED <<request, exposed, known, users, problem, tests, subs, queued>>
      /\ at[q] # "idle" /\ ReqInv(q) /\ ~Acknowledged(q)' /\ InFlight(q)
  BY <1>1, <1>3 DEF Quiet, InFlight, io, tables, HttpInv, Acknowledged
<1>5. WellFormed(q)'
  BY <1>3, <1>4 DEF ReqInv, WellFormed, Op, On
<1>6. StepOfRoute(q)'
  BY <1>3, <1>4 DEF StepOfRoute, Op
<1>7. WrittenInv(q)'
  <2>1. ~Written(q)
    BY <1>4 DEF ReqInv, WrittenInv
  <2>2. ~Written(q)'
    BY <1>4, <2>1 DEF Written
  <2> QED
    BY <2>2 DEF WrittenInv
<1>8. SubmissionInv(q)' /\ EffectInv(q)' /\ SeenInv(q)'
  BY <1>3, <1>4 DEF SubmissionInv, EffectInv, SeenInv
<1>9. ExposedInv(q)'
  BY <1>3, <1>4 DEF ReqInv, ExposedInv, Visible, IsAdmin, Op, By
<1>10. TokenInv(q)'
  BY <1>3, <1>4 DEF ReqInv, TokenInv, Op, By
<1>11. KnownInv(q)'
  BY <1>3, KnownKept
<1>12. ReqInv(q)'
  BY <1>5, <1>6, <1>7, <1>8, <1>9, <1>10, <1>11 DEF ReqInv
<1> QED
  BY <1>2, <1>3, <1>12, StepKeeps

\* A request is answered with success.
LEMMA AnsweredInv ==
  ASSUME HttpInv, NEW q \in Requests, Quiet(q), NEW code \in Successes,
         Answer(q, code), SubmissionInv(q)', EffectInv(q)', SeenInv(q)'
  PROVE  HttpInv'
<1>1. /\ at' = [at EXCEPT ![q] = "done"] /\ answer' = [answer EXCEPT ![q] = code]
      /\ code # 0
  BY DEF Answer, Successes
<1>2. TypeOK' /\ known' \in [Requests -> SUBSET Requests]
  <2>1. code \in {0, 200, 201} \cup Refusals
    BY DEF Successes
  <2> QED
    BY <1>1, <2>1, QuietType
<1>3. /\ Frame(q) /\ at'[q] = "done" /\ answer'[q] = code
      /\ request'[q] = request[q] /\ known'[q] = known[q]
      /\ OneAccountEach' /\ RowsBelong' /\ SubmittedWhilePublished'
  BY <1>1, QuietFrame
<1>4. /\ UNCHANGED <<request, exposed, known, users, problem, tests, subs, queued>>
      /\ at[q] # "idle" /\ ReqInv(q) /\ Acknowledged(q)' /\ InFlight(q)
  BY <1>1, <1>3 DEF Quiet, InFlight, io, tables, HttpInv, Acknowledged, Successes
<1>5. WellFormed(q)'
  BY <1>3, <1>4 DEF ReqInv, WellFormed, Op, On
<1>6. StepOfRoute(q)' /\ WrittenInv(q)' /\ ExposedInv(q)'
  BY <1>3, <1>4 DEF StepOfRoute, WrittenInv, ExposedInv, InFlight, Ended, Early
<1>7. TokenInv(q)'
  BY <1>3, <1>4 DEF ReqInv, TokenInv, Op, By
<1>8. KnownInv(q)'
  BY <1>3, KnownKept
<1>9. ReqInv(q)'
  BY <1>5, <1>6, <1>7, <1>8 DEF ReqInv
<1> QED
  BY <1>2, <1>3, <1>9, StepKeeps

\* A route that only reads promises nothing but what it saw.
LEMMA ReadsInv ==
  ASSUME HttpInv, NEW q \in Requests, Quiet(q),
         Op(q) \in Readers, Answer(q, 200), SeenInv(q)'
  PROVE  HttpInv'
<1>1. Op(q)' \in Readers /\ at'[q] = "done"
  BY DEF Op, Quiet, io, Answer, HttpInv, TypeOK
<1>2. SubmissionInv(q)' /\ EffectInv(q)'
  BY <1>1 DEF SubmissionInv, EffectInv, Readers
<1>3. PICK code \in Successes : Answer(q, code)
  BY DEF Successes
<1> QED
  BY <1>2, <1>3, AnsweredInv

\* Only sign-ins and the two reads of submissions have something to see.
LEMMA SeenOther ==
  ASSUME NEW q \in Requests, request'[q] = request[q],
         \/ q \in broke' \/ answer'[q] = 400
         \/ Op(q) \notin {"login", "getSubmission", "mySubmissions"}
  PROVE  SeenInv(q)'
BY DEF SeenInv, Op

\* A step that leaves io, tables and got alone is quiet.
LEMMA QuietStep ==
  ASSUME HttpInv, NEW q \in Requests, InFlight(q), UNCHANGED <<io, tables, got>>,
         NoFault \/ Fault(q)
  PROVE  Quiet(q) /\ request'[q] = request[q]
<1>1. faults \in 0..MaxFaults /\ got \in [Requests -> SUBSET {x.id : x \in subs}]
  BY DEF HttpInv, TypeOK
<1>2. broke \subseteq broke' /\ broke' \subseteq broke \cup {q}
  BY DEF NoFault, Fault
<1>3. faults' \in 0..MaxFaults
  BY <1>1 DEF NoFault, Fault
<1> QED
  BY <1>1, <1>2, <1>3 DEF Quiet, io

\* The limiter refuses, or the body is validated.
LEMMA LimitInv ==
  ASSUME HttpInv, NEW q \in Requests, Limit(q)
  PROVE  HttpInv'
<1>1. at[q] \in Early /\ InFlight(q)
  BY DEF Limit, Early, InFlight, Ended
<1>2. Op(q) = "submit"
  BY DEF Limit, HttpInv, ReqInv, StepOfRoute
<1>3. Quiet(q) /\ request'[q] = request[q]
  BY <1>1, QuietStep DEF Limit
<1>4. SeenInv(q)'
  BY <1>2, <1>3, SeenOther
<1>5. Answer(q, 429) \/ Answer(q, 400) \/ Goto(q, "find")
  BY <1>2 DEF Limit, Validate, FirstStep, Op
<1>6. 429 \in Refusals /\ 400 \in Refusals
  BY DEF Refusals
<1> QED
  BY <1>1, <1>3, <1>4, <1>5, <1>6, RefusedInv, ProceedsInv

\* The two checks of a registration.
LEMMA RegisterFindsInv ==
  ASSUME HttpInv, NEW q \in Requests,
         RegisterFindEmail(q) \/ RegisterFindUsername(q)
  PROVE  HttpInv'
<1>1. at[q] \in Early /\ InFlight(q)
  BY DEF RegisterFindEmail, RegisterFindUsername, Early, InFlight, Ended
<1>2. Op(q) = "register"
  BY DEF RegisterFindEmail, RegisterFindUsername, HttpInv, ReqInv, StepOfRoute
<1>3. Quiet(q) /\ request'[q] = request[q]
  BY <1>1, QuietStep DEF RegisterFindEmail, RegisterFindUsername
<1>4. SeenInv(q)'
  BY <1>2, <1>3, SeenOther
<1>5. Answer(q, 409) \/ Goto(q, "findName") \/ Goto(q, "write")
  BY DEF RegisterFindEmail, RegisterFindUsername
<1>6. 409 \in Refusals
  BY DEF Refusals
<1> QED
  BY <1>1, <1>2, <1>3, <1>4, <1>5, <1>6, RefusedInv, ProceedsInv

\* An account that was created is found.
LEMMA LoginInv ==
  ASSUME HttpInv, NEW q \in Requests, Login(q)
  PROVE  HttpInv'
<1>1. at[q] \in Early /\ InFlight(q) /\ Op(q) = "login" /\ Op(q) \in Readers
  BY DEF Login, Early, InFlight, Ended, Readers
<1>2. Quiet(q) /\ request'[q] = request[q] /\ UNCHANGED <<request, known>>
  BY <1>1, QuietStep DEF Login, io
<1>3. CASE Answer(q, 200)
  <2>1. answer'[q] = 200
    BY <1>3 DEF Answer, HttpInv, TypeOK
  <2>2. SeenInv(q)'
    BY <1>1, <1>2, <2>1 DEF SeenInv, Op
  <2> QED
    BY <1>1, <1>2, <1>3, <2>2, ReadsInv
<1>4. CASE ~((\E u \in users : u.email = On(q)[1]) /\ On(q)[2]) /\ Answer(q, 401)
  <2>1. SeenInv(q)'
    <3>1. ASSUME NEW s \in known[q], Op(s) = "register", On(q) = <<On(s)[1], TRUE>>
          PROVE  FALSE
      <4>1. Acknowledged(s) /\ s \in Requests
        BY DEF HttpInv, ReqInv, KnownInv
      <4>2. \E u \in users : u.email = On(s)[1]
        BY <3>1, <4>1 DEF HttpInv, ReqInv, EffectInv
      <4>3. On(q)[1] = On(s)[1] /\ On(q)[2] = TRUE
        BY <3>1
      <4> QED
        BY <1>4, <4>2, <4>3
    <3> QED
      BY <1>1, <1>2, <3>1 DEF SeenInv, Op, On
  <2>2. 401 \in Refusals
    BY DEF Refusals
  <2> QED
    BY <1>1, <1>2, <1>4, <2>1, <2>2, RefusedInv
<1> QED
  BY <1>3, <1>4 DEF Login

\* The other reads and the lookups before a write.
LEMMA LookupsInv ==
  ASSUME HttpInv, NEW q \in Requests, GetCurrentUser(q) \/ FindFirst(q) \/ Read(q)
  PROVE  HttpInv'
<1>1. at[q] \in Early /\ InFlight(q)
  BY DEF GetCurrentUser, FindFirst, Read, Early, InFlight, Ended
<1>2. Op(q) \in {"me", "listProblems", "getProblem", "updateProblem", "deleteProblem",
                "createTest", "updateTest", "deleteTest", "listTests"}
  BY DEF GetCurrentUser, FindFirst, Read, HttpInv, ReqInv, StepOfRoute
<1>3. Quiet(q) /\ request'[q] = request[q]
  BY <1>1, QuietStep DEF GetCurrentUser, FindFirst, Read
<1>4. SeenInv(q)'
  BY <1>2, <1>3, SeenOther
<1>5. \/ Answer(q, 404)
      \/ Answer(q, 200) /\ Op(q) \in Readers
      \/ Goto(q, "read") /\ Op(q) = "listTests"
      \/ Goto(q, "write") /\ Op(q) # "submit"
  <2>1. CASE GetCurrentUser(q)
    BY <2>1 DEF GetCurrentUser, Readers
  <2>2. CASE FindFirst(q)
    BY <1>2, <2>2 DEF FindFirst
  <2>3. CASE Read(q)
    <3>1. at[q] = "read" => Op(q) = "listTests"
      BY DEF HttpInv, ReqInv, StepOfRoute
    <3> QED
      BY <2>3, <3>1 DEF Read, Readers
  <2> QED
    BY <2>1, <2>2, <2>3
<1>6. 404 \in Refusals
  BY DEF Refusals
<1> QED
  BY <1>1, <1>3, <1>4, <1>5, <1>6, RefusedInv, ReadsInv, ProceedsInv

\* Whoever may submit is an admin or has been exposed to the problem.
LEMMA SubmitFindInv ==
  ASSUME HttpInv, NEW q \in Requests, SubmitFind(q)
  PROVE  HttpInv'
<1>1. at[q] \in Early /\ InFlight(q) /\ Op(q) = "submit"
  BY DEF SubmitFind, Early, InFlight, Ended
<1>2. Quiet(q) /\ request'[q] = request[q]
  BY <1>1, QuietStep DEF SubmitFind
<1>3. SeenInv(q)'
  BY <1>1, <1>2, SeenOther
<1>4. MaySubmit(q) /\ ~IsAdmin(By(q)) => q \in exposed
  <2>1. ProblemOf(request[q]) = On(q)
    BY <1>1 DEF ProblemOf, Op, On
  <2>2. InFlight(q) /\ Visible(ProblemOf(request[q])) => q \in exposed
    BY DEF HttpInv, ReqInv, ExposedInv
  <2> QED
    BY <1>1, <2>1, <2>2 DEF MaySubmit
<1>5. 404 \in Refusals
  BY DEF Refusals
<1> QED
  BY <1>1, <1>2, <1>3, <1>4, <1>5, RefusedInv, ProceedsInv DEF SubmitFind

\* A submission that was acknowledged is found, and may be read by its author.
LEMMA GetSubmissionInv ==
  ASSUME HttpInv, NEW q \in Requests, GetSubmission(q)
  PROVE  HttpInv'
<1>1. at[q] \in Early /\ InFlight(q) /\ Op(q) = "getSubmission" /\ Op(q) \in Readers
  BY DEF GetSubmission, Early, InFlight, Ended, Readers
<1>2. Quiet(q) /\ request'[q] = request[q] /\ UNCHANGED <<request, known>>
  BY <1>1, QuietStep DEF GetSubmission, io
<1>3. CASE Answer(q, 200)
  <2>1. answer'[q] = 200
    BY <1>3 DEF Answer, HttpInv, TypeOK
  <2>2. SeenInv(q)'
    BY <1>1, <1>2, <2>1 DEF SeenInv, Op
  <2> QED
    BY <1>1, <1>2, <1>3, <2>2, ReadsInv
<1>4. ASSUME ~\E x \in subs : x.id = On(q) /\ MayRead(q, x),
             NEW code \in {403, 404}, Answer(q, code)
      PROVE  HttpInv'
  <2>1. SeenInv(q)'
    <3>1. ASSUME NEW s \in known[q], Op(s) = "submit", On(q) = s, By(q) = By(s)
          PROVE  FALSE
      <4>1. Acknowledged(s) /\ s \in Requests
        BY DEF HttpInv, ReqInv, KnownInv
      <4>2. Stored(s)
        BY <3>1, <4>1 DEF HttpInv, ReqInv, SubmissionInv
      <4> QED
        BY <1>4, <3>1, <4>2 DEF Stored, MayRead
    <3> QED
      BY <1>1, <1>2, <3>1 DEF SeenInv, Op, On, By
  <2>2. code \in Refusals
    BY DEF Refusals
  <2> QED
    BY <1>1, <1>2, <1>4, <2>1, <2>2, RefusedInv
<1>5. \/ Answer(q, 200)
      \/ ~(\E x \in subs : x.id = On(q) /\ MayRead(q, x)) /\ Answer(q, 404)
      \/ ~(\E x \in subs : x.id = On(q) /\ MayRead(q, x)) /\ Answer(q, 403)
  BY DEF GetSubmission
<1> QED
  BY <1>3, <1>4, <1>5

\* An acknowledged submission is in its author's history.
LEMMA GetUserSubmissionsInv ==
  ASSUME HttpInv, NEW q \in Requests, GetUserSubmissions(q)
  PROVE  HttpInv'
<1>1. at[q] \in Early /\ InFlight(q) /\ Op(q) = "mySubmissions" /\ Op(q) \in Readers
  BY DEF GetUserSubmissions, Early, InFlight, Ended, Readers
<1>2. /\ got \in [Requests -> SUBSET {x.id : x \in subs}]
      /\ got' = [got EXCEPT ![q] = OwnSubmissions(q)]
      /\ OwnSubmissions(q) \subseteq {x.id : x \in subs}
  BY DEF GetUserSubmissions, HttpInv, TypeOK, OwnSubmissions
<1>3. got' \in [Requests -> SUBSET {x.id : x \in subs}] /\ got'[q] = OwnSubmissions(q)
      /\ \A r \in Requests \ {q} : got'[r] = got[r]
  BY <1>2
<1>4. UNCHANGED <<io, tables>> /\ faults' \in 0..MaxFaults /\ UNCHANGED broke
  BY DEF GetUserSubmissions, NoFault, HttpInv, TypeOK
<1>5. Quiet(q)
  BY <1>1, <1>3, <1>4 DEF Quiet
<1>6. request' = request /\ known' = known
  BY <1>4 DEF io
<1>7. \A s \in known[q] : Op(s) = "submit" /\ By(q) = By(s) => s \in got'[q]
  <2> SUFFICES ASSUME NEW s \in known[q], Op(s) = "submit", By(q) = By(s)
               PROVE  s \in got'[q]
    OBVIOUS
  <2>1. Acknowledged(s) /\ s \in Requests
    BY DEF HttpInv, ReqInv, KnownInv
  <2>2. Stored(s)
    BY <2>1 DEF HttpInv, ReqInv, SubmissionInv
  <2> QED
    BY <1>3, <2>2 DEF Stored, OwnSubmissions
<1>8. SeenInv(q)'
  BY <1>1, <1>6, <1>7 DEF SeenInv, Op, By
<1> QED
  BY <1>1, <1>5, <1>8, ReadsInv DEF GetUserSubmissions

\* A query that fails breaks its request.
LEMMA QueryFailsInv ==
  ASSUME HttpInv, NEW q \in Requests, QueryFails(q)
  PROVE  HttpInv'
<1>1. at[q] \in Early /\ InFlight(q) /\ q \in broke'
  BY DEF QueryFails, Early, InFlight, Ended, Fault
<1>2. Quiet(q) /\ request'[q] = request[q]
  BY <1>1, QuietStep DEF QueryFails
<1>3. SeenInv(q)'
  BY <1>1, <1>2, SeenOther
<1>4. 500 \in Refusals /\ Answer(q, 500)
  BY DEF Refusals, QueryFails, Throw
<1> QED
  BY <1>1, <1>2, <1>3, <1>4, RefusedInv

\* The write of a request that purges has been committed.
LEMMA PurgeInv ==
  ASSUME HttpInv, NEW q \in Requests, Purge(q)
  PROVE  HttpInv'
<1>1. InFlight(q) /\ at[q] = "purge"
  BY DEF Purge, InFlight, Ended
<1>2. Quiet(q) /\ request'[q] = request[q] /\ UNCHANGED problem
  BY <1>1, QuietStep DEF Purge, tables
<1>3. Op(q) \notin {"register", "submit", "login", "getSubmission", "mySubmissions"}
  BY <1>1 DEF HttpInv, ReqInv, StepOfRoute
<1>4. PICK code \in Successes : Answer(q, code)
  <2>1. Answer(q, 200) \/ Answer(q, 201)
    BY DEF Purge, Purged
  <2> QED
    BY <2>1 DEF Successes
<1>5. at'[q] = "done"
  BY <1>4 DEF Answer, HttpInv, TypeOK
<1>6. SeenInv(q)'
  BY <1>2, <1>3, SeenOther
<1>7. SubmissionInv(q)'
  BY <1>2, <1>3, <1>5 DEF SubmissionInv, Op
<1>8. EffectInv(q)'
  BY <1>1, <1>2, <1>3 DEF EffectInv, Op, On, HttpInv, ReqInv
<1> QED
  BY <1>2, <1>4, <1>6, <1>7, <1>8, AnsweredInv

------------------------------------------------------------------------------
(* Steps that write *)

\* The reply of a write arrives, or the connection breaks.
Outcome(q, step, code) ==
  /\ at' = [at EXCEPT ![q] = step] /\ answer' = [answer EXCEPT ![q] = code]
  /\ \/ NoFault /\ code # 500 /\ (step = "done" <=> code # 0)
     \/ Fault(q) /\ code = 500 /\ step = "done"

\* The two outcomes of a write that is followed by another step.
LEMMA CommittedOutcome ==
  ASSUME HttpInv, NEW q \in Requests, InFlight(q),
         NEW next \in {"purge", "addJob"}, Committed(q, next)
  PROVE  \E step \in {next, "done"}, code \in {0, 500} : Outcome(q, step, code)
<1>1. CASE Goto(q, next) /\ NoFault
  <2>1. PICK code \in {0, 500} : code = 0
    OBVIOUS
  <2>2. answer[q] = 0
    BY Unanswered DEF InFlight
  <2>3. answer' = [answer EXCEPT ![q] = code]
    BY <1>1, <2>1, <2>2 DEF Goto, HttpInv, TypeOK
  <2>4. Outcome(q, next, code)
    <3>1. code # 500 /\ (next = "done" <=> code # 0)
      BY <2>1
    <3>2. at' = [at EXCEPT ![q] = next] /\ NoFault
      BY <1>1 DEF Goto
    <3> QED
      BY <2>3, <3>1, <3>2 DEF Outcome
  <2> QED
    BY <2>4
<1>2. CASE Throw(q) /\ Fault(q)
  <2>1. PICK code \in {0, 500} : code = 500
    OBVIOUS
  <2>2. Outcome(q, "done", code)
    BY <1>2, <2>1 DEF Throw, Answer, Outcome
  <2> QED
    BY <2>2
<1> QED
  BY <1>1, <1>2 DEF Committed

\* The two outcomes of a write that is the last step.
LEMMA CommittedLastOutcome ==
  ASSUME NEW q \in Requests, CommittedLast(q, 201)
  PROVE  \E code \in {201, 500} : Outcome(q, "done", code)
<1>1. CASE Answer(q, 201) /\ NoFault
  <2>1. PICK code \in {201, 500} : code = 201
    OBVIOUS
  <2>2. Outcome(q, "done", code)
    BY <1>1, <2>1 DEF Answer, Outcome
  <2> QED
    BY <2>2
<1>2. CASE Throw(q) /\ Fault(q)
  <2>1. PICK code \in {201, 500} : code = 500
    OBVIOUS
  <2>2. Outcome(q, "done", code)
    BY <1>2, <2>1 DEF Throw, Answer, Outcome
  <2> QED
    BY <2>2
<1> QED
  BY <1>1, <1>2 DEF CommittedLast

\* Accounts and problems have their types.
TablesTyped ==
  /\ \A u \in users : u.id \in {v.id : v \in Seeds} \cup Requests
                      /\ u.role \in {"USER", "ADMIN"}
  /\ problem \in [Problems -> {"absent", "draft", "published", "deleted"}]

\* What is left to show of a step that writes: its rows, the constraints of the
\* tables, and what the request may promise afterwards.
LEMMA WriteKeeps ==
  ASSUME HttpInv, NEW q \in Requests, InFlight(q), UNCHANGED <<request, known, got>>,
         Op(q) \notin {"login", "getSubmission", "mySubmissions"},
         NEW step \in {"purge", "addJob", "done"}, NEW code \in {0, 201, 500},
         Outcome(q, step, code),
         RowsOf(q), ProblemsOf(q), ExposesTo(q), TablesTyped',
         OneAccountEach', RowsBelong', SubmittedWhilePublished',
         StepOfRoute(q)', SubmissionInv(q)', EffectInv(q)'
  PROVE  HttpInv'
<1>1. /\ at' = [at EXCEPT ![q] = step] /\ answer' = [answer EXCEPT ![q] = code]
      /\ step = "done" <=> code # 0
  BY DEF Outcome
<1>2. TypeOK /\ at[q] # "idle" /\ DOMAIN at = Requests /\ DOMAIN answer = Requests
  BY DEF HttpInv, TypeOK, InFlight
<1>3. at'[q] = step /\ answer'[q] = code
  BY <1>1, <1>2
<1>4. Frame(q)
  <2>1. \A r \in Requests \ {q} : r \in broke' <=> r \in broke
    BY DEF Outcome, NoFault, Fault
  <2>2. \A r \in Requests \ {q} : at'[r] = at[r] /\ answer'[r] = answer[r]
    BY <1>1, <1>2
  <2> QED
    BY <2>1, <2>2 DEF Frame, InFlight
<1>5. TypeOK'
  <2>1. at' \in [Requests -> {"idle", "limit", "find", "findName", "write", "read",
                              "addJob", "purge"} \cup Ended]
    <3>1. step \in {"idle", "limit", "find", "findName", "write", "read",
                    "addJob", "purge"} \cup Ended
      BY DEF Ended
    <3> QED
      BY <1>1, <1>2, <3>1 DEF TypeOK
  <2>2. answer' \in [Requests -> {0, 200, 201, 400, 401, 403, 404, 409, 429, 500}]
    BY <1>1, <1>2 DEF TypeOK
  <2>3. \A r \in Requests : at'[r] = "done" <=> answer'[r] # 0
    BY <1>1, <1>2 DEF TypeOK
  <2>4. DOMAIN request' = Requests /\ \A r \in Requests : at'[r] # "idle" => request'[r].op \in Ops
    BY <1>1, <1>2 DEF TypeOK
  <2>5. got' \in [Requests -> SUBSET {x.id : x \in subs'}]
    BY <1>2 DEF TypeOK, RowsOf
  <2>6. faults' \in 0..MaxFaults
    BY <1>2 DEF TypeOK, Outcome, NoFault, Fault
  <2> QED
    BY <2>1, <2>2, <2>3, <2>4, <2>5, <2>6 DEF TypeOK, TablesTyped
<1>6. ReqInv(q) /\ known' \in [Requests -> SUBSET Requests]
  BY DEF HttpInv
<1>7. WellFormed(q)'
  BY <1>2, <1>6 DEF ReqInv, WellFormed, Op, On, ProblemsOf
<1>8. WrittenInv(q)'
  BY <1>3 DEF WrittenInv, Early, Acknowledged, Outcome, Fault, NoFault
<1>9. ExposedInv(q)'
  <2>1. ExposedInv(q) /\ WellFormed(q)
    BY <1>6 DEF ReqInv
  <2>2. at'[q] # "write"
    BY <1>3
  <2>3. Visible(ProblemOf(request[q]))' => q \in exposed'
    BY <2>1 DEF ExposesTo, ExposedInv
  <2> QED
    BY <2>2, <2>3 DEF ExposedInv
<1>10. TokenInv(q)'
  BY <1>6 DEF ReqInv, TokenInv, Op, By
<1>11. KnownInv(q)'
  BY <1>4, KnownKept
<1>12. SeenInv(q)'
  BY SeenOther
<1>13. ReqInv(q)'
  BY <1>7, <1>8, <1>9, <1>10, <1>11, <1>12 DEF ReqInv
<1> QED
  BY <1>4, <1>5, <1>6, <1>13, StepKeeps

\* A write that is refused by the database, without effect.
LEMMA WriteThrowsInv ==
  ASSUME HttpInv, NEW q \in Requests, at[q] = "write", Throw(q), NoFault,
         UNCHANGED <<io, tables, got>>,
         Op(q) \notin {"login", "getSubmission", "mySubmissions"}
  PROVE  HttpInv'
<1>1. at[q] \in Early /\ InFlight(q)
  BY DEF Early, InFlight, Ended
<1>2. Quiet(q) /\ request'[q] = request[q]
  BY <1>1, QuietStep
<1>3. SeenInv(q)'
  BY <1>2, SeenOther
<1>4. 500 \in Refusals /\ Answer(q, 500)
  BY DEF Refusals, Throw
<1> QED
  BY <1>1, <1>2, <1>3, <1>4, RefusedInv

\* What holds of the tables wherever they are left alone.
LEMMA Typed == HttpInv => TablesTyped
BY DEF HttpInv, TypeOK, TablesTyped

\* The unique columns keep accounts apart, whatever was checked before.
LEMMA RegisterCreateInv ==
  ASSUME HttpInv, NEW q \in Requests, RegisterCreate(q)
  PROVE  HttpInv'
<1>1. at[q] = "write" /\ InFlight(q) /\ Op(q) = "register"
  BY DEF RegisterCreate, InFlight, Ended
<1>2. CASE Throw(q) /\ UNCHANGED users /\ NoFault
  BY <1>1, <1>2, WriteThrowsInv DEF RegisterCreate, tables
<1>3. ASSUME Unique(On(q)[1], On(q)[2]), CommittedLast(q, 201),
             users' = users \cup
               {[id |-> q, email |-> On(q)[1], name |-> On(q)[2], role |-> "USER"]}
      PROVE  HttpInv'
  <2> DEFINE new == [id |-> q, email |-> On(q)[1], name |-> On(q)[2], role |-> "USER"]
  <2>1. /\ UNCHANGED <<request, exposed, known, problem, tests, subs, queued, got>>
        /\ users' = users \cup {new}
    BY <1>3 DEF RegisterCreate, io
  <2>2. new.id = q /\ new.email = On(q)[1] /\ new.name = On(q)[2] /\ new.role = "USER"
    OBVIOUS
  <2> HIDE DEF new
  <2>3. PICK code \in {201, 500} : Outcome(q, "done", code)
    BY <1>3, CommittedLastOutcome
  <2>4. RowsOf(q) /\ ProblemsOf(q) /\ ExposesTo(q)
    BY <2>1, <2>2 DEF RowsOf, ProblemsOf, ExposesTo, Visible
  <2>5. TablesTyped'
    BY <2>1, <2>2, Typed DEF TablesTyped
  <2>6. OneAccountEach'
    BY <1>3, <2>1, <2>2 DEF HttpInv, OneAccountEach, Unique
  <2>7. RowsBelong'
    BY <2>1 DEF HttpInv, RowsBelong, Exists
  <2>8. SubmittedWhilePublished'
    BY <2>1, <2>2 DEF HttpInv, SubmittedWhilePublished, IsAdmin
  <2>9. at'[q] = "done"
    BY <2>3 DEF Outcome, HttpInv, TypeOK
  <2>10. StepOfRoute(q)' /\ SubmissionInv(q)'
    BY <1>1, <2>1, <2>9 DEF StepOfRoute, SubmissionInv, Op
  <2>11. EffectInv(q)'
    <3>1. Op(q)' = "register" /\ On(q)' = On(q)
      BY <1>1, <2>1 DEF Op, On
    <3> QED
      BY <2>1, <2>2, <3>1 DEF EffectInv
  <2>12. code \in {0, 201, 500}
    BY <2>3
  <2> QED
    BY <1>1, <2>1, <2>3, <2>4, <2>5, <2>6, <2>7, <2>8, <2>10, <2>11, <2>12, WriteKeeps
<1> QED
  BY <1>2, <1>3 DEF RegisterCreate

\* The rows of a new problem, test case or submission are free of the others.
LEMMA CreateProblemInv ==
  ASSUME HttpInv, NEW q \in Requests, CreateProblem(q)
  PROVE  HttpInv'
<1>1. at[q] = "write" /\ InFlight(q) /\ Op(q) = "createProblem"
  BY DEF CreateProblem, InFlight, Ended
<1>2. UNCHANGED <<request, exposed, known, users, tests, subs, queued, got>>
      /\ problem' = [problem EXCEPT ![q] = On(q)]
  BY DEF CreateProblem, io, SetProblem
<1>3. problem[q] = "absent" /\ On(q) \in {"draft", "published"}
      /\ problem \in [Problems -> {"absent", "draft", "published", "deleted"}]
      /\ q \in Problems
  <2>1. at[q] \in Early /\ at[q] # "idle"
    BY <1>1 DEF Early
  <2> QED
    BY <1>1, <2>1 DEF HttpInv, ReqInv, WrittenInv, Written, WellFormed, TypeOK, Problems
<1>4. PICK step \in {"purge", "done"}, code \in {0, 500} : Outcome(q, step, code)
  BY <1>1, CommittedOutcome DEF CreateProblem
<1>5. RowsOf(q) /\ ProblemsOf(q)
  BY <1>2, <1>3 DEF RowsOf, ProblemsOf
<1>6. ExposesTo(q)
  <2> SUFFICES ASSUME NEW r \in Requests, InFlight(r), WellFormed(r),
                      Visible(ProblemOf(request[r]))'
               PROVE  Visible(ProblemOf(request[r]))
    BY <1>2 DEF ExposesTo
  <2>1. ProblemOf(request[r])' = ProblemOf(request[r])
    BY <1>2 DEF ProblemOf
  <2>2. ProblemOf(request[r]) # None
    BY <2>1 DEF Visible
  <2>3. ProblemOf(request[r]) \in Problems /\ ProblemOf(request[r]) # q
    BY <1>3, <2>2 DEF WellFormed, InFlight
  <2> QED
    BY <1>2, <1>3, <2>1, <2>3 DEF Visible
<1>7. TablesTyped'
  BY <1>2, <1>3, Typed DEF TablesTyped
<1>8. OneAccountEach' /\ SubmittedWhilePublished'
  BY <1>2 DEF HttpInv, OneAccountEach, SubmittedWhilePublished, IsAdmin
<1>9. RowsBelong'
  <2>1. \A row \in tests \cup subs : row.problem \in Problems /\ Exists(row.problem)
    BY DEF HttpInv, RowsBelong
  <2>2. \A p \in Problems : Exists(p) => Exists(p)'
    BY <1>2, <1>3 DEF Exists
  <2> QED
    BY <1>2, <2>1, <2>2 DEF RowsBelong
<1>10. at'[q] \in {"purge", "done"} /\ Op(q)' = "createProblem"
  BY <1>1, <1>2, <1>4 DEF Outcome, HttpInv, TypeOK, Op
<1>11. StepOfRoute(q)' /\ SubmissionInv(q)' /\ EffectInv(q)'
  BY <1>10 DEF StepOfRoute, SubmissionInv, EffectInv
<1>12. step \in {"purge", "addJob", "done"} /\ code \in {0, 201, 500}
  BY <1>4
<1> QED
  BY <1>1, <1>2, <1>4, <1>5, <1>6, <1>7, <1>8, <1>9, <1>11, <1>12, WriteKeeps

\* A problem that becomes published is exposed to the requests that name it.
LEMMA UpdateProblemInv ==
  ASSUME HttpInv, NEW q \in Requests, UpdateProblem(q)
  PROVE  HttpInv'
<1>1. at[q] = "write" /\ InFlight(q) /\ Op(q) = "updateProblem"
  BY DEF UpdateProblem, InFlight, Ended
<1>2. CASE Throw(q) /\ UNCHANGED <<problem, exposed>> /\ NoFault
  BY <1>1, <1>2, WriteThrowsInv DEF UpdateProblem, tables, io
<1>3. ASSUME Exists(On(q)[1]), Committed(q, "purge"),
             SetProblem(On(q)[1], On(q)[2]),
             exposed' = IF On(q)[2] = "draft" THEN exposed ELSE exposed \cup
               {r \in Requests : InFlight(r) /\ ProblemOf(request[r]) = On(q)[1]}
      PROVE  HttpInv'
  <2> DEFINE p == On(q)[1]
             vis == On(q)[2]
  <2>1. UNCHANGED <<request, known, users, tests, subs, queued, got>>
        /\ problem' = [problem EXCEPT ![p] = vis]
    BY <1>3 DEF UpdateProblem, SetProblem
  <2>2. p \in Problems /\ problem[p] \in {"draft", "published"}
        /\ vis \in {"draft", "published"} /\ p # None
        /\ problem \in [Problems -> {"absent", "draft", "published", "deleted"}]
    <3>1. WellFormed(q) /\ at[q] # "idle"
      BY <1>1 DEF HttpInv, ReqInv
    <3>2. ProblemOf(request[q]) = p
      BY <1>1 DEF ProblemOf, Op, On
    <3>3. p # None /\ problem[p] \in {"draft", "published"}
      BY <1>3 DEF Exists
    <3> QED
      BY <1>1, <3>1, <3>2, <3>3 DEF WellFormed, HttpInv, TypeOK
  <2>3. vis = "draft" \/ \A r \in Requests :
          InFlight(r) /\ ProblemOf(request[r]) = p => r \in exposed'
    BY <1>3
  <2>4. exposed \subseteq exposed'
    BY <1>3
  <2> HIDE DEF p, vis
  <2>5. PICK step \in {"purge", "done"}, code \in {0, 500} : Outcome(q, step, code)
    BY <1>1, <1>3, CommittedOutcome
  <2>6. RowsOf(q) /\ ProblemsOf(q)
    BY <2>1, <2>2 DEF RowsOf, ProblemsOf
  <2>7. ExposesTo(q)
    <3> SUFFICES ASSUME NEW r \in Requests, InFlight(r), WellFormed(r),
                        Visible(ProblemOf(request[r]))'
                 PROVE  Visible(ProblemOf(request[r])) \/ r \in exposed'
      BY <2>4 DEF ExposesTo
    <3>1. ProblemOf(request[r])' = ProblemOf(request[r])
      BY <2>1 DEF ProblemOf
    <3>2. ProblemOf(request[r]) # None /\ ProblemOf(request[r]) \in Problems
          /\ problem'[ProblemOf(request[r])] = "published"
      BY <3>1 DEF Visible, WellFormed, InFlight
    <3> QED
      BY <2>1, <2>2, <2>3, <3>2 DEF Visible
  <2>8. TablesTyped'
    BY <2>1, <2>2, Typed DEF TablesTyped
  <2>9. OneAccountEach' /\ SubmittedWhilePublished'
    BY <2>1, <2>4 DEF HttpInv, OneAccountEach, SubmittedWhilePublished, IsAdmin
  <2>10. RowsBelong'
    BY <2>1, <2>2 DEF HttpInv, RowsBelong, Exists
  <2>11. at'[q] \in {"purge", "done"} /\ Op(q)' = "updateProblem"
    BY <1>1, <2>1, <2>5 DEF Outcome, HttpInv, TypeOK, Op
  <2>12. StepOfRoute(q)' /\ SubmissionInv(q)' /\ EffectInv(q)'
    BY <2>11 DEF StepOfRoute, SubmissionInv, EffectInv
  <2>13. step \in {"purge", "addJob", "done"} /\ code \in {0, 201, 500}
    BY <2>5
  <2> QED
    BY <1>1, <2>1, <2>5, <2>6, <2>7, <2>8, <2>9, <2>10, <2>12, <2>13, WriteKeeps
<1> QED
  BY <1>2, <1>3 DEF UpdateProblem

\* Only a problem that no submission refers to is deleted, and its test cases
\* go with it.
LEMMA DeleteProblemInv ==
  ASSUME HttpInv, NEW q \in Requests, DeleteProblem(q)
  PROVE  HttpInv'
<1>1. at[q] = "write" /\ InFlight(q) /\ Op(q) = "deleteProblem"
  BY DEF DeleteProblem, InFlight, Ended
<1>2. CASE Throw(q) /\ UNCHANGED <<problem, tests>> /\ NoFault
  BY <1>1, <1>2, WriteThrowsInv DEF DeleteProblem, tables
<1>3. ASSUME Exists(On(q)), ~Referenced(On(q)), Committed(q, "purge"),
             SetProblem(On(q), "deleted"),
             tests' = {t \in tests : t.problem # On(q)}
      PROVE  HttpInv'
  <2> DEFINE p == On(q)
  <2>1. UNCHANGED <<request, exposed, known, users, subs, queued, got>>
        /\ problem' = [problem EXCEPT ![p] = "deleted"]
        /\ tests' = {t \in tests : t.problem # p}
        /\ \A x \in subs : x.problem # p
    BY <1>3 DEF DeleteProblem, SetProblem, io, Referenced
  <2>2. p \in Problems /\ problem[p] \in {"draft", "published"}
        /\ problem \in [Problems -> {"absent", "draft", "published", "deleted"}]
    <3>1. WellFormed(q) /\ at[q] # "idle"
      BY <1>1 DEF HttpInv, ReqInv
    <3>2. ProblemOf(request[q]) = p
      BY <1>1 DEF ProblemOf, Op, On
    <3>3. p # None /\ problem[p] \in {"draft", "published"}
      BY <1>3 DEF Exists
    <3> QED
      BY <3>1, <3>2, <3>3 DEF WellFormed, HttpInv, TypeOK
  <2>3. On(q)' = p
    BY <2>1 DEF On
  <2> HIDE DEF p
  <2>5. PICK step \in {"purge", "done"}, code \in {0, 500} : Outcome(q, step, code)
    BY <1>1, <1>3, CommittedOutcome
  <2>6. RowsOf(q) /\ ProblemsOf(q)
    BY <2>1, <2>2 DEF RowsOf, ProblemsOf
  <2>7. ExposesTo(q)
    <3> SUFFICES ASSUME NEW r \in Requests, InFlight(r), WellFormed(r),
                        Visible(ProblemOf(request[r]))'
                 PROVE  Visible(ProblemOf(request[r]))
      BY <2>1 DEF ExposesTo
    <3>1. ProblemOf(request[r])' = ProblemOf(request[r])
      BY <2>1 DEF ProblemOf
    <3>2. ProblemOf(request[r]) # None /\ ProblemOf(request[r]) \in Problems
          /\ problem'[ProblemOf(request[r])] = "published"
      BY <3>1 DEF Visible, WellFormed, InFlight
    <3> QED
      BY <2>1, <2>2, <3>2 DEF Visible
  <2>8. TablesTyped'
    BY <2>1, <2>2, Typed DEF TablesTyped
  <2>9. OneAccountEach' /\ SubmittedWhilePublished'
    BY <2>1 DEF HttpInv, OneAccountEach, SubmittedWhilePublished, IsAdmin
  <2>10. RowsBelong'
    BY <2>1, <2>2 DEF HttpInv, RowsBelong, Exists
  <2>11. at'[q] \in {"purge", "done"} /\ Op(q)' = "deleteProblem"
    BY <1>1, <2>1, <2>5 DEF Outcome, HttpInv, TypeOK, Op
  <2>12. StepOfRoute(q)' /\ SubmissionInv(q)'
    BY <2>11 DEF StepOfRoute, SubmissionInv
  <2>13. EffectInv(q)'
    BY <2>1, <2>2, <2>3, <2>11 DEF EffectInv
  <2>14. step \in {"purge", "addJob", "done"} /\ code \in {0, 201, 500}
    BY <2>5
  <2> QED
    BY <1>1, <2>1, <2>5, <2>6, <2>7, <2>8, <2>9, <2>10, <2>12, <2>13, <2>14, WriteKeeps
<1> QED
  BY <1>2, <1>3 DEF DeleteProblem

\* Test cases come and go with the problem still there.
LEMMA TestsInv ==
  ASSUME HttpInv, NEW q \in Requests, CreateTest(q) \/ ChangeTest(q)
  PROVE  HttpInv'
<1>1. at[q] = "write" /\ InFlight(q) /\ Op(q) \in {"createTest", "updateTest", "deleteTest"}
  BY DEF CreateTest, ChangeTest, InFlight, Ended
<1>2. CASE Throw(q) /\ UNCHANGED tests /\ NoFault
  BY <1>1, <1>2, WriteThrowsInv DEF CreateTest, ChangeTest, tables
<1>3. ASSUME Committed(q, "purge"),
             \A t \in tests' \ tests :
               t.id = q /\ t.problem \in Problems /\ Exists(t.problem)
      PROVE  HttpInv'
  <2>1. UNCHANGED <<request, exposed, known, users, problem, subs, queued, got>>
    BY DEF CreateTest, ChangeTest, io
  <2>2. PICK step \in {"purge", "done"}, code \in {0, 500} : Outcome(q, step, code)
    BY <1>1, <1>3, CommittedOutcome
  <2>3. RowsOf(q) /\ ProblemsOf(q) /\ ExposesTo(q)
    BY <1>3, <2>1 DEF RowsOf, ProblemsOf, ExposesTo, Visible
  <2>4. TablesTyped'
    BY <2>1, Typed DEF TablesTyped
  <2>5. OneAccountEach' /\ SubmittedWhilePublished'
    BY <2>1 DEF HttpInv, OneAccountEach, SubmittedWhilePublished, IsAdmin
  <2>6. RowsBelong'
    BY <1>3, <2>1 DEF HttpInv, RowsBelong, Exists
  <2>7. at'[q] \in {"purge", "done"} /\ Op(q)' \in {"createTest", "updateTest", "deleteTest"}
    BY <1>1, <2>1, <2>2 DEF Outcome, HttpInv, TypeOK, Op
  <2>8. StepOfRoute(q)' /\ SubmissionInv(q)' /\ EffectInv(q)'
    BY <2>7 DEF StepOfRoute, SubmissionInv, EffectInv
  <2>9. step \in {"purge", "addJob", "done"} /\ code \in {0, 201, 500}
    BY <2>2
  <2> QED
    BY <1>1, <2>1, <2>2, <2>3, <2>4, <2>5, <2>6, <2>8, <2>9, WriteKeeps
<1>4. CASE CreateTest(q)
  <2>1. ASSUME Exists(On(q)), tests' = tests \cup {[id |-> q, problem |-> On(q)]}
        PROVE  \A t \in tests' \ tests :
                 t.id = q /\ t.problem \in Problems /\ Exists(t.problem)
    <3>1. On(q) \in Problems
      <4>1. ProblemOf(request[q]) = On(q) /\ On(q) # None
        BY <1>4, <2>1 DEF CreateTest, ProblemOf, Op, On, Exists
      <4> QED
        BY <1>1, <4>1 DEF HttpInv, ReqInv, WellFormed
    <3> QED
      BY <2>1, <3>1
  <2> QED
    BY <1>2, <1>3, <1>4, <2>1 DEF CreateTest
<1>5. CASE ChangeTest(q)
  <2>1. tests' \subseteq tests
    BY <1>5 DEF ChangeTest
  <2> QED
    BY <1>2, <1>3, <1>5, <2>1 DEF ChangeTest
<1> QED
  BY <1>4, <1>5

\* The row of a submission is inserted only for whoever may submit.
LEMMA SubmitInsertInv ==
  ASSUME HttpInv, NEW q \in Requests, SubmitInsert(q)
  PROVE  HttpInv'
<1>1. at[q] = "write" /\ InFlight(q) /\ Op(q) = "submit"
  BY DEF SubmitInsert, InFlight, Ended
<1>2. CASE Throw(q) /\ UNCHANGED subs /\ NoFault
  BY <1>1, <1>2, WriteThrowsInv DEF SubmitInsert, tables
<1>3. ASSUME Exists(On(q)), Committed(q, "addJob"),
             subs' = subs \cup {[id |-> q, by |-> By(q), problem |-> On(q)]}
      PROVE  HttpInv'
  <2> DEFINE new == [id |-> q, by |-> By(q), problem |-> On(q)]
  <2>1. /\ UNCHANGED <<request, exposed, known, users, problem, tests, queued, got>>
        /\ subs' = subs \cup {new}
    BY <1>3 DEF SubmitInsert, io
  <2>2. new.id = q /\ new.by = By(q) /\ new.problem = On(q)
    OBVIOUS
  <2>3. Stored(q)'
    BY <2>1 DEF Stored, By, On
  <2> HIDE DEF new
  <2>4. PICK step \in {"addJob", "done"}, code \in {0, 500} : Outcome(q, step, code)
    BY <1>1, <1>3, CommittedOutcome
  <2>5. RowsOf(q) /\ ProblemsOf(q) /\ ExposesTo(q)
    BY <2>1, <2>2 DEF RowsOf, ProblemsOf, ExposesTo, Visible
  <2>6. TablesTyped'
    BY <2>1, Typed DEF TablesTyped
  <2>7. On(q) \in Problems
    <3>1. ProblemOf(request[q]) = On(q) /\ On(q) # None
      BY <1>1, <1>3 DEF ProblemOf, Op, On, Exists
    <3> QED
      BY <1>1, <3>1 DEF HttpInv, ReqInv, WellFormed
  <2>8. OneAccountEach' /\ RowsBelong'
    BY <1>3, <2>1, <2>2, <2>7 DEF HttpInv, OneAccountEach, RowsBelong, Exists
  <2>9. SubmittedWhilePublished'
    <3>1. ~IsAdmin(By(q)) => q \in exposed
      BY <1>1 DEF HttpInv, ReqInv, ExposedInv
    <3> QED
      BY <2>1, <2>2, <3>1 DEF HttpInv, SubmittedWhilePublished, IsAdmin
  <2>10. at'[q] \in {"addJob", "done"} /\ Op(q)' = "submit" /\ answer'[q] \in {0, 500}
    BY <1>1, <2>1, <2>4 DEF Outcome, HttpInv, TypeOK, Op
  <2>11. StepOfRoute(q)' /\ SubmissionInv(q)' /\ EffectInv(q)'
    BY <2>3, <2>10 DEF StepOfRoute, SubmissionInv, EffectInv, Acknowledged
  <2>12. step \in {"purge", "addJob", "done"} /\ code \in {0, 201, 500}
    BY <2>4
  <2> QED
    BY <1>1, <2>1, <2>4, <2>5, <2>6, <2>8, <2>9, <2>11, <2>12, WriteKeeps
<1> QED
  BY <1>2, <1>3 DEF SubmitInsert

\* A submission is acknowledged only with its job in the queue.
LEMMA AddJobInv ==
  ASSUME HttpInv, NEW q \in Requests, AddJob(q)
  PROVE  HttpInv'
<1>1. at[q] = "addJob" /\ InFlight(q)
  BY DEF AddJob, InFlight, Ended
<1>2. Op(q) = "submit" /\ Stored(q)
  BY <1>1 DEF HttpInv, ReqInv, StepOfRoute, SubmissionInv
<1>3. /\ UNCHANGED <<request, exposed, known, users, problem, tests, subs, got>>
      /\ queued \subseteq queued'
  BY DEF AddJob, AddJobFails, io
<1>4. PICK code \in {201, 500} :
        Outcome(q, "done", code) /\ (code = 201 => q \in queued')
  <2>1. CASE queued' = queued \cup {q} /\ CommittedLast(q, 201)
    BY <2>1, CommittedLastOutcome
  <2>2. CASE AddJobFails(q)
    <3>1. PICK code \in {201, 500} : code = 500
      OBVIOUS
    <3>2. Outcome(q, "done", code) /\ code # 201
      BY <2>2, <3>1 DEF AddJobFails, Throw, Answer, Outcome
    <3> QED
      BY <3>2
  <2> QED
    BY <2>1, <2>2 DEF AddJob
<1>5. RowsOf(q) /\ ProblemsOf(q) /\ ExposesTo(q)
  BY <1>3 DEF RowsOf, ProblemsOf, ExposesTo, Visible
<1>6. TablesTyped' /\ OneAccountEach' /\ RowsBelong' /\ SubmittedWhilePublished'
  BY <1>3, Typed DEF TablesTyped, HttpInv, OneAccountEach, RowsBelong, Exists,
                     SubmittedWhilePublished, IsAdmin
<1>7. at'[q] = "done" /\ Op(q)' = "submit" /\ answer'[q] = code /\ Stored(q)'
  BY <1>2, <1>3, <1>4 DEF Outcome, HttpInv, TypeOK, Op, Stored, By, On
<1>8. StepOfRoute(q)' /\ EffectInv(q)'
  BY <1>7 DEF StepOfRoute, EffectInv
<1>9. SubmissionInv(q)'
  BY <1>4, <1>7 DEF SubmissionInv, Acknowledged
<1>10. "done" \in {"purge", "addJob", "done"} /\ code \in {0, 201, 500}
  BY <1>4
<1> QED
  BY <1>1, <1>2, <1>3, <1>4, <1>5, <1>6, <1>8, <1>9, <1>10, WriteKeeps

------------------------------------------------------------------------------
(* Arrival and crash *)

\* A request names a problem that is or was there.
LEMMA InputWellFormed ==
  ASSUME NEW i \in Inputs
  PROVE  /\ i.op \in Ops
         /\ i.op = "createProblem" => i.on \in {"draft", "published"}
         /\ i.op = "updateProblem" => i.on[2] \in {"draft", "published"}
         /\ ProblemOf(i) # None =>
              ProblemOf(i) \in Problems /\ problem[ProblemOf(i)] # "absent"
<1>1. PICK op \in Ops :
        i \in [op : {op}, by : {u.id : u \in users} \cup {None}, on : Subjects(op),
               ok : IF Validated(op) THEN BOOLEAN ELSE {TRUE}]
  BY DEF Inputs
<1>2. i.op = op /\ i.on \in Subjects(i.op) /\ op \in Ops
  BY <1>1
<1>3. \A p \in KnownProblems : p # None => p \in Problems /\ problem[p] # "absent"
  BY DEF KnownProblems
<1>4. i.op = "createProblem" => i.on \in {"draft", "published"}
  BY <1>2 DEF Subjects, ProblemBodies
<1>5. i.op = "updateProblem" => i.on \in KnownProblems \X {"draft", "published"}
  BY <1>2 DEF Subjects, ProblemBodies
<1>6. i.op \in {"getProblem", "deleteProblem", "listTests", "createTest", "submit"} =>
        i.on \in KnownProblems
  BY <1>2 DEF Subjects
<1>7. ProblemOf(i) \in KnownProblems \cup {None}
  <2>1. CASE i.op = "updateProblem"
    BY <1>5, <2>1 DEF ProblemOf
  <2>2. CASE i.op # "updateProblem"
    BY <1>6, <2>2 DEF ProblemOf
  <2> QED
    BY <2>1, <2>2
<1> QED
  BY <1>2, <1>3, <1>4, <1>5, <1>7

\* A request arrives with nothing written, and knows what was acknowledged.
LEMMA ArriveInv ==
  ASSUME HttpInv, NEW q \in Requests, Arrive(q)
  PROVE  HttpInv'
<1>1. PICK i \in Inputs :
        /\ request' = [request EXCEPT ![q] = i]
        /\ exposed' = IF Visible(ProblemOf(i)) THEN exposed \cup {q} ELSE exposed
        /\ known' = [known EXCEPT ![q] = {s \in Requests : answer[s] \in {200, 201}}]
        /\ IF Unauthenticated(i) THEN Answer(q, 401)
           ELSE IF Authorize(i) THEN Answer(q, 403)
           ELSE IF i.op = "submit" THEN Goto(q, "limit")
           ELSE Validate(q, i)
  BY DEF Arrive
<1>2. /\ at[q] = "idle" /\ answer[q] = 0 /\ TypeOK
      /\ UNCHANGED <<users, problem, tests, subs, queued, got, broke, faults>>
  <2>1. at[q] = "idle" /\ at[q] \notin Ended
    BY DEF Arrive, Ended
  <2> QED
    BY <2>1, Unanswered DEF Arrive, tables, NoFault, HttpInv
<1>3. DOMAIN request = Requests /\ DOMAIN at = Requests /\ DOMAIN answer = Requests
      /\ known \in [Requests -> SUBSET Requests]
  BY DEF HttpInv, TypeOK
<1>4. request'[q] = i /\ known'[q] = {s \in Requests : answer[s] \in {200, 201}}
      /\ known' \in [Requests -> SUBSET Requests]
      /\ exposed \subseteq exposed' /\ (Visible(ProblemOf(i)) => q \in exposed')
  BY <1>1, <1>3
<1>5. PICK step \in {"limit", "find", "write", "done"}, code \in {0, 400, 401, 403} :
        /\ at' = [at EXCEPT ![q] = step] /\ answer' = [answer EXCEPT ![q] = code]
        /\ step = "done" <=> code # 0
        /\ step = "limit" => i.op = "submit"
        /\ step = "write" => i.op = "createProblem"
        /\ step # "done" => ~Unauthenticated(i)
        /\ code = 401 => Unauthenticated(i)
        /\ code = 403 => Authorize(i)
  <2> DEFINE Goal(step, code) ==
        /\ at' = [at EXCEPT ![q] = step] /\ answer' = [answer EXCEPT ![q] = code]
        /\ step = "done" <=> code # 0
        /\ step = "limit" => i.op = "submit"
        /\ step = "write" => i.op = "createProblem"
        /\ step # "done" => ~Unauthenticated(i)
        /\ code = 401 => Unauthenticated(i)
        /\ code = 403 => Authorize(i)
  <2>1. CASE Unauthenticated(i)
    <3>1. Goal("done", 401)
      BY <1>1, <2>1 DEF Answer
    <3> QED
      BY <3>1
  <2>2. CASE ~Unauthenticated(i) /\ Authorize(i)
    <3>1. Goal("done", 403)
      BY <1>1, <2>2 DEF Answer
    <3> QED
      BY <3>1
  <2>3. ASSUME ~Unauthenticated(i), NEW step \in {"limit", "find", "write"},
               Goto(q, step), step = "limit" => i.op = "submit",
               step = "write" => i.op = "createProblem"
        PROVE  \E code \in {0, 400, 401, 403} : Goal(step, code)
    <3>1. PICK code \in {0, 400, 401, 403} : code = 0
      OBVIOUS
    <3>2. answer' = [answer EXCEPT ![q] = code]
      BY <1>2, <2>3, <3>1 DEF Goto, TypeOK
    <3>3. at' = [at EXCEPT ![q] = step]
      BY <2>3 DEF Goto
    <3>4. code # 401 /\ code # 403 /\ (step = "done" <=> code # 0)
      BY <3>1
    <3> QED
      BY <2>3, <3>2, <3>3, <3>4
  <2>4. CASE ~Unauthenticated(i) /\ ~Authorize(i) /\ i.op = "submit"
    <3>1. \E code \in {0, 400, 401, 403} : Goal("limit", code)
      BY <1>1, <2>3, <2>4
    <3> QED
      BY <3>1
  <2>5. CASE ~Unauthenticated(i) /\ ~Authorize(i) /\ i.op # "submit" /\ i.ok
    <3>1. Goto(q, FirstStep(i.op))
      BY <1>1, <2>5 DEF Validate
    <3>2. FirstStep(i.op) \in {"limit", "find", "write"}
          /\ FirstStep(i.op) # "limit"
          /\ (FirstStep(i.op) = "write" => i.op = "createProblem")
      BY DEF FirstStep
    <3>3. PICK first \in {"limit", "find", "write"} : first = FirstStep(i.op)
      BY <3>2
    <3>4. \E code \in {0, 400, 401, 403} : Goal(first, code)
      BY <2>3, <2>5, <3>1, <3>2, <3>3
    <3>5. PICK code \in {0, 400, 401, 403} : Goal(first, code)
      BY <3>4
    <3>6. first \in {"limit", "find", "write", "done"}
      OBVIOUS
    <3> HIDE DEF Goal
    <3>7. \E step \in {"limit", "find", "write", "done"}, c \in {0, 400, 401, 403} :
            Goal(step, c)
      BY <3>5, <3>6
    <3> QED
      BY <3>7 DEF Goal
  <2>6. CASE ~Unauthenticated(i) /\ ~Authorize(i) /\ i.op # "submit" /\ ~i.ok
    <3>1. Goal("done", 400)
      BY <1>1, <2>6 DEF Validate, Answer
    <3> QED
      BY <3>1
  <2> QED
    BY <2>1, <2>2, <2>4, <2>5, <2>6
<1>6. at'[q] = step /\ answer'[q] = code
  BY <1>3, <1>5
<1>7. Frame(q)
  <2>1. RowsOf(q) /\ ProblemsOf(q)
    BY <1>2 DEF RowsOf, ProblemsOf
  <2>2. ExposesTo(q)
    <3> SUFFICES ASSUME NEW r \in Requests, InFlight(r),
                        Visible(ProblemOf(request[r]))'
                 PROVE  Visible(ProblemOf(request[r]))
      BY <1>4 DEF ExposesTo
    <3>1. request'[r] = request[r]
      BY <1>1, <1>2, <1>3 DEF InFlight
    <3> QED
      BY <1>2, <3>1 DEF Visible, ProblemOf
  <2>3. \A r \in Requests \ {q} :
          /\ request'[r] = request[r] /\ at'[r] = at[r] /\ answer'[r] = answer[r]
          /\ known'[r] = known[r]
    BY <1>1, <1>3, <1>5
  <2> QED
    BY <1>2, <2>1, <2>2, <2>3 DEF Frame, Ended
<1>8. TypeOK'
  <2>1. at' \in [Requests -> {"idle", "limit", "find", "findName", "write", "read",
                              "addJob", "purge"} \cup Ended]
    <3>1. step \in {"idle", "limit", "find", "findName", "write", "read",
                    "addJob", "purge"} \cup Ended
      BY DEF Ended
    <3> QED
      BY <1>2, <1>5, <3>1 DEF TypeOK
  <2>2. answer' \in [Requests -> {0, 200, 201, 400, 401, 403, 404, 409, 429, 500}]
    BY <1>2, <1>5 DEF TypeOK
  <2>3. \A r \in Requests : at'[r] = "done" <=> answer'[r] # 0
    BY <1>2, <1>3, <1>5 DEF TypeOK
  <2>4. DOMAIN request' = Requests /\ \A r \in Requests : at'[r] # "idle" => request'[r].op \in Ops
    BY <1>1, <1>2, <1>3, <1>5, InputWellFormed DEF TypeOK
  <2> QED
    BY <1>2, <2>1, <2>2, <2>3, <2>4 DEF TypeOK
<1>9. OneAccountEach' /\ RowsBelong' /\ SubmittedWhilePublished'
  BY <1>2, <1>4 DEF HttpInv, OneAccountEach, RowsBelong, Exists,
                    SubmittedWhilePublished, IsAdmin
<1>10. Op(q)' = i.op /\ On(q)' = i.on /\ By(q)' = i.by
  BY <1>4 DEF Op, On, By
<1>11. WellFormed(q)'
  <2>1. /\ i.op \in Ops
        /\ i.op = "createProblem" => i.on \in {"draft", "published"}
        /\ i.op = "updateProblem" => i.on[2] \in {"draft", "published"}
        /\ ProblemOf(i) # None =>
             ProblemOf(i) \in Problems /\ problem[ProblemOf(i)] # "absent"
    BY InputWellFormed
  <2> QED
    BY <1>2, <1>4, <2>1 DEF WellFormed, Op, On
<1>12. StepOfRoute(q)'
  BY <1>5, <1>6, <1>10 DEF StepOfRoute
<1>13. WrittenInv(q)'
  <2>1. ~Written(q)
    BY <1>2 DEF HttpInv, ReqInv, WrittenInv, Early
  <2> QED
    BY <1>2, <2>1 DEF WrittenInv, Written
<1>14. ~Acknowledged(q)'
  BY <1>6 DEF Acknowledged
<1>15. SubmissionInv(q)' /\ EffectInv(q)'
  BY <1>6, <1>14 DEF SubmissionInv, EffectInv
<1>16. ExposedInv(q)'
  <2>1. Visible(ProblemOf(request[q]))' => q \in exposed'
    BY <1>2, <1>4 DEF Visible
  <2>2. at'[q] = "write" => Op(q)' = "createProblem"
    BY <1>5, <1>6, <1>10
  <2> QED
    BY <2>1, <2>2 DEF ExposedInv
<1>17. TokenInv(q)'
  <2>1. InFlight(q)' => ~Unauthenticated(i)
    BY <1>5, <1>6 DEF InFlight, Ended
  <2> QED
    BY <1>10, <1>14, <2>1 DEF TokenInv, Unauthenticated
<1>18. KnownInv(q)'
  <2> SUFFICES ASSUME NEW s \in known'[q] PROVE Acknowledged(s)'
    BY DEF KnownInv
  <2>1. s \in Requests /\ answer[s] \in {200, 201} /\ s # q
    BY <1>2, <1>4
  <2> QED
    BY <1>3, <1>5, <2>1 DEF Acknowledged
<1>19. SeenInv(q)'
  <2>1. CASE answer'[q] = 400 \/ at'[q] # "done"
    BY <2>1 DEF SeenInv
  <2>2. CASE at'[q] = "done" /\ Authorize(i)
    <3>1. Op(q)' \notin {"login", "getSubmission", "mySubmissions"}
      BY <1>10, <2>2 DEF Authorize, AdminOnly
    <3> QED
      BY <3>1 DEF SeenInv
  <2>3. CASE at'[q] = "done" /\ Unauthenticated(i)
    <3>1. i.by = None /\ i.op # "login"
      BY <2>3 DEF Unauthenticated, NeedsToken
    <3>2. ASSUME NEW s \in known'[q], Op(s)' = "submit" PROVE By(s)' # None
      <4>1. s \in Requests /\ Acknowledged(s) /\ s # q
        BY <1>2, <1>4 DEF Acknowledged
      <4>2. request'[s] = request[s] /\ TokenInv(s)
        BY <1>1, <1>3, <4>1 DEF HttpInv, ReqInv
      <4>3. NeedsToken("submit")
        BY DEF NeedsToken
      <4> QED
        BY <3>2, <4>1, <4>2, <4>3 DEF TokenInv, Op, By
    <3>3. \A s \in known'[q] : request'[s].op = "submit" => request'[s].by # None
      BY <3>2 DEF Op, By
    <3>4. request'[q].op # "login" /\ request'[q].by = None
      BY <1>4, <3>1
    <3>5. ASSUME NEW s \in known'[q]
          PROVE  /\ (Op(s) = "register" /\ Op(q) = "login" /\ On(q) = <<On(s)[1], TRUE>>
                       => answer[q] = 200)'
                 /\ (Op(s) = "submit" /\ Op(q) = "getSubmission" /\ On(q) = s
                      /\ By(q) = By(s) => answer[q] = 200)'
                 /\ (Op(s) = "submit" /\ Op(q) = "mySubmissions" /\ By(q) = By(s)
                       => s \in got[q])'
      BY <3>3, <3>4 DEF Op, By
    <3> QED
      BY <3>5 DEF SeenInv
  <2> QED
    BY <1>5, <1>6, <2>1, <2>2, <2>3
<1>20. ReqInv(q)'
  BY <1>11, <1>12, <1>13, <1>15, <1>16, <1>17, <1>18, <1>19 DEF ReqInv
<1> QED
  BY <1>4, <1>7, <1>8, <1>9, <1>20, StepKeeps

\* A crash loses the requests in flight, and nothing else.
LEMMA CrashInv ==
  ASSUME HttpInv, Crash
  PROVE  HttpInv'
<1>1. /\ UNCHANGED <<request, exposed, known, answer, users, problem, tests, subs,
                    queued, got, broke>>
      /\ at' = [r \in Requests |-> IF InFlight(r) THEN "lost" ELSE at[r]]
  BY DEF Crash, io, tables
<1>2. TypeOK' /\ known' \in [Requests -> SUBSET Requests]
  <2>1. TypeOK /\ known \in [Requests -> SUBSET Requests]
    BY DEF HttpInv
  <2>2. \A r \in Requests : (at'[r] = "done" <=> at[r] = "done")
                            /\ (at'[r] = "idle" <=> at[r] = "idle")
    BY <1>1 DEF InFlight, Ended
  <2>3. at' \in [Requests -> {"idle", "limit", "find", "findName", "write", "read",
                              "addJob", "purge"} \cup Ended]
    BY <1>1, <2>1 DEF TypeOK, Ended
  <2>4. faults' \in 0..MaxFaults
    BY <2>1 DEF Crash, TypeOK
  <2> QED
    BY <1>1, <2>1, <2>2, <2>3, <2>4 DEF TypeOK
<1>3. OneAccountEach' /\ RowsBelong' /\ SubmittedWhilePublished'
  BY <1>1 DEF HttpInv, OneAccountEach, RowsBelong, Exists, SubmittedWhilePublished, IsAdmin
<1>4. ASSUME NEW r \in Requests PROVE ReqInv(r)'
  <2>1. ReqInv(r) /\ (at'[r] = at[r] \/ (at'[r] = "lost" /\ InFlight(r)))
    BY <1>1 DEF HttpInv
  <2>2. at'[r] # "idle" => at[r] # "idle"
    BY <2>1 DEF InFlight
  <2>3. WellFormed(r)' /\ StepOfRoute(r)'
    BY <1>1, <2>1, <2>2 DEF ReqInv, WellFormed, StepOfRoute, Op, On
  <2>4. WrittenInv(r)'
    <3>1. WrittenInv(r) /\ (Written(r)' <=> Written(r)) /\ (Acknowledged(r)' <=> Acknowledged(r))
      BY <1>1, <2>1 DEF ReqInv, Written, Acknowledged
    <3> QED
      BY <1>1, <2>1, <3>1 DEF WrittenInv, Early
  <2>5. SubmissionInv(r)' /\ EffectInv(r)' /\ KnownInv(r)'
    BY <1>1, <2>1 DEF ReqInv, SubmissionInv, EffectInv, KnownInv, Stored, Acknowledged,
                      Op, On, By
  <2>6. InFlight(r)' => InFlight(r)
    BY <2>1 DEF InFlight, Ended
  <2>7. ExposedInv(r)' /\ TokenInv(r)'
    BY <1>1, <2>1, <2>6 DEF ReqInv, ExposedInv, TokenInv, Visible, IsAdmin, Acknowledged, Op, By
  <2>8. SeenInv(r)'
    BY <1>1, <2>1 DEF ReqInv, SeenInv, Op, On, By
  <2> QED
    BY <2>3, <2>4, <2>5, <2>7, <2>8 DEF ReqInv
<1> QED
  BY <1>2, <1>3, <1>4 DEF HttpInv

------------------------------------------------------------------------------
(* Requests that have written *)

\* Where a request that has changed a row may be.
Settled(r) ==
  r \in wrote =>
    at[r] \in {"purge", "addJob", "lost"} \/ Acknowledged(r) \/ r \in broke

WroteInv == \A r \in Requests : Settled(r)

\* A step of q that is not followed up: it writes nothing.
Reads(q) ==
  /\ at[q] \notin {"purge", "addJob"} /\ at'[q] # "purge"
  /\ UNCHANGED <<users, problem, tests, subs>>

\* A step of q after which it has something to do for what it wrote, is
\* acknowledged, or broke.
Lands(q) ==
  at'[q] \in {"purge", "addJob"} \/ answer'[q] \in {200, 201} \/ q \in broke'

\* The checks before a write, and the routes that only read.
LEMMA ChecksRead ==
  ASSUME HttpInv, NEW q \in Requests,
         \/ Arrive(q) \/ Limit(q) \/ RegisterFindEmail(q) \/ RegisterFindUsername(q)
         \/ Login(q) \/ GetCurrentUser(q) \/ FindFirst(q) \/ Read(q)
         \/ SubmitFind(q) \/ GetSubmission(q) \/ GetUserSubmissions(q)
  PROVE  Reads(q)
<1>1. UNCHANGED tables /\ at[q] \in {"idle", "limit", "find", "findName", "read"}
  BY DEF Arrive, Limit, RegisterFindEmail, RegisterFindUsername, Login, GetCurrentUser,
         FindFirst, Read, SubmitFind, GetSubmission, GetUserSubmissions
<1>2. \E step \in {"limit", "find", "findName", "write", "read", "done"} :
        at' = [at EXCEPT ![q] = step]
  BY DEF Arrive, Limit, RegisterFindEmail, RegisterFindUsername, Login, GetCurrentUser,
         FindFirst, Read, SubmitFind, GetSubmission, GetUserSubmissions, Validate,
         FirstStep, Goto, Answer
<1>3. at'[q] # "purge"
  BY <1>2 DEF HttpInv, TypeOK
<1> QED
  BY <1>1, <1>3 DEF Reads, tables

\* A write is committed and followed up or acknowledged, or nothing happens;
\* what follows it up ends in success unless it breaks.
LEMMA WritesLand ==
  ASSUME HttpInv, NEW q \in Requests,
         \/ RegisterCreate(q) \/ CreateProblem(q) \/ UpdateProblem(q)
         \/ DeleteProblem(q) \/ CreateTest(q) \/ ChangeTest(q) \/ Purge(q)
         \/ SubmitInsert(q) \/ AddJob(q) \/ QueryFails(q)
  PROVE  Reads(q) \/ Lands(q)
<1>0. /\ DOMAIN at = Requests /\ DOMAIN answer = Requests
  BY DEF HttpInv, TypeOK
<1>1. ASSUME Committed(q, "purge") \/ Committed(q, "addJob") \/ CommittedLast(q, 201)
      PROVE  Lands(q)
  BY <1>0, <1>1 DEF Committed, CommittedLast, Goto, Answer, Fault, Lands
<1>2. ASSUME at[q] = "write", Throw(q), UNCHANGED <<users, problem, tests, subs>>
      PROVE  Reads(q)
  BY <1>0, <1>2 DEF Throw, Answer, Reads
<1>3. CASE RegisterCreate(q)
  BY <1>1, <1>2, <1>3 DEF RegisterCreate
<1>4. CASE CreateProblem(q) \/ UpdateProblem(q) \/ DeleteProblem(q)
  BY <1>1, <1>2, <1>4 DEF CreateProblem, UpdateProblem, DeleteProblem
<1>5. CASE CreateTest(q) \/ ChangeTest(q)
  BY <1>1, <1>2, <1>5 DEF CreateTest, ChangeTest
<1>6. CASE SubmitInsert(q)
  BY <1>1, <1>2, <1>6 DEF SubmitInsert
<1>7. CASE Purge(q)
  BY <1>0, <1>7 DEF Purge, Purged, Answer, Lands
<1>8. CASE AddJob(q)
  BY <1>1, <1>8 DEF AddJob, AddJobFails, Fault, Lands
<1>9. CASE QueryFails(q)
  BY <1>9 DEF QueryFails, Fault, Lands
<1> QED
  BY <1>3, <1>4, <1>5, <1>6, <1>7, <1>8, <1>9

\* A step of q leaves the other requests where they are.
LEMMA OthersStay ==
  ASSUME HttpInv, NEW q \in Requests, Arrive(q) \/ Serve(q) \/ QueryFails(q)
  PROVE  /\ at[q] \notin Ended
         /\ \A r \in Requests \ {q} : at'[r] = at[r] /\ answer'[r] = answer[r]
         /\ broke \subseteq broke'
<1> USE DEF Goto, Throw, Answer, Committed, CommittedLast, Fault, NoFault
<1>0. /\ DOMAIN at = Requests /\ DOMAIN answer = Requests
  BY DEF HttpInv, TypeOK
<1>1. CASE Arrive(q) \/ Limit(q)
  BY <1>0, <1>1 DEF Arrive, Limit, Validate, Ended
<1>2. CASE \/ RegisterFindEmail(q) \/ RegisterFindUsername(q)
           \/ Login(q) \/ GetCurrentUser(q) \/ FindFirst(q) \/ Read(q)
           \/ SubmitFind(q) \/ GetSubmission(q) \/ GetUserSubmissions(q)
  BY <1>0, <1>2 DEF RegisterFindEmail, RegisterFindUsername, Login, GetCurrentUser,
     FindFirst, Read, SubmitFind, GetSubmission, GetUserSubmissions, Ended
<1>3. CASE RegisterCreate(q) \/ SubmitInsert(q) \/ AddJob(q) \/ Purge(q) \/ QueryFails(q)
  BY <1>0, <1>3 DEF RegisterCreate, SubmitInsert, AddJob, AddJobFails, Purge, Purged,
     QueryFails, Ended
<1>4. CASE \/ CreateProblem(q) \/ UpdateProblem(q) \/ DeleteProblem(q)
           \/ CreateTest(q) \/ ChangeTest(q)
  BY <1>0, <1>4 DEF CreateProblem, UpdateProblem, DeleteProblem, CreateTest, ChangeTest,
     Ended
<1> QED
  BY <1>1, <1>2, <1>3, <1>4 DEF Serve

LEMMA WroteStep ==
  ASSUME HttpInv, WroteInv, [Next]_vars
  PROVE  WroteInv'
<1>1. ASSUME NEW q \in Requests, Arrive(q) \/ Serve(q) \/ QueryFails(q), Remember(q),
             NEW r \in Requests
      PROVE  Settled(r)'
  <2>1. /\ at[q] \notin Ended
        /\ \A x \in Requests \ {q} : at'[x] = at[x] /\ answer'[x] = answer[x]
        /\ broke \subseteq broke'
    BY <1>1, OthersStay
  <2>2. Reads(q) \/ Lands(q)
    BY <1>1, ChecksRead, WritesLand DEF Serve
  <2>3. CASE r # q
    BY <1>1, <2>1, <2>3 DEF Remember, WroteInv, Settled, Acknowledged
  <2>4. CASE r = q /\ Lands(q)
    BY <2>4 DEF Lands, Settled, Acknowledged
  <2>5. CASE r = q /\ Reads(q)
    <3>1. q \in wrote' => q \in wrote
      BY <1>1, <2>5 DEF Remember, Reads
    <3>2. answer[q] = 0
      BY <2>1, Unanswered
    <3>3. q \in wrote => q \in broke
      BY <2>1, <2>5, <3>2 DEF Reads, Ended, WroteInv, Settled, Acknowledged
    <3> QED
      BY <2>1, <2>5, <3>1, <3>3 DEF Settled
  <2> QED
    BY <2>2, <2>3, <2>4, <2>5
<1>2. CASE Crash
  <2>1. \A r \in Requests : at'[r] \in {at[r], "lost"}
    BY <1>2 DEF Crash
  <2> QED
    BY <1>2, <2>1 DEF Crash, WroteInv, Settled, Acknowledged
<1>3. CASE UNCHANGED vars
  BY <1>3 DEF vars, WroteInv, Settled, Acknowledged
<1> QED
  BY <1>1, <1>2, <1>3 DEF Next, WroteInv

------------------------------------------------------------------------------
(* Theorems *)

\* At the start there are no requests, and the rows obey the schema.
LEMMA InitInv == Init => HttpInv
<1> SUFFICES ASSUME Init PROVE HttpInv
  OBVIOUS
<1>1. /\ request = [r \in Requests |-> None] /\ at = [r \in Requests |-> "idle"]
      /\ answer = [r \in Requests |-> 0] /\ got = [r \in Requests |-> {}]
      /\ known = [r \in Requests |-> {}]
      /\ users = Seeds /\ tests = OldTests /\ subs \subseteq OldSubs
  BY DEF Init
<1>2. TypeOK /\ known \in [Requests -> SUBSET Requests]
  <2>1. at \in [Requests -> {"idle", "limit", "find", "findName", "write", "read",
                             "addJob", "purge"} \cup Ended]
    BY <1>1
  <2>2. answer \in [Requests -> {0, 200, 201, 400, 401, 403, 404, 409, 429, 500}]
    BY <1>1
  <2>3. \A r \in Requests : at[r] = "done" <=> answer[r] # 0
    BY <1>1
  <2>4. problem \in [Problems -> {"absent", "draft", "published", "deleted"}]
    BY DEF Init
  <2>5. faults \in 0..MaxFaults
    BY DEF Init
  <2>6. \A u \in users : u.id \in {v.id : v \in Seeds} \cup Requests
                         /\ u.role \in {"USER", "ADMIN"}
    BY <1>1
  <2>7. \A r \in Requests : at[r] # "idle" => request[r].op \in Ops
    BY <1>1
  <2>8. DOMAIN request = Requests /\ got \in [Requests -> SUBSET {s.id : s \in subs}]
        /\ known \in [Requests -> SUBSET Requests]
    BY <1>1
  <2> QED
    BY <2>1, <2>2, <2>3, <2>4, <2>5, <2>6, <2>7, <2>8 DEF TypeOK
<1>3. OneAccountEach /\ SubmittedWhilePublished
  BY <1>1 DEF OneAccountEach, SubmittedWhilePublished
<1>4. RowsBelong
  <2>1. \A p \in OldProblems : p \in Problems /\ p # None
                               /\ problem[p] \in {"draft", "published"}
    BY DEF Init, Problems
  <2> QED
    BY <1>1, <2>1 DEF RowsBelong, Exists
<1>5. ASSUME NEW r \in Requests PROVE ReqInv(r)
  <2>1. at[r] = "idle" /\ known[r] = {} /\ answer[r] = 0
    BY <1>1
  <2>2. ~Written(r)
    <3>1. problem[r] = "absent"
      BY DEF Init, Problems
    <3>2. \A row \in users \cup tests \cup subs : row.id # r
      BY <1>1
    <3> QED
      BY <3>1, <3>2 DEF Written
  <2>3. ~Acknowledged(r) /\ ~InFlight(r)
    BY <2>1 DEF Acknowledged, InFlight
  <2>4. WellFormed(r) /\ StepOfRoute(r) /\ WrittenInv(r) /\ SubmissionInv(r)
    BY <2>1, <2>2, <2>3 DEF WellFormed, StepOfRoute, WrittenInv, SubmissionInv
  <2>5. ExposedInv(r) /\ TokenInv(r) /\ EffectInv(r) /\ KnownInv(r) /\ SeenInv(r)
    BY <2>1, <2>3 DEF ExposedInv, TokenInv, EffectInv, KnownInv, SeenInv
  <2> QED
    BY <2>4, <2>5 DEF ReqInv
<1> QED
  BY <1>2, <1>3, <1>4, <1>5 DEF HttpInv

\* The invariant is inductive.
LEMMA NextInv == HttpInv /\ [Next]_vars => HttpInv'
<1> SUFFICES ASSUME HttpInv, [Next]_vars PROVE HttpInv'
  OBVIOUS
<1>1. ASSUME NEW q \in Requests, Arrive(q) PROVE HttpInv'
  BY <1>1, ArriveInv
<1>2. ASSUME NEW q \in Requests, Serve(q) PROVE HttpInv'
  <2>1. CASE Limit(q)
    BY <2>1, LimitInv
  <2>2. CASE RegisterFindEmail(q) \/ RegisterFindUsername(q)
    BY <2>2, RegisterFindsInv
  <2>3. CASE RegisterCreate(q)
    BY <2>3, RegisterCreateInv
  <2>4. CASE Login(q)
    BY <2>4, LoginInv
  <2>5. CASE GetCurrentUser(q) \/ FindFirst(q) \/ Read(q)
    BY <2>5, LookupsInv
  <2>6. CASE CreateProblem(q)
    BY <2>6, CreateProblemInv
  <2>7. CASE UpdateProblem(q)
    BY <2>7, UpdateProblemInv
  <2>8. CASE DeleteProblem(q)
    BY <2>8, DeleteProblemInv
  <2>9. CASE CreateTest(q) \/ ChangeTest(q)
    BY <2>9, TestsInv
  <2>10. CASE Purge(q)
    BY <2>10, PurgeInv
  <2>11. CASE SubmitFind(q)
    BY <2>11, SubmitFindInv
  <2>12. CASE SubmitInsert(q)
    BY <2>12, SubmitInsertInv
  <2>13. CASE AddJob(q)
    BY <2>13, AddJobInv
  <2>14. CASE GetSubmission(q)
    BY <2>14, GetSubmissionInv
  <2>15. CASE GetUserSubmissions(q)
    BY <2>15, GetUserSubmissionsInv
  <2> QED
    BY <1>2, <2>1, <2>2, <2>3, <2>4, <2>5, <2>6, <2>7, <2>8, <2>9, <2>10, <2>11,
       <2>12, <2>13, <2>14, <2>15 DEF Serve
<1>3. ASSUME NEW q \in Requests, QueryFails(q) PROVE HttpInv'
  BY <1>3, QueryFailsInv
<1>4. CASE Crash
  BY <1>4, CrashInv
<1>5. CASE UNCHANGED vars
  <2>1. UNCHANGED <<request, exposed, known, at, answer, users, problem, tests, subs,
                    queued, got, broke, faults>>
    BY <1>5 DEF vars, io, tables
  <2>2. TypeOK' /\ known' \in [Requests -> SUBSET Requests]
    BY <2>1 DEF HttpInv, TypeOK
  <2>3. OneAccountEach' /\ RowsBelong' /\ SubmittedWhilePublished'
    BY <2>1 DEF HttpInv, OneAccountEach, RowsBelong, Exists, SubmittedWhilePublished,
                IsAdmin
  <2>4. ASSUME NEW r \in Requests PROVE ReqInv(r)'
    <3>1. ReqInv(r)
      BY DEF HttpInv
    <3>2. WellFormed(r)' /\ StepOfRoute(r)' /\ WrittenInv(r)' /\ SubmissionInv(r)'
      BY <2>1, <3>1 DEF ReqInv, WellFormed, StepOfRoute, WrittenInv, Written,
         SubmissionInv, Stored, Acknowledged, Op, On, By
    <3>3. ExposedInv(r)' /\ TokenInv(r)' /\ EffectInv(r)' /\ KnownInv(r)'
      BY <2>1, <3>1 DEF ReqInv, ExposedInv, Visible, IsAdmin, InFlight, TokenInv,
         EffectInv, KnownInv, Acknowledged, Op, On, By
    <3>4. SeenInv(r)'
      BY <2>1, <3>1 DEF ReqInv, SeenInv, Op, On, By
    <3> QED
      BY <3>2, <3>3, <3>4 DEF ReqInv
  <2> QED
    BY <2>2, <2>3, <2>4 DEF HttpInv
<1> QED
  BY <1>1, <1>2, <1>3, <1>4, <1>5 DEF Next

\* HttpInv holds in every state.
THEOREM HttpInvariant == Spec => []HttpInv
<1>1. Init => HttpInv
  BY InitInv
<1>2. HttpInv /\ [Next]_vars => HttpInv'
  BY NextInv
<1> QED
  BY <1>1, <1>2, PTL DEF Spec

\* However checks and writes of requests interleave, two accounts share no
\* e-mail address or name, and each row's problem exists.
THEOREM TablesConsistent == Spec => []Consistent
<1>1. HttpInv => Consistent
  BY DEF HttpInv, RowsBelong, Consistent, NoOrphans
<1> QED
  BY <1>1, HttpInvariant, PTL

\* No request that is answered with 4xx or 5xx has inserted, changed or deleted
\* a row, unless a connection or the queue failed under it: once a service has
\* written, only its purge, which swallows errors, or its job is left to do.
THEOREM FailuresLeaveNothing == Spec => []FailureLeavesNothing
<1>1. Init => HttpInv /\ WroteInv
  BY InitInv DEF Init, WroteInv, Settled
<1>2. HttpInv /\ WroteInv /\ [Next]_vars => HttpInv' /\ WroteInv'
  BY NextInv, WroteStep
<1>3. HttpInv /\ WroteInv => FailureLeavesNothing
  <2> SUFFICES ASSUME HttpInv, WroteInv, NEW r \in Requests,
                      at[r] = "done", ~Acknowledged(r), r \notin broke
               PROVE  /\ r \notin wrote
                      /\ problem[r] = "absent"
                      /\ \A row \in users \cup tests \cup subs : row.id # r
    BY DEF FailureLeavesNothing
  <2>1. r \notin wrote
    BY DEF WroteInv, Settled
  <2>2. ~Written(r)
    BY DEF HttpInv, ReqInv, WrittenInv
  <2> QED
    BY <2>1, <2>2 DEF Written
<1> QED
  BY <1>1, <1>2, <1>3, PTL DEF Spec

\* A submission is acknowledged only when it is stored and its job queued.
THEOREM AcknowledgedMeansQueued == Spec => []AcknowledgedIsQueued
<1>1. HttpInv => AcknowledgedIsQueued
  BY DEF HttpInv, ReqInv, SubmissionInv, Stored, AcknowledgedIsQueued
<1> QED
  BY <1>1, HttpInvariant, PTL

\* Nobody but an admin submits to a problem that was never published while the
\* request was under way.
THEOREM SubmittedMeansPublished == Spec => []SubmittedWhilePublished
<1>1. HttpInv => SubmittedWhilePublished
  BY DEF HttpInv
<1> QED
  BY <1>1, HttpInvariant, PTL

\* What was acknowledged is seen by the requests that arrive later: a deleted
\* problem takes no submission, as a submission's problem is never deleted.
THEOREM AcknowledgedMeansSeen == Spec => []AcknowledgedIsSeen
<1>1. ASSUME HttpInv, NEW r \in Requests, NEW s \in Requests, s \in known[r],
             Op(s) = "deleteProblem", Op(r) = "submit", On(r) = On(s), answer[r] = 201
      PROVE  FALSE
  <2>1. Acknowledged(s) /\ Acknowledged(r)
    BY <1>1 DEF HttpInv, ReqInv, KnownInv, Acknowledged
  <2>2. problem[On(s)] = "deleted"
    BY <1>1, <2>1 DEF HttpInv, ReqInv, EffectInv
  <2>3. Stored(r)
    BY <1>1, <2>1 DEF HttpInv, ReqInv, SubmissionInv
  <2>4. Exists(On(r))
    BY <1>1, <2>3 DEF HttpInv, RowsBelong, Stored
  <2> QED
    BY <1>1, <2>2, <2>4 DEF Exists
<1>2. ASSUME HttpInv PROVE AcknowledgedIsSeen
  <2> USE DEF AcknowledgedIsSeen
  <2> TAKE r \in Requests, s \in Requests
  <2> HAVE s \in known[r] /\ at[r] = "done" /\ r \notin broke /\ answer[r] # 400
  <2> HIDE DEF AcknowledgedIsSeen
  <2>1. SeenInv(r)
    BY <1>2 DEF HttpInv, ReqInv
  <2>2. Op(s) = "deleteProblem" /\ Op(r) = "submit" /\ On(r) = On(s) => answer[r] # 201
    BY <1>1, <1>2
  <2>3. Op(s) = "register" /\ Op(r) = "login" /\ On(r) = <<On(s)[1], TRUE>>
          => answer[r] = 200
    BY <2>1 DEF SeenInv
  <2>4. Op(s) = "submit" /\ Op(r) = "getSubmission" /\ On(r) = s /\ By(r) = By(s)
          => answer[r] = 200
    BY <2>1 DEF SeenInv
  <2>5. Op(s) = "submit" /\ Op(r) = "mySubmissions" /\ By(r) = By(s) => s \in got[r]
    BY <2>1 DEF SeenInv
  <2> QED
    BY <2>2, <2>3, <2>4, <2>5
<1> QED
  BY <1>2, HttpInvariant, PTL

==============================================================================
