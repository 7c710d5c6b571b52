------------------------------- MODULE HttpApi -------------------------------
(***************************************************************************)
(* The REST API: concurrent requests, each running its chain of middleware *)
(* and its service function against PostgreSQL and the queue.              *)
(*                                                                         *)
(* Everything before the first "await" of a request is one step; then each *)
(* query, and each call of the queue, is a step of its own, and any other  *)
(* request may run in between: what a service checked may be gone when it  *)
(* writes.  PostgreSQL enforces the unique columns and the foreign keys of *)
(* schema.prisma; a violation, like any error that is no ApiError, is      *)
(* answered with 500.  The limiter and the cache have modules of their own *)
(* (RateLimiter, ProblemCache): here the one passes or refuses, and purging*)
(* the other takes a step.  Signed tokens carry user and role; no code     *)
(* changes the role of an account, so that a token is given by its account,*)
(* and a missing, malformed or expired one is None.                        *)
(***************************************************************************)
EXTENDS Integers, FiniteSets

CONSTANTS
  Requests,         \* also the ids of the rows they insert
  Emails, Names,    \* inputs of registrations and logins
  OldProblems,      \* problems that exist at the start
  Seeds,            \* accounts of the seed: [id, email, name, role]
  OldTests, OldSubs,\* their test cases [id, problem], and maybe submissions
                    \* [id, by, problem]
  Ops,              \* the routes in use
  MaxFaults,        \* bound on lost connections, queue failures, crashes
  None

Routes ==
  {"register", "login", "me", "listProblems", "getProblem", "createProblem",
   "updateProblem", "deleteProblem", "listTests", "createTest", "updateTest",
   "deleteTest", "submit", "getSubmission", "mySubmissions"}

\* The rows of the start obey the constraints of the schema, and are not those
\* of a request.
ASSUME ApiAssumption ==
  /\ Ops \subseteq Routes /\ MaxFaults \in Nat
  /\ None \notin OldProblems \cup Requests /\ OldProblems \cap Requests = {}
  /\ \A u \in Seeds : u.id \notin Requests /\ u.role \in {"USER", "ADMIN"}
  /\ \A u, v \in Seeds : u.email = v.email \/ u.name = v.name => u = v
  /\ \A row \in OldTests \cup OldSubs :
       row.id \notin Requests /\ row.problem \in OldProblems

Problems == OldProblems \cup Requests

VARIABLES
  request,          \* per request: [op, by, on, ok], None before it arrives
  at, answer,       \* per request: its next step, and its status (0: none)
  users, problem,   \* tables: accounts; problem -> its visibility
  tests, subs,      \* tables: test cases, submissions
  queued,           \* submissions a job was added for
  got,              \* per request: ids in the history it returned
  exposed,          \* history: requests that could see their problem published
  known,            \* history: requests acknowledged before one arrived
  broke,            \* history: requests whose connection or queue failed
  wrote,            \* history: requests that changed a row
  faults

io     == <<request, exposed, known>>
tables == <<users, problem, tests, subs, queued>>
vars   == <<io, at, answer, tables, got, broke, wrote, faults>>

------------------------------------------------------------------------------
(* Requests and what their middleware demands *)

NeedsToken(op) ==
  op \notin {"register", "login", "listProblems", "getProblem"}

AdminOnly(op) ==
  op \in {"createProblem", "updateProblem", "deleteProblem", "listTests",
          "createTest", "updateTest", "deleteTest"}

\* Routes with a validate() in their chain.
Validated(op) ==
  op \in {"register", "login", "listProblems", "createProblem", "updateProblem",
          "createTest", "updateTest", "submit", "mySubmissions"}

\* Ids of problems there are or were, and one that is unknown.
KnownProblems == {p \in Problems : problem[p] # "absent"} \cup {None}

\* An e-mail address with a name, or with whether the password is right.
Credentials(op) == IF op = "register" THEN Emails \X Names ELSE Emails \X BOOLEAN

\* isPublished of a new problem, or of a problem with an id.
ProblemBodies(op) ==
  LET visibility == {"draft", "published"}
  IN  IF op = "createProblem" THEN visibility ELSE KnownProblems \X visibility

\* What a request is about.
Subjects(op) ==
  CASE op \in {"register", "login"} -> Credentials(op)
    [] op \in {"createProblem", "updateProblem"} -> ProblemBodies(op)
    [] op \in {"getProblem", "deleteProblem", "listTests", "createTest", "submit"}
         -> KnownProblems
    [] op \in {"updateTest", "deleteTest"} -> {t.id : t \in tests} \cup {None}
    [] op = "getSubmission" -> {s.id : s \in subs} \cup {None}
    [] OTHER -> {None}

Inputs ==
  UNION {[op : {op}, by : {u.id : u \in users} \cup {None}, on : Subjects(op),
          ok : IF Validated(op) THEN BOOLEAN ELSE {TRUE}] : op \in Ops}

IsAdmin(id) == \E u \in users : u.id = id /\ u.role = "ADMIN"

Exists(p)  == p # None /\ problem[p] \in {"draft", "published"}
Visible(p) == p # None /\ problem[p] = "published"

\* The problem a request names, if any.
ProblemOf(i) ==
  CASE i.op = "updateProblem" -> i.on[1]
    [] i.op \in {"getProblem", "deleteProblem", "listTests", "createTest", "submit"}
         -> i.on
    [] OTHER -> None

Op(r) == request[r].op
By(r) == request[r].by
On(r) == request[r].on

Ended == {"done", "lost"}
InFlight(r) == at[r] \notin Ended \cup {"idle"}

Init ==
  /\ request = [r \in Requests |-> None]
  /\ at = [r \in Requests |-> "idle"]
  /\ answer = [r \in Requests |-> 0]
  /\ users = Seeds /\ tests = OldTests /\ subs \in {{}, OldSubs}
  /\ problem \in [Problems -> {"absent", "draft", "published"}]
  /\ \A p \in Problems : problem[p] = "absent" <=> p \notin OldProblems
  /\ queued = {s.id : s \in subs}
  /\ got = [r \in Requests |-> {}]
  /\ exposed = {}
  /\ known = [r \in Requests |-> {}]
  /\ broke = {} /\ wrote = {} /\ faults = 0

------------------------------------------------------------------------------
(* Answers *)

Goto(r, step) == at' = [at EXCEPT ![r] = step] /\ UNCHANGED answer

Answer(r, status) ==
  /\ at' = [at EXCEPT ![r] = "done"]
  /\ answer' = [answer EXCEPT ![r] = status]

\* asyncHandler and errorHandler: an error that is no ApiError.
Throw(r) == Answer(r, 500)

Fault(r) ==
  /\ faults < MaxFaults /\ faults' = faults + 1
  /\ broke' = broke \cup {r}

NoFault == UNCHANGED <<broke, faults>>

\* A write has been committed: its reply arrives, or is lost.
Committed(r, step) ==
  \/ Goto(r, step) /\ NoFault
  \/ Throw(r) /\ Fault(r)

CommittedLast(r, status) ==
  \/ Answer(r, status) /\ NoFault
  \/ Throw(r) /\ Fault(r)

------------------------------------------------------------------------------
(* Arrival: the synchronous middleware, in its order *)

FirstStep(op) == IF op = "createProblem" THEN "write" ELSE "find"

\* authenticate refuses.
Unauthenticated(i) == NeedsToken(i.op) /\ i.by = None

\* authorize('ADMIN') refuses.
Authorize(i) == AdminOnly(i.op) /\ ~IsAdmin(i.by)

Validate(r, i) ==
  IF i.ok THEN Goto(r, FirstStep(i.op)) ELSE Answer(r, 400)

Arrive(r) ==
  /\ at[r] = "idle"
  /\ \E i \in Inputs :
       /\ request' = [request EXCEPT ![r] = i]
       /\ exposed' = IF Visible(ProblemOf(i)) THEN exposed \cup {r} ELSE exposed
       /\ known' = [known EXCEPT ![r] = {s \in Requests : answer[s] \in {200, 201}}]
       /\ IF Unauthenticated(i) THEN Answer(r, 401)
          ELSE IF Authorize(i) THEN Answer(r, 403)
          ELSE IF i.op = "submit" THEN Goto(r, "limit")
          ELSE Validate(r, i)
  /\ UNCHANGED <<tables, got>> /\ NoFault

\* The limiter runs before the body is validated.
Limit(r) ==
  /\ at[r] = "limit"
  /\ Answer(r, 429) \/ Validate(r, request[r])
  /\ UNCHANGED <<io, tables, got>> /\ NoFault

------------------------------------------------------------------------------
(* Accounts *)

RegisterFindEmail(r) ==
  /\ at[r] = "find" /\ Op(r) = "register"
  /\ IF \E u \in users : u.email = On(r)[1] THEN Answer(r, 409) ELSE Goto(r, "findName")
  /\ UNCHANGED <<io, tables, got>> /\ NoFault

RegisterFindUsername(r) ==
  /\ at[r] = "findName"
  /\ IF \E u \in users : u.name = On(r)[2] THEN Answer(r, 409) ELSE Goto(r, "write")
  /\ UNCHANGED <<io, tables, got>> /\ NoFault

\* Bug: the columns are not unique.
UniqueNotEnforced(e, n) == TRUE

\* The unique columns of User.
Unique(e, n) == \A u \in users : u.email # e /\ u.name # n

RegisterCreate(r) ==
  /\ at[r] = "write" /\ Op(r) = "register"
  /\ IF Unique(On(r)[1], On(r)[2])
       THEN /\ users' = users \cup
                 {[id |-> r, email |-> On(r)[1], name |-> On(r)[2], role |-> "USER"]}
            /\ CommittedLast(r, 201)
       ELSE Throw(r) /\ UNCHANGED users /\ NoFault
  /\ UNCHANGED <<io, problem, tests, subs, queued, got>>

Login(r) ==
  /\ at[r] = "find" /\ Op(r) = "login"
  /\ Answer(r, IF (\E u \in users : u.email = On(r)[1]) /\ On(r)[2] THEN 200 ELSE 401)
  /\ UNCHANGED <<io, tables, got>> /\ NoFault

GetCurrentUser(r) ==
  /\ at[r] = "find" /\ Op(r) = "me"
  /\ Answer(r, IF \E u \in users : u.id = By(r) THEN 200 ELSE 404)
  /\ UNCHANGED <<io, tables, got>> /\ NoFault

------------------------------------------------------------------------------
(* Problems and test cases *)

\* The row a service looks up before it writes or reads.
Found(r) ==
  CASE Op(r) \in {"updateTest", "deleteTest"} -> \E t \in tests : t.id = On(r)
    [] OTHER -> Exists(ProblemOf(request[r]))

FindFirst(r) ==
  /\ at[r] = "find"
  /\ Op(r) \in {"updateProblem", "deleteProblem", "createTest", "updateTest",
                "deleteTest", "listTests"}
  /\ IF ~Found(r) THEN Answer(r, 404)
     ELSE Goto(r, IF Op(r) = "listTests" THEN "read" ELSE "write")
  /\ UNCHANGED <<io, tables, got>> /\ NoFault

\* listTestCases after its check, listProblems, getProblemById: what they
\* return is ProblemCache's subject.
Read(r) ==
  /\ \/ at[r] = "read" /\ Answer(r, 200)
     \/ at[r] = "find" /\ Op(r) = "listProblems" /\ Answer(r, 200)
     \/ /\ at[r] = "find" /\ Op(r) = "getProblem"
        /\ Answer(r, IF Visible(On(r)) \/ (Exists(On(r)) /\ IsAdmin(By(r)))
                       THEN 200 ELSE 404)
  /\ UNCHANGED <<io, tables, got>> /\ NoFault

SetProblem(p, vis) == problem' = [problem EXCEPT ![p] = vis]

CreateProblem(r) ==
  /\ at[r] = "write" /\ Op(r) = "createProblem"
  /\ SetProblem(r, On(r))
  /\ Committed(r, "purge")
  /\ UNCHANGED <<io, users, tests, subs, queued, got>>

UpdateProblem(r) ==
  /\ at[r] = "write" /\ Op(r) = "updateProblem"
  /\ IF Exists(On(r)[1])
       THEN /\ SetProblem(On(r)[1], On(r)[2])
            /\ Committed(r, "purge")
            /\ exposed' = IF On(r)[2] = "draft" THEN exposed ELSE exposed \cup
                 {q \in Requests : InFlight(q) /\ ProblemOf(request[q]) = On(r)[1]}
       ELSE Throw(r) /\ UNCHANGED <<problem, exposed>> /\ NoFault
  /\ UNCHANGED <<request, known, users, tests, subs, queued, got>>

\* Bug: the schema lets the deletion of a problem through.
NotReferenced(p) == FALSE

\* Submission.problem has no onDelete: a problem with submissions stays.
Referenced(p) == \E s \in subs : s.problem = p

\* TestCase.problem is deleted in cascade.
DeleteProblem(r) ==
  /\ at[r] = "write" /\ Op(r) = "deleteProblem"
  /\ IF Exists(On(r)) /\ ~Referenced(On(r))
       THEN /\ SetProblem(On(r), "deleted")
            /\ tests' = {t \in tests : t.problem # On(r)}
            /\ Committed(r, "purge")
       ELSE Throw(r) /\ UNCHANGED <<problem, tests>> /\ NoFault
  /\ UNCHANGED <<io, users, subs, queued, got>>

CreateTest(r) ==
  /\ at[r] = "write" /\ Op(r) = "createTest"
  /\ IF Exists(On(r))
       THEN /\ tests' = tests \cup {[id |-> r, problem |-> On(r)]}
            /\ Committed(r, "purge")
       ELSE Throw(r) /\ UNCHANGED tests /\ NoFault
  /\ UNCHANGED <<io, users, problem, subs, queued, got>>

ChangeTest(r) ==
  /\ at[r] = "write" /\ Op(r) \in {"updateTest", "deleteTest"}
  /\ IF \E t \in tests : t.id = On(r)
       THEN /\ tests' = IF Op(r) = "updateTest" THEN tests
                        ELSE {t \in tests : t.id # On(r)}
            /\ Committed(r, "purge")
       ELSE Throw(r) /\ UNCHANGED tests /\ NoFault
  /\ UNCHANGED <<io, users, problem, subs, queued, got>>

\* Bug: an error of Redis is thrown.
PurgeThrows(r) == Throw(r)

\* The keys are removed; CacheService swallows errors.
Purged(r) == Answer(r, IF Op(r) \in {"createProblem", "createTest"} THEN 201 ELSE 200)

Purge(r) ==
  /\ at[r] = "purge"
  /\ Purged(r)
  /\ UNCHANGED <<io, tables, got>> /\ NoFault

------------------------------------------------------------------------------
(* Submissions *)

\* Bug: drafts can be submitted to.
MaySubmitToAny(r) == Exists(On(r))

MaySubmit(r) == Visible(On(r)) \/ (Exists(On(r)) /\ IsAdmin(By(r)))

SubmitFind(r) ==
  /\ at[r] = "find" /\ Op(r) = "submit"
  /\ IF MaySubmit(r) THEN Goto(r, "write") ELSE Answer(r, 404)
  /\ UNCHANGED <<io, tables, got>> /\ NoFault

SubmitInsert(r) ==
  /\ at[r] = "write" /\ Op(r) = "submit"
  /\ IF Exists(On(r))
       THEN /\ subs' = subs \cup {[id |-> r, by |-> By(r), problem |-> On(r)]}
            /\ Committed(r, "addJob")
       ELSE Throw(r) /\ UNCHANGED subs /\ NoFault
  /\ UNCHANGED <<io, users, problem, tests, queued, got>>

\* Bug: the job is added without waiting for it.
NotAwaited(r) == Answer(r, 201) /\ Fault(r) /\ UNCHANGED queued

\* The error of the queue is thrown; the row stays.
AddJobFails(r) == Throw(r) /\ Fault(r) /\ UNCHANGED queued

AddJob(r) ==
  /\ at[r] = "addJob"
  /\ \/ queued' = queued \cup {r} /\ CommittedLast(r, 201)
     \/ AddJobFails(r)
  /\ UNCHANGED <<io, users, problem, tests, subs, got>>

MayRead(r, s) == s.by = By(r) \/ IsAdmin(By(r))

GetSubmission(r) ==
  /\ at[r] = "find" /\ Op(r) = "getSubmission"
  /\ IF ~\E s \in subs : s.id = On(r) THEN Answer(r, 404)
     ELSE Answer(r, IF \E s \in subs : s.id = On(r) /\ MayRead(r, s) THEN 200 ELSE 403)
  /\ UNCHANGED <<io, tables, got>> /\ NoFault

\* Bug: pages are counted from zero.
SecondPage(r) == {}

\* The first page, longer than any history here.
OwnSubmissions(r) == {s.id : s \in {x \in subs : x.by = By(r)}}

GetUserSubmissions(r) ==
  /\ at[r] = "find" /\ Op(r) = "mySubmissions"
  /\ got' = [got EXCEPT ![r] = OwnSubmissions(r)]
  /\ Answer(r, 200)
  /\ UNCHANGED <<io, tables>> /\ NoFault

------------------------------------------------------------------------------
(* Failures *)

\* A query fails without effect.
QueryFails(r) ==
  /\ at[r] \in {"find", "findName", "write", "read"}
  /\ Throw(r) /\ Fault(r)
  /\ UNCHANGED <<io, tables, got>>

\* The API process dies with all its requests.
Crash ==
  /\ faults < MaxFaults /\ faults' = faults + 1
  /\ \E r \in Requests : InFlight(r)
  /\ at' = [r \in Requests |-> IF InFlight(r) THEN "lost" ELSE at[r]]
  /\ UNCHANGED <<io, answer, tables, got, broke, wrote>>

------------------------------------------------------------------------------
(* Specification *)

Serve(r) ==
  \/ Limit(r) \/ RegisterFindEmail(r) \/ RegisterFindUsername(r) \/ RegisterCreate(r)
  \/ Login(r) \/ GetCurrentUser(r) \/ FindFirst(r) \/ Read(r)
  \/ CreateProblem(r) \/ UpdateProblem(r) \/ DeleteProblem(r)
  \/ CreateTest(r) \/ ChangeTest(r) \/ Purge(r)
  \/ SubmitFind(r) \/ SubmitInsert(r) \/ AddJob(r)
  \/ GetSubmission(r) \/ GetUserSubmissions(r)

\* The history of a step of r: did it insert, change or delete a row?  The
\* contents of rows are not modelled, so that an update may change no table
\* here; but only a request that wrote has keys to purge.
Remember(r) ==
  wrote' = IF UNCHANGED <<users, problem, tests, subs>> /\ at'[r] # "purge"
             THEN wrote ELSE wrote \cup {r}

Next ==
  \/ \E r \in Requests : (Arrive(r) \/ Serve(r) \/ QueryFails(r)) /\ Remember(r)
  \/ Crash

Spec == Init /\ [][Next]_vars

------------------------------------------------------------------------------
(* Properties *)

Acknowledged(r) == answer[r] \in {200, 201}

TypeOK ==
  /\ DOMAIN request = Requests /\ got \in [Requests -> SUBSET {s.id : s \in subs}]
  /\ at \in [Requests -> {"idle", "limit", "find", "findName", "write", "read",
                          "addJob", "purge"} \cup Ended]
  /\ answer \in [Requests -> {0, 200, 201, 400, 401, 403, 404, 409, 429, 500}]
  /\ \A r \in Requests : at[r] = "done" <=> answer[r] # 0
  /\ \A r \in Requests : at[r] # "idle" => request[r].op \in Ops
  /\ \A u \in users : u.id \in {v.id : v \in Seeds} \cup Requests /\ u.role \in {"USER", "ADMIN"}
  /\ problem \in [Problems -> {"absent", "draft", "published", "deleted"}]
  /\ faults \in 0..MaxFaults

\* Two registrations that both found the email and the name free do not both
\* create an account.
OneAccountEach ==
  \A u, v \in users : u.email = v.email \/ u.name = v.name => u = v

\* Submissions and test cases belong to a problem that exists, however its
\* deletion interleaves with the checks of the requests that insert them.
NoOrphans == \A row \in tests \cup subs : Exists(row.problem)

\* The type invariant with the two constraints of the tables that no check of
\* a service can guarantee.
Consistent == TypeOK /\ OneAccountEach /\ NoOrphans

\* An answer of 4xx or 5xx means that the request inserted, changed and deleted
\* nothing, on any route: what follows a write, the purge of the caches, makes
\* no failure of it.  Except when a connection or the queue failed under it.
FailureLeavesNothing ==
  \A r \in Requests :
    at[r] = "done" /\ ~Acknowledged(r) /\ r \notin broke =>
      /\ r \notin wrote
      /\ problem[r] = "absent" /\ \A row \in users \cup tests \cup subs : row.id # r

\* An acknowledged submission is stored and its job is in the queue: only a
\* request that failed, or that the process died under, leaves one without job.
AcknowledgedIsQueued ==
  \A r \in Requests : Acknowledged(r) /\ Op(r) = "submit" =>
    r \in queued /\ \E s \in subs : s.id = r

\* Nobody but an admin submits to a problem that was not published at some
\* moment of the request; the check and the insert are not atomic.
SubmittedWhilePublished ==
  \A s \in subs : s.id \in Requests /\ ~IsAdmin(s.by) => s.id \in exposed

\* What was acknowledged before a request arrived is seen by it: an account can
\* sign in, a submission can be polled and is in the history, and a deleted
\* problem takes no submission.
AcknowledgedIsSeen ==
  \A r \in Requests, s \in Requests :
    s \in known[r] /\ at[r] = "done" /\ r \notin broke /\ answer[r] # 400 =>
      /\ Op(s) = "register" /\ Op(r) = "login" /\ On(r) = <<On(s)[1], TRUE>>
           => answer[r] = 200
      /\ Op(s) = "submit" /\ Op(r) = "getSubmission" /\ On(r) = s /\ By(r) = By(s)
           => answer[r] = 200
      /\ Op(s) = "submit" /\ Op(r) = "mySubmissions" /\ By(r) = By(s) => s \in got[r]
      /\ Op(s) = "deleteProblem" /\ Op(r) = "submit" /\ On(r) = On(s) => answer[r] # 201

==============================================================================
