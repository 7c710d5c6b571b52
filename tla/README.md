# A verification project for OnlineCodeHelp

OnlineCodeHelp is an online code judge: a React client, an Express API server,
BullMQ workers that run submitted programs in Docker, PostgreSQL (through
Prisma) for what must last, and Redis for the job queue, the caches and the
rate limiter. This directory holds TLA+ models of the parts of it whose
correctness depends on the order of steps, the TLC instances that check them,
and theorems about them checked by TLAPS.

Paths below are relative to the root of the repository.

## 1. Inventory

| Component | Source | State it keeps | Operations | Module |
|---|---|---|---|---|
| Submission service | `server/src/services/submission.service.ts` | `submissions` rows: status, verdict | `createSubmission`, `executeSubmissionAsync`, reads | `SubmissionPipeline`, `HttpApi` |
| Job queue, consumer, dead-letter queue | `server/src/queue/*` | BullMQ jobs in Redis: state, attempts, lock | `addSubmissionJob`, `processSubmissionJob`, the `failed` handler, `sendToDeadLetterQueue` | `SubmissionPipeline` |
| Worker process | `server/src/worker.ts` | `isShuttingDown`, the worker | start, graceful shutdown | `SubmissionPipeline` |
| Execution engine | `server/src/execution/ExecutionEngine.ts`, `executors/*` | one temporary directory per evaluation | `execute`, `compile`, `run`, `cleanup` | `ExecutionEngine`, `Judge` |
| Docker sandbox | `server/src/execution/DockerSandbox.ts` | one container, one timer per run | `run`, `forceRemoveContainer` | `ExecutionEngine` |
| Cache, problem and test case services | `server/src/services/cache.service.ts`, `problem.service.ts`, `testcase.service.ts` | `problems`, `test_cases` rows, cached copies | list, get, create, update, delete | `ProblemCache`, `HttpApi` |
| Rate limiter | `server/src/middleware/rateLimiter.ts` | one Redis counter with a TTL per user | the middleware | `RateLimiter` |
| Routes, controllers, validation, authentication | `server/src/routes`, `controllers`, `schemas`, `middleware`, `services/auth.service.ts` | `users` rows; user and role inside a token | the chain of each of the 15 routes | `HttpApi` |
| API process | `server/src/index.ts`, `config/*`, `utils/metrics.ts` | embedded development worker, connections | start, health, readiness, metrics, status, shutdown | `ApiProcess` |
| Maintenance scripts | `server/prisma/seed.ts`, `seed_expanded.ts`, `server/scripts/import_bulk_leetcode.ts` | rows, a local data set | one run each | `CatalogScripts`, `ProblemCache` |
| Problem page and its polling | `client/src/pages/ProblemDetailPage.tsx`, `hooks/useSubmissionPolling.ts` | problem, history, current submission, timer, attempts | visit, open history, submit, poll | `ProblemPage` |
| Client session | `client/src/context/AuthContext.tsx`, `services/api.ts` and the forms | token in `localStorage`, user in React state | load, sign in, sign out, the interceptors | `ClientSession` |

Not modelled: see section 6.

### How they interact

The client calls the API with a token. The API checks a submission against the
problem, stores it and adds a job; a worker claims the row, evaluates the code
with the engine and stores a verdict, which the client's polling finds. Admins
and scripts change problems, which public reads find through the cache. Each of
these arrows is an `await` in one process and a change of state in another.

### What is hard

* **Two steps that are not one.** A row is inserted and then its job is added;
  a job is quarantined and then its row is marked; a title is looked up and
  then created; a key is counted and then given its expiry; a check precedes
  every insert.
* **Work that was already begun.** A job is delivered again after an error, a
  crash or an expired lock, while its row remembers the first delivery.
* **Two workers with one job.** A worker whose lock expired runs on beside the
  one that recovered its job.
* **Answers that are late.** Cache fills, poll answers, answers to fetches of
  an earlier page and 401s to an earlier token are used after what they were
  read from has changed.
* **Timers against events.** The sandbox's timeout races the container's exit
  and its creation; `EXPIRE` races the window it opens.
* **Shutdown.** What is waited for, and what is not, and what two signals do.
* **Shared places.** Tabs share a token, tests of one evaluation share a
  directory, scripts share tables with each other and a cache with the server.

## 2. Modules

| Module | What it is |
|---|---|
| `SubmissionLifecycle` | Abstract: the status column of a submission as `VALID_TRANSITIONS` allows it to change. |
| `SubmissionPipeline` | API, BullMQ, worker slots, `failed` handler, dead-letter queue, worker processes and their faults. Implements `SubmissionLifecycle`. |
| `SubmissionCauses` | The pipeline with a history of the losses for which the code has no second chance. |
| `Judge` | Abstract: the verdicts one evaluation may give, by what the program does on each test. |
| `ExecutionEngine` | `execute`, the executors and the sandbox against child process, timer, Docker daemon and platform failures. Implements `Judge`. |
| `ProblemCache` | Cached public reads of problems against the writes of admins and of the seed, Redis errors and outages. |
| `RateLimiter` | Concurrent requests of one user on one key with a TTL. |
| `HttpApi` | The 15 routes: middleware, service functions, tables with their constraints, and crashes. |
| `ApiProcess` | One API process: start, probes, embedded worker, shutdown, outages. |
| `CatalogScripts` | The two seeds and the importer, rerun after failures or at the same time. |
| `ClientSession` | Tabs of one browser with their shared token. |
| `ProblemPage` | The problem page and its polling hook, with late answers. |
| `MC...` | Instances for TLC: symmetry, and data given by definitions. |
| `..._proofs` | Theorems about the module they are named after; `SubmissionPipeline_proofs` also about `SubmissionCauses`. |
| `Operations_proofs` | Theorems about `ApiProcess` and `CatalogScripts`, which share no variable. |

Modules meet where one system calls another: the engine's outcomes are the
constant `EngineVerdicts` and the fault `engine` of the pipeline; the pipeline's
promise `SubmissionLifecycle` is what `ProblemPage` lets the judge do with a
status; `HttpApi` leaves the limiter a choice and the cache one step, which
`RateLimiter` and `ProblemCache` spell out; `ApiProcess` lets the embedded
worker's job end because `ExecutionEngine` shows that every evaluation does.

### SubmissionPipeline

| Variable | In the system |
|---|---|
| `status` | the `status` column in PostgreSQL, `"NONE"` when there is no row |
| `api` | how far `createSubmission` has come for this submission |
| `jobState`, `attemptsMade`, `stalledCount`, `lock` | the BullMQ job with `jobId` = submission id, in Redis |
| `pc`, `cur`, `result` | per worker slot: the next `await` of `executeSubmissionAsync`, its submission, the verdict the engine returned |
| `handler`, `host` | the asynchronous `failed` handler of a job and the worker running it |
| `dlq` | the submissions quarantined by `sendToDeadLetterQueue` |
| `mode` | worker process: up, draining, closing (after `worker.close()`), down |
| `faults` | number of faults so far |

Each `await` separates two actions. The two conditional `updateMany` calls and
the one of the `failed` handler are `UpdateMany` with the status sets of their
`where` clauses (`ClaimFrom`, `FinalizeFrom`, `MarkFrom`). The first
`findUnique` and the claim lie outside the `try` block of
`executeSubmissionAsync` and the evaluation and the verdict inside it, but all
errors leave the function, so all of them lead to the step `"throw"`.

BullMQ is external. What is modelled of it is what `src/` configures and relies
on: a job is taken by one slot and locked; a processor that returns completes
it; one that throws makes it wait for its backoff while `attemptsMade` is below
`attempts`, and fails it after that; both need the lock; an active job without
a lock is found by the stalled check and is put back at most `maxStalledCount`
times, then fails; `failed` is emitted in either case and its listeners are not
awaited.

Faults are the errors and losses the code meets: see `FaultKinds`. A fault on
an UPDATE comes in two kinds, because a lost reply leaves the statement
executed. A crash ends all slots and handlers of a worker and lets its locks
expire; an expired lock without a crash (a blocked event loop, a partition from
Redis) lets the processor run on.

`SubmissionCauses` adds the history variable `harmed`: submissions whose job was
never added, whose attempt failed after its claim, whose evaluation was killed,
whose job stalled too often, or whose `failed` handler was cut off.

### ExecutionEngine and Judge

A test is what the program does on it (`Behaviours`: right, wrong, fail, hog
memory, loop, or leave a process behind), so `Judge` can say what a submission
deserves. `child`, `exit` and `timer` are the process `spawn` returned, its
status, and its `setTimeout`; a process that has ended is handled by a later
`close` event, before which the timer may still fire. In Docker mode the child
is the CLI, and `box` the container it asks the daemon for: the daemon may
create it after the CLI was killed, and `docker rm -f` may come first.
`dir` is the temporary directory. The timer may fire at any time while armed,
as no machine is too fast to be late.

The refinement mapping sends `outcome` to what `execute` has returned or thrown.
It shows that a claim about answers or memory (ACCEPTED, WRONG_ANSWER,
MEMORY_LIMIT_EXCEEDED) is what the first test that is not passed deserves; a
time-out, a run time or a compilation error may also come from the platform. So
may MEMORY_LIMIT_EXCEEDED, but only after the daemon went down (`lost` in
`Judge`): a container it kills ends with 137, like one out of memory.

### ProblemCache

| Variable | In the system |
|---|---|
| `row` | a row of `problems` with its sample test cases: its visibility and two counters that stand for its content |
| `cache` | Redis: the keys `problem:public:<id>` (named by the problem) and `problems:list:...` (`ListKeys`) |
| `step`, `key`, `value` | per public request: the next `await` of `getProblemById` or of `getOrSet`, its key, what it read |
| `purge` | per request of an admin: the keys it still has to remove |
| `connected` | whether Redis can be reached |
| `blamed` | history: keys spoilt by a late fill, a failed removal, a crash or the seed |
| `writes`, `faults` | counters for the bounds |

`View(k)` is what a query for key `k` would find now: the row for a problem, the
texts of all published problems for a page. An entry is stale when it differs
from its view. Filters and page numbers only select from the listing, so a page
is the whole listing here, and two pages differ by name.

The statement of an admin's request and each removal of a key are separate
actions; `Promise.all`, and the SCAN loop of `delPattern`, are the free order in
which `RemoveKey` takes the keys. An error reply of Redis is swallowed. An
outage is different: `config/redis.ts` sets `maxRetriesPerRequest: null`, with
which ioredis, an external library, keeps commands until it is connected again,
so commands have `connected` as a guard.

### RateLimiter

`count`, `ttl` and `life` are the key of one user: its counter, the ticks until
it expires (or no expiry yet), and which of its lives this is. A request sends
INCR and TTL, which are separate actions as a pipeline is no transaction, and
then EXPIRE if it saw no expiry. A broken connection sends the pipeline again;
an error reply lets the request through ("open"); a process may die anywhere.

### HttpApi

`at` is the next `await` of a request; what happens before the first is
`Arrive`, in the order of the route's middleware. `users`, `problem`, `tests`
and `subs` are the tables, `queued` the submissions a job was added for.
`exposed`, `known`, `broke` and `wrote` are histories for the properties:
requests that could see their problem published, what was acknowledged before a
request arrived, requests that met a failure, and requests that inserted, changed
or deleted a row. The last is kept by `Remember`, in every step: an update of a
text changes no table of the model, but it is the only way to `"purge"`. A write whose reply is lost is
answered with 500 like one that had no effect. A deleted problem's id is not
used again. Tokens are given by their account, because no code changes the role
of an account or removes one.

### ApiProcess

`stop[g]` is what the shutdown started by signal `g` awaits next; `closed` the
connections that a shutdown has closed; `step`, `ok` and `answer` the probe's next
check, what it found up, and its status. Commands to an unreachable Redis wait;
those of a closed client are rejected; the readiness check of the queue and the
status page have a timeout, the ping of `/api/ready` and the counts of
`/api/metrics` have none. Closing what another shutdown has closed does nothing:
BullMQ and Prisma allow it, and of two QUITs on the shared client, which are
possible when both shutdowns saw it ready, the second is rejected only after the
answer to the first, on which the first shutdown calls `process.exit` without
another `await`. A client that is reconnecting is not asked to quit
(`config/redis.ts:56`) and has no connection to close, so `closed` counts it.

### CatalogScripts

`rows` is the table with, per row, its title and the number of its test cases;
`file` the importer's local data set; `listed` the cached listing. `findFirst`
may return any of the rows with a title. The importer compares titles trimmed
and in lower case and reads them once; the seeds compare them as they are.
`LoopAt` is where a `for` loop stands: at a title, or past the last one, which
is where it starts when there is no title.

### ClientSession

`storage` is the token in `localStorage`, `user[t]` the user in tab `t`'s
`AuthProvider`; `me`, `form` and `data` are requests under way with the token
they were sent with. The handlers of `api.ts` and `AuthContext.tsx` change
`storage` without comparing it with that token. `foreign`, `late` and
`rejected` are the histories behind the named exceptions.

### ProblemPage

`visits` is the browser's history of problems, the last in the URL; `loads` and
`fetches` are the fetches of problems and histories under way with the visit
that sent them; `timers`, `ref`, `polls` and `attempts` are the hook's armed
timers, `timerRef`, requests, and `attemptsRef`. Nothing cancels a request. The
page's answers to fetches are stored without looking at the URL; `disturbed`
remembers that this happened for another problem, or that a fetch failed, since
the last visit. Visits come and go by the browser's history; the component is
kept for a change of the id only.

## 3. What the runs check

| Run | Instance | What holds |
|---|---|---|
| `pipeline` | 2 submissions, 2 workers with 1 slot, 2 attempts, 1 stall, every kind of fault, at most 3 | one evaluation per submission, verdicts final, a dead-letter queue of exhausted jobs, bounded retries; every job leaves the queue; an undecided submission met one of five named losses, and until then something in the system stands for it (`NothingForgotten`); the pipeline implements `SubmissionLifecycle` |
| `engine` | 3 languages, with and without Docker, up to 2 tests, 2 platform failures | implements `Judge`; one container at a time; directory and containers removed, or a named failure; every evaluation ends |
| `cache` | 1 problem, 1 page, 2 readers, 2 admins or seeds, 3 writes, 1 fault of any kind | stale entries have a cause and an end; a withdrawn problem comes back only by reads that were under way |
| `limiter` | 3 requests, limit 1, window of 3 ticks, 1 fault | limit per life of a key, burst bound, no early refusal, no lock-out |
| `http` | 2 requests on any of 15 routes, 1 failure | constraints of the tables; a failure leaves nothing; what is acknowledged is stored, queued and seen by later requests |
| `process` | 1 probe, 2 signals, 3 outages, embedded worker | honest readiness, clean exit, only an absent Redis keeps anything waiting |
| `scripts` | 3 runs of 3 scripts on 4 titles, 2 failures | reruns complete and repeat nothing, unless two runs overlap |
| `session` | 2 tabs, 2 accounts, 2 tokens | a tab shows the account its requests are made for, or a named reason |
| `page` | 2 problems, 3 visits, 2 submissions, 2 polls each, 1 failure | one polling chain, no step back, what is shown belongs to the URL, or a named reason; the button is free again |
| `retry_claim` | 1 submission, 2 workers, one failing evaluation | violated: see below |
| `infra_claim` | 1 test, one failure of the platform | violated: see below |
| `stalled_claim` | 1 submission, 2 workers, three crashes | violated: see below |

**Bounds.** *Pipeline:* the code allows three attempts and two stalls; with two and one,
three faults reach every
combination the handler knows: two failed attempts exhaust a job and a third
fault hits the quarantine, the mark, or the worker that still runs after losing
its lock; two crashes exceed one stall.
Submissions interact only through slots and workers, and two make them compete.
The theorems cover the code's own numbers. No run with liveness uses symmetry.
*Engine:* two tests show what a run leaves to the next one and that the first
failing test decides; two failures show one during the handling of another.
*Cache:* three writes let a problem be created and changed twice, by two admins
at once, while a fill or a purge of an earlier write is under way; two readers
race on one key with values of different ages; one problem and one page show
every way in which a purge may miss a key. *Limiter:* with a limit of one, the
third request sees a key in its second window or a counter that was counted
twice. *Http:* the races are between a check and a write of one request and a
write of another; each route meets each other one, on a table with and without
rows. *Process:* two signals are what `docker stop` after Ctrl+C sends; three
outages are one of each server and a return. *Scripts:* three runs show a rerun
after a rerun, and one that overlaps with two; the titles contain one that the
importer spells otherwise and one without examples. *Session:* the second token
makes every request that was sent with the first one late. *Page:* three visits
make a problem come back after another, so that answers of the first visit meet
the third; two submissions and two attempts reach exhaustion and a new chain
after it.

**Fairness.** A step of an event loop that can run does run, and timers fire:
weak fairness on each such step. *Pipeline:* BullMQ's timers fire, and a dead
worker is restarted (`restart: always` in `docker-compose.prod.yml`). An
evaluation returns because every run has a timer, which `EvaluationEnds` shows.
*Cache:* keys expire (`EX` of `redis.set`); nothing is assumed of the connection
to Redis. *Page:* timers fire and polls are answered or fail, as HTTP requests
do; the judge need not ever finish. *Process:* as above; outages may last for
ever. No fairness makes a user act, a server come back or a fault happen.
Deadlock is checked in the run `limiter`, where time never stops; the other
systems rest when all requests are done or the bounds are reached.

### What the code does not do

Three runs show where the code differs from its comments:

* `retry_claim`: an attempt that fails after its claim is never retried. The
  retry finds the row RUNNING, returns, and completes the job; the submission
  stays RUNNING (`submission.service.ts:172`, against
  `submissionConsumer.ts:8-11`). The same happens to the job of a killed worker.
* `infra_claim`: a failure of the platform becomes a final verdict. A full disk
  is SYSTEM_ERROR, and a CLI that cannot be spawned or loses its daemon is the
  program's RUNTIME_ERROR or COMPILATION_ERROR; none of them is retried
  (`ExecutionEngine.ts:142`, against `InfrastructureError.ts:13-16`).
* `stalled_claim`: "Job STALLED: Worker lock expired — job will be re-queued or
  moved to DLQ" (`submissionConsumer.ts:86`). A job found stalled more than
  `maxStalledCount` times is neither: it fails with attempts left, and the
  `failed` handler quarantines exhausted jobs only (line 98). That the
  dead-letter queue holds nothing else is `QuarantineOnlyExhausted`.

Two promises are contradicted by exceptions of properties that hold, so that no
run of their own is needed to reach them:

* "Guarantees containers are removed when execution finishes"
  (`DockerSandbox.ts:24-25`). When the timer fires before the daemon has created
  the container, `docker rm -f` removes nothing, and the container is created
  afterwards and stays: an exception of `ContainersRemoved`.
* "Writes / Updates purge the cache immediately so users never see stale data"
  (`problem.service.ts:14`). A read that queried the problem before an update
  stores its old text after the purge (line 174), and users see it until the TTL
  ends: an exception of `StaleHasCause`.

The remaining properties name their exceptions, each of which is a behaviour
that TLC reaches; without the exception the property fails.

* `UndecidedHasCause`: the five losses of `SubmissionCauses`.
* `StaleHasCause`: a fill that read before an update stores the old problem
  after the update's purge (against `problem.service.ts:14`); a failed removal; `prisma/seed.ts`,
  whose pattern `*problems*` does not match the cached problems it gives test
  cases. All end with the TTL. While Redis is unreachable, reads wait instead of falling back
  to PostgreSQL, which is what the comment at `cache.service.ts:18-19` promises.
* `WithdrawnFades`: a read that found a problem published stores it, or a listing
  with it, although it is withdrawn or deleted and purged meanwhile. The property
  says that there is no other way: each such read brings it back at most once.
* `ContainersRemoved` (against `DockerSandbox.ts:24-25`): a removal that the daemon carried out before it created
  the container, or that could not be run; a compiler's time-out, after which no
  removal is asked for; and a daemon that was lost.
* `DirectoryRemoved`: a directory stays after a time-out or a compilation error,
  whose container may still write to it, or when `rm` or the daemon failed.
* `EvaluationEnds`: without Docker, a program that leaves a process holding its
  output keeps the evaluation waiting for ever.
* `RefusedOnlyBeyondLimit`: counts of a pipeline that was sent again. "Fail-Open:
  If Redis is down, we log and allow traffic" (`rateLimiter.ts:23-24`) holds for
  error replies only (`FailOpen`): while Redis is unreachable the pipeline waits
  for the connection like every other command, and the request with it. So no
  property of the limiter says that a request is decided.
* `DoublesHaveCause`: two scripts that run at the same time. A title that the
  importer spells otherwise is added by a seed, which compares exactly.
* `CompletedIsWhole` (in `CatalogInv`): a torn data set file fails every later
  import until it is removed; without Redis the importer does its work but its
  process never exits ("hanging").
* `UserOwnsToken` and `GhostHasCause`: a sign-in in another tab, a late
  `/auth/me`, and a 401 to any request, a wrong password included, which takes
  the token away from a user who stays on display.
* `MismatchHasCause`: a late answer for an earlier problem, or a failed fetch,
  which leaves the earlier problem under the new URL; submitting there submits
  to the URL's problem.
* `PendingIsPolled` (in `PageInv`): after a failed poll or the last attempt a
  submission stays on display as pending.
* `ExitIsClean` (in `ProcessInv`): a signal before the embedded worker exists
  does not wait for the job that worker takes.

## 4. What is proved

Each theorem holds for all constants that satisfy the assumption in its module:
any number of submissions, workers, requests, tabs or visits, and any number of
faults.

* **`SubmissionPipeline_proofs`**: `IndInv` is inductive. Its part `RowInv` ties
  rows to slots: a slot past the claim belongs to a row that has left QUEUED,
  which makes `SingleEvaluation` inductive, since a claim succeeds only on a
  QUEUED row; and `CompletedWasClaimed`, as only a returning slot completes a
  job. `JobInv` ties jobs to locks: a lock is held by a slot that runs the job,
  hence the job has an attempt left when it fails. `RowsStep` shows that every
  step writes at most one row, along `ValidTransitions`; `VerdictFinal` and the
  refinement `Spec => Lifecycle!Spec` follow. For `SubmissionCauses` it shows
  `NothingForgotten`. A RUNNING row is being evaluated: together with `IndInv`
  and `ClosingIsIdle` (a worker that closes has no busy slot, so its exit ends no
  evaluation), a claim begins an evaluation, and whatever ends one writes a
  terminal status or is a loss by name. A QUEUED row is pending: the request
  hands it to its job, a job that returns was claimed, one that throws is
  delayed or, exhausted, handed to the handler, and a handler marks the row; each
  other end is a loss by name. That the job has an attempt left is `JobInv`.
* **`ExecutionEngine_proofs`**: `EngineInv` is inductive: what the state of
  child, timer and container says about the exit status (`StatusInv`), and that
  all earlier tests were passed (`ProgressInv`). From it, every step maps to a
  step of `Judge` or a stutter (`EngineImplementsJudge`). `BoxInv` adds the
  containers: that of a step is gone when its child ended by itself, and one
  still in use is known by a killed child or a lost daemon, later by the verdict.
  `OneContainerAtATime` and `DirectoryRemoved` are two of its consequences.
* **`ProblemCache_proofs`**: `TypeOK`, `StaleHasCause`, `WithdrawnFades`. The
  core is `WriteCovers`: a statement that changes what a query for `k` finds
  puts `k` among the keys to remove, unless nothing is stored under `k`;
  `createProblem`, which removes pages only, is covered because the cache holds
  no entry of a problem that was never published (`ReadWhilePublic`: what is
  stored, or on its way, was published when it was read). `WithdrawnFades` needs
  no invariant but the types: a query of a problem that is not published tells
  nothing about it, and only a fill changes what the cache tells.
* **`RateLimiter_proofs`**: `LimiterInv` has three parts besides the types.
  `CountInv` says that no two requests of one life of the key saw the same count;
  `LimitPerLife` follows by mapping the requests that passed into `1..Limit`.
  `AgeInv` says that a request younger than a window belongs to the key's life or
  to the one before it, because its age and the time the key has left add up to
  a window; `BurstBound` follows from the bound of either life. `QuotaInv` counts
  the requests that hold the counts up to a given one: each count has a request,
  or its INCR was sent twice. `RefusedOnlyBeyondLimit` follows, as a refused
  request saw a count beyond the limit.
* **`HttpApi_proofs`**: all five properties of `HttpApi`, from `HttpInv`. Its
  part `ReqInv(r)` says what request `r` has done so far and what of that must
  still be in the tables. A step of another request can only do what `Frame`
  says (add rows with its own id, remove test cases, never revive a deleted
  problem, never publish one unseen by the requests that name it), so
  `FrameKeeps` carries `ReqInv` over it, and each action's proof is about the
  request that takes the step. Where the code checks and writes in two queries
  the proofs rest on the schema alone: the unique columns for `OneAccountEach`,
  the foreign keys for `NoOrphans`, and that a problem with submissions cannot
  be deleted for what is seen of a deletion. `FailuresLeaveNothing` adds that a
  request in `wrote` is at a step that follows a write, is acknowledged, has
  lost its process, or broke (`WroteInv`): no check comes after a write.
* **`ClientSession_proofs`**: `SessionInv` is inductive as it stands, because
  the histories say exactly which tabs a change of the token leaves behind.
* **`ProblemPage_proofs`**: `PageInv` and `MismatchHasCause` are inductive
  together. The button's guard keeps the chain single (`OneChain`): a chain
  starts when no timer and no poll is left. A poll remembers the status it was
  sent at, which bounds its answer from below, and `NeverRegresses` follows.
* **`Operations_proofs`**, API process: `ProcessIInv` is inductive. Its part `ProbeInv` says
  that what a probe holds for up was up since it arrived, and that whatever it
  has passed without finding it up was down or closed meanwhile;
  `ReadyIsHonest` follows when it answers. `ShutdownInv` says that a shutdown has
  closed all connections before the one it is at, however many others run beside
  it, and that it is past the worker only when no job is left, unless the signal
  came before the worker; `ExitIsClean` follows.
* **`Operations_proofs`**, catalogue: `CatalogInv` (with its part
  `CompletedIsWhole`) and `DoublesHaveCause` are inductive together. `Loop(s)` says that the titles before
  the one `s` is at have rows, for the seeds with test cases; past the last title
  that is `CompletedIsWhole`, which rows that only grow (`Grown`) keep true.
  `Current(s)` says that what `s` read of the table still holds, and `AloneInv`
  that it does as long as no two scripts overlapped; hence an insert makes no
  double. The data sets are arbitrary sequences, empty ones and ones that repeat
  a title included; the seeds' titles need examples, as those of
  `problemsData.ts` have.

## 5. What is only model-checked

The liveness properties, which are beyond TLAPS: `JobsFinish`,
`UndecidedHasCause`, `EventuallyFresh`, `ContainersRemoved`, `EvaluationEnds`,
`RefusalEnds`, `PollingEnds`, `EverythingEnds`. Every invariant and every action
property of a passing run is stated by a theorem.

## 6. Not modelled

* The listing, history, home and health pages of the client, which fetch and
  show, and the drafts of programs in `localStorage`. Leaving the problem page
  altogether, which ends the shown state while its chain of polls goes on
  unseen.
* Contents: source code, test cases, times and memory of a verdict, texts, log
  lines, metrics counters. In particular a verdict belongs to the test cases
  that were read before the claim (`submission.service.ts:142`), and the totals
  of pages may disagree with their rows.
* Hashing and signing; the resource flags of Docker other than as the outcomes
  they lead to; nginx, images and networks.
* The verification scripts and walkthroughs, which exercise a running system,
  and the problem data.
