------------------------------ MODULE ApiProcess ------------------------------
(***************************************************************************)
(* One API process: its start, its observability endpoints, the embedded   *)
(* submission worker of development mode, and its shutdown.                *)
(*                                                                         *)
(* Each signal runs shutdown() of its own, nothing keeps a second one out, *)
(* and the HTTP server is not closed: requests arrive and run on until     *)
(* process.exit.  While Redis is unreachable commands wait for it, because *)
(* maxRetriesPerRequest is null; a client that was closed rejects them.    *)
(* Prisma connects again by itself after $disconnect.  The routes under    *)
(* /api with services behind them are HttpApi's subject.                   *)
(***************************************************************************)
EXTENDS Integers

CONSTANTS
  Probes,           \* requests to the observability endpoints
  Signals,          \* signals sent to the process
  Embedded,         \* development mode with the embedded worker
  MaxOutages        \* bound on stops and starts of PostgreSQL and Redis

ASSUME ProcessAssumption == Embedded \in BOOLEAN /\ MaxOutages \in Nat

VARIABLES
  main,             \* "connecting", "listening"
  exit,             \* exit code, -1 while the process runs
  worker, job,      \* the embedded worker, and whether it evaluates a job
  stop,             \* per signal: what its shutdown awaits
  closed,           \* connections a shutdown is done with
  databaseUp,       \* PostgreSQL and
  redisUp,          \* Redis can be reached
  endpoint, step,   \* per probe: what it asks, its next step,
  ok,               \* and the dependencies it found up
  answer,           \* per probe: its status, 0 before
  wasUp, wasDown,   \* history: per probe what was up, and what was down or
                    \* closed, at some moment since it arrived
  early,            \* history: a signal came while the process was connecting
  outages

process == <<main, exit, worker, job, stop, closed, early>>
servers == <<databaseUp, redisUp, outages>>
probe   == <<endpoint, step, ok, answer>>
processVars == <<process, servers, probe, wasUp, wasDown>>

Endpoints == {"health", "ready", "metrics", "status"}
Alive == exit = -1

Up(db, cache)   == {d \in {"database", "redis"} : IF d = "redis" THEN cache ELSE db}
Down(db, cache) == {"database", "redis"} \ Up(db, cache)

\* What every probe under way has met, after a step.
Meet ==
  /\ wasUp' = [r \in Probes |->
       IF step'[r] = "idle" THEN {} ELSE wasUp[r] \cup Up(databaseUp', redisUp')]
  /\ wasDown' = [r \in Probes |->
       IF step'[r] = "idle" THEN {}
       ELSE wasDown[r] \cup Down(databaseUp', redisUp') \cup closed']

ProcessInit ==
  /\ main = "connecting" /\ exit = -1 /\ worker = "none" /\ job = FALSE
  /\ stop = [g \in Signals |-> "idle"] /\ closed = {}
  /\ databaseUp \in BOOLEAN /\ redisUp \in BOOLEAN /\ early = FALSE /\ outages = 0
  /\ endpoint = [r \in Probes |-> "health"] /\ step = [r \in Probes |-> "idle"]
  /\ ok = [r \in Probes |-> {}] /\ answer = [r \in Probes |-> 0]
  /\ wasUp = [r \in Probes |-> {}] /\ wasDown = [r \in Probes |-> {}]

------------------------------------------------------------------------------
(* Start and the embedded worker *)

\* connectDatabase, and the rest of main if it succeeds.
Connect ==
  /\ Alive /\ main = "connecting"
  /\ IF databaseUp
       THEN /\ main' = "listening" /\ UNCHANGED exit
            /\ worker' = IF Embedded THEN "running" ELSE worker
       ELSE exit' = 1 /\ UNCHANGED <<main, worker>>
  /\ UNCHANGED <<job, stop, closed, early, servers, probe>> /\ Meet

JobStarts ==
  /\ Alive /\ worker = "running" /\ ~job /\ redisUp
  /\ job' = TRUE
  /\ UNCHANGED <<main, exit, worker, stop, closed, early, servers, probe>> /\ Meet

JobEnds ==
  /\ Alive /\ job
  /\ job' = FALSE
  /\ UNCHANGED <<main, exit, worker, stop, closed, early, servers, probe>> /\ Meet

------------------------------------------------------------------------------
(* Shutdown *)

\* The handler runs up to its first await: a worker takes no further jobs.
Shutdown(g) ==
  /\ Alive /\ stop[g] = "idle"
  /\ stop' = [stop EXCEPT ![g] = IF worker = "none" THEN "queue" ELSE "worker"]
  /\ worker' = IF worker = "running" THEN "closing" ELSE worker
  /\ early' = (early \/ main = "connecting")
  /\ UNCHANGED <<main, exit, job, closed, servers, probe>> /\ Meet

\* Bug: the worker's close is not awaited.
DrainedAtOnce == TRUE

\* close() waits for the active job.
Drained == ~job

WorkerClosed(g) ==
  /\ Alive /\ stop[g] = "worker" /\ Drained
  /\ worker' = "closed"
  /\ stop' = [stop EXCEPT ![g] = "queue"]
  /\ UNCHANGED <<main, exit, job, closed, early, servers, probe>> /\ Meet

\* The connections in the order they are closed.
After == [queue |-> "dlq", dlq |-> "database", database |-> "redis", redis |-> "exit"]

\* BullMQ's connections may wait for Redis to say goodbye; disconnectRedis only
\* does so if it is connected: a client that is reconnecting has no connection
\* to close.  What a faster shutdown closes in between is closed once more,
\* which does nothing.  (Of two QUITs the second is rejected, but after the
\* answer to the first, with which the first shutdown exits the process.)
Close(g) ==
  /\ Alive /\ stop[g] \in DOMAIN After
  /\ stop[g] \in {"queue", "dlq"} => redisUp
  /\ closed' = closed \cup {stop[g]}
  /\ stop' = [stop EXCEPT ![g] = After[stop[g]]]
  /\ UNCHANGED <<main, exit, worker, job, early, servers, probe>> /\ Meet

Exit(g) ==
  /\ Alive /\ stop[g] = "exit"
  /\ exit' = 0
  /\ UNCHANGED <<main, worker, job, stop, closed, early, servers, probe>> /\ Meet

------------------------------------------------------------------------------
(* Endpoints *)

\* Bug: PostgreSQL counts as reachable until its check fails.
AssumedUp == {"database"}

InitiallyUp == {}

Answer(r, status) ==
  /\ step' = [step EXCEPT ![r] = "done"]
  /\ answer' = [answer EXCEPT ![r] = status]
  /\ UNCHANGED endpoint

Request(r, k) ==
  /\ Alive /\ main = "listening" /\ step[r] = "idle"
  /\ endpoint' = [endpoint EXCEPT ![r] = k]
  /\ ok' = [ok EXCEPT ![r] = InitiallyUp]
  /\ step' = [step EXCEPT ![r] = CASE k = "health" -> "done"
                               [] k = "ready"  -> "database"
                               [] OTHER        -> "counts"]
  /\ answer' = [answer EXCEPT ![r] = IF k = "health" THEN 200 ELSE 0]
  /\ UNCHANGED <<process, servers>> /\ Meet

\* One check of /api/ready: then the next one.
Checked(r, d, up, next) ==
  /\ ok' = [ok EXCEPT ![r] = IF up THEN @ \cup {d} ELSE @]
  /\ step' = [step EXCEPT ![r] = next]
  /\ UNCHANGED <<endpoint, answer>>

CheckDatabase(r) ==
  /\ Alive /\ step[r] = "database"
  /\ Checked(r, "database", databaseUp, "redis")
  /\ UNCHANGED <<process, servers>> /\ Meet

\* No timeout: the ping waits for Redis.
CheckRedis(r) ==
  /\ Alive /\ step[r] = "redis"
  /\ redisUp \/ "redis" \in closed
  /\ Checked(r, "redis", "redis" \notin closed, "queue")
  /\ UNCHANGED <<process, servers>> /\ Meet

\* With a timeout, but a connection that has not noticed counts as ready.
CheckQueue(r) ==
  /\ Alive /\ step[r] = "queue"
  /\ \E up \in BOOLEAN :
       /\ "queue" \in closed => ~up
       /\ redisUp /\ "queue" \notin closed => up
       /\ Checked(r, "queue", up, "reply")
  /\ UNCHANGED <<process, servers>> /\ Meet

Ready(r) ==
  /\ Alive /\ step[r] = "reply"
  /\ Answer(r, IF ok[r] = {"database", "redis", "queue"} THEN 200 ELSE 503)
  /\ UNCHANGED <<ok, process, servers>> /\ Meet

\* The counts of the queue arrive, or a closed queue rejects; metrics swallows it.
JobCounts(r) ==
  /\ Alive /\ step[r] = "counts"
  /\ redisUp \/ "queue" \in closed
  /\ Answer(r, IF "queue" \in closed /\ endpoint[r] = "status" THEN 500 ELSE 200)
  /\ UNCHANGED <<ok, process, servers>> /\ Meet

\* Bug: nothing races the counts.
NoTimeout(r) == FALSE

\* After two seconds /api/system/status answers with zeros.
Timeout(r) == step[r] = "counts" /\ endpoint[r] = "status"

CountsTimeOut(r) ==
  /\ Alive /\ Timeout(r)
  /\ Answer(r, 200)
  /\ UNCHANGED <<ok, process, servers>> /\ Meet

------------------------------------------------------------------------------
(* Outages *)

DatabaseSwitches ==
  /\ outages < MaxOutages /\ outages' = outages + 1
  /\ databaseUp' = ~databaseUp
  /\ UNCHANGED <<process, redisUp, probe>> /\ Meet

RedisSwitches ==
  /\ outages < MaxOutages /\ outages' = outages + 1
  /\ redisUp' = ~redisUp
  /\ UNCHANGED <<process, databaseUp, probe>> /\ Meet

------------------------------------------------------------------------------
ShutdownStep(g) == WorkerClosed(g) \/ Close(g) \/ Exit(g)

ProbeStep(r) ==
  \/ CheckDatabase(r) \/ CheckRedis(r) \/ CheckQueue(r) \/ Ready(r)
  \/ JobCounts(r) \/ CountsTimeOut(r)

ProcessNext ==
  \/ Connect \/ JobStarts \/ JobEnds
  \/ \E g \in Signals : Shutdown(g) \/ ShutdownStep(g)
  \/ \E r \in Probes : ProbeStep(r) \/ (\E k \in Endpoints : Request(r, k))
  \/ DatabaseSwitches \/ RedisSwitches

\* The event loop runs what has its answer, timers fire, and jobs end because
\* every evaluation does (ExecutionEngine's EvaluationEnds).
ProcessSpec ==
  /\ ProcessInit /\ [][ProcessNext]_processVars
  /\ WF_processVars(Connect) /\ WF_processVars(JobEnds)
  /\ \A g \in Signals : WF_processVars(ShutdownStep(g))
  /\ \A r \in Probes : WF_processVars(ProbeStep(r))

------------------------------------------------------------------------------
(* Properties *)

ProcessTypeOK ==
  /\ main \in {"connecting", "listening"} /\ exit \in {-1, 0, 1}
  /\ worker \in {"none", "running", "closing", "closed"} /\ job \in BOOLEAN
  /\ stop \in [Signals -> {"idle", "worker", "exit"} \cup DOMAIN After]
  /\ closed \subseteq DOMAIN After /\ early \in BOOLEAN
  /\ databaseUp \in BOOLEAN /\ redisUp \in BOOLEAN
  /\ endpoint \in [Probes -> Endpoints] /\ answer \in [Probes -> {0, 200, 500, 503}]
  /\ step \in [Probes -> {"idle", "done", "database", "redis", "queue", "reply", "counts"}]
  /\ ok \in [Probes -> SUBSET {"database", "redis", "queue"}]

\* "ready" is answered only if PostgreSQL and Redis could both be reached while
\* the probe ran, and "degraded" only if something could not, or was closed.
ReadyIsHonest ==
  \A r \in Probes : endpoint[r] = "ready" =>
    /\ answer[r] = 200 => {"database", "redis"} \subseteq wasUp[r]
    /\ answer[r] = 503 => wasDown[r] # {}

\* An exit with code 0 leaves no connection open and cuts no job of the embedded
\* worker, whatever signals arrived; unless one came before that worker existed.
ExitIsClean ==
  exit = 0 => /\ closed = DOMAIN After
              /\ early \/ (worker \in {"none", "closed"} /\ ~job)

\* Why readiness is honest: what a probe holds for up was up since it arrived,
\* and what it has passed without finding it up was down or closed.
ProbeInv ==
  \A r \in Probes :
    /\ step[r] = "idle" => endpoint[r] = "health"
    /\ step[r] = "counts" => endpoint[r] \in {"metrics", "status"}
    /\ step[r] \in {"database", "redis", "queue", "reply"} => endpoint[r] = "ready"
    /\ answer[r] # 0 => step[r] = "done"
    /\ step[r] # "idle" /\ endpoint[r] = "ready" =>
         /\ ok[r] \cap {"database", "redis"} \subseteq wasUp[r]
         /\ \/ step[r] = "database" \/ "database" \in ok[r] \/ wasDown[r] # {}
         /\ \/ step[r] \in {"database", "redis"} \/ "redis" \in ok[r] \/ wasDown[r] # {}
         /\ \/ step[r] \in {"database", "redis", "queue"} \/ "queue" \in ok[r]
            \/ wasDown[r] # {}
         /\ step[r] = "done" =>
              answer[r] = IF ok[r] = {"database", "redis", "queue"} THEN 200 ELSE 503

\* Why an exit is clean: a shutdown has closed every connection before the one it
\* is at, and it is past the worker only if that was closed, or not there yet.
ShutdownInv ==
  /\ main = "connecting" => worker = "none"
  /\ worker \in {"none", "closed"} /\ ~early => ~job
  /\ \A g \in Signals :
       /\ stop[g] = "worker" => worker # "none"
       /\ stop[g] \in {"dlq", "database", "redis", "exit"} => "queue" \in closed
       /\ stop[g] \in {"database", "redis", "exit"} => "dlq" \in closed
       /\ stop[g] \in {"redis", "exit"} => "database" \in closed
       /\ stop[g] = "exit" => "redis" \in closed
       /\ stop[g] # "idle" /\ ~early => main = "listening"
       /\ stop[g] \notin {"idle", "worker"} /\ ~early => worker \in {"none", "closed"}
  /\ exit = 0 => \E g \in Signals : stop[g] = "exit"

ProcessIInv == ProcessTypeOK /\ ProbeInv /\ ShutdownInv

ProcessInv == ProcessIInv /\ ReadyIsHonest /\ ExitIsClean

\* A request under way is answered or cut by the exit, and a signal ends the
\* process, unless Redis stays away; /api/system/status does not even need Redis.
EverythingEnds ==
  /\ \A r \in Probes :
       step[r] # "idle" /\ endpoint[r] = "status" ~> (step[r] = "done" \/ ~Alive)
  /\ \/ <>[](~redisUp)
     \/ /\ \A r \in Probes : step[r] # "idle" ~> (step[r] = "done" \/ ~Alive)
        /\ \A g \in Signals : stop[g] # "idle" ~> ~Alive

==============================================================================
