--------------------------- MODULE Operations_proofs ---------------------------
(***************************************************************************)
(* Theorems about what an operator starts, stops and watches: the API      *)
(* process (ApiProcess) and the scripts that fill the catalogue            *)
(* (CatalogScripts), for every number of probes, signals and scripts and   *)
(* for every data set.  The two share no variable.                         *)
(***************************************************************************)
EXTENDS ApiProcess, CatalogScripts, TLAPS

------------------------------------------------------------------------------
(* The API process *)

\* A shutdown closes four connections, one after the other.
LEMMA AfterShape ==
  /\ DOMAIN After = {"queue", "dlq", "database", "redis"}
  /\ After["queue"] = "dlq" /\ After["dlq"] = "database"
  /\ After["database"] = "redis" /\ After["redis"] = "exit"
BY DEF After

\* The process starts with nothing to shut down and no probe.
LEMMA ProcessStarts == ProcessInit => ProcessIInv
<1>. SUFFICES ASSUME ProcessInit PROVE ProcessIInv
  OBVIOUS
<1>1. ProcessTypeOK
  BY AfterShape DEF ProcessInit, ProcessTypeOK, Endpoints
<1>2. ProbeInv
  BY DEF ProcessInit, ProbeInv
<1>3. ShutdownInv
  BY DEF ProcessInit, ShutdownInv
<1>. QED  BY <1>1, <1>2, <1>3 DEF ProcessIInv

\* What a step does not ask about stays: a step that moves no probe.
LEMMA ProbesAtRest ==
  ASSUME ProcessIInv, UNCHANGED probe, Meet
  PROVE  ProbeInv'
BY DEF ProcessIInv, ProcessTypeOK, ProbeInv, Meet, probe

\* A step that leaves the process alone disturbs no shutdown.
LEMMA ProcessAtRest ==
  ASSUME ProcessIInv, UNCHANGED process
  PROVE  ShutdownInv'
BY DEF ProcessIInv, ShutdownInv, process

\* The start of the process.
LEMMA ConnectKeeps ==
  ASSUME ProcessIInv, ProcessAssumption, Connect
  PROVE  ProcessIInv'
<1>1. ProcessTypeOK'
  BY DEF ProcessIInv, ProcessTypeOK, ProcessAssumption, Connect, servers, probe
<1>2. ProbeInv'
  BY ProbesAtRest DEF Connect
<1>3. ShutdownInv'
  BY DEF ProcessIInv, ProcessTypeOK, ShutdownInv, Connect, Alive
<1>. QED  BY <1>1, <1>2, <1>3 DEF ProcessIInv

\* Jobs come to an open worker only.
LEMMA JobsKeep ==
  ASSUME ProcessIInv, JobStarts \/ JobEnds
  PROVE  ProcessIInv'
<1>1. ProcessTypeOK'
  <2>1. job' \in BOOLEAN
    BY DEF JobStarts, JobEnds
  <2>2. UNCHANGED <<main, exit, worker, stop, closed, early, servers, probe>>
    BY DEF JobStarts, JobEnds
  <2>. QED  BY <2>1, <2>2 DEF ProcessIInv, ProcessTypeOK, servers, probe
<1>2. ProbeInv'
  BY ProbesAtRest DEF JobStarts, JobEnds
<1>3. ShutdownInv'
  BY DEF ProcessIInv, ProcessTypeOK, ShutdownInv, JobStarts, JobEnds, Alive
<1>. QED  BY <1>1, <1>2, <1>3 DEF ProcessIInv

\* A signal arrives.
LEMMA ShutdownKeeps ==
  ASSUME ProcessIInv, NEW g \in Signals, Shutdown(g)
  PROVE  ProcessIInv'
<1>1. ProcessTypeOK'
  BY AfterShape DEF ProcessIInv, ProcessTypeOK, Shutdown, servers, probe
<1>2. ProbeInv'
  BY ProbesAtRest DEF Shutdown
<1>3. ShutdownInv'
  BY DEF ProcessIInv, ProcessTypeOK, ShutdownInv, Shutdown, Alive
<1>. QED  BY <1>1, <1>2, <1>3 DEF ProcessIInv

\* The embedded worker has drained.
LEMMA WorkerClosedKeeps ==
  ASSUME ProcessIInv, NEW g \in Signals, WorkerClosed(g)
  PROVE  ProcessIInv'
<1>1. ProcessTypeOK'
  BY AfterShape DEF ProcessIInv, ProcessTypeOK, WorkerClosed, servers, probe
<1>2. ProbeInv'
  BY ProbesAtRest DEF WorkerClosed
<1>3. ShutdownInv'
  <2>1. ~job'
    BY DEF WorkerClosed, Drained
  <2>2. /\ exit # 0 /\ stop[g] = "worker"
        /\ worker' = "closed" /\ stop' = [stop EXCEPT ![g] = "queue"]
        /\ UNCHANGED <<main, exit, closed, early>>
    BY DEF WorkerClosed, Alive
  <2>3. main' # "connecting"
    BY <2>2 DEF ProcessIInv, ProcessTypeOK, ShutdownInv
  <2>. QED  BY <2>1, <2>2, <2>3 DEF ProcessIInv, ProcessTypeOK, ShutdownInv
<1>. QED  BY <1>1, <1>2, <1>3 DEF ProcessIInv

\* A connection is closed, perhaps a second time.
LEMMA CloseKeeps ==
  ASSUME ProcessIInv, NEW g \in Signals, Close(g)
  PROVE  ProcessIInv'
<1>1. ProcessTypeOK'
  BY AfterShape DEF ProcessIInv, ProcessTypeOK, Close, servers, probe
<1>2. ProbeInv'
  BY ProbesAtRest DEF Close
<1>3. ShutdownInv'
  BY AfterShape DEF ProcessIInv, ProcessTypeOK, ShutdownInv, Close, Alive
<1>. QED  BY <1>1, <1>2, <1>3 DEF ProcessIInv

\* The process exits under whatever else is under way.
LEMMA ExitKeeps ==
  ASSUME ProcessIInv, NEW g \in Signals, Exit(g)
  PROVE  ProcessIInv'
<1>1. ProcessTypeOK'
  BY DEF ProcessIInv, ProcessTypeOK, Exit, servers, probe
<1>2. ProbeInv'
  BY ProbesAtRest DEF Exit
<1>3. ShutdownInv'
  BY DEF ProcessIInv, ProcessTypeOK, ShutdownInv, Exit, Alive
<1>. QED  BY <1>1, <1>2, <1>3 DEF ProcessIInv

\* A probe arrives.
LEMMA RequestKeeps ==
  ASSUME ProcessIInv, NEW r \in Probes, NEW k \in Endpoints, Request(r, k)
  PROVE  ProcessIInv'
<1>1. ProcessTypeOK'
  BY DEF ProcessIInv, ProcessTypeOK, Request, InitiallyUp, process, servers, Endpoints
<1>2. ProbeInv'
  BY DEF ProcessIInv, ProcessTypeOK, ProbeInv, Request, InitiallyUp, Meet, Endpoints
<1>3. ShutdownInv'
  BY ProcessAtRest DEF Request
<1>. QED  BY <1>1, <1>2, <1>3 DEF ProcessIInv

\* A probe goes on: what it takes for up was up, and it passes nothing else.
LEMMA ProbeStepKeeps ==
  ASSUME ProcessIInv, NEW r \in Probes, ProbeStep(r)
  PROVE  ProcessIInv'
<1>. USE DEF ProcessIInv, ProcessTypeOK, ProbeInv
<1>1. ShutdownInv'
  BY ProcessAtRest DEF ProbeStep, CheckDatabase, CheckRedis, CheckQueue, Ready,
       JobCounts, CountsTimeOut
<1>2. CASE CheckDatabase(r)
  <2>1. ProcessTypeOK'
    BY <1>2 DEF CheckDatabase, Checked, process, servers
  <2>2. ProbeInv'
    BY <1>2 DEF CheckDatabase, Checked, Meet, Up, Down, servers
  <2>. QED  BY <1>1, <2>1, <2>2
<1>3. CASE CheckRedis(r)
  <2>1. ProcessTypeOK'
    BY <1>3 DEF CheckRedis, Checked, process, servers
  <2>2. ProbeInv'
    BY <1>3 DEF CheckRedis, Checked, Meet, Up, Down, process, servers
  <2>. QED  BY <1>1, <2>1, <2>2
<1>4. CASE CheckQueue(r)
  <2>1. ProcessTypeOK'
    BY <1>4 DEF CheckQueue, Checked, process, servers
  <2>2. ProbeInv'
    BY <1>4 DEF CheckQueue, Checked, Meet, Up, Down, process, servers
  <2>. QED  BY <1>1, <2>1, <2>2
<1>5. CASE Ready(r)
  <2>1. ProcessTypeOK'
    BY <1>5 DEF Ready, Answer, process, servers
  <2>2. ProbeInv'
    BY <1>5 DEF Ready, Answer, Meet
  <2>. QED  BY <1>1, <2>1, <2>2
<1>6. CASE JobCounts(r)
  <2>1. ProcessTypeOK'
    BY <1>6 DEF JobCounts, Answer, process, servers
  <2>2. ProbeInv'
    BY <1>6 DEF JobCounts, Answer, Meet
  <2>. QED  BY <1>1, <2>1, <2>2
<1>7. CASE CountsTimeOut(r)
  <2>1. ProcessTypeOK'
    BY <1>7 DEF CountsTimeOut, Timeout, Answer, process, servers
  <2>2. ProbeInv'
    BY <1>7 DEF CountsTimeOut, Timeout, Answer, Meet
  <2>. QED  BY <1>1, <2>1, <2>2
<1>. QED  BY <1>2, <1>3, <1>4, <1>5, <1>6, <1>7 DEF ProbeStep

\* PostgreSQL or Redis stops or starts.
LEMMA SwitchesKeep ==
  ASSUME ProcessIInv, DatabaseSwitches \/ RedisSwitches
  PROVE  ProcessIInv'
<1>1. ProcessTypeOK'
  <2>1. databaseUp' \in BOOLEAN /\ redisUp' \in BOOLEAN
    BY DEF DatabaseSwitches, RedisSwitches, ProcessIInv, ProcessTypeOK
  <2>2. UNCHANGED <<process, probe>>
    BY DEF DatabaseSwitches, RedisSwitches
  <2>. QED  BY <2>1, <2>2 DEF ProcessIInv, ProcessTypeOK, process, probe
<1>2. ProbeInv'
  BY ProbesAtRest DEF DatabaseSwitches, RedisSwitches
<1>3. ShutdownInv'
  BY ProcessAtRest DEF DatabaseSwitches, RedisSwitches
<1>. QED  BY <1>1, <1>2, <1>3 DEF ProcessIInv

\* Every step of the process keeps the invariant.
LEMMA ProcessKeeps ==
  ProcessAssumption /\ ProcessIInv /\ [ProcessNext]_processVars => ProcessIInv'
<1>. SUFFICES ASSUME ProcessAssumption, ProcessIInv, [ProcessNext]_processVars
              PROVE  ProcessIInv'
  OBVIOUS
<1>1. CASE UNCHANGED processVars
  BY <1>1 DEF processVars, process, servers, probe, ProcessIInv, ProcessTypeOK, ProbeInv,
       ShutdownInv
<1>2. CASE ProcessNext
  BY <1>2, ConnectKeeps, JobsKeep, ShutdownKeeps, WorkerClosedKeeps, CloseKeeps, ExitKeeps,
     RequestKeeps, ProbeStepKeeps, SwitchesKeep DEF ProcessNext, ShutdownStep
<1>. QED  BY <1>1, <1>2

\* The inductive invariant, which the theorems below take apart.
LEMMA ProcessInductive == ProcessSpec => []ProcessIInv
BY ProcessAssumption, ProcessStarts, ProcessKeeps, PTL DEF ProcessSpec

\* A 200 of /api/ready means that PostgreSQL and Redis could be reached while the
\* probe ran, a 503 that something could not, or was closed: for any number of
\* probes and outages.
THEOREM ReadyIsHonestHolds == ProcessSpec => []ReadyIsHonest
<1>1. ProcessIInv => ReadyIsHonest
  BY DEF ProcessIInv, ProcessTypeOK, ProbeInv, ReadyIsHonest
<1>. QED  BY <1>1, ProcessInductive, PTL

\* However many signals arrive, an exit with code 0 leaves no connection open and
\* cuts no job, unless a signal came before the embedded worker existed.
THEOREM ExitIsCleanHolds == ProcessSpec => []ExitIsClean
<1>1. ProcessIInv => ExitIsClean
  BY AfterShape DEF ProcessIInv, ProcessTypeOK, ShutdownInv, ExitIsClean
<1>. QED  BY <1>1, ProcessInductive, PTL

\* Both, with the invariant they follow from: start, probes, shutdowns and outages
\* in any order keep a process in these states (src/server/src/index.ts).
THEOREM ProcessInvariant == ProcessSpec => []ProcessInv
<1>1. ProcessIInv /\ ReadyIsHonest /\ ExitIsClean => ProcessInv
  BY DEF ProcessInv
<1>. QED  BY <1>1, ProcessInductive, ReadyIsHonestHolds, ExitIsCleanHolds, PTL

------------------------------------------------------------------------------
(* The scripts that fill the catalogue *)

Problem == [title : Titles, tests : Nat]

Steps == Ended \cup {"load", "users", "find", "backfill", "create", "titles", "import", "purge"}

\* The inductive invariant: why doubles need an overlap, and why a script that has
\* ended left nothing out, is in where each script stands in its loop.
CatalogIInv == CatalogInv /\ DoublesHaveCause

\* Rows are never deleted or renamed, and tests are never taken away.
Grown ==
  /\ rows' \in Seq(Problem) /\ Len(rows) <= Len(rows')
  /\ \A i \in DOMAIN rows :
       rows'[i].title = rows[i].title /\ rows'[i].tests >= rows[i].tests

\* A step of one script leaves the others where they are.
Others(s) ==
  \A o \in Scripts \ {s} :
    /\ at'[o] = at[o] /\ kind'[o] = kind[o] /\ pos'[o] = pos[o]
    /\ found'[o] = found[o] /\ seen'[o] = seen[o]

\* What a row is, and the numbers rows have.
LEMMA RowsShape ==
  ASSUME NEW table \in Seq(Problem)
  PROVE  /\ Len(table) \in Nat /\ DOMAIN table = 1..Len(table)
         /\ \A i \in DOMAIN table : table[i].title \in Titles /\ table[i].tests \in Nat
<1>1. Len(table) \in Nat /\ DOMAIN table = 1..Len(table)
  OBVIOUS
<1>2. ASSUME NEW i \in DOMAIN table PROVE table[i] \in Problem
  OBVIOUS
<1>. QED  BY <1>1, <1>2 DEF Problem

\* The data of a script: titles, and for the seeds titles with examples.
LEMMA DataShape ==
  ASSUME CatalogAssumption, NEW s
  PROVE  /\ Len(Data(s)) \in Nat /\ DOMAIN Data(s) = 1..Len(Data(s))
         /\ \A n \in DOMAIN Data(s) :
              /\ Data(s)[n] \in Titles /\ Examples[Data(s)[n]] \in Nat
              /\ kind[s] # "import" => Examples[Data(s)[n]] > 0
<1>1. Data(s) \in Seq(Titles)
  BY DEF CatalogAssumption, Data
<1>2. Len(Data(s)) \in Nat /\ DOMAIN Data(s) = 1..Len(Data(s))
  BY <1>1
<1>3. ASSUME NEW n \in DOMAIN Data(s)
      PROVE  Data(s)[n] \in Titles /\ Examples[Data(s)[n]] \in Nat
  BY <1>1 DEF CatalogAssumption
<1>4. ASSUME NEW n \in DOMAIN Data(s), kind[s] # "import" PROVE Examples[Data(s)[n]] > 0
  BY <1>4 DEF CatalogAssumption, Data
<1>. QED  BY <1>2, <1>3, <1>4

\* A table no step touched has grown by nothing.
LEMMA SameIsGrown ==
  ASSUME TypeOK, UNCHANGED rows
  PROVE  Grown
<1>1. rows \in Seq(Problem)
  BY DEF TypeOK, Problem
<1>. QED  BY <1>1, RowsShape DEF Grown

\* A table in which one row has got tests.
LEMMA TestsAdded ==
  ASSUME rows \in Seq(Problem), NEW i \in DOMAIN rows, NEW k \in Nat,
         rows' = [rows EXCEPT ![i].tests = @ + k]
  PROVE  /\ rows' \in Seq(Problem) /\ Len(rows') = Len(rows) /\ DOMAIN rows' = DOMAIN rows
         /\ \A j \in DOMAIN rows : j # i => rows'[j] = rows[j]
         /\ rows'[i].title = rows[i].title /\ rows'[i].tests = rows[i].tests + k
<1>. DEFINE row == [rows[i] EXCEPT !.tests = @ + k]
<1>1. rows[i] \in Problem
  OBVIOUS
<1>2. rows[i].tests \in Nat /\ rows[i].title \in Titles
  BY <1>1 DEF Problem
<1>3. row \in Problem /\ row.title = rows[i].title /\ row.tests = rows[i].tests + k
  BY <1>1, <1>2 DEF Problem
<1>4. rows' = [rows EXCEPT ![i] = row]
  OBVIOUS
<1>. HIDE DEF row
<1>5. rows' \in Seq(Problem) /\ Len(rows') = Len(rows) /\ DOMAIN rows' = DOMAIN rows
  BY <1>3, <1>4
<1>6. rows'[i] = row /\ \A j \in DOMAIN rows : j # i => rows'[j] = rows[j]
  BY <1>4
<1>. QED  BY <1>3, <1>5, <1>6

\* An insert appends one row.
LEMMA InsertGrows ==
  ASSUME TypeOK, NEW title \in Titles, NEW tests \in Nat, Insert(title, tests)
  PROVE  /\ Grown /\ Len(rows') = Len(rows) + 1
         /\ \A i \in DOMAIN rows : rows'[i] = rows[i]
         /\ rows'[Len(rows')].title = title /\ rows'[Len(rows')].tests = tests
<1>1. rows \in Seq(Problem)
  BY DEF TypeOK, Problem
<1>2. [title |-> title, tests |-> tests] \in Problem
  BY DEF Problem
<1>3. /\ rows' \in Seq(Problem) /\ Len(rows') = Len(rows) + 1
      /\ \A i \in DOMAIN rows : rows'[i] = rows[i]
      /\ rows'[Len(rows')] = [title |-> title, tests |-> tests]
  BY <1>1, <1>2 DEF Insert
<1>4. Grown
  BY <1>1, <1>3, RowsShape DEF Grown
<1>. QED  BY <1>3, <1>4

\* A step of one script changes no type if it leaves the script, and the table, in
\* order: rows that others are about to complete keep their titles.
LEMMA TypesStay ==
  ASSUME TypeOK, NEW s \in Scripts, Grown, Others(s), at'[s] \in Steps,
         at' = [at EXCEPT ![s] = at'[s]], kind' = kind, pos' \in [Scripts -> Nat \ {0}],
         found' \in [Scripts -> 0..Len(rows)],
         seen' \in [Scripts -> SUBSET {Fold[t] : t \in Titles}],
         UNCHANGED <<admin, file, overlapped>>, listed' \in {listed, -1},
         at'[s] = "backfill" => found'[s] # 0 /\ rows'[found'[s]].title = Title(s)'
  PROVE  TypeOK'
<1>1. rows \in Seq(Problem) /\ rows' \in Seq(Problem) /\ Len(rows) <= Len(rows')
  BY DEF TypeOK, Problem, Grown
<1>2. Len(rows) \in Nat /\ Len(rows') \in Nat /\ DOMAIN rows = 1..Len(rows)
  BY <1>1, RowsShape
<1>3. found' \in [Scripts -> 0..Len(rows')] /\ listed' \in {-1} \cup 0..Len(rows')
  <2>1. 0..Len(rows) \subseteq 0..Len(rows')
    BY <1>1, <1>2
  <2>2. listed \in {-1} \cup 0..Len(rows)
    BY DEF TypeOK
  <2>. QED  BY <2>1, <2>2
<1>4. at' \in [Scripts -> Steps]
  BY DEF TypeOK, Steps
<1>5. ASSUME NEW o \in Scripts, at'[o] = "backfill"
      PROVE  found'[o] # 0 /\ rows'[found'[o]].title = Title(o)'
  <2>1. CASE o = s
    BY <1>5, <2>1
  <2>2. CASE o # s
    <3>1. /\ at[o] = "backfill" /\ found'[o] = found[o]
          /\ kind'[o] = kind[o] /\ pos'[o] = pos[o]
      BY <1>5, <2>2 DEF Others
    <3>2. found[o] # 0 /\ rows[found[o]].title = Title(o) /\ found[o] \in 0..Len(rows)
      BY <3>1 DEF TypeOK
    <3>3. rows'[found[o]].title = rows[found[o]].title
      BY <1>2, <3>2 DEF Grown
    <3>. QED  BY <3>1, <3>2, <3>3 DEF Title, Data
  <2>. QED  BY <2>1, <2>2
<1>6. /\ rows' \in Seq([title : Titles, tests : Nat]) /\ admin' \in BOOLEAN
      /\ file' \in {"none", "whole", "torn"} /\ kind' \in [Scripts -> Kinds]
      /\ overlapped' \in BOOLEAN
  BY <1>1 DEF TypeOK, Problem
<1>. QED  BY <1>3, <1>4, <1>5, <1>6 DEF TypeOK, Steps

\* What a script found in a table it finds in a grown one.
LEMMA HasStays ==
  ASSUME TypeOK, Grown, NEW s, kind'[s] = kind[s], NEW n, NEW i \in DOMAIN rows, Has(s, n, i)
  PROVE  i \in DOMAIN rows' /\ Has(s, n, i)'
<1>1. rows \in Seq(Problem) /\ rows' \in Seq(Problem)
  BY DEF TypeOK, Problem, Grown
<1>2. /\ i \in DOMAIN rows' /\ rows'[i].title = rows[i].title
      /\ rows[i].tests \in Nat /\ rows'[i].tests \in Nat /\ rows'[i].tests >= rows[i].tests
  BY <1>1, RowsShape DEF Grown
<1>. QED  BY <1>2 DEF Has, Data

\* A script that did not move is where it was in its loop.
LEMMA LoopStays ==
  ASSUME TypeOK, Grown, NEW s, Loop(s), at'[s] = at[s], kind'[s] = kind[s],
         pos'[s] = pos[s], seen'[s] = seen[s]
  PROVE  Loop(s)'
<1>1. ASSUME NEW f \in seen[s]
      PROVE  \E i \in DOMAIN rows' : Fold[rows'[i].title] = f
  <2>1. PICK i \in DOMAIN rows : Fold[rows[i].title] = f
    BY DEF Loop
  <2>2. i \in DOMAIN rows' /\ rows'[i].title = rows[i].title
    <3>1. rows \in Seq(Problem) /\ rows' \in Seq(Problem)
      BY DEF TypeOK, Problem, Grown
    <3>. QED  BY <3>1, RowsShape DEF Grown
  <2>. QED  BY <2>1, <2>2
<1>2. ASSUME at[s] \in {"find", "backfill", "create", "import", "purge"},
             NEW n \in DOMAIN Data(s), n < pos[s]
      PROVE  \E i \in DOMAIN rows' : Has(s, n, i)'
  <2>1. PICK i \in DOMAIN rows : Has(s, n, i)
    BY <1>2 DEF Loop
  <2>. QED  BY <2>1, HasStays
<1>3. Data(s)' = Data(s)
  BY DEF Data
<1>. QED  BY <1>1, <1>2, <1>3 DEF Loop

\* What a script left whole stays whole, whether the cached listing stays, is
\* removed or is made anew.
LEMMA WholeStays ==
  ASSUME TypeOK, Grown, NEW s, kind'[s] = kind[s], Whole(s), skipped \subseteq skipped',
         listed' \in {listed, -1, Len(rows)}
  PROVE  Whole(s)'
<1>1. SUFFICES ASSUME NEW n \in DOMAIN Data(s)
               PROVE  \E i \in DOMAIN rows' :
                        Has(s, n, i)' /\ (listed' # -1 /\ s \notin skipped' => i <= listed')
  BY DEF Whole, Data
<1>2. PICK i \in DOMAIN rows :
        Has(s, n, i) /\ (listed # -1 /\ s \notin skipped => i <= listed)
  BY DEF Whole
<1>3. i \in DOMAIN rows' /\ Has(s, n, i)'
  BY <1>2, HasStays
<1>4. rows \in Seq(Problem)
  BY DEF TypeOK, Problem
<1>5. i \in Nat /\ i <= Len(rows) /\ Len(rows) \in Nat
  BY <1>4, RowsShape
<1>. QED  BY <1>2, <1>3, <1>5

\* What a step of one script has to show: types, its own place in its loop, and
\* that of a script alone; the other scripts and the table's past follow.
LEMMA StepKeeps ==
  ASSUME CatalogIInv, NEW s \in Scripts, Running(s), TypeOK', Grown, Others(s),
         overlapped' = overlapped, listed' \in {listed, -1}, skipped \subseteq skipped',
         Loop(s)', ~overlapped => Current(s)', DoublesHaveCause',
         \A i \in DOMAIN rows' : rows'[i].tests = 0 => i = 1,
         at'[s] \in {"done", "hanging"} => Whole(s)'
  PROVE  CatalogIInv'
<1>. USE DEF CatalogIInv, CatalogInv
<1>1. \A o \in Scripts : Loop(o)'
  BY LoopStays DEF Others
<1>2. CompletedIsWhole'
  BY WholeStays DEF Others, CompletedIsWhole
<1>3. AloneInv'
  <2>1. SUFFICES ASSUME ~overlapped PROVE AloneInv'
    BY DEF AloneInv
  <2>2. ASSUME NEW o \in Scripts, o # s PROVE ~Running(o) /\ ~Running(o)'
    BY <2>1, <2>2 DEF AloneInv, Others, Running
  <2>3. ASSUME NEW o \in Scripts, o # s PROVE Current(o)'
    BY <2>2, <2>3 DEF Running, Current, Ended
  <2>. QED  BY <2>1, <2>2, <2>3 DEF AloneInv
<1>. QED  BY <1>1, <1>2, <1>3

\* The same for a step that leaves the table and the listing alone.
LEMMA ReadingKeeps ==
  ASSUME CatalogIInv, NEW s \in Scripts, Running(s), TypeOK', Others(s),
         UNCHANGED <<rows, listed, overlapped>>, skipped \subseteq skipped',
         Loop(s)', ~overlapped => Current(s)', at'[s] \in {"done", "hanging"} => Whole(s)'
  PROVE  CatalogIInv'
<1>1. Grown
  BY SameIsGrown DEF CatalogIInv, CatalogInv
<1>2. DoublesHaveCause' /\ \A i \in DOMAIN rows' : rows'[i].tests = 0 => i = 1
  BY DEF CatalogIInv, CatalogInv, DoublesHaveCause, CompletedIsWhole, Parse
<1>. QED  BY <1>1, <1>2, StepKeeps

\* A script that goes to another step has moved nothing else.
LEMMA GotoMoves ==
  ASSUME TypeOK, NEW s \in Scripts, NEW to, Goto(s, to)
  PROVE  /\ at'[s] = to /\ Others(s)
         /\ UNCHANGED <<kind, pos, found, seen, skipped, overlapped>>
BY DEF TypeOK, Goto, Others

\* Both loops: the next title, or the purge.
LEMMA ContinueMoves ==
  ASSUME TypeOK, NEW s \in Scripts, Continue(s), \A o \in Scripts \ {s} : seen'[o] = seen[o]
  PROVE  /\ at'[s] = LoopAt(s, pos[s] + 1) /\ pos'[s] = pos[s] + 1 /\ Others(s)
         /\ UNCHANGED <<kind, found, skipped, overlapped>>
BY DEF TypeOK, Continue, Others

\* The steps before the loops, and the ends that are not its own.
Away == {"load", "users", "titles", "dry", "failed"}

\* A script that goes to a step outside its loop, or ends early.
LEMMA GotoAway ==
  ASSUME CatalogIInv, NEW s \in Scripts, Running(s), NEW to \in Away, Goto(s, to),
         UNCHANGED <<rows, listed, redis>>, admin' \in BOOLEAN,
         file' \in {"none", "whole", "torn"},
         to \in {"load", "titles"} => kind[s] = "import",
         to \in {"load", "users", "titles"} => pos[s] = 1
  PROVE  CatalogIInv'
<1>. USE DEF CatalogIInv, CatalogInv
<1>1. /\ at'[s] = to /\ Others(s)
      /\ UNCHANGED <<kind, pos, found, seen, skipped, overlapped>>
  BY GotoMoves
<1>2. TypeOK'
  BY <1>1 DEF TypeOK, Goto, Away, Ended, Title, Data
<1>3. Loop(s)'
  BY <1>1 DEF Loop, Away
<1>4. Current(s)' /\ at'[s] \notin {"done", "hanging"}
  BY <1>1 DEF Current, Away
<1>. QED  BY <1>1, <1>2, <1>3, <1>4, ReadingKeeps

\* A script comes to title p of its loop, or past the last one, with all titles
\* before p behind it.
LEMMA LoopArrives ==
  ASSUME CatalogAssumption, NEW s, NEW p \in Nat \ {0},
         kind'[s] = kind[s], at'[s] = LoopAt(s, p), pos'[s] = p,
         \A n \in DOMAIN Data(s) : n < p => \E i \in DOMAIN rows' : Has(s, n, i)',
         \A f \in seen'[s] : \E i \in DOMAIN rows' : Fold[rows'[i].title] = f
  PROVE  Loop(s)' /\ (at'[s] \in {"find", "import", "purge"})
<1>1. Data(s)' = Data(s) /\ Len(Data(s)) \in Nat
  BY DataShape DEF Data
<1>2. \/ at'[s] = "purge" /\ p > Len(Data(s))
      \/ at'[s] = "import" /\ kind[s] = "import" /\ p <= Len(Data(s))
      \/ at'[s] = "find" /\ kind[s] # "import" /\ p <= Len(Data(s))
  BY <1>1 DEF LoopAt
<1>. QED  BY <1>1, <1>2 DEF Loop

\* A script has dealt with the title it was at and goes on.
LEMMA ContinueArrives ==
  ASSUME CatalogAssumption, CatalogIInv, NEW s \in Scripts, Grown, Continue(s),
         at[s] \in {"find", "backfill", "create", "import"},
         \A o \in Scripts \ {s} : seen'[o] = seen[o],
         NEW n0, n0 = pos[s], NEW i0 \in DOMAIN rows', Has(s, n0, i0)',
         \A f \in seen'[s] : \E i \in DOMAIN rows' : Fold[rows'[i].title] = f
  PROVE  Loop(s)' /\ (at'[s] \in {"find", "import", "purge"})
<1>. USE DEF CatalogIInv, CatalogInv
<1>1. /\ at'[s] = LoopAt(s, pos[s] + 1) /\ pos'[s] = pos[s] + 1
      /\ UNCHANGED <<kind, found, skipped, overlapped>>
  BY ContinueMoves
<1>2. pos[s] \in Nat \ {0}
  BY DEF TypeOK
<1>3. ASSUME NEW n \in DOMAIN Data(s), n < pos[s] + 1
      PROVE  \E i \in DOMAIN rows' : Has(s, n, i)'
  <2>1. n \in Nat
    BY DataShape
  <2>2. CASE n = n0
    BY <2>2
  <2>3. CASE n < pos[s]
    <3>1. PICK i \in DOMAIN rows : Has(s, n, i)
      BY <2>3 DEF Loop
    <3>. QED  BY <3>1, <1>1, HasStays
  <2>. QED  BY <2>1, <2>2, <2>3, <1>2, <1>3
<1>4. PICK p \in Nat \ {0} : p = pos[s] + 1
  BY <1>2
<1>. QED  BY <1>1, <1>3, <1>4, LoopArrives

\* Going on changes no type.
LEMMA ContinueTypes ==
  ASSUME TypeOK, NEW s \in Scripts, Grown, Continue(s), at'[s] \in {"find", "import", "purge"},
         seen' \in [Scripts -> SUBSET {Fold[t] : t \in Titles}],
         \A o \in Scripts \ {s} : seen'[o] = seen[o], UNCHANGED <<admin, file>>,
         listed' \in {listed, -1}
  PROVE  TypeOK'
<1>1. /\ at' = [at EXCEPT ![s] = at'[s]] /\ at'[s] \in Steps /\ at'[s] # "backfill"
      /\ kind' = kind /\ found' = found /\ overlapped' = overlapped
  BY DEF TypeOK, Continue, Steps
<1>2. pos' \in [Scripts -> Nat \ {0}] /\ found' \in [Scripts -> 0..Len(rows)]
  BY DEF TypeOK, Continue
<1>3. Others(s)
  BY ContinueMoves
<1>. QED  BY <1>1, <1>2, <1>3, TypesStay

\* What the title a script is at is, and what it has for it.
LEMMA TitleShape ==
  ASSUME CatalogAssumption, CatalogIInv, NEW s \in Scripts,
         at[s] \in {"find", "backfill", "create", "import"}
  PROVE  /\ pos[s] \in DOMAIN Data(s) /\ Title(s) \in Titles
         /\ Examples[Title(s)] \in Nat /\ Parse(Title(s)) \in Nat \ {0}
         /\ kind[s] # "import" => Examples[Title(s)] > 0
<1>1. pos[s] \in Nat \ {0} /\ pos[s] <= Len(Data(s))
  BY DEF CatalogIInv, CatalogInv, TypeOK, Loop
<1>2. pos[s] \in DOMAIN Data(s)
  BY <1>1, DataShape
<1>3. /\ Title(s) \in Titles /\ Examples[Title(s)] \in Nat
      /\ kind[s] # "import" => Examples[Title(s)] > 0
  BY <1>2, DataShape DEF Title
<1>. QED  BY <1>2, <1>3 DEF Parse

\* A table is empty before any script, or has one problem an admin created.
LEMMA FirstRows ==
  ASSUME Init
  PROVE  /\ rows \in Seq(Problem) /\ Len(rows) \in Nat
         /\ \A i \in DOMAIN rows : i = 1 /\ rows[i].title \in Titles /\ rows[i].tests = 0
<1>1. CASE rows = <<>>
  BY <1>1
<1>2. ASSUME NEW t \in Titles, rows = <<[title |-> t, tests |-> 0]>>
      PROVE  /\ rows \in Seq(Problem) /\ Len(rows) \in Nat
             /\ \A i \in DOMAIN rows :
                  i = 1 /\ rows[i].title \in Titles /\ rows[i].tests = 0
  <2>1. [title |-> t, tests |-> 0] \in Problem
    BY DEF Problem
  <2>. QED  BY <1>2, <2>1
<1>. QED  BY <1>1, <1>2 DEF Init

\* No script has started, so that none is alone with anything it read.
LEMMA CatalogStarts ==
  ASSUME CatalogAssumption, Init
  PROVE  CatalogIInv
<1>. USE FirstRows
<1>1. TypeOK
  <2>1. admin \in BOOLEAN /\ overlapped \in BOOLEAN
    BY DEF Init
  <2>2. rows \in Seq([title : Titles, tests : Nat]) /\ listed \in {-1} \cup 0..Len(rows)
    <3>1. rows \in Seq(Problem) /\ Len(rows) \in Nat
      OBVIOUS
    <3>2. listed \in {-1, Len(rows)}
      BY DEF Init
    <3>. QED  BY <3>1, <3>2 DEF Problem
  <2>3. /\ file = "none" /\ kind = [s \in Scripts |-> "seed"]
        /\ at = [s \in Scripts |-> "off"] /\ pos = [s \in Scripts |-> 1]
        /\ found = [s \in Scripts |-> 0] /\ seen = [s \in Scripts |-> {}]
    BY DEF Init
  <2>. QED  BY <2>1, <2>2, <2>3 DEF TypeOK, Kinds, Ended
<1>2. \A s \in Scripts : Loop(s)
  BY DEF Init, Loop
<1>3. AloneInv
  BY DEF Init, AloneInv, Running, Current, Ended
<1>4. DoublesHaveCause
  BY DEF Init, DoublesHaveCause, CatalogAssumption, Parse
<1>5. CompletedIsWhole
  BY DEF Init, CompletedIsWhole
<1>. QED  BY <1>1, <1>2, <1>3, <1>4, <1>5 DEF CatalogIInv, CatalogInv

\* A script starts.  If another one runs, they overlap.
LEMMA StartKeeps ==
  ASSUME CatalogIInv, NEW s \in Scripts, NEW k \in Kinds, Start(s, k)
  PROVE  CatalogIInv'
<1>. USE DEF CatalogIInv, CatalogInv
<1>1. /\ at[s] = "off" /\ at'[s] \in {"load", "users"} /\ kind'[s] = k
      /\ at'[s] = "load" => k = "import"
      /\ pos'[s] = pos[s] /\ seen'[s] = seen[s] /\ Others(s)
      /\ UNCHANGED <<pos, found, seen, skipped, stored>>
  BY DEF Start, TypeOK, Others
<1>2. UNCHANGED <<rows, listed>> /\ Grown
  BY <1>1, SameIsGrown DEF stored
<1>3. TypeOK'
  <2>1. overlapped' \in BOOLEAN
    BY DEF Start, TypeOK
  <2>2. at' = [at EXCEPT ![s] = at'[s]] /\ kind' \in [Scripts -> Kinds]
    BY DEF Start, TypeOK
  <2>. QED  BY <1>1, <2>1, <2>2 DEF TypeOK, stored, Title, Data, Ended, Others
<1>4. Loop(s)'
  <2>1. Loop(s)
    OBVIOUS
  <2>. QED  BY <1>1, <1>2, <2>1 DEF Loop
<1>5. \A o \in Scripts : Loop(o)'
  BY <1>1, <1>2, <1>4, LoopStays DEF Others
<1>6. AloneInv'
  <2>1. SUFFICES ASSUME ~overlapped' PROVE AloneInv'
    BY DEF AloneInv
  <2>2. ~overlapped /\ \A o \in Scripts : ~Running(o)
    BY <2>1 DEF Start
  <2>3. \A o \in Scripts : Running(o)' => o = s
    BY <2>2, <1>1 DEF Others, Running
  <2>4. \A o \in Scripts : Current(o)'
    BY <2>2, <1>1 DEF Others, Running, Current, Ended
  <2>. QED  BY <2>3, <2>4 DEF AloneInv
<1>7. DoublesHaveCause'
  BY <1>2 DEF DoublesHaveCause, Start, Parse
<1>8. CompletedIsWhole'
  BY <1>1, <1>2, WholeStays DEF Others, CompletedIsWhole
<1>. QED  BY <1>3, <1>5, <1>6, <1>7, <1>8

\* The importer reads or saves its data set.
LEMMA LoadKeeps ==
  ASSUME CatalogIInv, NEW s \in Scripts, LoadDataset(s) \/ KilledWhileSaving(s)
  PROVE  CatalogIInv'
<1>1. at[s] = "load" /\ UNCHANGED <<rows, admin, listed, redis>> /\ Running(s)
  BY DEF LoadDataset, KilledWhileSaving, Running, Ended
<1>2. file' \in {"none", "whole", "torn"} /\ admin' \in BOOLEAN
  BY <1>1 DEF LoadDataset, KilledWhileSaving, CatalogIInv, CatalogInv, TypeOK
<1>3. PICK to \in {"users", "dry", "failed"} : Goto(s, to)
  BY DEF LoadDataset, KilledWhileSaving
<1>4. pos[s] = 1
  BY <1>1 DEF CatalogIInv, CatalogInv, Loop
<1>. QED  BY <1>1, <1>2, <1>3, <1>4, GotoAway DEF Away

\* A failure or a kill ends a script between two queries.
LEMMA FailsKeeps ==
  ASSUME CatalogIInv, NEW s \in Scripts, Fails(s)
  PROVE  CatalogIInv'
<1>1. Running(s) /\ Goto(s, "failed") /\ UNCHANGED <<rows, admin, file, listed, redis>>
  BY DEF Fails, stored
<1>2. file' \in {"none", "whole", "torn"} /\ admin' \in BOOLEAN
  BY <1>1 DEF CatalogIInv, CatalogInv, TypeOK
<1>. QED  BY <1>1, <1>2, GotoAway DEF Away

\* A script enters its loop at the first title.
LEMMA LoopBegins ==
  ASSUME CatalogAssumption, CatalogIInv, NEW s \in Scripts, Running(s),
         at' = [at EXCEPT ![s] = LoopAt(s, 1)], UNCHANGED <<kind, pos, found>>,
         UNCHANGED <<skipped, overlapped, rows, file, listed, redis>>, admin' \in BOOLEAN,
         pos[s] = 1, seen' \in [Scripts -> SUBSET {Fold[t] : t \in Titles}],
         \A o \in Scripts \ {s} : seen'[o] = seen[o],
         \A f \in seen'[s] : \E i \in DOMAIN rows : Fold[rows[i].title] = f,
         kind[s] = "import" => \A i \in DOMAIN rows : Fold[rows[i].title] \in seen'[s]
  PROVE  CatalogIInv'
<1>. USE DEF CatalogIInv, CatalogInv
<1>1. at'[s] = LoopAt(s, 1) /\ pos'[s] = 1 /\ Others(s)
  BY DEF TypeOK, Others
<1>2. \A n \in DOMAIN Data(s) : ~(n < 1)
  BY DataShape
<1>3. Loop(s)' /\ at'[s] \in {"find", "import", "purge"}
  BY <1>1, <1>2, LoopArrives
<1>4. TypeOK'
  BY <1>3 DEF TypeOK, Ended, Title, Data
<1>5. Current(s)'
  BY <1>1, <1>3 DEF Current, LoopAt
<1>. QED  BY <1>1, <1>3, <1>4, <1>5, ReadingKeeps

\* The account is there, or the expanded seed fails.
LEMMA UsersKeeps ==
  ASSUME CatalogAssumption, CatalogIInv, NEW s \in Scripts, Users(s)
  PROVE  CatalogIInv'
<1>. USE DEF CatalogIInv, CatalogInv
<1>1. /\ at[s] = "users" /\ Running(s) /\ UNCHANGED <<rows, file, listed, redis>>
      /\ admin' \in BOOLEAN /\ file' \in {"none", "whole", "torn"}
  BY DEF Users, TypeOK, Running, Ended
<1>2. pos[s] = 1
  BY <1>1 DEF Loop
<1>3. CASE Goto(s, "failed")
  BY <1>1, <1>3, GotoAway DEF Away
<1>4. CASE Goto(s, "titles") /\ kind[s] = "import"
  BY <1>1, <1>2, <1>4, GotoAway DEF Away
<1>5. CASE Goto(s, LoopAt(s, 1)) /\ kind[s] # "import"
  <2>1. /\ at' = [at EXCEPT ![s] = LoopAt(s, 1)]
        /\ UNCHANGED <<kind, pos, found, seen, skipped, overlapped>>
    BY <1>5 DEF Goto
  <2>2. \A f \in seen[s] : \E i \in DOMAIN rows : Fold[rows[i].title] = f
    BY DEF Loop
  <2>3. seen' \in [Scripts -> SUBSET {Fold[t] : t \in Titles}]
    BY <2>1 DEF TypeOK
  <2>. QED  BY <1>1, <1>2, <1>5, <2>1, <2>2, <2>3, LoopBegins
<1>. QED  BY <1>3, <1>4, <1>5 DEF Users

\* The importer reads all titles there are.
LEMMA ReadTitlesKeeps ==
  ASSUME CatalogAssumption, CatalogIInv, NEW s \in Scripts, ReadTitles(s)
  PROVE  CatalogIInv'
<1>. USE DEF CatalogIInv, CatalogInv
<1>1. /\ at[s] = "titles" /\ Running(s) /\ at' = [at EXCEPT ![s] = LoopAt(s, 1)]
      /\ UNCHANGED <<kind, pos, found, skipped, overlapped, rows, file, listed, redis, admin>>
  BY DEF ReadTitles, stored, Running, Ended
<1>2. /\ seen'[s] = {Fold[rows[i].title] : i \in DOMAIN rows}
      /\ \A o \in Scripts \ {s} : seen'[o] = seen[o]
  BY DEF ReadTitles, TypeOK
<1>3. {Fold[rows[i].title] : i \in DOMAIN rows} \subseteq {Fold[t] : t \in Titles}
  <2>1. rows \in Seq(Problem)
    BY DEF TypeOK, Problem
  <2>. QED  BY <2>1, RowsShape
<1>4. seen' \in [Scripts -> SUBSET {Fold[t] : t \in Titles}]
  BY <1>3 DEF ReadTitles, TypeOK
<1>5. pos[s] = 1 /\ admin' \in BOOLEAN
  BY <1>1 DEF Loop, TypeOK
<1>. QED  BY <1>1, <1>2, <1>4, <1>5, LoopBegins

\* A seed looks a title up: it has to be created, completed or left alone.
LEMMA FindFirstKeeps ==
  ASSUME CatalogAssumption, CatalogIInv, NEW s \in Scripts, FindFirst(s)
  PROVE  CatalogIInv'
<1>. USE DEF CatalogIInv, CatalogInv
<1>1. /\ at[s] = "find" /\ Running(s)
      /\ UNCHANGED <<rows, admin, file, listed, redis>> /\ rows \in Seq(Problem)
  BY DEF FindFirst, stored, Running, Ended, TypeOK, Problem
<1>2. CASE Matches(s) = {} /\ Goto(s, "create")
  <2>1. /\ at'[s] = "create" /\ Others(s)
        /\ UNCHANGED <<kind, pos, found, seen, skipped, overlapped>>
    BY <1>2, GotoMoves
  <2>2. TypeOK'
    BY <1>1, <1>2, <2>1 DEF TypeOK, Goto, Ended, Title, Data
  <2>3. Loop(s)'
    <3>1. Loop(s)
      OBVIOUS
    <3>. QED  BY <1>1, <2>1, <3>1 DEF Loop, Has, Data
  <2>4. Current(s)'
    BY <1>1, <1>2, <2>1 DEF Current, Matches, Title, Data
  <2>. QED  BY <1>1, <2>1, <2>2, <2>3, <2>4, ReadingKeeps
<1>3. ASSUME NEW i \in Matches(s), rows[i].tests = 0, HandleExisting(s, i)
      PROVE  CatalogIInv'
  <2>1. /\ found' = [found EXCEPT ![s] = i] /\ at' = [at EXCEPT ![s] = "backfill"]
        /\ UNCHANGED <<kind, pos, seen, skipped, overlapped>>
    BY <1>3 DEF HandleExisting
  <2>2. i \in 1..Len(rows) /\ rows[i].title = Title(s) /\ Len(rows) \in Nat
    BY <1>1, RowsShape DEF Matches
  <2>3. at'[s] = "backfill" /\ found'[s] = i /\ Others(s)
    BY <2>1 DEF TypeOK, Others
  <2>4. TypeOK'
    <3>1. Grown /\ found' \in [Scripts -> 0..Len(rows)]
      BY <1>1, <2>1, <2>2, SameIsGrown DEF TypeOK
    <3>2. Title(s)' = Title(s) /\ rows'[i].title = rows[i].title /\ i # 0
      BY <1>1, <2>1, <2>2 DEF Title, Data
    <3>3. /\ pos' \in [Scripts -> Nat \ {0}] /\ kind' = kind
          /\ seen' \in [Scripts -> SUBSET {Fold[t] : t \in Titles}]
          /\ at'[s] \in Steps /\ at' = [at EXCEPT ![s] = at'[s]]
      BY <2>1, <2>3 DEF TypeOK, Steps
    <3>. QED  BY <1>1, <2>1, <2>2, <2>3, <3>1, <3>2, <3>3, TypesStay
  <2>5. Loop(s)'
    <3>1. Loop(s)
      OBVIOUS
    <3>. QED  BY <1>1, <2>1, <2>3, <3>1 DEF Loop, Has, Data
  <2>6. Current(s)'
    BY <1>1, <1>3, <2>3 DEF Current
  <2>. QED  BY <1>1, <2>1, <2>3, <2>4, <2>5, <2>6, ReadingKeeps
<1>4. ASSUME NEW i \in Matches(s), rows[i].tests # 0, HandleExisting(s, i)
      PROVE  CatalogIInv'
  <2>1. Continue(s) /\ UNCHANGED seen
    BY <1>4 DEF HandleExisting
  <2>2. /\ at'[s] = LoopAt(s, pos[s] + 1) /\ pos'[s] = pos[s] + 1 /\ Others(s)
        /\ UNCHANGED <<kind, found, skipped, overlapped>>
    BY <2>1, ContinueMoves
  <2>3. i \in DOMAIN rows /\ rows[i].title = Title(s) /\ rows[i].tests \in Nat
    BY <1>1, RowsShape DEF Matches
  <2>4. Grown
    BY <1>1, SameIsGrown
  <2>5. PICK n0 : n0 = pos[s]
    OBVIOUS
  <2>6. Has(s, n0, i)
    BY <1>4, <2>3, <2>5 DEF Has, Title
  <2>7. i \in DOMAIN rows' /\ Has(s, n0, i)'
    BY <2>2, <2>3, <2>4, <2>6, HasStays
  <2>8. \A f \in seen'[s] : \E j \in DOMAIN rows' : Fold[rows'[j].title] = f
    BY <1>1, <2>1 DEF Loop
  <2>9. Loop(s)' /\ at'[s] \in {"find", "import", "purge"}
    BY <1>1, <2>1, <2>4, <2>5, <2>7, <2>8, ContinueArrives
  <2>10. kind[s] # "import"
    BY <1>1 DEF Loop
  <2>11. TypeOK'
    BY <1>1, <2>1, <2>2, <2>9 DEF TypeOK, Continue, Ended, Title, Data
  <2>12. Current(s)'
    BY <2>2, <2>9, <2>10 DEF Current, LoopAt
  <2>. QED  BY <1>1, <2>1, <2>2, <2>9, <2>11, <2>12, ReadingKeeps
<1>. QED  BY <1>2, <1>3, <1>4 DEF FindFirst

\* A seed adds the tests of a problem that has none.
LEMMA BackfillKeeps ==
  ASSUME CatalogAssumption, CatalogIInv, NEW s \in Scripts, Backfill(s)
  PROVE  CatalogIInv'
<1>. USE DEF CatalogIInv, CatalogInv
<1>1. /\ at[s] = "backfill" /\ Running(s) /\ Continue(s)
      /\ UNCHANGED <<seen, admin, file, listed, redis>>
  BY DEF Backfill, Running, Ended
<1>2. /\ at'[s] = LoopAt(s, pos[s] + 1) /\ pos'[s] = pos[s] + 1 /\ Others(s)
      /\ UNCHANGED <<kind, found, skipped, overlapped>>
  BY <1>1, ContinueMoves
<1>3. kind[s] # "import"
  BY <1>1 DEF Loop
<1>4. PICK k \in Nat \ {0} : k = Examples[Title(s)]
  BY <1>1, <1>3, TitleShape
<1>5. PICK i : i = found[s]
  OBVIOUS
<1>6. rows \in Seq(Problem) /\ i \in DOMAIN rows /\ rows[i].title = Title(s)
  <2>1. i \in 0..Len(rows) /\ i # 0 /\ rows[i].title = Title(s) /\ rows \in Seq(Problem)
    BY <1>1, <1>5 DEF TypeOK, Problem
  <2>2. i \in DOMAIN rows
    BY <2>1, RowsShape
  <2>. QED  BY <2>1, <2>2
<1>7. /\ rows' \in Seq(Problem) /\ Len(rows') = Len(rows) /\ DOMAIN rows' = DOMAIN rows
      /\ \A j \in DOMAIN rows : j # i => rows'[j] = rows[j]
      /\ rows'[i].title = rows[i].title /\ rows'[i].tests = rows[i].tests + k
  <2>1. rows' = [rows EXCEPT ![i].tests = @ + k]
    BY <1>4, <1>5 DEF Backfill
  <2>. QED  BY <1>6, <2>1, TestsAdded
<1>8. \A j \in DOMAIN rows : rows[j].title \in Titles /\ rows[j].tests \in Nat
  BY <1>6, RowsShape
<1>9. /\ \A j \in DOMAIN rows : rows'[j].title = rows[j].title
      /\ \A j \in DOMAIN rows : rows'[j].tests >= rows[j].tests
      /\ rows'[i].tests \in Nat \ {0}
  <2>1. rows[i].tests \in Nat
    BY <1>6, <1>8
  <2>2. rows'[i].tests \in Nat \ {0} /\ rows'[i].tests >= rows[i].tests
    BY <1>7, <2>1
  <2>3. ASSUME NEW j \in DOMAIN rows
        PROVE  rows'[j].title = rows[j].title /\ rows'[j].tests >= rows[j].tests
    <3>1. CASE j = i
      BY <1>7, <2>2, <3>1
    <3>2. CASE j # i
      <4>1. rows'[j] = rows[j] /\ rows[j].tests \in Nat
        BY <1>7, <1>8, <3>2
      <4>. QED  BY <4>1
    <3>. QED  BY <3>1, <3>2
  <2>. QED  BY <2>2, <2>3
<1>10. Grown
  BY <1>6, <1>7, <1>9, RowsShape DEF Grown
<1>11. PICK n0 : n0 = pos[s]
  OBVIOUS
<1>12. i \in DOMAIN rows' /\ Has(s, n0, i)'
  <2>1. rows'[i].title = Title(s) /\ rows'[i].tests > 0
    BY <1>6, <1>7, <1>9
  <2>2. Title(s) = Data(s)[n0] /\ Data(s)' = Data(s)
    BY <1>2, <1>11 DEF Title, Data
  <2>. QED  BY <1>6, <1>7, <2>1, <2>2 DEF Has
<1>13. \A f \in seen'[s] : \E j \in DOMAIN rows' : Fold[rows'[j].title] = f
  <2>1. \A f \in seen[s] : \E j \in DOMAIN rows : Fold[rows[j].title] = f
    BY DEF Loop
  <2>. QED  BY <1>1, <1>7, <1>9, <2>1
<1>14. Loop(s)' /\ at'[s] \in {"find", "import", "purge"}
  BY <1>1, <1>10, <1>11, <1>12, <1>13, ContinueArrives
<1>15. TypeOK'
  <2>1. seen' \in [Scripts -> SUBSET {Fold[t] : t \in Titles}]
    BY <1>1 DEF TypeOK
  <2>. QED  BY <1>1, <1>10, <1>14, <2>1, ContinueTypes
<1>16. Current(s)'
  BY <1>2, <1>3, <1>14 DEF Current, LoopAt
<1>17. \A j \in DOMAIN rows' : rows'[j].tests = 0 => j = 1
  <2>1. \A j \in DOMAIN rows : rows[j].tests = 0 => j = 1
    BY DEF CompletedIsWhole
  <2>. QED  BY <1>7, <1>9, <2>1
<1>18. DoublesHaveCause'
  <2>1. SUFFICES ASSUME ~overlapped PROVE DoublesHaveCause'
    BY <1>2 DEF DoublesHaveCause
  <2>2. rows[i].tests = 0
    BY <1>1, <1>5, <2>1 DEF AloneInv, Current
  <2>3. \A j, m \in DOMAIN rows : rows[j].title = rows[m].title => j = m
    BY <2>1 DEF DoublesHaveCause
  <2>4. \A j \in DOMAIN rows : rows[j].tests <= Parse(rows[j].title)
    BY <2>1 DEF DoublesHaveCause
  <2>5. rows'[i].tests <= Parse(rows'[i].title)
    BY <1>4, <1>6, <1>7, <2>2 DEF Parse
  <2>6. \A j \in DOMAIN rows' : rows'[j].tests <= Parse(rows'[j].title)
    BY <1>7, <2>4, <2>5
  <2>7. \A j, m \in DOMAIN rows' : rows'[j].title = rows'[m].title => j = m
    BY <1>7, <1>9, <2>3
  <2>. QED  BY <2>6, <2>7 DEF DoublesHaveCause, Parse
<1>. QED  BY <1>1, <1>2, <1>10, <1>14, <1>15, <1>16, <1>17, <1>18, StepKeeps

\* A new row for the title a script is at.
LEMMA InsertKeeps ==
  ASSUME CatalogAssumption, CatalogIInv, NEW s \in Scripts, Running(s), Continue(s),
         at[s] \in {"create", "import"}, NEW tests \in Nat \ {0}, Insert(Title(s), tests),
         at[s] = "create" => tests = Examples[Title(s)],
         at[s] = "import" => tests = Parse(Title(s)),
         UNCHANGED <<admin, file, listed, redis>>,
         seen' \in [Scripts -> SUBSET {Fold[t] : t \in Titles}],
         \A o \in Scripts \ {s} : seen'[o] = seen[o],
         seen'[s] \in {seen[s], seen[s] \cup {Fold[Title(s)]}},
         at[s] = "import" => seen'[s] = seen[s] \cup {Fold[Title(s)]},
         ~overlapped => \A i \in DOMAIN rows : rows[i].title # Title(s)
  PROVE  CatalogIInv'
<1>. USE DEF CatalogIInv, CatalogInv
<1>1. /\ at'[s] = LoopAt(s, pos[s] + 1) /\ pos'[s] = pos[s] + 1 /\ Others(s)
      /\ UNCHANGED <<kind, found, skipped, overlapped>>
  BY ContinueMoves
<1>2. PICK title \in Titles : title = Title(s)
  BY TitleShape
<1>3. PICK new : new = Len(rows')
  OBVIOUS
<1>4. /\ Grown /\ new = Len(rows) + 1 /\ \A i \in DOMAIN rows : rows'[i] = rows[i]
      /\ rows'[new].title = title /\ rows'[new].tests = tests
  BY <1>2, <1>3, InsertGrows
<1>5. /\ Len(rows) \in Nat /\ DOMAIN rows = 1..Len(rows) /\ DOMAIN rows' = 1..new
      /\ rows \in Seq(Problem)
  <2>1. rows \in Seq(Problem) /\ rows' \in Seq(Problem)
    BY <1>4 DEF TypeOK, Problem, Grown
  <2>. QED  BY <1>3, <2>1, RowsShape
<1>6. DOMAIN rows' = DOMAIN rows \cup {new}
  BY <1>4, <1>5
<1>7. PICK n0 : n0 = pos[s]
  OBVIOUS
<1>8. new \in DOMAIN rows' /\ Has(s, n0, new)'
  <2>1. title = Data(s)[n0] /\ Data(s)' = Data(s)
    BY <1>1, <1>2, <1>7 DEF Title, Data
  <2>. QED  BY <1>4, <1>6, <2>1 DEF Has
<1>9. \A f \in seen'[s] : \E i \in DOMAIN rows' : Fold[rows'[i].title] = f
  <2>1. \A f \in seen[s] : \E i \in DOMAIN rows : Fold[rows[i].title] = f
    BY DEF Loop
  <2>2. \A f \in seen'[s] : f \in seen[s] \/ f = Fold[title]
    BY <1>2
  <2>3. ASSUME NEW f \in seen[s]
        PROVE  \E i \in DOMAIN rows' : Fold[rows'[i].title] = f
    <3>1. PICK i \in DOMAIN rows : Fold[rows[i].title] = f
      BY <2>1
    <3>. QED  BY <1>4, <1>6, <3>1
  <2>4. Fold[rows'[new].title] = Fold[title] /\ new \in DOMAIN rows'
    BY <1>4, <1>6
  <2>. QED  BY <2>2, <2>3, <2>4
<1>10. Loop(s)' /\ at'[s] \in {"find", "import", "purge"}
  BY <1>4, <1>7, <1>8, <1>9, ContinueArrives
<1>11. TypeOK'
  BY <1>4, <1>10, ContinueTypes
<1>12. ASSUME ~overlapped PROVE Current(s)'
  <2>1. CASE at[s] = "create"
    <3>1. kind[s] # "import"
      BY <2>1 DEF Loop
    <3>. QED  BY <1>1, <1>10, <3>1 DEF Current, LoopAt
  <2>2. CASE at[s] = "import"
    <3>1. \A i \in DOMAIN rows : Fold[rows[i].title] \in seen[s]
      BY <1>12, <2>2 DEF AloneInv, Current
    <3>2. \A i \in DOMAIN rows' : Fold[rows'[i].title] \in seen'[s]
      BY <1>2, <1>4, <1>6, <2>2, <3>1
    <3>. QED  BY <1>10, <3>2 DEF Current
  <2>. QED  BY <2>1, <2>2
<1>13. \A i \in DOMAIN rows' : rows'[i].tests = 0 => i = 1
  BY <1>4, <1>6 DEF CompletedIsWhole
<1>14. DoublesHaveCause'
  <2>1. SUFFICES ASSUME ~overlapped PROVE DoublesHaveCause'
    BY <1>1 DEF DoublesHaveCause
  <2>2. \A i, j \in DOMAIN rows : rows[i].title = rows[j].title => i = j
    BY <2>1 DEF DoublesHaveCause
  <2>3. \A i \in DOMAIN rows : rows[i].tests <= Parse(rows[i].title)
    BY <2>1 DEF DoublesHaveCause
  <2>4. \A i \in DOMAIN rows : rows[i].title # title
    BY <1>2, <2>1
  <2>5. tests <= Parse(title)
    BY <1>2, TitleShape DEF Parse
  <2>6. \A i, j \in DOMAIN rows' : rows'[i].title = rows'[j].title => i = j
    BY <1>4, <1>6, <2>2, <2>4
  <2>7. \A i \in DOMAIN rows' : rows'[i].tests <= Parse(rows'[i].title)
    BY <1>4, <1>6, <2>3, <2>5
  <2>. QED  BY <2>6, <2>7 DEF DoublesHaveCause, Parse
<1>. QED  BY <1>1, <1>4, <1>10, <1>11, <1>12, <1>13, <1>14, StepKeeps

\* A seed creates a problem it found no row for.
LEMMA CreateKeeps ==
  ASSUME CatalogAssumption, CatalogIInv, NEW s \in Scripts, Create(s)
  PROVE  CatalogIInv'
<1>. USE DEF CatalogIInv, CatalogInv
<1>1. /\ at[s] = "create" /\ Running(s) /\ Continue(s)
      /\ UNCHANGED <<seen, admin, file, listed, redis>>
      /\ Insert(Title(s), Examples[Title(s)])
  BY DEF Create, Running, Ended
<1>2. Examples[Title(s)] \in Nat \ {0}
  BY <1>1, TitleShape DEF Loop
<1>3. ~overlapped => \A i \in DOMAIN rows : rows[i].title # Title(s)
  BY <1>1 DEF AloneInv, Current
<1>4. seen' \in [Scripts -> SUBSET {Fold[t] : t \in Titles}]
  BY <1>1 DEF TypeOK
<1>. QED  BY <1>1, <1>2, <1>3, <1>4, InsertKeeps

\* The importer skips a title it knows, or creates the problem.
LEMMA ImportKeeps ==
  ASSUME CatalogAssumption, CatalogIInv, NEW s \in Scripts, Import(s)
  PROVE  CatalogIInv'
<1>. USE DEF CatalogIInv, CatalogInv
<1>1. /\ at[s] = "import" /\ Running(s) /\ Continue(s) /\ kind[s] = "import"
      /\ UNCHANGED <<admin, file, listed, redis>>
  BY DEF Import, Running, Ended, Loop
<1>2. /\ at'[s] = LoopAt(s, pos[s] + 1) /\ pos'[s] = pos[s] + 1
      /\ UNCHANGED <<kind, found, skipped, overlapped>>
  <2>1. \A o \in Scripts \ {s} : seen'[o] = seen[o]
    BY DEF Import, TypeOK
  <2>. QED  BY <1>1, <2>1, ContinueMoves
<1>3. CASE Fold[Title(s)] \in seen[s]
  <2>1. UNCHANGED <<rows, seen>>
    BY <1>3 DEF Import
  <2>2. Grown /\ Others(s)
    BY <1>1, <2>1, SameIsGrown, ContinueMoves
  <2>3. PICK i \in DOMAIN rows : Fold[rows[i].title] = Fold[Title(s)]
    BY <1>3 DEF Loop
  <2>4. PICK n0 : n0 = pos[s]
    OBVIOUS
  <2>5. i \in DOMAIN rows' /\ Has(s, n0, i)'
    BY <1>1, <1>2, <2>1, <2>3, <2>4 DEF Has, Title, Data
  <2>6. \A f \in seen'[s] : \E j \in DOMAIN rows' : Fold[rows'[j].title] = f
    BY <2>1 DEF Loop
  <2>7. Loop(s)' /\ at'[s] \in {"find", "import", "purge"}
    BY <1>1, <2>1, <2>2, <2>4, <2>5, <2>6, ContinueArrives
  <2>8. TypeOK'
    <3>1. seen' \in [Scripts -> SUBSET {Fold[t] : t \in Titles}]
      BY <2>1 DEF TypeOK
    <3>. QED  BY <1>1, <2>1, <2>2, <2>7, <3>1, ContinueTypes
  <2>9. ~overlapped => Current(s)'
    BY <1>1, <2>1, <2>7 DEF AloneInv, Current
  <2>. QED  BY <1>1, <1>2, <2>1, <2>2, <2>7, <2>8, <2>9, ReadingKeeps
<1>4. CASE Fold[Title(s)] \notin seen[s]
  <2>1. /\ Insert(Title(s), Parse(Title(s)))
        /\ seen' = [seen EXCEPT ![s] = @ \cup {Fold[Title(s)]}]
    BY <1>4 DEF Import
  <2>2. Title(s) \in Titles /\ Parse(Title(s)) \in Nat \ {0}
    BY <1>1, TitleShape
  <2>3. /\ seen'[s] = seen[s] \cup {Fold[Title(s)]}
        /\ \A o \in Scripts \ {s} : seen'[o] = seen[o]
        /\ seen' \in [Scripts -> SUBSET {Fold[t] : t \in Titles}]
    BY <2>1, <2>2 DEF TypeOK
  <2>4. ~overlapped => \A i \in DOMAIN rows : rows[i].title # Title(s)
    BY <1>1, <1>4 DEF AloneInv, Current
  <2>. QED  BY <1>1, <2>1, <2>2, <2>3, <2>4, InsertKeeps
<1>. QED  BY <1>3, <1>4

\* The end of a script: the cached listing goes, or Redis is away.
LEMMA PurgeKeeps ==
  ASSUME CatalogAssumption, CatalogIInv, NEW s \in Scripts, Purge(s) \/ PurgeSkipped(s)
  PROVE  CatalogIInv'
<1>. USE DEF CatalogIInv, CatalogInv
<1>1. /\ at[s] = "purge" /\ Running(s) /\ UNCHANGED <<rows, admin, file, redis>>
      /\ listed' \in {listed, -1}
      /\ listed' = -1 \/ s \in skipped'
  BY DEF Purge, PurgeSkipped, RemoveKeys, Goto, stored, Running, Ended
<1>2. /\ at'[s] \in {"done", "hanging"} /\ at' = [at EXCEPT ![s] = at'[s]] /\ Others(s)
      /\ UNCHANGED <<kind, pos, found, seen, overlapped>>
  BY DEF Purge, PurgeSkipped, Goto, TypeOK, Others
<1>3. skipped \subseteq skipped'
  BY DEF Purge, PurgeSkipped, Goto
<1>4. Grown
  BY <1>1, SameIsGrown
<1>5. TypeOK'
  BY <1>1, <1>2, <1>4, TypesStay DEF TypeOK, Steps, Ended
<1>6. Loop(s)'
  BY <1>1, <1>2 DEF Loop
<1>7. Current(s)'
  BY <1>2 DEF Current
<1>8. Whole(s)'
  <2>1. pos[s] > Len(Data(s)) /\ pos[s] \in Nat
    BY <1>1 DEF Loop, TypeOK
  <2>2. \A n \in DOMAIN Data(s) : n < pos[s]
    BY <2>1, DataShape
  <2>3. \A n \in DOMAIN Data(s) : \E i \in DOMAIN rows : Has(s, n, i)
    BY <1>1, <2>2 DEF Loop
  <2>. QED  BY <1>1, <1>2, <2>3 DEF Whole, Has, Data
<1>9. DoublesHaveCause' /\ \A i \in DOMAIN rows' : rows'[i].tests = 0 => i = 1
  BY <1>1, <1>2 DEF DoublesHaveCause, CompletedIsWhole, Parse
<1>. QED  BY <1>1, <1>2, <1>3, <1>4, <1>5, <1>6, <1>7, <1>8, <1>9, StepKeeps

\* What runs beside the scripts: the API caches the list, Redis stops or starts.
LEMMA SurroundingsKeep ==
  ASSUME CatalogIInv, List \/ RedisTurns
  PROVE  CatalogIInv'
<1>. USE DEF CatalogIInv, CatalogInv
<1>1. UNCHANGED <<script, rows, admin, file>> /\ listed' \in {listed, Len(rows)}
  BY DEF List, RedisTurns
<1>2. Grown
  BY <1>1, SameIsGrown
<1>3. TypeOK'
  <2>1. listed' \in {-1} \cup 0..Len(rows)
    <3>1. Len(rows) \in Nat
      BY RowsShape DEF TypeOK, Problem
    <3>. QED  BY <1>1, <3>1 DEF TypeOK
  <2>. QED  BY <1>1, <2>1 DEF TypeOK, script, Title, Data
<1>4. \A s \in Scripts : Loop(s)'
  BY <1>1, <1>2, LoopStays DEF script
<1>5. AloneInv'
  BY <1>1 DEF AloneInv, Running, Current, script, Title, Data
<1>6. DoublesHaveCause'
  BY <1>1 DEF DoublesHaveCause, script, Parse
<1>7. CompletedIsWhole'
  <2>1. \A s \in Scripts : Whole(s) => Whole(s)'
    BY <1>1, <1>2, WholeStays DEF script
  <2>. QED  BY <1>1, <2>1 DEF CompletedIsWhole, script
<1>. QED  BY <1>3, <1>4, <1>5, <1>6, <1>7

\* Every step of every script keeps the invariant.
LEMMA CatalogKeeps == CatalogAssumption /\ CatalogIInv /\ [Next]_vars => CatalogIInv'
<1>. SUFFICES ASSUME CatalogAssumption, CatalogIInv, [Next]_vars PROVE CatalogIInv'
  OBVIOUS
<1>1. CASE UNCHANGED vars
  <2>1. UNCHANGED <<rows, admin, file, listed, kind, at, pos, found, seen, skipped, overlapped>>
    BY <1>1 DEF vars, script, stored
  <2>. QED  BY <2>1 DEF CatalogIInv, CatalogInv, TypeOK, Loop, AloneInv, Current, Running,
                 DoublesHaveCause, CompletedIsWhole, Whole, Has, Title, Data, Parse
<1>2. CASE Next
  BY <1>2, StartKeeps, LoadKeeps, FailsKeeps, UsersKeeps, ReadTitlesKeeps, FindFirstKeeps,
     BackfillKeeps, CreateKeeps, ImportKeeps, PurgeKeeps, SurroundingsKeep DEF Next, Step
<1>. QED  BY <1>1, <1>2

\* The inductive invariant, which the theorems below take apart.
LEMMA CatalogInductive == Spec => []CatalogIInv
BY CatalogAssumption, CatalogStarts, CatalogKeeps, PTL DEF Spec

\* Each script of the catalogue is where its loop says, with rows for everything
\* behind it, and one that runs alone finds the table as it read it: for every
\* data set, any number of scripts and any failures (prisma/seed.ts,
\* prisma/seed_expanded.ts, scripts/import_bulk_leetcode.ts).
THEOREM CatalogInvariant == Spec => []CatalogInv
<1>1. CatalogIInv => CatalogInv
  BY DEF CatalogIInv
<1>. QED  BY <1>1, CatalogInductive, PTL

\* Rerunning the scripts makes no problem and no test case twice, unless two of
\* them ran at the same time.
THEOREM DoublesHaveCauseHolds == Spec => []DoublesHaveCause
<1>1. CatalogIInv => DoublesHaveCause
  BY DEF CatalogIInv
<1>. QED  BY <1>1, CatalogInductive, PTL

\* No script leaves a problem without test cases, and one that ended by itself
\* leaves no title of its data out, however many failed before it.
THEOREM CompletedIsWholeHolds == Spec => []CompletedIsWhole
<1>1. CatalogIInv => CompletedIsWhole
  BY DEF CatalogIInv, CatalogInv
<1>. QED  BY <1>1, CatalogInductive, PTL

==============================================================================
