--------------------------- MODULE ExecutionEngine ---------------------------
(***************************************************************************)
(* One evaluation: ExecutionEngine.execute with the executor of a language *)
(* and DockerSandbox.run, against the child process, the Docker daemon and *)
(* the timers around it.                                                   *)
(*                                                                         *)
(* A child process ends and its 'close' event is handled later; in between *)
(* the timer may still fire.  In Docker mode the child is only the CLI: the*)
(* container is created and started by requests of the CLI, ends by itself *)
(* and is removed (--rm), or by a "docker rm -f" nobody waits for.  When   *)
(* the timer fires is left open, since no program is too fast to be late   *)
(* on a busy machine.  Evaluations share no directory and no container.    *)
(***************************************************************************)
EXTENDS Integers

CONSTANTS
  MaxTests,         \* bound on the number of tests of a problem
  Faults,           \* kinds of platform failure that may happen
  MaxFaults         \* bound on their number

FaultKinds ==
  {"mkdir",         \* the temporary directory cannot be created
   "disk",          \* the source file cannot be written
   "spawn",         \* the child process cannot be spawned
   "daemon",        \* the daemon is lost or stops, and the CLI ends
   "rm",            \* "docker rm -f" cannot be run
   "rmdir"}         \* the temporary directory cannot be removed

ASSUME EngineAssumption ==
  MaxTests \in Nat /\ MaxFaults \in Nat /\ Faults \subseteq FaultKinds

VARIABLES
  lang, useDocker,  \* language of the submission, config.useDocker
  compiles, program,\* what the compiler and, per test, the program do
  at, test,         \* next step of execute, number of the current test
  child, exit,      \* the child process, and its exit status
  timer,            \* timer of the child process
  box, removing,    \* containers of the steps; those "docker rm -f" is run for
  dir,              \* the temporary directory
  outcome,          \* what execute returns or throws
  missed,           \* history: containers that no removal has reached
  failed,           \* history: kinds of failure met
  faults            \* number of platform failures so far

task   == <<lang, useDocker, compiles, program>>
proc   == <<child, exit, timer>>
docker == <<box, removing, missed>>
vars   == <<task, at, test, proc, docker, dir, outcome, failed, faults>>

TheJudge == INSTANCE Judge
  WITH limited <- useDocker, compiles <- compiles, program <- program, outcome <- outcome,
       lost <- "daemon" \in failed

Behaviours == {"right", "wrong", "fail", "hog", "loop", "lingers"}
Steps == 0..MaxTests            \* step 0 compiles, step i runs test i
Cur   == IF at \in {"compile", "compiling"} THEN 0 ELSE test
Tests == DOMAIN program

TypeOK ==
  /\ lang \in {"PYTHON", "CPP", "JAVA"} /\ useDocker \in BOOLEAN
  /\ compiles \in {"good", "bad"}
  /\ \E n \in 0..MaxTests : program \in [1..n -> Behaviours]
  /\ at \in {"create", "write", "compile", "compiling", "run", "running",
             "cleanup", "done"}
  /\ test \in 1..(MaxTests + 1)
  /\ child \in {"none", "alive", "held", "error", "dead"}
  /\ exit \in {"none", "ok", "fail", "137", "killed"}
  /\ timer \in {"off", "armed", "fired"}
  /\ box \in [Steps -> {"none", "creating", "created", "running", "gone"}]
  /\ removing \subseteq Steps /\ missed \subseteq Steps
  /\ dir \in {"absent", "present"}
  /\ outcome \in {"NONE", "ACCEPTED", "WRONG_ANSWER", "TIME_LIMIT_EXCEEDED",
                  "MEMORY_LIMIT_EXCEEDED", "COMPILATION_ERROR",
                  "RUNTIME_ERROR", "SYSTEM_ERROR", "THROWN"}
  /\ failed \subseteq FaultKinds /\ faults \in Nat

Init ==
  /\ lang \in {"PYTHON", "CPP", "JAVA"} /\ useDocker \in BOOLEAN
  /\ compiles \in (IF lang = "PYTHON" THEN {"good"} ELSE {"good", "bad"})
  /\ program \in UNION {[1..n -> Behaviours] : n \in 0..MaxTests}
  /\ at = "create" /\ test = 1
  /\ child = "none" /\ exit = "none" /\ timer = "off"
  /\ box = [b \in Steps |-> "none"] /\ removing = {} /\ missed = {}
  /\ dir = "absent" /\ outcome = "NONE" /\ failed = {} /\ faults = 0

Fault(kind) ==
  /\ kind \in Faults /\ faults < MaxFaults
  /\ faults' = faults + 1
  /\ failed' = failed \cup {kind}

NoFault == UNCHANGED <<failed, faults>>

------------------------------------------------------------------------------
(* ExecutionEngine.execute up to the first child process *)

CreateTempDir ==
  /\ at = "create"
  /\ at' = "write" /\ dir' = "present"
  /\ UNCHANGED <<task, test, proc, docker, outcome>> /\ NoFault

\* Outside the try block: the error leaves execute.
CreateTempDirFails ==
  /\ at = "create" /\ Fault("mkdir")
  /\ at' = "done" /\ outcome' = "THROWN"
  /\ UNCHANGED <<task, test, proc, docker, dir>>

\* Bug: "finally" is skipped.
ReturnAtOnce(verdict) == outcome' = verdict /\ at' = "done"

\* A return inside the try block, which "finally" follows.
Return(verdict) == outcome' = verdict /\ at' = "cleanup"

WriteSourceFile ==
  /\ at = "write"
  /\ at' = IF lang = "PYTHON" THEN "run" ELSE "compile"
  /\ UNCHANGED <<task, test, proc, docker, dir, outcome>> /\ NoFault

\* Inside the try block: the catch makes it a verdict.
WriteSourceFileFails ==
  /\ at = "write" /\ Fault("disk")
  /\ Return("SYSTEM_ERROR")
  /\ UNCHANGED <<task, test, proc, docker, dir>>

------------------------------------------------------------------------------
(* Child processes: spawnProcess and DockerSandbox.run *)

\* Bug: nothing limits the time of a child.
ArmNoTimer == timer' = "off"

ArmTimer == timer' = "armed"

\* compile() and run() spawn a child and arm its timer; the CLI asks the
\* daemon for a container.
Spawn ==
  /\ \/ at = "compile" /\ at' = "compiling"
     \/ at = "run" /\ test \in Tests /\ at' = "running"
  /\ ArmTimer /\ exit' = "none"
  /\ \/ /\ child' = "alive" /\ NoFault
        /\ box' = IF useDocker THEN [box EXCEPT ![Cur] = "creating"] ELSE box
     \/ child' = "error" /\ Fault("spawn") /\ UNCHANGED box
  /\ UNCHANGED <<task, test, removing, missed, dir, outcome>>

Ends(status) == child' = "dead" /\ exit' = status

\* Exit statuses of the program of a step.  Without Docker the memory limit
\* is not enforced, except as Java's heap; a Java program out of heap exits
\* by itself, before or after the container is out of memory.
ExitStatus(b) ==
  IF b = 0 THEN IF compiles = "bad" THEN {"fail"} ELSE {"ok"}
  ELSE CASE program[b] = "fail" -> {"fail", "137"}
         [] program[b] = "hog"  ->
              (IF useDocker THEN {"137"} ELSE {}) \cup
              (IF lang = "JAVA" THEN {"fail"} ELSE {}) \cup
              (IF useDocker \/ lang = "JAVA" THEN {} ELSE {"ok"})
         [] program[b] = "loop" -> {}
         [] OTHER               -> {"ok"}

\* The daemon creates the container the CLI asked for, also after the CLI
\* was killed.
BoxCreated(b) ==
  /\ box[b] = "creating"
  /\ box' = [box EXCEPT ![b] = "created"]
  /\ UNCHANGED <<task, at, test, proc, removing, missed, dir, outcome>> /\ NoFault

\* ... unless the CLI was killed before it could ask.
BoxNeverCreated(b) ==
  /\ box[b] = "creating" /\ (b # Cur \/ child # "alive")
  /\ box' = [box EXCEPT ![b] = "gone"]
  /\ UNCHANGED <<task, at, test, proc, removing, missed, dir, outcome>> /\ NoFault

BoxStarted(b) ==
  /\ box[b] = "created"
  /\ box' = [box EXCEPT ![b] = "running"]
  /\ UNCHANGED <<task, at, test, proc, removing, missed, dir, outcome>> /\ NoFault

\* The program ends, the container is removed (--rm), and a CLI that still
\* waits for it ends with its status.
BoxExits(b) ==
  /\ box[b] = "running"
  /\ \E status \in ExitStatus(b) :
       /\ box' = [box EXCEPT ![b] = "gone"]
       /\ IF b = Cur /\ child = "alive" THEN Ends(status) ELSE UNCHANGED <<child, exit>>
  /\ UNCHANGED <<task, at, test, timer, removing, missed, dir, outcome>> /\ NoFault

\* Without Docker the child is the program itself.  One that leaves a process
\* behind which holds its output open ends, but is never closed.
ProgramExits ==
  /\ ~useDocker /\ child = "alive"
  /\ \E status \in ExitStatus(Cur) :
       /\ exit' = status
       /\ child' = IF Cur \in Tests /\ program[Cur] = "lingers" THEN "held" ELSE "dead"
  /\ UNCHANGED <<task, at, test, timer, docker, dir, outcome>> /\ NoFault

\* The CLI loses the daemon and ends with status 125, or without one when it
\* is killed itself; the container may run on.  Or the daemon stops and kills
\* the container, whose status 137 the CLI hands on.
DaemonFails ==
  /\ useDocker /\ child = "alive" /\ Fault("daemon")
  /\ \/ Ends("fail") /\ box' \in {box, [box EXCEPT ![Cur] = "gone"]}
     \/ /\ box[Cur] = "running" /\ Ends("137")
        /\ box' = [box EXCEPT ![Cur] = "gone"]
  /\ UNCHANGED <<task, at, test, timer, removing, missed, dir, outcome>>

\* Bug: the time-out of a run kills the CLI only.
TimerKillsOnlyTheCli ==
  /\ timer = "armed" /\ child # "error"
  /\ timer' = "fired"
  /\ IF child = "alive" THEN Ends("killed") ELSE UNCHANGED <<child, exit>>
  /\ UNCHANGED <<task, at, test, docker, dir, outcome>> /\ NoFault

\* SIGKILL to the child; for a run in Docker also "docker rm -f".  A compiler
\* in Docker has no container name and goes on.
TimerFires ==
  /\ timer = "armed" /\ child # "error"
  /\ timer' = "fired"
  /\ IF child = "alive" THEN Ends("killed") ELSE UNCHANGED <<child, exit>>
  /\ removing' = IF useDocker /\ at = "running" THEN removing \cup {Cur} ELSE removing
  /\ missed' = IF useDocker /\ at = "compiling" THEN missed \cup {Cur} ELSE missed
  /\ UNCHANGED <<task, at, test, box, dir, outcome>> /\ NoFault

\* "docker rm -f" reaches the daemon, before or after the container exists.
RemoveBox(b) ==
  /\ b \in removing
  /\ removing' = removing \ {b}
  /\ IF box[b] \in {"created", "running"}
       THEN box' = [box EXCEPT ![b] = "gone"] /\ UNCHANGED missed
       ELSE missed' = missed \cup {b} /\ UNCHANGED box
  /\ UNCHANGED <<task, at, test, proc, dir, outcome>> /\ NoFault

RemoveBoxFails(b) ==
  /\ b \in removing /\ Fault("rm")
  /\ removing' = removing \ {b} /\ missed' = missed \cup {b}
  /\ UNCHANGED <<task, at, test, proc, box, dir, outcome>>

------------------------------------------------------------------------------
(* What the engine makes of a child that has ended *)

\* Bug: a status that is no plain failure counts as success.
RunStatusLenient(status) ==
  IF timer = "fired" THEN "TIME_LIMIT_EXCEEDED"
  ELSE IF status = "137" /\ useDocker THEN "MEMORY_LIMIT_EXCEEDED"
  ELSE IF status = "fail" THEN "RUNTIME_ERROR"
  ELSE "ACCEPTED"

\* runInDocker, and the local branch of run().
RunStatus(status) ==
  IF timer = "fired" THEN "TIME_LIMIT_EXCEEDED"
  ELSE IF status = "137" /\ useDocker THEN "MEMORY_LIMIT_EXCEEDED"
  ELSE IF status # "ok" THEN "RUNTIME_ERROR"
  ELSE "ACCEPTED"

\* Bug: any output will do.
CompareNothing == TRUE

\* Output and expectation, normalised alike: line ends and outer blanks.
CompareOutput == program[test] # "wrong"

NextTest == at' = "run" /\ test' = test + 1 /\ UNCHANGED outcome

\* Bug: the remaining tests are run all the same.
FailLater(verdict) == NextTest

\* Fail fast: the first test that is not passed ends the loop.
FailFast(verdict) == Return(verdict) /\ UNCHANGED test

\* The promise of the child is resolved with its status; the engine goes on.
Conclude(status) ==
  IF at = "compiling"
    THEN /\ UNCHANGED test
         /\ IF status = "ok" THEN at' = "run" /\ UNCHANGED outcome
            ELSE Return("COMPILATION_ERROR")
    ELSE IF RunStatus(status) # "ACCEPTED"
           THEN FailFast(RunStatus(status))
         ELSE IF CompareOutput THEN NextTest
         ELSE FailFast("WRONG_ANSWER")

OnClose ==
  /\ child = "dead"
  /\ Conclude(exit)
  /\ child' = "none" /\ exit' = "none" /\ timer' = "off"
  /\ UNCHANGED <<task, docker, dir>> /\ NoFault

\* 'error' resolves with exit code -1 and timedOut false.
OnError ==
  /\ child = "error"
  /\ Conclude("fail")
  /\ child' = "none" /\ timer' = "off"
  /\ removing' = IF useDocker /\ at = "running" THEN removing \cup {Cur} ELSE removing
  /\ UNCHANGED <<task, exit, box, missed, dir>> /\ NoFault

\* Every test was passed, or there is none.
AllPassed ==
  /\ at = "run" /\ test \notin Tests
  /\ Return("ACCEPTED")
  /\ UNCHANGED <<task, test, proc, docker, dir>> /\ NoFault

Cleanup ==
  /\ at = "cleanup"
  /\ at' = "done" /\ dir' = "absent"
  /\ UNCHANGED <<task, test, proc, docker, outcome>> /\ NoFault

\* The error is logged only; a container that still runs may cause it, too.
CleanupFails ==
  /\ at = "cleanup"
  /\ \/ Fault("rmdir")
     \/ (\E b \in Steps : box[b] = "running") /\ NoFault
  /\ at' = "done"
  /\ UNCHANGED <<task, test, proc, docker, dir, outcome>>

------------------------------------------------------------------------------
(* Specification *)

Engine ==
  \/ CreateTempDir \/ WriteSourceFile \/ Spawn \/ OnClose \/ OnError
  \/ AllPassed \/ Cleanup \/ CleanupFails

Next ==
  \/ Engine \/ CreateTempDirFails \/ WriteSourceFileFails
  \/ ProgramExits \/ DaemonFails \/ TimerFires
  \/ \E b \in Steps :
       \/ BoxCreated(b) \/ BoxNeverCreated(b) \/ BoxStarted(b) \/ BoxExits(b)
       \/ RemoveBox(b) \/ RemoveBoxFails(b)

Spec == Init /\ [][Next]_vars

\* The event loop runs its handlers, timers fire, the daemon answers, and a
\* process that ends by itself does so.
Fairness ==
  /\ WF_vars(Engine) /\ WF_vars(TimerFires)
  /\ \A b \in Steps :
       /\ WF_vars(BoxCreated(b) \/ BoxNeverCreated(b))
       /\ WF_vars(child = "alive" /\ b = Cur /\ BoxStarted(b))
       /\ WF_vars(BoxExits(b)) /\ WF_vars(RemoveBox(b))

FairSpec == Spec /\ Fairness

------------------------------------------------------------------------------
(* Properties *)

\* Whatever the platform does, a verdict is deserved or says nothing about the
\* program's answers: a time-out racing the exit, a lost daemon or a failed
\* spawn never yields ACCEPTED or WRONG_ANSWER, and only a daemon that went down
\* yields a MEMORY_LIMIT_EXCEEDED that the program does not deserve.
ImplementsJudge == TheJudge!Spec

\* Tests are run one at a time: when a child is spawned no container of an
\* earlier step still uses the directory and the machine.
OneContainerAtATime ==
  at \in {"compile", "run", "compiling", "running"} =>
    \A b \in Steps : box[b] \in {"creating", "created", "running"} => b = Cur

\* A directory is left behind only by an evaluation that timed out, or when
\* the daemon or the file system failed: no container writes to the directory
\* of an evaluation that ended with any other verdict.
DirectoryRemoved ==
  at = "done" /\ dir = "present" =>
    \/ outcome \in {"TIME_LIMIT_EXCEEDED", "COMPILATION_ERROR"}
    \/ failed \cap {"rmdir", "daemon"} # {}

\* No container is left behind either, unless its removal came before it was
\* created, could not be run, or was not asked for (a compiler's time-out).
ContainersRemoved ==
  at = "done" ~> \A b \in Steps : \/ box[b] \in {"none", "gone"}
                                 \/ b \in missed \/ "daemon" \in failed

\* Every evaluation ends, whatever the program does and whatever fails, and the
\* worker slot that awaits it is free again - without Docker only if the
\* program leaves no process behind that holds its output open.
EvaluationEnds ==
  useDocker \/ (\A i \in Tests : program[i] # "lingers") ~> at = "done"

\* A status other than those of a killed or failed CLI, or of a container killed
\* by its daemon, is the program's own.
StatusInv ==
  /\ at \notin {"compiling", "running"} <=> child = "none"
  /\ \A b \in Steps :
       b = Cur /\ child \in {"held", "dead"} =>
         \/ exit \in {"fail", "killed"} \cup ExitStatus(b)
         \/ exit = "137" /\ "daemon" \in failed
  /\ exit = "killed" => timer = "fired" /\ child # "error"

\* A later test is only begun when the compiler and all earlier tests succeeded.
ProgressInv ==
  /\ outcome = "NONE" <=> at \notin {"cleanup", "done"}
  /\ at \in {"run", "running"} =>
       compiles = "good" /\ \A j \in 1..(test - 1) : j \in Tests /\ TheJudge!Passes(j)
  /\ at = "running" => test \in Tests
  /\ at \in {"create", "write", "compile", "compiling"} => test = 1
  /\ lang = "PYTHON" => compiles = "good" /\ at \notin {"compile", "compiling"}

\* The inductive invariant behind ImplementsJudge: a status that is read as a
\* success is one the program of the current step really ended with.
EngineInv == TypeOK /\ StatusInv /\ ProgressInv

------------------------------------------------------------------------------
(* What comments say, and the code does not do *)

\* "INFRASTRUCTURE / TRANSIENT FAILURES (Retriable) ... Action: Throw
\* InfrastructureError": such a failure is thrown and never becomes a verdict.
PlatformFailureIsRetried ==
  at = "done" /\ failed \cap {"mkdir", "disk", "spawn", "daemon"} # {}
    => outcome = "THROWN"

==============================================================================
