------------------------ MODULE ExecutionEngine_proofs ------------------------
(* Theorems about ExecutionEngine, for any number of tests and any failures. *)
EXTENDS ExecutionEngine, TLAPS

\* What the program and the compiler do is settled before the evaluation.
LEMMA TaskIsRigid ==
  ASSUME UNCHANGED task
  PROVE  /\ \A b : ExitStatus(b)' = ExitStatus(b)
         /\ \A j : TheJudge!Passes(j)' = TheJudge!Passes(j)
         /\ Tests' = Tests
  BY DEF task, ExitStatus, TheJudge!Passes, TheJudge!Verdicts, Tests

\* The tests are numbered from one.
LEMMA TestsAreSteps ==
  ASSUME TypeOK
  PROVE  /\ \E n \in 0..MaxTests : Tests = 1..n
         /\ Tests \subseteq Steps
         /\ Cur \in Nat
  BY EngineAssumption DEF EngineAssumption, TypeOK, Tests, Steps, Cur

\* The initial states satisfy the invariant.
LEMMA InitInv == Init => EngineInv
  <1> SUFFICES ASSUME Init PROVE EngineInv
    OBVIOUS
  <1>1. TypeOK
    BY EngineAssumption, SMTT(30) DEF EngineAssumption, Init, TypeOK, Steps, FaultKinds
  <1>2. StatusInv BY DEF Init, StatusInv
  <1>3. ProgressInv BY DEF Init, ProgressInv
  <1>4. QED BY <1>1, <1>2, <1>3 DEF EngineInv

\* A failure is counted and remembered.
LEMMA FaultType ==
  ASSUME TypeOK, NEW kind, Fault(kind)
  PROVE  failed' \subseteq FaultKinds /\ faults' \in Nat
  BY EngineAssumption DEF EngineAssumption, TypeOK, Fault

\* Steps of the daemon touch containers only, and end the CLI with a status of
\* the program; nobody else reads what they change.
LEMMA DaemonStep ==
  ASSUME EngineInv, NEW b \in Steps,
         \/ BoxCreated(b) \/ BoxNeverCreated(b) \/ BoxStarted(b) \/ BoxExits(b)
         \/ RemoveBox(b) \/ RemoveBoxFails(b)
  PROVE  EngineInv'
  <1>1. UNCHANGED <<task, at, test, timer, dir, outcome>>
    BY DEF BoxCreated, BoxNeverCreated, BoxStarted, BoxExits, RemoveBox,
           RemoveBoxFails, proc
  <1>2. TypeOK'
    <2> USE DEF EngineInv, TypeOK, task, proc, NoFault
    <2>1. CASE BoxCreated(b) BY <2>1 DEF BoxCreated
    <2>2. CASE BoxNeverCreated(b) BY <2>2 DEF BoxNeverCreated
    <2>3. CASE BoxStarted(b) BY <2>3 DEF BoxStarted
    <2>4. CASE BoxExits(b) BY <2>4 DEF BoxExits, Ends, ExitStatus
    <2>5. CASE RemoveBox(b) BY <2>5 DEF RemoveBox
    <2>6. CASE RemoveBoxFails(b) BY <2>6, FaultType DEF RemoveBoxFails
    <2>7. QED BY <2>1, <2>2, <2>3, <2>4, <2>5, <2>6
  <1>3. \/ UNCHANGED <<child, exit>>
        \/ /\ child = "alive" /\ b = Cur /\ child' = "dead"
           /\ exit' \in ExitStatus(b) /\ exit' # "killed"
    BY DEF BoxCreated, BoxNeverCreated, BoxStarted, BoxExits, RemoveBox,
           RemoveBoxFails, proc, Ends, ExitStatus
  <1>4. Cur' = Cur BY <1>1 DEF Cur
  <1>5. StatusInv'
    <2>1. failed \subseteq failed' /\ UNCHANGED task
      BY <1>1 DEF BoxCreated, BoxNeverCreated, BoxStarted, BoxExits, RemoveBox,
                  RemoveBoxFails, NoFault, Fault
    <2>2. QED BY <1>1, <1>3, <1>4, <2>1, TaskIsRigid DEF EngineInv, StatusInv, Steps
  <1>6. ProgressInv'
    BY <1>1, TaskIsRigid DEF EngineInv, ProgressInv, task
  <1>7. QED BY <1>2, <1>5, <1>6 DEF EngineInv

\* Steps of execute itself up to a child process and after the last one.
LEMMA ExecuteStep ==
  ASSUME EngineInv,
         \/ CreateTempDir \/ CreateTempDirFails \/ WriteSourceFile
         \/ WriteSourceFileFails \/ AllPassed \/ Cleanup \/ CleanupFails
  PROVE  EngineInv'
  <1>1. UNCHANGED <<task, test, proc, docker>> /\ child = "none"
    BY DEF CreateTempDir, CreateTempDirFails, WriteSourceFile, WriteSourceFileFails,
           AllPassed, Cleanup, CleanupFails, EngineInv, StatusInv
  <1>2. TypeOK'
    <2> USE DEF EngineInv, TypeOK, task, proc, docker, NoFault, Return
    <2>1. CASE CreateTempDir BY <2>1 DEF CreateTempDir
    <2>2. CASE CreateTempDirFails BY <2>2, FaultType DEF CreateTempDirFails
    <2>3. CASE WriteSourceFile BY <2>3 DEF WriteSourceFile
    <2>4. CASE WriteSourceFileFails BY <2>4, FaultType DEF WriteSourceFileFails
    <2>5. CASE AllPassed BY <2>5 DEF AllPassed
    <2>6. CASE Cleanup BY <2>6 DEF Cleanup
    <2>7. CASE CleanupFails BY <2>7, FaultType DEF CleanupFails
    <2>8. QED BY <2>1, <2>2, <2>3, <2>4, <2>5, <2>6, <2>7
  <1>3. at' \notin {"compiling", "running"}
    BY DEF CreateTempDir, CreateTempDirFails, WriteSourceFile, WriteSourceFileFails,
           AllPassed, Cleanup, CleanupFails, Return
  <1>4. StatusInv'
    BY <1>1, <1>3 DEF EngineInv, StatusInv, proc
  <1>5. ProgressInv'
    <2> USE TaskIsRigid, <1>1 DEF EngineInv, TypeOK, ProgressInv, task, Return
    <2>1. CASE CreateTempDir BY <2>1 DEF CreateTempDir
    <2>2. CASE CreateTempDirFails BY <2>2 DEF CreateTempDirFails
    <2>3. CASE WriteSourceFile BY <2>3 DEF WriteSourceFile
    <2>4. CASE WriteSourceFileFails BY <2>4 DEF WriteSourceFileFails
    <2>5. CASE AllPassed BY <2>5 DEF AllPassed
    <2>6. CASE Cleanup BY <2>6 DEF Cleanup
    <2>7. CASE CleanupFails BY <2>7 DEF CleanupFails
    <2>8. QED BY <2>1, <2>2, <2>3, <2>4, <2>5, <2>6, <2>7
  <1>6. QED BY <1>2, <1>4, <1>5 DEF EngineInv

\* Steps of the child process: it is spawned, ends, or is killed.
LEMMA ChildStep ==
  ASSUME EngineInv, Spawn \/ ProgramExits \/ DaemonFails \/ TimerFires
  PROVE  EngineInv'
  <1>1. UNCHANGED <<task, test, dir, outcome>>
    BY DEF Spawn, ProgramExits, DaemonFails, TimerFires
  <1>2. TypeOK'
    <2> USE TestsAreSteps
        DEF EngineInv, TypeOK, task, proc, docker, NoFault, Ends, Cur, Steps, ArmTimer
    <2>1. CASE Spawn BY <2>1, FaultType DEF Spawn
    <2>2. CASE ProgramExits
      BY <2>2 DEF ProgramExits, ExitStatus
    <2>3. CASE DaemonFails BY <2>3, FaultType DEF DaemonFails
    <2>4. CASE TimerFires
      <3>1. at \in {"compiling", "running"} => Cur \in Steps
        BY EngineAssumption DEF EngineAssumption, ProgressInv
      <3>2. QED BY <2>4, <3>1 DEF TimerFires
    <2>5. QED BY <2>1, <2>2, <2>3, <2>4
  <1>3. Cur' = Cur
    BY DEF Spawn, ProgramExits, DaemonFails, TimerFires, Cur
  <1>4. StatusInv'
    <2> USE TaskIsRigid, <1>1, <1>3 DEF EngineInv, StatusInv, Ends, ArmTimer
    <2>1. CASE Spawn BY <2>1 DEF Spawn
    <2>2. CASE ProgramExits BY <2>2 DEF ProgramExits, ExitStatus
    <2>3. CASE DaemonFails
      <3>1. /\ child' = "dead" /\ exit' \in {"fail", "137"} /\ "daemon" \in failed'
            /\ UNCHANGED <<at, timer>>
        BY <2>3 DEF DaemonFails, Fault
      <3>2. at \in {"compiling", "running"}
        BY <2>3 DEF DaemonFails, TypeOK
      <3>3. QED BY <3>1, <3>2
    <2>4. CASE TimerFires BY <2>4 DEF TimerFires, NoFault
    <2>5. QED BY <2>1, <2>2, <2>3, <2>4
  <1>5. ProgressInv'
    BY <1>1, TaskIsRigid DEF EngineInv, ProgressInv, Spawn, ProgramExits, DaemonFails,
       TimerFires, task
  <1>6. QED BY <1>2, <1>4, <1>5 DEF EngineInv

\* What a status of a run says about the program.
LEMMA StatusIsProgram ==
  ASSUME EngineInv, at = "running", NEW status \in {"fail", "killed", "137"} \cup ExitStatus(test),
         status = "killed" => timer = "fired",
         status = "137" => status \in ExitStatus(test) \/ "daemon" \in failed
  PROVE  /\ RunStatus(status) = "ACCEPTED" /\ CompareOutput => TheJudge!Passes(test)
         /\ RunStatus(status) = "ACCEPTED" /\ ~CompareOutput =>
              TheJudge!Verdicts(program[test]) = {"WRONG_ANSWER"}
         /\ RunStatus(status) = "MEMORY_LIMIT_EXCEEDED" =>
              "MEMORY_LIMIT_EXCEEDED" \in
                TheJudge!Verdicts(program[test]) \cup TheJudge!Excuses
         /\ RunStatus(status) \in {"ACCEPTED", "MEMORY_LIMIT_EXCEEDED"} \cup TheJudge!Excuses
  BY TestsAreSteps
  DEF EngineInv, TypeOK, ProgressInv, Behaviours, RunStatus, CompareOutput, ExitStatus,
      TheJudge!Passes, TheJudge!Verdicts, TheJudge!Excuses, Tests, Steps

\* What Conclude makes of the status of a child that has ended.
LEMMA ConcludeStep ==
  ASSUME EngineInv, at \in {"compiling", "running"},
         NEW status \in {"ok", "fail", "137", "killed"},
         \A b \in Steps : b = Cur =>
           \/ status \in {"fail", "killed"} \cup ExitStatus(b)
           \/ status = "137" /\ "daemon" \in failed,
         status = "killed" => timer = "fired",
         Conclude(status), UNCHANGED task
  PROVE  /\ ProgressInv'
         /\ test' \in 1..(MaxTests + 1)
         /\ at' \in {"run", "cleanup"}
         /\ outcome' = outcome \/ TheJudge!Deserves(outcome') \/ outcome' \in TheJudge!Excuses
         /\ outcome' \in {"NONE", "ACCEPTED", "WRONG_ANSWER", "TIME_LIMIT_EXCEEDED",
                          "MEMORY_LIMIT_EXCEEDED", "COMPILATION_ERROR", "RUNTIME_ERROR"}
  <1> USE TaskIsRigid, TestsAreSteps
  <1>1. CASE at = "compiling"
    <2>1. status = "ok" => compiles = "good"
      <3>1. 0 \in Steps /\ Cur = 0 BY <1>1, EngineAssumption DEF EngineAssumption, Steps, Cur
      <3>2. QED BY <3>1 DEF ExitStatus, EngineInv, TypeOK
    <2>2. QED
      BY <1>1, <2>1 DEF Conclude, Return, NextTest, FailFast, EngineInv, TypeOK, ProgressInv, task,
         TheJudge!Excuses
  <1>2. CASE at = "running"
    <2>1. test \in Tests /\ test \in Steps /\ Cur = test
      BY <1>2 DEF EngineInv, ProgressInv, Cur
    <2>2. \/ status \in {"fail", "killed"} \cup ExitStatus(test)
          \/ status = "137" /\ "daemon" \in failed
      BY <2>1
    <2> DEFINE run == RunStatus(status)
    <2>3. /\ run = "ACCEPTED" /\ CompareOutput => TheJudge!Passes(test)
          /\ run = "ACCEPTED" /\ ~CompareOutput =>
               TheJudge!Verdicts(program[test]) = {"WRONG_ANSWER"}
          /\ run = "MEMORY_LIMIT_EXCEEDED" =>
               "MEMORY_LIMIT_EXCEEDED" \in
                 TheJudge!Verdicts(program[test]) \cup TheJudge!Excuses
          /\ run \in {"ACCEPTED", "MEMORY_LIMIT_EXCEEDED"} \cup TheJudge!Excuses
      BY <1>2, <2>2, StatusIsProgram
    <2>4. run \in {"MEMORY_LIMIT_EXCEEDED", "TIME_LIMIT_EXCEEDED", "RUNTIME_ERROR", "ACCEPTED"}
      BY DEF RunStatus
    <2>5. /\ compiles = "good" /\ test \in 1..MaxTests
          /\ \A j \in 1..(test - 1) : j \in Tests /\ TheJudge!Passes(j)
      BY <1>2, <2>1, EngineAssumption DEF EngineAssumption, EngineInv, ProgressInv
    <2>6. CASE run = "ACCEPTED" /\ CompareOutput
      <3>1. at' = "run" /\ test' = test + 1 /\ outcome' = outcome
        BY <1>2, <2>6 DEF Conclude, NextTest
      <3>2. outcome = "NONE" BY <1>2 DEF EngineInv, ProgressInv
      <3>3. \A j \in 1..test : j \in Tests /\ TheJudge!Passes(j)
        BY <2>1, <2>3, <2>5, <2>6
      <3>4. QED
        BY <1>2, <2>5, <3>1, <3>2, <3>3, EngineAssumption
        DEF ProgressInv, task, EngineAssumption, EngineInv
    <2>7. CASE run # "ACCEPTED" \/ ~CompareOutput
      <3>1. PICK v \in {run, "WRONG_ANSWER"} :
              /\ at' = "cleanup" /\ outcome' = v /\ test' = test
              /\ v # "ACCEPTED"
              /\ v \in TheJudge!Excuses \/ v \in TheJudge!Verdicts(program[test])
        BY <1>2, <2>3, <2>4, <2>7 DEF Conclude, FailFast, Return
      <3>2. v \in TheJudge!Verdicts(program[test]) => TheJudge!Deserves(v)
        <4> SUFFICES ASSUME v \in TheJudge!Verdicts(program[test])
                     PROVE  TheJudge!Deserves(v)
          OBVIOUS
        <4>1. ~TheJudge!Passes(test) BY <3>1 DEF TheJudge!Passes
        <4>2. QED BY <2>1, <2>5, <4>1 DEF TheJudge!Deserves, Tests
      <3>3. TheJudge!Deserves(v)' <=> TheJudge!Deserves(v)
        BY DEF TheJudge!Deserves, TheJudge!Passes, TheJudge!Verdicts, task
      <3>4. QED
        BY <1>2, <2>4, <2>5, <3>1, <3>2, <3>3, EngineAssumption
        DEF ProgressInv, task, EngineAssumption, EngineInv, TheJudge!Deserves
    <2>8. QED BY <2>6, <2>7
  <1>3. QED BY <1>1, <1>2

\* The handlers of 'close' and 'error' resolve the promise of a child.
LEMMA ResolveStep ==
  ASSUME EngineInv, OnClose \/ OnError
  PROVE  /\ EngineInv'
         /\ outcome' = outcome \/ TheJudge!Deserves(outcome') \/ outcome' \in TheJudge!Excuses
  <1>1. at \in {"compiling", "running"} /\ child' = "none" /\ UNCHANGED task
    BY DEF OnClose, OnError, EngineInv, StatusInv, TypeOK
  <1>2. PICK status \in {"ok", "fail", "137", "killed"} :
          /\ Conclude(status)
          /\ \A b \in Steps : b = Cur =>
               \/ status \in {"fail", "killed"} \cup ExitStatus(b)
               \/ status = "137" /\ "daemon" \in failed
          /\ status = "killed" => timer = "fired"
    <2>1. CASE OnClose
      <3>1. Cur \in Steps
        BY <1>1, TestsAreSteps, EngineAssumption
        DEF EngineAssumption, Steps, Cur, EngineInv, ProgressInv
      <3>2. exit \in {"ok", "fail", "137", "killed"}
        BY <2>1, <3>1 DEF OnClose, EngineInv, TypeOK, StatusInv, ExitStatus
      <3>3. QED BY <2>1, <3>2 DEF OnClose, EngineInv, StatusInv
    <2>2. CASE OnError BY <2>2 DEF OnError
    <2>3. QED BY <2>1, <2>2
  <1>3. /\ ProgressInv'
        /\ test' \in 1..(MaxTests + 1)
        /\ at' \in {"run", "cleanup"}
        /\ outcome' = outcome \/ TheJudge!Deserves(outcome') \/ outcome' \in TheJudge!Excuses
        /\ outcome' \in {"NONE", "ACCEPTED", "WRONG_ANSWER", "TIME_LIMIT_EXCEEDED",
                         "MEMORY_LIMIT_EXCEEDED", "COMPILATION_ERROR", "RUNTIME_ERROR"}
    BY <1>1, <1>2, ConcludeStep
  <1>4. TypeOK'
    <2>1. at = "running" => Cur \in Steps
      BY TestsAreSteps DEF EngineInv, ProgressInv, Cur
    <2>2. QED
      BY <1>1, <1>3, <2>1 DEF OnClose, OnError, EngineInv, TypeOK, task, docker, NoFault
  <1>5. StatusInv'
    <2>1. exit' # "killed"
      BY DEF OnClose, OnError, EngineInv, StatusInv, TypeOK
    <2>2. QED BY <1>1, <1>3, <2>1 DEF StatusInv
  <1>6. QED BY <1>3, <1>4, <1>5 DEF EngineInv

\* Every step preserves the invariant.
LEMMA NextInv == EngineInv /\ [Next]_vars => EngineInv'
  <1> SUFFICES ASSUME EngineInv, [Next]_vars PROVE EngineInv'
    OBVIOUS
  <1>1. CASE UNCHANGED vars
    <2>1. Cur' = Cur BY <1>1 DEF vars, Cur
    <2>2. UNCHANGED task BY <1>1 DEF vars
    <2>3. TypeOK'
      BY <1>1 DEF vars, task, proc, docker, EngineInv, TypeOK, Steps
    <2>4. StatusInv'
      BY <1>1, <2>1, <2>2, TaskIsRigid DEF vars, proc, EngineInv, StatusInv, Steps
    <2>5. ProgressInv'
      BY <1>1, <2>2, TaskIsRigid DEF vars, task, EngineInv, ProgressInv
    <2>6. QED BY <2>3, <2>4, <2>5 DEF EngineInv
  <1>2. CASE Next
    BY <1>2, DaemonStep, ExecuteStep, ChildStep, ResolveStep DEF Next, Engine
  <1>3. QED BY <1>1, <1>2

\* EngineInv is an invariant: what the engine has read as success so far, the
\* program really did.
THEOREM EngineInvariant == Spec => []EngineInv
  <1>1. QED BY InitInv, NextInv, PTL DEF Spec

\* The engine implements the judge: every outcome is deserved, or says nothing
\* about the program's answers (execute, runInDocker, DockerSandbox.run).
THEOREM EngineImplementsJudge == Spec => ImplementsJudge
  <1>1. Init => TheJudge!Init BY DEF Init, TheJudge!Init
  <1>2. ASSUME EngineInv, [Next]_vars
        PROVE  [TheJudge!Decide \/ TheJudge!Lose]_<<useDocker, compiles, program,
                                                    "daemon" \in failed, outcome>>
    <2>1. UNCHANGED task
      BY <1>2 DEF Next, vars, Engine, CreateTempDir, WriteSourceFile, Spawn, OnClose,
         OnError, AllPassed, Cleanup, CleanupFails, CreateTempDirFails,
         WriteSourceFileFails, ProgramExits, DaemonFails, TimerFires, BoxCreated,
         BoxNeverCreated, BoxStarted, BoxExits, RemoveBox, RemoveBoxFails
    <2>2. CASE DaemonFails
      <3>1. "daemon" \in failed' /\ UNCHANGED outcome
        BY <2>2 DEF DaemonFails, Fault
      <3>2. TheJudge!Lose
        BY <2>1, <3>1 DEF TheJudge!Lose, task
      <3>3. QED BY <3>2
    <2>3. CASE ~DaemonFails
      <3>1. "daemon" \in failed' <=> "daemon" \in failed
        BY <1>2, <2>3 DEF Next, vars, Engine, CreateTempDir, WriteSourceFile, Spawn, OnClose,
           OnError, AllPassed, Cleanup, CleanupFails, CreateTempDirFails,
           WriteSourceFileFails, ProgramExits, TimerFires, BoxCreated,
           BoxNeverCreated, BoxStarted, BoxExits, RemoveBox, RemoveBoxFails, NoFault, Fault
      <3>2. ("daemon" \in failed)' = ("daemon" \in failed)
        BY <3>1
      <3>3. CASE UNCHANGED outcome BY <2>1, <3>2, <3>3 DEF task
      <3>4. CASE OnClose \/ OnError
        <4>1. outcome' = outcome \/ TheJudge!Deserves(outcome') \/ outcome' \in TheJudge!Excuses
          BY <1>2, <3>4, ResolveStep
        <4>2. outcome = "NONE"
          BY <1>2, <3>4 DEF OnClose, OnError, EngineInv, ProgressInv, StatusInv, TypeOK
        <4>3. QED BY <2>1, <3>2, <4>1, <4>2 DEF TheJudge!Decide, task
      <3>5. CASE AllPassed
        <4>1. \A i \in Tests : TheJudge!Passes(i)
          BY <1>2, <3>5, TestsAreSteps, EngineAssumption
          DEF EngineAssumption, AllPassed, EngineInv, ProgressInv, TypeOK
        <4>2. TheJudge!Deserves("ACCEPTED")
          BY <1>2, <3>5, <4>1 DEF TheJudge!Deserves, Tests, AllPassed, EngineInv, ProgressInv
        <4>3. outcome' = "ACCEPTED" /\ outcome = "NONE"
          BY <1>2, <3>5 DEF AllPassed, Return, EngineInv, ProgressInv
        <4>4. TheJudge!Deserves(outcome')
          BY <4>2, <4>3
        <4>5. QED BY <2>1, <3>2, <4>3, <4>4 DEF TheJudge!Decide, task
      <3>6. CASE CreateTempDirFails \/ WriteSourceFileFails
        <4>1. outcome = "NONE" /\ outcome' \in {"THROWN", "SYSTEM_ERROR"}
          BY <1>2, <3>6
          DEF CreateTempDirFails, WriteSourceFileFails, Return, EngineInv, ProgressInv
        <4>2. QED BY <2>1, <3>2, <4>1 DEF TheJudge!Decide, TheJudge!Excuses, task
      <3>7. QED
        BY <1>2, <2>3, <3>3, <3>4, <3>5, <3>6
        DEF Next, Engine, vars, CreateTempDir, WriteSourceFile, Spawn, Cleanup, CleanupFails,
            ProgramExits, TimerFires, BoxCreated,
            BoxNeverCreated, BoxStarted, BoxExits, RemoveBox, RemoveBoxFails
    <2>4. QED BY <2>2, <2>3
  <1>3. QED
    BY <1>1, <1>2, EngineInvariant, PTL DEF Spec, ImplementsJudge, TheJudge!Spec

------------------------------------------------------------------------------
(* Containers and the directory they use *)

InUse(b) == box[b] \in {"creating", "created", "running"}

\* What may leave a container or a directory behind.
Abandoned == outcome \in {"TIME_LIMIT_EXCEEDED", "COMPILATION_ERROR"}

\* The container of a step is gone when its child ended by itself, and one that
\* is not is known by the status of the child, later by the verdict.
BoxInv ==
  /\ ~useDocker => \A b \in Steps : ~InUse(b)
  /\ at \notin {"compiling", "running", "cleanup", "done"} => \A b \in Steps : ~InUse(b)
  /\ at \in {"compiling", "running"} => \A b \in Steps : InUse(b) => b = Cur
  /\ child = "error" \/ (child = "dead" /\ exit \in {"ok", "137"}) =>
       \A b \in Steps : ~InUse(b)
  /\ child = "dead" /\ exit = "fail" /\ "daemon" \notin failed =>
       \A b \in Steps : ~InUse(b)
  /\ at \in {"cleanup", "done"} /\ "daemon" \notin failed /\ ~Abandoned =>
       \A b \in Steps : ~InUse(b)
  /\ at = "create" => dir = "absent"
  /\ DirectoryRemoved

\* Steps of the daemon put no container in use.
LEMMA BoxDaemon ==
  ASSUME EngineInv, BoxInv, NEW b \in Steps,
         \/ BoxCreated(b) \/ BoxNeverCreated(b) \/ BoxStarted(b) \/ BoxExits(b)
         \/ RemoveBox(b) \/ RemoveBoxFails(b)
  PROVE  BoxInv'
  <1>1. /\ UNCHANGED <<useDocker, at, test, dir, outcome>>
        /\ failed \subseteq failed'
    BY DEF BoxCreated, BoxNeverCreated, BoxStarted, BoxExits, RemoveBox,
           RemoveBoxFails, proc, task, NoFault, Fault
  <1>2. /\ box \in [Steps -> {"none", "creating", "created", "running", "gone"}]
        /\ exit \in {"none", "ok", "fail", "137", "killed"}
    BY DEF EngineInv, TypeOK
  <1>3. \A c \in Steps : InUse(c)' => InUse(c)
    BY <1>2 DEF InUse, BoxCreated, BoxNeverCreated, BoxStarted, BoxExits, RemoveBox,
       RemoveBoxFails
  <1>4. \/ UNCHANGED <<child, exit>>
        \/ /\ child = "alive" /\ b = Cur /\ child' = "dead" /\ ~InUse(b)'
           /\ at \in {"compiling", "running"}
    BY <1>2 DEF BoxCreated, BoxNeverCreated, BoxStarted, BoxExits, RemoveBox,
       RemoveBoxFails, proc, Ends, InUse, EngineInv, StatusInv
  <1>5. Cur' = Cur
    BY <1>1 DEF Cur
  <1>6. CASE UNCHANGED <<child, exit>>
    BY <1>1, <1>3, <1>5, <1>6 DEF BoxInv, Abandoned, DirectoryRemoved
  <1>7. CASE /\ child = "alive" /\ b = Cur /\ child' = "dead" /\ ~InUse(b)'
             /\ at \in {"compiling", "running"}
    <2>1. \A c \in Steps : ~InUse(c)'
      BY <1>3, <1>7 DEF BoxInv
    <2>2. QED
      BY <1>1, <1>5, <1>7, <2>1 DEF BoxInv, Abandoned, DirectoryRemoved
  <1>8. QED BY <1>4, <1>6, <1>7

\* Between two children no container is in use, and the last step finds one
\* only after a verdict that admits it.
LEMMA BoxExecute ==
  ASSUME EngineInv, BoxInv,
         \/ CreateTempDir \/ CreateTempDirFails \/ WriteSourceFile
         \/ WriteSourceFileFails \/ AllPassed \/ Cleanup \/ CleanupFails
  PROVE  BoxInv'
  <1>1. /\ UNCHANGED <<task, test, proc, docker>> /\ child = "none"
        /\ failed \subseteq failed'
    BY DEF CreateTempDir, CreateTempDirFails, WriteSourceFile, WriteSourceFileFails,
           AllPassed, Cleanup, CleanupFails, EngineInv, StatusInv, NoFault, Fault
  <1>2. (\A b \in Steps : InUse(b)' = InUse(b)) /\ child' = "none" /\ useDocker' = useDocker
    BY <1>1 DEF InUse, docker, proc, task
  <1>3. CASE CreateTempDir \/ WriteSourceFile
    BY <1>2, <1>3 DEF BoxInv, CreateTempDir, WriteSourceFile, DirectoryRemoved, EngineInv, TypeOK
  <1>4. CASE CreateTempDirFails
    BY <1>2, <1>4 DEF BoxInv, CreateTempDirFails, DirectoryRemoved
  <1>5. CASE WriteSourceFileFails \/ AllPassed
    BY <1>2, <1>5 DEF BoxInv, WriteSourceFileFails, AllPassed, Return, DirectoryRemoved
  <1>6. CASE Cleanup
    BY <1>1, <1>2, <1>6 DEF BoxInv, Cleanup, Abandoned, DirectoryRemoved
  <1>7. CASE CleanupFails
    <2>1. /\ at = "cleanup" /\ at' = "done" /\ UNCHANGED <<dir, outcome>>
          /\ "rmdir" \in failed' \/ \E b \in Steps : InUse(b)
      BY <1>7 DEF CleanupFails, Fault, InUse
    <2>2. \/ "daemon" \in failed' \/ Abandoned' \/ \A b \in Steps : ~InUse(b)
      BY <1>1, <2>1 DEF BoxInv, Abandoned
    <2>3. DirectoryRemoved'
      BY <2>1, <2>2 DEF DirectoryRemoved, Abandoned
    <2>4. QED
      BY <1>2, <2>1, <2>2, <2>3 DEF BoxInv
  <1>8. QED BY <1>3, <1>4, <1>5, <1>6, <1>7

\* A child is spawned when no container is in use, and is killed or fails
\* under a name.
LEMMA BoxChild ==
  ASSUME EngineInv, BoxInv, Spawn \/ ProgramExits \/ DaemonFails \/ TimerFires
  PROVE  BoxInv'
  <1>1. /\ UNCHANGED <<useDocker, test, dir, outcome>> /\ failed \subseteq failed'
        /\ Cur' = Cur
    BY DEF Spawn, ProgramExits, DaemonFails, TimerFires, task, NoFault, Fault, Cur
  <1>2. box \in [Steps -> {"none", "creating", "created", "running", "gone"}]
    BY DEF EngineInv, TypeOK
  <1>3. CASE Spawn
    <2>1. \A b \in Steps : ~InUse(b)
      BY <1>3 DEF Spawn, BoxInv
    <2>2. \A b \in Steps : InUse(b)' => b = Cur /\ useDocker /\ child' = "alive"
      BY <1>2, <1>3, <2>1 DEF Spawn, InUse
    <2>3. at' \in {"compiling", "running"}
      BY <1>3 DEF Spawn
    <2>4. QED
      BY <1>1, <2>2, <2>3 DEF BoxInv, Abandoned, DirectoryRemoved
  <1>4. CASE ProgramExits
    <2>1. at' = at /\ \A b \in Steps : ~InUse(b) /\ ~InUse(b)'
      BY <1>4 DEF ProgramExits, BoxInv, InUse, docker
    <2>2. QED
      BY <1>1, <2>1 DEF BoxInv, Abandoned, DirectoryRemoved
  <1>5. CASE DaemonFails
    <2>1. \A b \in Steps : InUse(b)' => InUse(b)
      BY <1>2, <1>5 DEF DaemonFails, InUse
    <2>2. child' = "dead" /\ "daemon" \in failed' /\ at' = at /\ useDocker
      BY <1>5 DEF DaemonFails, Ends, Fault
    <2>3. at \in {"compiling", "running"}
      BY <1>5 DEF DaemonFails, EngineInv, StatusInv, TypeOK
    <2>4. CASE exit' = "fail"
      BY <1>1, <2>1, <2>2, <2>4 DEF BoxInv, Abandoned, DirectoryRemoved
    <2>5. CASE exit' = "137" /\ box' = [box EXCEPT ![Cur] = "gone"]
      <3>1. \A b \in Steps : ~InUse(b)'
        BY <1>2, <2>1, <2>3, <2>5 DEF BoxInv, InUse
      <3>2. QED
        BY <1>1, <2>2, <2>3, <3>1 DEF BoxInv, Abandoned, DirectoryRemoved
    <2>6. QED BY <1>5, <2>4, <2>5 DEF DaemonFails, Ends
  <1>6. CASE TimerFires
    <2>1. (\A b \in Steps : InUse(b)' = InUse(b)) /\ at' = at /\ failed' = failed
      BY <1>6 DEF TimerFires, InUse, NoFault
    <2>2. UNCHANGED <<child, exit>> \/ (child' = "dead" /\ exit' = "killed")
      BY <1>6 DEF TimerFires, Ends
    <2>3. QED
      BY <1>1, <2>1, <2>2 DEF BoxInv, Abandoned, DirectoryRemoved
  <1>7. QED BY <1>3, <1>4, <1>5, <1>6

\* The engine goes on only when the container of the step is gone, and a
\* verdict over one still in use says so.
LEMMA BoxResolve ==
  ASSUME EngineInv, BoxInv, OnClose \/ OnError PROVE BoxInv'
  <1>1. /\ UNCHANGED <<useDocker, dir, failed>> /\ child' = "none"
        /\ at \in {"compiling", "running"} /\ outcome = "NONE"
        /\ \A b \in Steps : InUse(b)' = InUse(b)
    BY DEF OnClose, OnError, task, docker, NoFault, InUse, EngineInv, StatusInv, ProgressInv,
       TypeOK
  <1>2. at' \in {"run", "cleanup"}
    BY DEF OnClose, OnError, Conclude, NextTest, FailFast, Return
  <1>3. CASE \A b \in Steps : ~InUse(b)
    BY <1>1, <1>2, <1>3 DEF BoxInv, DirectoryRemoved
  <1>4. CASE \E b \in Steps : InUse(b)
    <2>1. OnClose /\ child = "dead" /\ exit \notin {"ok", "137"} /\ exit # "none"
      <3>1. child # "error" /\ ~(child = "dead" /\ exit \in {"ok", "137"})
        BY <1>4 DEF BoxInv
      <3>2. PICK b \in Steps : InUse(b) /\ b = Cur
        BY <1>1, <1>4 DEF BoxInv
      <3>3. OnClose /\ child = "dead"
        BY <3>1 DEF OnClose, OnError
      <3>4. exit # "none"
        BY <3>2, <3>3 DEF EngineInv, StatusInv, ExitStatus
      <3>5. QED BY <3>1, <3>3, <3>4
    <2>2. exit = "fail" => "daemon" \in failed
      BY <1>4, <2>1 DEF BoxInv
    <2>3. exit = "killed" => timer = "fired"
      BY DEF EngineInv, StatusInv
    <2>4. exit \in {"fail", "killed"}
      BY <2>1 DEF EngineInv, TypeOK
    <2>5. at' = "cleanup" /\ ("daemon" \in failed \/ Abandoned')
      <3>1. Conclude(exit)
        BY <2>1 DEF OnClose
      <3>2. CASE at = "compiling"
        BY <2>4, <3>1, <3>2 DEF Conclude, Return, Abandoned
      <3>3. CASE at = "running"
        <4>1. /\ RunStatus(exit) # "ACCEPTED"
              /\ exit = "killed" => RunStatus(exit) = "TIME_LIMIT_EXCEEDED"
          <5>1. CASE timer = "fired"
            BY <2>4, <5>1 DEF RunStatus
          <5>2. CASE timer # "fired" /\ exit = "fail"
            BY <5>2 DEF RunStatus
          <5>3. QED BY <2>3, <2>4, <5>1, <5>2
        <4>2. at' = "cleanup" /\ outcome' = RunStatus(exit)
          BY <3>1, <3>3, <4>1 DEF Conclude, FailFast, Return
        <4>3. QED
          BY <2>2, <2>4, <4>1, <4>2 DEF Abandoned
      <3>4. QED BY <1>1, <3>2, <3>3
    <2>6. QED
      BY <1>1, <1>4, <2>5 DEF BoxInv, DirectoryRemoved
  <1>5. QED BY <1>3, <1>4

\* Both invariants together are inductive.
LEMMA BoxStep == EngineInv /\ BoxInv /\ [Next]_vars => EngineInv' /\ BoxInv'
  <1> SUFFICES ASSUME EngineInv, BoxInv, [Next]_vars PROVE BoxInv'
    BY NextInv
  <1>1. CASE UNCHANGED vars
    <2>1. /\ UNCHANGED <<useDocker, at, test, child, exit, box, dir, outcome, failed>>
          /\ Cur' = Cur
      BY <1>1 DEF vars, task, proc, docker, Cur
    <2>2. \A b \in Steps : InUse(b)' = InUse(b)
      BY <2>1 DEF InUse
    <2>3. QED BY <2>1, <2>2 DEF BoxInv, DirectoryRemoved, Abandoned
  <1>2. CASE Next
    BY <1>2, BoxDaemon, BoxExecute, BoxChild, BoxResolve DEF Next, Engine
  <1>3. QED BY <1>1, <1>2

\* BoxInv is an invariant: no container is in use unseen by the engine.
THEOREM BoxInvariant == Spec => []BoxInv
  <1>1. Init => EngineInv /\ BoxInv
    <2>1. Init => BoxInv
      BY DEF Init, BoxInv, InUse, DirectoryRemoved
    <2>2. QED BY <2>1, InitInv
  <1>2. QED BY <1>1, BoxStep, PTL DEF Spec

\* OneContainerAtATime: the next child of a submission is spawned only when the
\* containers of its earlier steps are gone (execute, runInDocker).
THEOREM OneContainerAtATimeHolds == Spec => []OneContainerAtATime
  <1>1. BoxInv => OneContainerAtATime
    BY DEF BoxInv, OneContainerAtATime, InUse
  <1>2. QED BY <1>1, BoxInvariant, PTL

\* DirectoryRemoved: a directory left behind goes back to a time-out or to a
\* failure of the daemon or the file system (cleanupTempDir).
THEOREM DirectoryRemovedHolds == Spec => []DirectoryRemoved
  <1>1. BoxInv => DirectoryRemoved
    BY DEF BoxInv
  <1>2. QED BY <1>1, BoxInvariant, PTL

==============================================================================
