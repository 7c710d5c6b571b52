-------------------------------- MODULE Judge --------------------------------
(***************************************************************************)
(* What a contestant may expect of one evaluation, without processes,      *)
(* containers and timers: the verdict of the first test that the program   *)
(* does not pass, and otherwise ACCEPTED.  A verdict other than that one   *)
(* never claims something about the program's answers, nor about its memory *)
(* as long as the machine that runs it is up: the clock ran out, or the     *)
(* platform failed.                                                        *)
(***************************************************************************)
EXTENDS Naturals

VARIABLES
  limited,          \* whether the memory limit is enforced (not without Docker)
  compiles,         \* what the compiler makes of the source code
  program,          \* test number -> what the program does on that test
  lost,             \* whether the machine that runs the programs was lost
  outcome           \* "NONE" until decided; "THROWN": no verdict, try again

Verdicts(behaviour) ==
  CASE behaviour = "wrong" -> {"WRONG_ANSWER"}
    [] behaviour = "fail"  -> {"RUNTIME_ERROR", "MEMORY_LIMIT_EXCEEDED"}
    [] behaviour = "loop"  -> {"TIME_LIMIT_EXCEEDED"}
    [] behaviour = "hog"   -> IF limited
                                THEN {"RUNTIME_ERROR", "MEMORY_LIMIT_EXCEEDED"}
                                ELSE {"ACCEPTED"}
    [] OTHER               -> {"ACCEPTED"}

Passes(i) == Verdicts(program[i]) = {"ACCEPTED"}

\* The tests are run in order and the first one that is not passed decides.
Deserves(v) ==
  IF compiles = "bad" THEN v = "COMPILATION_ERROR"
  ELSE \/ v = "ACCEPTED" /\ \A i \in DOMAIN program : Passes(i)
       \/ \E i \in DOMAIN program :
            /\ ~Passes(i) /\ \A j \in 1..(i - 1) : Passes(j)
            /\ v \in Verdicts(program[i])

\* Outcomes that say nothing about the program.  The programs that run on a
\* machine when it goes down are killed in the way of one out of memory.
Excuses ==
  {"TIME_LIMIT_EXCEEDED", "RUNTIME_ERROR", "COMPILATION_ERROR", "SYSTEM_ERROR",
   "THROWN"} \cup (IF lost THEN {"MEMORY_LIMIT_EXCEEDED"} ELSE {})

Init == outcome = "NONE"

Decide ==
  /\ outcome = "NONE"
  /\ Deserves(outcome') \/ outcome' \in Excuses
  /\ UNCHANGED <<limited, compiles, program, lost>>

Lose ==
  /\ lost' = TRUE
  /\ UNCHANGED <<limited, compiles, program, outcome>>

Spec == Init /\ [][Decide \/ Lose]_<<limited, compiles, program, lost, outcome>>

==============================================================================
