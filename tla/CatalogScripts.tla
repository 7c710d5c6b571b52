---------------------------- MODULE CatalogScripts ----------------------------
(***************************************************************************)
(* The scripts that fill the catalogue: prisma/seed.ts,                    *)
(* prisma/seed_expanded.ts and scripts/import_bulk_leetcode.ts.  Each is a *)
(* process of its own, run by hand, again after a failure, and possibly at *)
(* the same time as another.  They look a title up and then create it, in  *)
(* two queries; no column is unique.  A problem and its test cases are     *)
(* created in one nested write.  Failures end a script at any query.       *)
(*                                                                         *)
(* The seeds compare titles as they are and also repair problems without   *)
(* test cases; the importer reads all titles once, compares them folded    *)
(* (trim, lower case), and keeps its data set in a local file.  Of a       *)
(* problem's text only the number of its examples is kept.                 *)
(***************************************************************************)
EXTENDS Integers, Sequences, FiniteSets

CONSTANTS
  Scripts,          \* processes
  Fold,             \* title -> what the importer compares
  Examples,         \* title -> the number of examples in its data
  SeedData,         \* ALL_PROBLEMS: their titles in order
  ImportData,       \* the importer's titles in order
  MaxFaults         \* bound on failures, kills and outages

Titles == DOMAIN Fold

ASSUME CatalogAssumption ==
  /\ SeedData \in Seq(Titles) /\ ImportData \in Seq(Titles)
  /\ Examples \in [Titles -> Nat] /\ \A n \in DOMAIN SeedData : Examples[SeedData[n]] > 0
  /\ MaxFaults \in Nat

VARIABLES
  rows,             \* table "problems": [title, tests]: how many tests it has
  admin,            \* there is an account with the role ADMIN
  file,             \* local data set: "none", "whole", "torn"
  listed,           \* Redis: rows in the cached listing, or -1
  redis,            \* Redis can be reached
  kind, at, pos,    \* per script: what it is, next step, title it is at
  found,            \* per script: the row without tests it found
  seen,             \* the importer's existingTitles
  skipped,          \* history: scripts that found no Redis to purge
  overlapped,       \* history: two scripts ran at the same time
  faults

script == <<kind, at, pos, found, seen, skipped, overlapped>>
stored == <<rows, admin, file, listed, redis>>
vars   == <<script, stored, faults>>

Kinds == {"seed", "expanded", "import"}
Ended == {"off", "done", "dry", "failed", "hanging"}

Running(s) == at[s] \notin Ended

Data(s) == IF kind[s] = "import" THEN ImportData ELSE SeedData

\* An empty table, or problems an admin has created without test cases.
Init ==
  /\ rows \in {<<>>} \cup {<<[title |-> t, tests |-> 0]>> : t \in Titles}
  /\ admin \in {TRUE, rows # <<>>} /\ file = "none" /\ listed \in {-1, Len(rows)}
  /\ redis \in BOOLEAN
  /\ kind = [s \in Scripts |-> "seed"] /\ at = [s \in Scripts |-> "off"]
  /\ pos = [s \in Scripts |-> 1] /\ found = [s \in Scripts |-> 0]
  /\ seen = [s \in Scripts |-> {}] /\ skipped = {} /\ overlapped = FALSE
  /\ faults = 0

Fault == faults < MaxFaults /\ faults' = faults + 1

Goto(s, step) ==
  /\ at' = [at EXCEPT ![s] = step]
  /\ UNCHANGED <<kind, pos, found, seen, skipped, overlapped>>

------------------------------------------------------------------------------
(* Start *)

Start(s, k) ==
  /\ at[s] = "off"
  /\ kind' = [kind EXCEPT ![s] = k]
  /\ at' = [at EXCEPT ![s] = IF k = "import" THEN "load" ELSE "users"]
  /\ overlapped' = (overlapped \/ \E o \in Scripts : Running(o))
  /\ UNCHANGED <<pos, found, seen, skipped, stored, faults>>

\* loadDataset, and the end of a dry run.
LoadDataset(s) ==
  /\ at[s] = "load"
  /\ IF file = "torn" THEN Goto(s, "failed")
     ELSE Goto(s, "users") \/ Goto(s, "dry")
  /\ file' = IF file = "none" THEN "whole" ELSE file
  /\ UNCHANGED <<rows, admin, listed, redis, faults>>

\* Killed while the file is written: later runs cannot parse it.
KilledWhileSaving(s) ==
  /\ at[s] = "load" /\ file = "none" /\ Fault
  /\ file' = "torn" /\ Goto(s, "failed")
  /\ UNCHANGED <<rows, admin, listed, redis>>

\* A script's step when its loop has come to title p: the cache is purged after
\* the last one.
LoopAt(s, p) ==
  IF p > Len(Data(s)) THEN "purge" ELSE IF kind[s] = "import" THEN "import" ELSE "find"

\* The seed and the importer upsert the account, the expanded seed needs one.
Users(s) ==
  /\ at[s] = "users"
  /\ IF kind[s] = "expanded"
       THEN Goto(s, IF admin THEN LoopAt(s, 1) ELSE "failed") /\ UNCHANGED admin
       ELSE Goto(s, IF kind[s] = "import" THEN "titles" ELSE LoopAt(s, 1)) /\ admin' = TRUE
  /\ UNCHANGED <<rows, file, listed, redis, faults>>

------------------------------------------------------------------------------
(* The seeds' loop over ALL_PROBLEMS *)

Title(s) == Data(s)[pos[s]]

\* On to the next title.
Continue(s) ==
  /\ pos' = [pos EXCEPT ![s] = @ + 1]
  /\ at' = [at EXCEPT ![s] = LoopAt(s, pos[s] + 1)]
  /\ UNCHANGED <<kind, found, skipped, overlapped>>

\* Bug: existing problems are not looked for.
NoMatches(s) == {}

\* Rows findFirst may return.
Matches(s) == {i \in DOMAIN rows : rows[i].title = Title(s)}

\* Bug: problems without tests are skipped like others.
SkipExisting(s, i) == Continue(s) /\ UNCHANGED seen

HandleExisting(s, i) ==
  IF rows[i].tests = 0
    THEN /\ found' = [found EXCEPT ![s] = i]
         /\ at' = [at EXCEPT ![s] = "backfill"]
         /\ UNCHANGED <<kind, pos, seen, skipped, overlapped>>
    ELSE Continue(s) /\ UNCHANGED seen

FindFirst(s) ==
  /\ at[s] = "find"
  /\ \/ \E i \in Matches(s) : HandleExisting(s, i)
     \/ Matches(s) = {} /\ Goto(s, "create")
  /\ UNCHANGED <<stored, faults>>

Backfill(s) ==
  /\ at[s] = "backfill"
  /\ rows' = [rows EXCEPT ![found[s]].tests = @ + Examples[Title(s)]]
  /\ Continue(s) /\ UNCHANGED <<seen, admin, file, listed, redis, faults>>

Insert(title, tests) == rows' = Append(rows, [title |-> title, tests |-> tests])

Create(s) ==
  /\ at[s] = "create"
  /\ Insert(Title(s), Examples[Title(s)])
  /\ Continue(s) /\ UNCHANGED <<seen, admin, file, listed, redis, faults>>

------------------------------------------------------------------------------
(* The importer *)

ReadTitles(s) ==
  /\ at[s] = "titles"
  /\ seen' = [seen EXCEPT ![s] = {Fold[rows[i].title] : i \in DOMAIN rows}]
  /\ at' = [at EXCEPT ![s] = LoopAt(s, 1)]
  /\ UNCHANGED <<kind, pos, found, skipped, overlapped, stored, faults>>

\* Bug: a description without examples gives no test case.
ParseNoFallback(title) == Examples[title]

\* The test cases parsed from the examples, or a fallback.
Parse(title) == IF Examples[title] = 0 THEN 1 ELSE Examples[title]

\* Titles that are known are skipped without a query.
Import(s) ==
  /\ at[s] = "import"
  /\ IF Fold[Title(s)] \in seen[s]
       THEN UNCHANGED <<rows, seen>>
       ELSE /\ Insert(Title(s), Parse(Title(s)))
            /\ seen' = [seen EXCEPT ![s] = @ \cup {Fold[Title(s)]}]
  /\ Continue(s) /\ UNCHANGED <<admin, file, listed, redis, faults>>

------------------------------------------------------------------------------
(* The end: the cached listings are removed *)

\* Bug: the pattern matches no key.
RemoveNoKeys == UNCHANGED listed

RemoveKeys == listed' = -1

Purge(s) ==
  /\ at[s] = "purge" /\ redis
  /\ RemoveKeys /\ Goto(s, "done")
  /\ UNCHANGED <<rows, admin, file, redis, faults>>

\* The seeds give up after 1.5 s.  The importer's client gives up the command,
\* but it goes on reconnecting, which keeps the process alive.
PurgeSkipped(s) ==
  /\ at[s] = "purge" /\ ~redis
  /\ at' = [at EXCEPT ![s] = IF kind[s] = "import" THEN "hanging" ELSE "done"]
  /\ skipped' = skipped \cup {s}
  /\ UNCHANGED <<kind, pos, found, seen, overlapped, stored, faults>>

------------------------------------------------------------------------------
(* Surroundings *)

\* A query or the download fails, or the process is killed.
Fails(s) ==
  /\ Running(s) /\ Fault /\ Goto(s, "failed")
  /\ UNCHANGED stored

\* Redis stops or starts.
RedisTurns ==
  /\ Fault /\ redis' = ~redis
  /\ UNCHANGED <<script, rows, admin, file, listed>>

\* The API lists the problems and caches the list; ProblemCache has the races
\* between its query and its SET.
List ==
  /\ redis /\ listed = -1 /\ listed' = Len(rows)
  /\ UNCHANGED <<script, rows, admin, file, redis, faults>>

Step(s) ==
  \/ LoadDataset(s) \/ Users(s) \/ FindFirst(s) \/ Backfill(s) \/ Create(s)
  \/ ReadTitles(s) \/ Import(s) \/ Purge(s) \/ PurgeSkipped(s)

Next ==
  \/ \E s \in Scripts : Step(s) \/ Fails(s) \/ KilledWhileSaving(s)
  \/ \E s \in Scripts, k \in Kinds : Start(s, k)
  \/ List \/ RedisTurns

Spec == Init /\ [][Next]_vars

------------------------------------------------------------------------------
(* Properties *)

TypeOK ==
  /\ rows \in Seq([title : Titles, tests : Nat]) /\ admin \in BOOLEAN
  /\ file \in {"none", "whole", "torn"} /\ listed \in {-1} \cup 0..Len(rows)
  /\ kind \in [Scripts -> Kinds] /\ pos \in [Scripts -> Nat \ {0}]
  /\ at \in [Scripts -> Ended \cup {"load", "users", "find", "backfill", "create",
                                    "titles", "import", "purge"}]
  /\ found \in [Scripts -> 0..Len(rows)] /\ overlapped \in BOOLEAN
  /\ seen \in [Scripts -> SUBSET {Fold[t] : t \in Titles}]
  /\ \A s \in Scripts : at[s] = "backfill" => found[s] # 0 /\ rows[found[s]].title = Title(s)

\* Row i has the title that script s has at place n of its data, the seeds' with
\* test cases.
Has(s, n, i) ==
  /\ Fold[rows[i].title] = Fold[Data(s)[n]]
  /\ kind[s] # "import" => rows[i].title = Data(s)[n] /\ rows[i].tests > 0

\* Where a script is in its loop, and what it has behind it: the titles before the
\* one it is at have rows, and so has whatever the importer takes for known.
Loop(s) ==
  /\ at[s] \in {"find", "backfill", "create"} => kind[s] # "import"
  /\ at[s] \in {"load", "titles", "import"} => kind[s] = "import"
  /\ at[s] \in {"off", "load", "users", "titles"} => pos[s] = 1
  /\ at[s] \in {"find", "backfill", "create", "import"} => pos[s] <= Len(Data(s))
  /\ at[s] = "purge" => pos[s] > Len(Data(s))
  /\ at[s] \in {"find", "backfill", "create", "import", "purge"} =>
       \A n \in DOMAIN Data(s) : n < pos[s] => \E i \in DOMAIN rows : Has(s, n, i)
  /\ \A f \in seen[s] : \E i \in DOMAIN rows : Fold[rows[i].title] = f

\* The table is still as s read it: the title it creates has no row, the row it
\* completes has no tests, and the importer knows all titles.
Current(s) ==
  /\ at[s] = "create" => \A i \in DOMAIN rows : rows[i].title # Title(s)
  /\ at[s] = "backfill" => rows[found[s]].tests = 0
  /\ at[s] = "import" => \A i \in DOMAIN rows : Fold[rows[i].title] \in seen[s]

\* Who runs alone changes the table alone.
AloneInv ==
  \/ overlapped
  \/ /\ \A s, o \in Scripts : Running(s) /\ Running(o) => s = o
     /\ \A s \in Scripts : Current(s)

\* However often the scripts are run, in any order and after any failure, there
\* is no problem twice and no test case twice, unless two scripts overlapped.
DoublesHaveCause ==
  \/ overlapped
  \/ /\ \A i, j \in DOMAIN rows : rows[i].title = rows[j].title => i = j
     /\ \A i \in DOMAIN rows : rows[i].tests <= Parse(rows[i].title)

\* A row for each title, for the seeds one with test cases, and a cached listing
\* has it unless s found no Redis.
Whole(s) ==
  \A n \in DOMAIN Data(s) : \E i \in DOMAIN rows :
    Has(s, n, i) /\ (listed # -1 /\ s \notin skipped => i <= listed)

\* No script leaves a problem without test cases behind, but an admin may have,
\* and a script that ended by itself leaves no title out.
CompletedIsWhole ==
  /\ \A i \in DOMAIN rows : rows[i].tests = 0 => i = 1
  /\ \A s \in Scripts : at[s] \in {"done", "hanging"} => Whole(s)

CatalogInv == TypeOK /\ (\A s \in Scripts : Loop(s)) /\ AloneInv /\ CompletedIsWhole

==============================================================================
