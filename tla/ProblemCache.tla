----------------------------- MODULE ProblemCache -----------------------------
(***************************************************************************)
(* Cache-aside reads of problems against the admins' writes.               *)
(*                                                                         *)
(* A public read asks Redis, on a miss queries PostgreSQL, and then stores *)
(* what it read (getProblemById, listProblems with CacheService.getOrSet). *)
(* An admin's request writes PostgreSQL and then removes the keys the      *)
(* write concerns, one after the other (problem.service.ts,                *)
(* testcase.service.ts).  Each "await" lets other requests in between.     *)
(* Error replies of Redis are logged and swallowed ("fail-open").  While    *)
(* Redis is unreachable commands are not rejected: config/redis.ts sets     *)
(* maxRetriesPerRequest to null, so they wait for the connection.           *)
(*                                                                         *)
(* A row is an abstract content: two counters that grow with every change  *)
(* of the problem's text and of its sample test cases, and its visibility. *)
(***************************************************************************)
EXTENDS Integers, FiniteSets

CONSTANTS
  Problems,         \* ids; also stand for the keys problem:public:<id>
  ListKeys,         \* keys problems:list:<page, limit, filters>
  Readers,          \* concurrent public requests
  Admins,           \* concurrent requests of admins
  Faults, MaxFaults,
  MaxWrites,        \* bound on the writes of admins
  None

Keys == Problems \cup ListKeys

FaultKinds == {"get", "set", "del", "crash", "outage"}

ASSUME CacheAssumption ==
  /\ Problems \cap ListKeys = {}
  /\ Faults \subseteq FaultKinds
  /\ MaxFaults \in Nat
  /\ MaxWrites \in Nat

VARIABLES
  row,              \* PostgreSQL: problem -> its visibility and content
  cache,            \* Redis: key -> stored value, or None
  step, key, value, \* per reader: next step, key asked for, value read
  connected,        \* whether Redis can be reached
  purge,            \* per admin request: keys it has still to remove
  blamed,           \* history: keys whose entry a race, a fault or the seed spoilt
  writes, faults

readerVars == <<step, key, value>>
vars == <<row, cache, readerVars, connected, purge, blamed, writes, faults>>

Rows == [vis : {"absent", "hidden", "public", "deleted"}, text : Nat, tests : Nat]

\* One page of the listing: the text of each published problem, 0 for others.
Listings == [Problems -> Nat]

\* What a query for key k finds in PostgreSQL now.
View(k) ==
  IF k \in Problems
    THEN row[k]
    ELSE [p \in Problems |-> IF row[p].vis = "public" THEN row[p].text ELSE 0]

\* What is stored under key k, or read for it.
ValuesOf(k) == IF k \in Problems THEN Rows ELSE Listings

ReadersTypeOK ==
  /\ step \in [Readers -> {"idle", "get", "query", "fill"}]
  /\ key \in [Readers -> Keys \cup {None}]
  /\ value = [r \in Readers |-> value[r]]
  /\ \A r \in Readers :
       /\ step[r] # "idle" => key[r] \in Keys
       /\ step[r] = "fill" => value[r] \in ValuesOf(key[r])

TypeOK ==
  /\ row \in [Problems -> Rows]
  /\ cache = [k \in Keys |-> cache[k]]
  /\ \A k \in Keys : cache[k] \in ValuesOf(k) \cup {None}
  /\ ReadersTypeOK
  /\ connected \in BOOLEAN
  /\ purge \in [Admins -> SUBSET Keys]
  /\ blamed \subseteq Keys
  /\ writes \in Nat /\ faults \in Nat

Init ==
  /\ row = [p \in Problems |-> [vis |-> "absent", text |-> 0, tests |-> 0]]
  /\ cache = [k \in Keys |-> None]
  /\ step = [r \in Readers |-> "idle"]
  /\ key = [r \in Readers |-> None]
  /\ value = [r \in Readers |-> None]
  /\ connected = TRUE
  /\ purge = [a \in Admins |-> {}]
  /\ blamed = {}
  /\ writes = 0 /\ faults = 0

Fault(kind) ==
  /\ kind \in Faults
  /\ faults < MaxFaults
  /\ faults' = faults + 1

------------------------------------------------------------------------------
(* Public reads *)

\* Bug: the request forgets its key but goes on to fill the cache.
EndReadKeepsStep(r) ==
  /\ key' = [key EXCEPT ![r] = None]
  /\ value' = [value EXCEPT ![r] = None]
  /\ UNCHANGED step

EndRead(r) ==
  /\ step' = [step EXCEPT ![r] = "idle"]
  /\ key' = [key EXCEPT ![r] = None]
  /\ value' = [value EXCEPT ![r] = None]

Ask(r, k) ==
  /\ step[r] = "idle"
  /\ step' = [step EXCEPT ![r] = "get"]
  /\ key' = [key EXCEPT ![r] = k]
  /\ UNCHANGED <<row, cache, value, connected, purge, blamed, writes, faults>>

\* CacheService.get: a hit is the answer, after a miss comes the query.
CacheGet(r) ==
  /\ step[r] = "get"
  /\ connected
  /\ IF cache[key[r]] # None
       THEN EndRead(r)
       ELSE step' = [step EXCEPT ![r] = "query"] /\ UNCHANGED <<key, value>>
  /\ UNCHANGED <<row, cache, connected, purge, blamed, writes, faults>>

CacheGetFails(r) ==
  /\ step[r] = "get"
  /\ Fault("get")
  /\ step' = [step EXCEPT ![r] = "query"]
  /\ UNCHANGED <<row, cache, key, value, connected, purge, blamed, writes>>

\* Bug: the check is left to the routes.
MayShowAny(k) == k \in Problems => row[k].vis \notin {"absent", "deleted"}

\* A problem that is missing or not published is a 404, and is not cached.
MayShow(k) == k \in Problems => row[k].vis = "public"

Query(r) ==
  /\ step[r] = "query"
  /\ IF MayShow(key[r])
       THEN /\ step' = [step EXCEPT ![r] = "fill"]
            /\ value' = [value EXCEPT ![r] = View(key[r])]
            /\ UNCHANGED key
       ELSE EndRead(r)
  /\ UNCHANGED <<row, cache, connected, purge, blamed, writes, faults>>

\* CacheService.set, with what was read some time ago.
Fill(r) ==
  /\ step[r] = "fill"
  /\ connected
  /\ cache' = [cache EXCEPT ![key[r]] = value[r]]
  /\ blamed' = IF value[r] = View(key[r]) THEN blamed \ {key[r]}
                                          ELSE blamed \cup {key[r]}
  /\ EndRead(r)
  /\ UNCHANGED <<row, connected, purge, writes, faults>>

FillFails(r) ==
  /\ step[r] = "fill"
  /\ Fault("set")
  /\ EndRead(r)
  /\ UNCHANGED <<row, cache, connected, purge, blamed, writes>>

\* Bug: the pages of the listing are stored without a TTL.
ExpireProblemsOnly(k) ==
  /\ k \in Problems
  /\ cache[k] # None
  /\ cache' = [cache EXCEPT ![k] = None]
  /\ blamed' = blamed \ {k}
  /\ UNCHANGED <<row, readerVars, connected, purge, writes, faults>>

\* The TTL given to redis.set ("EX") runs out.
Expire(k) ==
  /\ cache[k] # None
  /\ cache' = [cache EXCEPT ![k] = None]
  /\ blamed' = blamed \ {k}
  /\ UNCHANGED <<row, readerVars, connected, purge, writes, faults>>

------------------------------------------------------------------------------
(* Requests of admins: one statement, then the keys to remove *)

Exists(p) == row[p].vis \in {"hidden", "public"}

\* Request a writes row p and owes the removal of keys.  Of the keys it
\* concerns it forgets some.
WriteRow(a, p, new, keys, forgotten) ==
  /\ purge[a] = {}
  /\ writes < MaxWrites
  /\ writes' = writes + 1
  /\ row' = [row EXCEPT ![p] = new]
  /\ purge' = [purge EXCEPT ![a] = keys]
  /\ blamed' = blamed \cup forgotten
  /\ UNCHANGED <<cache, readerVars, connected, faults>>

CreateProblem(a, p) ==
  /\ row[p].vis = "absent"
  /\ \E v \in {"hidden", "public"} :
       WriteRow(a, p, [vis |-> v, text |-> 1, tests |-> 0], ListKeys, {})

\* Bug: the listing is forgotten.
UpdateKeepsList(a, p) ==
  /\ Exists(p)
  /\ \E v \in {"hidden", "public"} :
       WriteRow(a, p, [row[p] EXCEPT !.vis = v, !.text = @ + 1], {p}, {})

\* Text, or visibility, or both: any update counts as new text.
UpdateProblem(a, p) ==
  /\ Exists(p)
  /\ \E v \in {"hidden", "public"} :
       WriteRow(a, p, [row[p] EXCEPT !.vis = v, !.text = @ + 1], {p} \cup ListKeys, {})

\* (Refused by a foreign key when the problem has submissions: no change.)
DeleteProblem(a, p) ==
  /\ Exists(p)
  /\ WriteRow(a, p, [row[p] EXCEPT !.vis = "deleted"], {p} \cup ListKeys, {})

\* createTestCase, updateTestCase, deleteTestCase of a sample test case.  (A
\* hidden one is in no public answer: its removal of the key is an Expire.)
ChangeTestCases(a, p) ==
  /\ Exists(p)
  /\ WriteRow(a, p, [row[p] EXCEPT !.tests = @ + 1], {p}, {})

\* prisma/seed.ts gives a problem without test cases some (it may have lost
\* earlier ones), and then removes *problems*, which matches the pages only.
SeedTestCases(a, p) ==
  /\ Exists(p)
  /\ WriteRow(a, p, [row[p] EXCEPT !.tests = @ + 1], ListKeys, {p})

\* CacheService.del, or one batch of the SCAN loop of delPattern.
RemoveKey(a, k) ==
  /\ k \in purge[a]
  /\ connected
  /\ cache' = [cache EXCEPT ![k] = None]
  /\ blamed' = blamed \ {k}
  /\ purge' = [purge EXCEPT ![a] = @ \ {k}]
  /\ UNCHANGED <<row, readerVars, connected, writes, faults>>

GiveUp(a, keys) ==
  /\ keys # {}
  /\ purge' = [purge EXCEPT ![a] = @ \ keys]
  /\ blamed' = blamed \cup keys
  /\ UNCHANGED <<row, cache, readerVars, connected, writes>>

\* The DEL, or the whole SCAN loop, fails; the error is swallowed.
RemoveKeyFails(a) ==
  /\ Fault("del")
  /\ \/ GiveUp(a, purge[a] \cap Problems)
     \/ GiveUp(a, purge[a] \cap ListKeys)

\* The API process dies before it has removed everything.
CrashBeforePurge(a) ==
  /\ Fault("crash")
  /\ GiveUp(a, purge[a])

------------------------------------------------------------------------------
(* The connection to Redis *)

Outage ==
  /\ Fault("outage")
  /\ connected
  /\ connected' = FALSE
  /\ UNCHANGED <<row, cache, readerVars, purge, blamed, writes>>

Reconnect ==
  /\ ~connected
  /\ connected' = TRUE
  /\ UNCHANGED <<row, cache, readerVars, purge, blamed, writes, faults>>

------------------------------------------------------------------------------
(* Specification *)

ReaderStep(r) ==
  \/ \E k \in Keys : Ask(r, k)
  \/ CacheGet(r) \/ CacheGetFails(r) \/ Query(r) \/ Fill(r) \/ FillFails(r)

AdminWrite(a) ==
  \E p \in Problems :
    \/ CreateProblem(a, p) \/ UpdateProblem(a, p) \/ DeleteProblem(a, p)
    \/ ChangeTestCases(a, p) \/ SeedTestCases(a, p)

AdminPurge(a) ==
  \/ \E k \in Keys : RemoveKey(a, k)
  \/ RemoveKeyFails(a) \/ CrashBeforePurge(a)

Next ==
  \/ \E r \in Readers : ReaderStep(r)
  \/ \E a \in Admins : AdminWrite(a) \/ AdminPurge(a)
  \/ \E k \in Keys : Expire(k)
  \/ Outage \/ Reconnect

Spec == Init /\ [][Next]_vars

\* Redis expires keys; a request whose database query or Redis command can
\* be served goes on.  Nothing is assumed of the connection.
FairSpec ==
  /\ Spec
  /\ \A k \in Keys : WF_vars(Expire(k))
  /\ \A r \in Readers : WF_vars(CacheGet(r) \/ Query(r) \/ Fill(r))
  /\ \A a \in Admins : WF_vars(\E k \in Keys : RemoveKey(a, k))

------------------------------------------------------------------------------
(* Properties *)

Stale(k) == cache[k] # None /\ cache[k] # View(k)

\* An entry differs from the database only while a request that wrote the
\* database has yet to remove it, or since a fill raced a write, a removal
\* failed, or the seed added test cases: no handler forgets a key.
StaleHasCause ==
  \A k \in Keys : Stale(k) => k \in blamed \/ \E a \in Admins : k \in purge[a]

\* What is stored under key k, or read for it, tells the public about p.
Tells(k, v, p) == v # None /\ (k = p \/ (k \in ListKeys /\ v[p] # 0))

\* Reads that have found p and are on their way to the cache with it.
Carriers(p) == {r \in Readers : step[r] = "fill" /\ Tells(key[r], value[r], p)}

\* A problem that is withdrawn or deleted after it was read is stored all the
\* same, even after its removal from the cache.  But as long as it is not
\* published no read takes it up any more, and an entry begins to tell about
\* it only by a read that took it up before and is spent by that: a draft
\* stays unseen, and a withdrawn problem comes back at most once per such read.
WithdrawnFades ==
  [][\A p \in Problems :
       row[p].vis # "public" /\ row'[p].vis # "public" =>
         /\ Carriers(p)' \subseteq Carriers(p)
         /\ \A k \in Keys :
              ~Tells(k, cache[k], p) /\ Tells(k, cache'[k], p) =>
                \E r \in Carriers(p) \ Carriers(p)' : key[r] = k]_vars

\* Once nobody writes any more the caches agree with the database for good,
\* whatever races and faults there were: the TTL ends every stale entry.
EventuallyFresh == <>[](\A k \in Keys : ~Stale(k))

==============================================================================
