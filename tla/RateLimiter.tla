----------------------------- MODULE RateLimiter -----------------------------
(***************************************************************************)
(* submissionRateLimiter: the requests of one user, on any number of API   *)
(* instances, against the key ratelimit:submissions:<user> of Redis.       *)
(*                                                                         *)
(* INCR and TTL travel in one pipeline, which is no transaction: the key   *)
(* may expire, and other requests' commands may run, between the two and   *)
(* before the reply is handled.  EXPIRE is a command of its own.  When the *)
(* connection breaks the client sends again what has no reply yet, so that *)
(* an INCR may be counted twice.  Time passes in ticks: only the order of  *)
(* expiry and commands matters, and whether Window ticks went by.          *)
(***************************************************************************)
EXTENDS Integers, FiniteSets

CONSTANTS
  Requests,         \* POST /submissions of one user
  Limit, Window,    \* limit, windowSeconds
  MaxFaults         \* bound on error replies, broken connections, crashes

ASSUME LimiterAssumption ==
  Limit \in Nat \ {0} /\ Window \in Nat \ {0} /\ MaxFaults \in Nat

NoKey   == -2       \* replies of TTL
Forever == -1

VARIABLES
  count, ttl,       \* the key: its value and its remaining time
  life,             \* history: how many keys there have been
  at,               \* per request: its next step, or how it ended
  seen, left,       \* per request: replies to INCR (0: none yet) and TTL
  in,               \* history: the life of the key its INCR counted in
  age,              \* history: ticks since that INCR, at most Window
  resent,           \* history: INCRs that were executed once too often
  faults

redis == <<count, ttl, life>>
vars  == <<redis, at, seen, left, in, age, resent, faults>>

Ended == {"passed", "open", "refused", "dead"}

TypeOK ==
  /\ count \in Nat /\ life \in Nat
  /\ ttl \in {NoKey, Forever} \cup 1..Window
  /\ at \in [Requests -> {"idle", "incr", "ttl", "reply", "expire"} \cup Ended]
  /\ seen \in [Requests -> Nat]
  /\ left \in [Requests -> {NoKey, Forever} \cup 1..Window]
  /\ in \in [Requests -> Nat] /\ age \in [Requests -> 0..Window]
  /\ resent \in Nat /\ faults \in Nat

Init ==
  /\ count = 0 /\ ttl = NoKey /\ life = 0
  /\ at = [r \in Requests |-> "idle"]
  /\ seen = [r \in Requests |-> 0]
  /\ left = [r \in Requests |-> NoKey]
  /\ in = [r \in Requests |-> 0]
  /\ age = [r \in Requests |-> Window]
  /\ resent = 0 /\ faults = 0

Fault == faults < MaxFaults /\ faults' = faults + 1

Goto(r, step) == at' = [at EXCEPT ![r] = step]

------------------------------------------------------------------------------
(* The middleware, one action per command and reply *)

Arrive(r) ==
  /\ at[r] = "idle" /\ Goto(r, "incr")
  /\ UNCHANGED <<redis, seen, left, in, age, resent, faults>>

\* A new key starts a life; it has no expiry yet.
Incr(r) ==
  /\ at[r] = "incr" /\ Goto(r, "ttl")
  /\ count' = count + 1
  /\ ttl' = IF ttl = NoKey THEN Forever ELSE ttl
  /\ life' = IF ttl = NoKey THEN life + 1 ELSE life
  /\ seen' = [seen EXCEPT ![r] = count']
  /\ in' = [in EXCEPT ![r] = life']
  /\ age' = [age EXCEPT ![r] = 0]
  /\ UNCHANGED <<left, resent, faults>>

Ttl(r) ==
  /\ at[r] = "ttl" /\ Goto(r, "reply")
  /\ left' = [left EXCEPT ![r] = ttl]
  /\ UNCHANGED <<redis, seen, in, age, resent, faults>>

\* Bug: one request too many.
OverLimitByOne(r) == seen[r] > Limit + 1

\* Bug: the last request of the quota is refused.
OverLimitEarly(r) == seen[r] >= Limit

OverLimit(r) == seen[r] > Limit

\* next() or the error with status 429.
Decide(r) == Goto(r, IF OverLimit(r) THEN "refused" ELSE "passed")

\* Bug: only the request that created the key sets its expiry.
NeedsExpireFirst(r) == seen[r] = 1

NeedsExpire(r) == left[r] = Forever

Reply(r) ==
  /\ at[r] = "reply"
  /\ IF NeedsExpire(r) THEN Goto(r, "expire") ELSE Decide(r)
  /\ UNCHANGED <<redis, seen, left, in, age, resent, faults>>

\* Bug: the expiry is set in a unit that is too small.
SetTtlShort == ttl' = IF ttl = NoKey THEN NoKey ELSE 1

\* EXPIRE; without effect on a key that is gone.
SetTtl == ttl' = IF ttl = NoKey THEN NoKey ELSE Window

Expire(r) ==
  /\ at[r] = "expire" /\ Decide(r)
  /\ SetTtl
  /\ UNCHANGED <<count, life, seen, left, in, age, resent, faults>>

\* Bug: the error of a command is not caught; next() is never called.
HangOnError(r) == Goto(r, "rejected")

FailOpen(r) == Goto(r, "open")

\* An error reply to INCR, TTL or EXPIRE.
ErrorReply(r) ==
  /\ at[r] \in {"incr", "ttl", "expire"} /\ Fault
  /\ FailOpen(r)
  /\ UNCHANGED <<redis, seen, left, in, age, resent>>

\* The connection breaks before the reply: the pipeline is sent again.
SendAgain(r) ==
  /\ at[r] \in {"ttl", "reply"} /\ Fault
  /\ Goto(r, "incr")
  /\ seen' = [seen EXCEPT ![r] = 0]
  /\ resent' = resent + 1
  /\ UNCHANGED <<redis, left, in, age>>

\* The API instance that serves the request dies.
Crash(r) ==
  /\ at[r] \notin Ended \cup {"idle"} /\ Fault
  /\ Goto(r, "dead")
  /\ UNCHANGED <<redis, seen, left, in, age, resent>>

------------------------------------------------------------------------------
(* Time *)

Tick ==
  /\ ttl' = CASE ttl = 1 -> NoKey
              [] ttl > 1 -> ttl - 1
              [] OTHER   -> ttl
  /\ count' = IF ttl = 1 THEN 0 ELSE count
  /\ age' = [r \in Requests |-> IF age[r] < Window THEN age[r] + 1 ELSE Window]
  /\ UNCHANGED <<life, at, seen, left, in, resent, faults>>

------------------------------------------------------------------------------
(* Specification *)

Step(r) == Incr(r) \/ Ttl(r) \/ Reply(r) \/ Expire(r)

Next ==
  \/ Tick
  \/ \E r \in Requests :
       Arrive(r) \/ Step(r) \/ ErrorReply(r) \/ SendAgain(r) \/ Crash(r)

Spec == Init /\ [][Next]_vars

\* Redis answers what it is sent, and time goes on.
FairSpec ==
  /\ Spec /\ WF_vars(Tick)
  /\ \A r \in Requests : WF_vars(Step(r))

------------------------------------------------------------------------------
(* Properties *)

\* While a key lives at most Limit requests pass it, however the INCRs, TTLs
\* and EXPIREs of concurrent requests interleave.  Requests let through by an
\* error of Redis ("open") do not count.
Passed(l) == {r \in Requests : at[r] = "passed" /\ in[r] = l}

LimitPerLife == \A l \in 1..life : Cardinality(Passed(l)) <= Limit

\* A window is never cut short: no more than two of them lie within any Window
\* ticks, so at most twice the limit passes there, and never more.
BurstBound ==
  Cardinality({r \in Requests : at[r] = "passed" /\ age[r] < Window}) <= 2 * Limit

\* No request is refused before Limit others of the same key's life, except
\* for INCRs that were counted twice because the connection broke.
RefusedOnlyBeyondLimit ==
  \A r \in Requests : at[r] = "refused" =>
    Cardinality({s \in Requests : in[s] = in[r] /\ seen[s] \in 1..(seen[r] - 1)})
      + resent >= Limit

\* Nobody is locked out: the key that refused a request goes away, even when
\* the request that created it died before it set the expiry.
RefusalEnds ==
  \A r \in Requests :
    at[r] = "refused" ~> at[r] = "refused" /\ (ttl = NoKey \/ life # in[r])

\* The inductive invariant behind LimitPerLife: within one life of the key no
\* two requests saw the same count.
CountInv ==
  /\ \A r \in Requests : seen[r] # 0 =>
       /\ in[r] <= life
       /\ in[r] = life /\ ttl # NoKey => seen[r] <= count
  /\ \A r, s \in Requests :
       r # s /\ seen[r] # 0 /\ in[r] = in[s] => seen[r] # seen[s]
  /\ \A r \in Requests : at[r] \in {"idle", "incr"} => seen[r] = 0
  /\ \A r \in Requests :
       /\ at[r] \in {"ttl", "reply", "expire", "passed", "refused"} => seen[r] # 0
       /\ at[r] = "passed" => seen[r] <= Limit
  /\ ttl = NoKey => count = 0

\* ... behind BurstBound: a request of an earlier life than the key's own came
\* before it, thus its age and the time the key has left add up to a window.
AgeInv ==
  \A r \in Requests : age[r] < Window =>
    /\ in[r] \in {life - 1, life}
    /\ in[r] # life => ttl # NoKey /\ (ttl # Forever => age[r] + ttl >= Window)

\* Requests that hold one of the first n counts of life l.
Counted(l, n) == {s \in Requests : in[s] = l /\ seen[s] \in 1..n}

\* ... behind RefusedOnlyBeyondLimit: a count below one that was seen belongs to
\* a request, or its INCR was executed once too often.
QuotaInv ==
  /\ \A r \in Requests :
       /\ seen[r] # 0 =>
            Cardinality(Counted(in[r], seen[r] - 1)) + resent >= seen[r] - 1
       /\ at[r] = "refused" => seen[r] > Limit
  /\ ttl # NoKey => Cardinality(Counted(life, count)) + resent >= count

LimiterInv == TypeOK /\ CountInv /\ AgeInv /\ QuotaInv

==============================================================================
