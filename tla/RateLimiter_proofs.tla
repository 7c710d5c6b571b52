-------------------------- MODULE RateLimiter_proofs --------------------------
(***************************************************************************)
(* Proofs about RateLimiter, for any number of requests, limit and window: *)
(* how many requests pass in one life of the key and in one window, and    *)
(* how many precede a refusal.                                             *)
(*                                                                         *)
(* INCR is atomic, so within one life of the key every request sees a      *)
(* count of its own (CountInv): the requests that passed saw counts in     *)
(* 1..Limit.  A life lasts a window at least (AgeInv), so those that passed*)
(* within a window belong to two lives.  And no count is given away without*)
(* a request that holds it or an INCR too many (QuotaInv).                 *)
(***************************************************************************)
EXTENDS RateLimiter, FiniteSetTheorems, TLAPS

USE LimiterAssumption

------------------------------------------------------------------------------
(* Types and counts *)

BaseInv == TypeOK /\ CountInv

\* The initial state satisfies the base of the inductive invariant.
LEMMA BaseInit == Init => BaseInv
  BY DEF Init, BaseInv, TypeOK, CountInv, NoKey, Forever, Ended

\* INCR gives a request a count no other request of the same life has.
LEMMA IncrInv ==
  ASSUME BaseInv, NEW r \in Requests, Incr(r)
  PROVE  BaseInv'
<1>1. TypeOK'
  BY DEF BaseInv, TypeOK, Incr, Goto, Ended, NoKey, Forever
<1>2. CountInv'
  <2>1. /\ seen' = [seen EXCEPT ![r] = count + 1]
        /\ in' = [in EXCEPT ![r] = life']
        /\ at' = [at EXCEPT ![r] = "ttl"]
        /\ count' = count + 1 /\ ttl' # NoKey
    BY DEF Incr, Goto, NoKey, Forever
  <2>2. CASE ttl = NoKey
    <3>1. life' = life + 1 /\ count' = 1
      BY <2>1, <2>2 DEF Incr, BaseInv, CountInv
    <3>2. \A s \in Requests \ {r} :
            seen'[s] = seen[s] /\ in'[s] = in[s] /\ at'[s] = at[s]
      BY <2>1 DEF BaseInv, TypeOK
    <3> QED
      BY <2>1, <2>2, <3>1, <3>2 DEF BaseInv, TypeOK, CountInv
  <2>3. CASE ttl # NoKey
    <3>1. life' = life
      BY <2>3 DEF Incr
    <3>2. \A s \in Requests \ {r} :
            seen'[s] = seen[s] /\ in'[s] = in[s] /\ at'[s] = at[s]
      BY <2>1 DEF BaseInv, TypeOK
    <3> QED
      BY <2>1, <2>3, <3>1, <3>2 DEF BaseInv, TypeOK, CountInv
  <2> QED BY <2>2, <2>3
<1> QED BY <1>1, <1>2 DEF BaseInv

\* Handling a reply leaves the counts alone.
LEMMA ReplyInv ==
  ASSUME BaseInv, NEW r \in Requests,
         Arrive(r) \/ Ttl(r) \/ Reply(r) \/ Expire(r)
  PROVE  BaseInv'
<1>1. CASE Arrive(r)
  BY <1>1 DEF BaseInv, TypeOK, CountInv, Arrive, Goto, Ended, redis
<1>2. CASE Ttl(r)
  BY <1>2 DEF BaseInv, TypeOK, CountInv, Ttl, Goto, Ended, redis
<1>3. CASE Reply(r)
  BY <1>3 DEF BaseInv, TypeOK, CountInv, Reply, NeedsExpire, Decide,
              OverLimit, Goto, Ended, redis
<1>4. CASE Expire(r)
  BY <1>4 DEF BaseInv, TypeOK, CountInv, Expire, SetTtl, Decide,
              OverLimit, Goto, Ended, NoKey, Forever
<1> QED BY <1>1, <1>2, <1>3, <1>4

\* Neither does a fault; a request whose INCR is sent again has no count.
LEMMA FaultInv ==
  ASSUME BaseInv, NEW r \in Requests,
         ErrorReply(r) \/ SendAgain(r) \/ Crash(r)
  PROVE  BaseInv'
<1>1. CASE ErrorReply(r)
  BY <1>1 DEF BaseInv, TypeOK, CountInv, ErrorReply, FailOpen, Fault, Goto,
              Ended, redis
<1>2. CASE SendAgain(r)
  BY <1>2 DEF BaseInv, TypeOK, CountInv, SendAgain, Fault, Goto, Ended, redis
<1>3. CASE Crash(r)
  BY <1>3 DEF BaseInv, TypeOK, CountInv, Crash, Fault, Goto, Ended, redis
<1> QED BY <1>1, <1>2, <1>3

\* The count is forgotten only together with the key.
LEMMA TickInv ==
  ASSUME BaseInv, Tick
  PROVE  BaseInv'
<1>1. TypeOK'
  BY DEF BaseInv, TypeOK, Tick, NoKey, Forever, Ended
<1>2. CountInv'
  BY DEF BaseInv, TypeOK, CountInv, Tick, NoKey, Forever
<1> QED BY <1>1, <1>2 DEF BaseInv

\* Every step preserves types and counts.
LEMMA BaseStep == BaseInv /\ [Next]_vars => BaseInv'
<1> SUFFICES ASSUME BaseInv, [Next]_vars PROVE BaseInv'
  OBVIOUS
<1>1. CASE Tick
  BY <1>1, TickInv
<1>2. CASE \E r \in Requests :
             Arrive(r) \/ Step(r) \/ ErrorReply(r) \/ SendAgain(r) \/ Crash(r)
  BY <1>2, IncrInv, ReplyInv, FaultInv DEF Step
<1>3. CASE UNCHANGED vars
  BY <1>3 DEF vars, redis, BaseInv, TypeOK, CountInv
<1> QED BY <1>1, <1>2, <1>3 DEF Next

------------------------------------------------------------------------------
(* Ages *)

\* Steps that touch neither the key nor an age, and the kinds of those that do.
LEMMA StepKinds ==
  ASSUME [Next]_vars
  PROVE  \/ UNCHANGED <<redis, seen, in, age, resent>>
         \/ Tick
         \/ \E r \in Requests : Incr(r) \/ Expire(r) \/ SendAgain(r)
BY DEF Next, Step, vars, redis, Arrive, Ttl, Reply, ErrorReply, Crash

\* A life begins when the last one is over and lasts a window from any EXPIRE,
\* so no request of an older one is young.
LEMMA AgeStep ==
  ASSUME BaseInv, AgeInv, [Next]_vars PROVE AgeInv'
<1> USE DEF BaseInv, TypeOK, AgeInv, NoKey, Forever
<1>1. CASE UNCHANGED <<redis, seen, in, age, resent>>
  BY <1>1 DEF redis
<1>2. CASE Tick
  <2>1. /\ UNCHANGED <<life, in>>
        /\ \A r \in Requests :
             age'[r] = IF age[r] < Window THEN age[r] + 1 ELSE Window
    BY <1>2 DEF Tick
  <2>2. ttl' = IF ttl = 1 THEN NoKey ELSE IF ttl > 1 THEN ttl - 1 ELSE ttl
    BY <1>2 DEF Tick
  <2> QED
    BY <2>1, <2>2
<1>3. ASSUME NEW r \in Requests, Incr(r) PROVE AgeInv'
  <2>1. /\ in'[r] = life' /\ ttl' # NoKey
        /\ \A s \in Requests \ {r} : in'[s] = in[s] /\ age'[s] = age[s]
    BY <1>3 DEF Incr
  <2>2. CASE ttl = NoKey
    BY <1>3, <2>1, <2>2 DEF Incr
  <2>3. CASE ttl # NoKey
    BY <1>3, <2>1, <2>3 DEF Incr
  <2> QED
    BY <2>2, <2>3
<1>4. ASSUME NEW r \in Requests, Expire(r) PROVE AgeInv'
  BY <1>4 DEF Expire, SetTtl
<1>5. ASSUME NEW r \in Requests, SendAgain(r) PROVE AgeInv'
  BY <1>5 DEF SendAgain, redis
<1> QED BY <1>1, <1>2, <1>3, <1>4, <1>5, StepKinds

------------------------------------------------------------------------------
(* Quotas *)

\* Counts of one life that were seen are different, so those up to n are finitely
\* many.
LEMMA CountedFinite ==
  ASSUME BaseInv, NEW l, NEW n \in Nat
  PROVE  IsFiniteSet(Counted(l, n)) /\ Cardinality(Counted(l, n)) \in 0..n
<1> DEFINE f == [s \in Counted(l, n) |-> seen[s]]
<1>1. f \in Injection(Counted(l, n), 1..n)
  <2>1. \A s \in Counted(l, n) : seen[s] \in 1..n
    BY DEF Counted
  <2>2. \A r, s \in Counted(l, n) : seen[r] = seen[s] => r = s
    BY DEF BaseInv, TypeOK, CountInv, Counted
  <2> QED BY <2>1, <2>2 DEF Injection, IsInjective
<1>2. IsFiniteSet(1..n) /\ Cardinality(1..n) = n
  BY FS_Interval
<1>3. IsFiniteSet(Counted(l, n)) /\ Cardinality(Counted(l, n)) <= n
  BY <1>1, <1>2, FS_Injection
<1> QED BY <1>3, FS_CardinalityType

\* A set that loses at most one of its elements.
LEMMA LosesOne ==
  ASSUME NEW S, NEW T, NEW r, IsFiniteSet(S), IsFiniteSet(T), S \ {r} \subseteq T
  PROVE  Cardinality(S) <= Cardinality(T) + 1
<1>1. /\ IsFiniteSet(S \ {r})
      /\ Cardinality(S \ {r}) = IF r \in S THEN Cardinality(S) - 1 ELSE Cardinality(S)
  BY FS_RemoveElement
<1>2. Cardinality(S \ {r}) <= Cardinality(T)
  BY FS_Subset
<1>3. Cardinality(S) \in Nat /\ Cardinality(T) \in Nat
  BY FS_CardinalityType
<1> QED BY <1>1, <1>2, <1>3

\* The quotas stay when the counts that are held stay.
LEMMA QuotaSame ==
  ASSUME BaseInv, QuotaInv, UNCHANGED <<seen, in, resent>>,
         ttl' # NoKey => ttl # NoKey /\ UNCHANGED <<count, life>>,
         \A r \in Requests : at'[r] = "refused" => at[r] = "refused" \/ seen[r] > Limit
  PROVE  QuotaInv'
<1>1. \A l, n : Counted(l, n)' = Counted(l, n)
  BY DEF Counted
<1>2. \A r \in Requests : Counted(in[r], seen[r] - 1)' = Counted(in[r], seen[r] - 1)
  BY DEF Counted
<1>3. ttl' # NoKey => Counted(life, count)' = Counted(life, count)
  BY DEF Counted
<1> QED BY <1>2, <1>3 DEF QuotaInv

\* INCR gives the next count to a request that held none.
LEMMA QuotaIncr ==
  ASSUME BaseInv, BaseInv', QuotaInv, NEW r \in Requests, Incr(r) PROVE QuotaInv'
<1> DEFINE Held(l, n) == {s \in Requests : in'[s] = l /\ seen'[s] \in 1..n}
<1>1. /\ seen[r] = 0 /\ seen'[r] = count + 1 /\ count' = count + 1 /\ in'[r] = life'
      /\ at'[r] = "ttl" /\ resent' = resent /\ ttl' # NoKey
      /\ \A s \in Requests \ {r} : seen'[s] = seen[s] /\ in'[s] = in[s] /\ at'[s] = at[s]
  BY DEF Incr, Goto, BaseInv, TypeOK, CountInv, NoKey, Forever
<1>2. count \in Nat /\ resent \in Nat /\ seen \in [Requests -> Nat] /\ life \in Nat
      /\ in \in [Requests -> Nat]
  BY DEF BaseInv, TypeOK
<1>3. \A l, n : Counted(l, n) \subseteq Held(l, n)
  BY <1>1 DEF Counted
<1>4. ASSUME NEW l, NEW n \in Nat
      PROVE  /\ IsFiniteSet(Held(l, n)) /\ Cardinality(Held(l, n)) \in Nat
             /\ Cardinality(Counted(l, n)) <= Cardinality(Held(l, n))
  <2>1. Held(l, n) \subseteq Counted(l, n) \cup {r}
    BY <1>1 DEF Counted
  <2>2. IsFiniteSet(Counted(l, n) \cup {r})
    BY <1>4, CountedFinite, FS_AddElement
  <2>3. IsFiniteSet(Held(l, n))
    BY <2>1, <2>2, FS_Subset
  <2> QED
    BY <1>3, <2>3, FS_Subset, FS_CardinalityType
<1>5. Cardinality(Held(life', count)) + resent >= count
  <2>1. CASE ttl = NoKey
    <3>1. count = 0
      BY <2>1 DEF BaseInv, CountInv
    <3> QED BY <1>2, <1>4, <3>1
  <2>2. CASE ttl # NoKey
    <3>1. life' = life /\ Cardinality(Counted(life, count)) + resent >= count
      BY <2>2 DEF Incr, QuotaInv
    <3>2. Cardinality(Counted(life, count)) \in Nat
      BY <1>2, CountedFinite
    <3> QED BY <1>2, <1>4, <3>1, <3>2
  <2> QED BY <2>1, <2>2
<1>6. Cardinality(Held(life', count + 1)) + resent >= count + 1
  <2>1. Held(life', count + 1) = Held(life', count) \cup {r} /\ r \notin Held(life', count)
    <3>1. r \notin Held(life', count)
      BY <1>1, <1>2
    <3>2. \A s \in Requests \ {r} : in'[s] = life' => seen'[s] # count + 1
      BY <1>1 DEF BaseInv, CountInv
    <3>3. \A s \in Requests : seen'[s] \in Nat
      BY <1>1, <1>2
    <3> QED BY <1>1, <1>2, <3>1, <3>2, <3>3
  <2>2. IsFiniteSet(Held(life', count)) /\ Cardinality(Held(life', count)) \in Nat
    BY <1>2, <1>4
  <2> HIDE DEF Held
  <2>3. Cardinality(Held(life', count) \cup {r}) = Cardinality(Held(life', count)) + 1
    BY <2>1, <2>2, FS_AddElement
  <2>4. Cardinality(Held(life', count + 1)) = Cardinality(Held(life', count)) + 1
    BY <2>1, <2>3
  <2> QED BY <1>2, <1>5, <2>2, <2>4
<1>7. ASSUME NEW s \in Requests, seen'[s] # 0
      PROVE  Cardinality(Held(in'[s], seen'[s] - 1)) + resent >= seen'[s] - 1
  <2>1. CASE s = r
    <3>1. seen'[s] - 1 = count /\ in'[s] = life'
      BY <1>1, <1>2, <2>1
    <3> HIDE DEF Held
    <3> QED BY <1>5, <3>1
  <2>2. CASE s # r
    <3>1. /\ in'[s] = in[s] /\ seen'[s] = seen[s] /\ seen[s] - 1 \in Nat
          /\ Cardinality(Counted(in[s], seen[s] - 1)) + resent >= seen[s] - 1
      BY <1>1, <1>2, <1>7, <2>2 DEF QuotaInv
    <3>2. Cardinality(Counted(in[s], seen[s] - 1)) \in Nat
      BY <3>1, CountedFinite
    <3> QED BY <1>2, <1>4, <3>1, <3>2
  <2> QED BY <2>1, <2>2
<1>8. \A s \in Requests : at'[s] = "refused" => seen'[s] > Limit
  BY <1>1 DEF QuotaInv
<1> QED BY <1>1, <1>6, <1>7, <1>8 DEF QuotaInv, Counted

\* An INCR that is sent again loses the count of one request and is made good by
\* resent.
LEMMA QuotaSendAgain ==
  ASSUME BaseInv, BaseInv', QuotaInv, NEW r \in Requests, SendAgain(r) PROVE QuotaInv'
<1> DEFINE Held(l, n) == {s \in Requests : in'[s] = l /\ seen'[s] \in 1..n}
<1>1. /\ seen'[r] = 0 /\ resent' = resent + 1 /\ at'[r] = "incr"
      /\ UNCHANGED <<in, count, ttl, life>>
      /\ \A s \in Requests \ {r} : seen'[s] = seen[s] /\ at'[s] = at[s]
  BY DEF SendAgain, Goto, BaseInv, TypeOK, redis
<1>2. count \in Nat /\ resent \in Nat /\ seen \in [Requests -> Nat] /\ life \in Nat
  BY DEF BaseInv, TypeOK
<1>3. ASSUME NEW l, NEW n \in Nat
      PROVE  /\ Cardinality(Counted(l, n)) \in Nat /\ Cardinality(Held(l, n)) \in Nat
             /\ Cardinality(Counted(l, n)) <= Cardinality(Held(l, n)) + 1
  <2>1. Counted(l, n) \ {r} \subseteq Held(l, n) /\ Held(l, n) \subseteq Counted(l, n)
    BY <1>1, <1>2 DEF Counted
  <2>2. IsFiniteSet(Counted(l, n))
    BY <1>3, CountedFinite
  <2>3. IsFiniteSet(Held(l, n))
    BY <2>1, <2>2, FS_Subset
  <2> QED BY <2>1, <2>2, <2>3, LosesOne, FS_CardinalityType
<1>4. ttl' # NoKey => Cardinality(Held(life', count')) + resent' >= count'
  BY <1>1, <1>2, <1>3 DEF QuotaInv
<1>5. ASSUME NEW s \in Requests, seen'[s] # 0
      PROVE  Cardinality(Held(in'[s], seen'[s] - 1)) + resent' >= seen'[s] - 1
  <2>1. /\ s # r /\ seen'[s] = seen[s] /\ in'[s] = in[s] /\ seen[s] - 1 \in Nat
        /\ Cardinality(Counted(in[s], seen[s] - 1)) + resent >= seen[s] - 1
    BY <1>1, <1>2, <1>5 DEF QuotaInv
  <2> QED BY <1>1, <1>2, <1>3, <2>1
<1>6. \A s \in Requests : at'[s] = "refused" => seen'[s] > Limit
  BY <1>1 DEF QuotaInv
<1> QED BY <1>4, <1>5, <1>6 DEF QuotaInv, Counted

\* Every step preserves the quotas.
LEMMA QuotaStep ==
  ASSUME BaseInv, QuotaInv, [Next]_vars PROVE QuotaInv'
<1>0. BaseInv' /\ ttl \in {NoKey, Forever} \cup 1..Window 
      /\ at \in [Requests -> {"idle", "incr", "ttl", "reply", "expire"} \cup Ended]
  BY BaseStep DEF BaseInv, TypeOK
<1>1. ASSUME NEW r \in Requests, Incr(r) PROVE QuotaInv'
  BY <1>0, <1>1, QuotaIncr
<1>2. ASSUME NEW r \in Requests, SendAgain(r) PROVE QuotaInv'
  BY <1>0, <1>2, QuotaSendAgain
<1>3. CASE Tick
  BY <1>0, <1>3, QuotaSame DEF Tick, NoKey, Forever
<1>4. ASSUME NEW r \in Requests, Expire(r) \/ Reply(r) PROVE QuotaInv'
  BY <1>0, <1>4, QuotaSame DEF Expire, Reply, SetTtl, Decide, OverLimit, Goto, redis
<1>5. ASSUME NEW r \in Requests, Arrive(r) \/ Ttl(r) \/ ErrorReply(r) \/ Crash(r)
      PROVE  QuotaInv'
  BY <1>0, <1>5, QuotaSame DEF Arrive, Ttl, ErrorReply, FailOpen, Crash, Goto, redis
<1>6. CASE UNCHANGED vars
  BY <1>6, QuotaSame DEF vars, redis
<1> QED BY <1>1, <1>2, <1>3, <1>4, <1>5, <1>6 DEF Next, Step

------------------------------------------------------------------------------
(* Theorems *)

\* LimiterInv is an invariant: types, distinct counts within one life of the
\* key, ages and quotas.
THEOREM LimiterInvariant == Spec => []LimiterInv
<1>1. Init => LimiterInv
  BY BaseInit DEF Init, LimiterInv, BaseInv, AgeInv, QuotaInv
<1>2. LimiterInv /\ [Next]_vars => LimiterInv'
  BY BaseStep, AgeStep, QuotaStep DEF LimiterInv, BaseInv
<1> QED BY <1>1, <1>2, PTL DEF Spec

\* Requests that saw distinct counts in 1..Limit are at most Limit many.
LEMMA PassedBound ==
  ASSUME LimiterInv, NEW l
  PROVE  IsFiniteSet(Passed(l)) /\ Cardinality(Passed(l)) \in 0..Limit
<1>1. Passed(l) \subseteq Counted(l, Limit)
  BY DEF LimiterInv, TypeOK, CountInv, Passed, Counted
<1>2. IsFiniteSet(Counted(l, Limit)) /\ Cardinality(Counted(l, Limit)) \in 0..Limit
  BY CountedFinite DEF LimiterInv, BaseInv
<1> QED BY <1>1, <1>2, FS_Subset, FS_CardinalityType

\* However requests, replies, expiries, crashes and resent commands interleave,
\* at most Limit requests pass the limiter during one life of the user's key.
THEOREM LimitHolds == Spec => []LimitPerLife
<1>1. LimiterInv => LimitPerLife
  BY PassedBound DEF LimitPerLife
<1> QED BY <1>1, LimiterInvariant, PTL

\* BurstBound: within any Window ticks at most twice the limit passes, because
\* such requests belong to the key's life and the one before.
THEOREM BurstBoundHolds == Spec => []BurstBound
<1>1. LimiterInv => BurstBound
  <2> SUFFICES ASSUME LimiterInv PROVE BurstBound
    OBVIOUS
  <2> DEFINE Young == {r \in Requests : at[r] = "passed" /\ age[r] < Window}
  <2>1. Young \subseteq Passed(life) \cup Passed(life - 1)
    BY DEF LimiterInv, AgeInv, Passed
  <2>2. /\ IsFiniteSet(Passed(life)) /\ Cardinality(Passed(life)) \in 0..Limit
        /\ IsFiniteSet(Passed(life - 1)) /\ Cardinality(Passed(life - 1)) \in 0..Limit
    BY PassedBound
  <2>3. /\ IsFiniteSet(Passed(life) \cup Passed(life - 1))
        /\ Cardinality(Passed(life) \cup Passed(life - 1)) <= 2 * Limit
    <3>1. /\ IsFiniteSet(Passed(life) \cup Passed(life - 1))
          /\ Cardinality(Passed(life) \cup Passed(life - 1)) =
               Cardinality(Passed(life)) + Cardinality(Passed(life - 1))
                 - Cardinality(Passed(life) \cap Passed(life - 1))
      BY <2>2, FS_Union
    <3>2. Cardinality(Passed(life) \cap Passed(life - 1)) \in Nat
      BY <2>2, FS_Intersection, FS_CardinalityType
    <3> QED BY <2>2, <3>1, <3>2
  <2>4. IsFiniteSet(Young) /\ Cardinality(Young) <= 2 * Limit
    BY <2>1, <2>3, FS_Subset, FS_CardinalityType
  <2> QED BY <2>4 DEF BurstBound
<1> QED BY <1>1, LimiterInvariant, PTL

\* RefusedOnlyBeyondLimit: a refusal means that Limit counts of the same life
\* were given to other requests or lost to INCRs that were sent again.
THEOREM RefusedOnlyBeyondLimitHolds == Spec => []RefusedOnlyBeyondLimit
<1>1. LimiterInv => RefusedOnlyBeyondLimit
  <2> SUFFICES ASSUME LimiterInv, NEW r \in Requests, at[r] = "refused"
               PROVE  Cardinality(Counted(in[r], seen[r] - 1)) + resent >= Limit
    BY DEF RefusedOnlyBeyondLimit, Counted
  <2>1. /\ seen[r] \in Nat /\ resent \in Nat /\ seen[r] > Limit
        /\ Cardinality(Counted(in[r], seen[r] - 1)) + resent >= seen[r] - 1
    BY DEF LimiterInv, TypeOK, QuotaInv
  <2>2. Cardinality(Counted(in[r], seen[r] - 1)) \in Nat
    BY <2>1, CountedFinite DEF LimiterInv, BaseInv
  <2> QED BY <2>1, <2>2
<1> QED BY <1>1, LimiterInvariant, PTL

==============================================================================
