------------------------- MODULE ProblemCache_proofs -------------------------
(* Theorems about ProblemCache, for any number of problems, pages, readers   *)
(* and admins, and any faults.                                               *)
EXTENDS ProblemCache, TLAPS

USE CacheAssumption

------------------------------------------------------------------------------
(* Type correctness *)

\* Whatever is asked for, the answer to a query has the type of its key.
LEMMA ViewType ==
  ASSUME TypeOK, NEW k \in Keys
  PROVE  View(k) \in ValuesOf(k)
BY DEF TypeOK, View, ValuesOf, Rows, Listings, Keys

\* EndRead leaves the other readers alone.
LEMMA EndReadTypes ==
  ASSUME ReadersTypeOK, NEW r \in Readers, EndRead(r)
  PROVE  ReadersTypeOK'
<1>1. /\ step' \in [Readers -> {"idle", "get", "query", "fill"}]
      /\ key' \in [Readers -> Keys \cup {None}]
      /\ value' = [q \in Readers |-> value'[q]]
  BY DEF ReadersTypeOK, EndRead
<1>2. ASSUME NEW q \in Readers
      PROVE  /\ step'[q] # "idle" => key'[q] \in Keys
             /\ step'[q] = "fill" => value'[q] \in ValuesOf(key'[q])
  <2>1. CASE q = r
    BY <2>1 DEF ReadersTypeOK, EndRead
  <2>2. CASE q # r
    BY <2>2 DEF ReadersTypeOK, EndRead
  <2> QED
    BY <2>1, <2>2
<1> QED
  BY <1>1, <1>2 DEF ReadersTypeOK

LEMMA QueryTypes ==
  ASSUME TypeOK, NEW r \in Readers, Query(r)
  PROVE  ReadersTypeOK'
<1>1. CASE ~MayShow(key[r])
  BY <1>1, EndReadTypes DEF Query, TypeOK
<1>2. CASE MayShow(key[r])
  <2>1. key[r] \in Keys
    BY DEF Query, TypeOK, ReadersTypeOK
  <2>2. View(key[r]) \in ValuesOf(key[r])
    BY <2>1, ViewType
  <2>3. /\ step' \in [Readers -> {"idle", "get", "query", "fill"}]
        /\ key' \in [Readers -> Keys \cup {None}]
        /\ value' = [q \in Readers |-> value'[q]]
    BY <1>2 DEF TypeOK, ReadersTypeOK, Query
  <2>4. ASSUME NEW q \in Readers
        PROVE  /\ step'[q] # "idle" => key'[q] \in Keys
               /\ step'[q] = "fill" => value'[q] \in ValuesOf(key'[q])
    <3>1. CASE q = r
      BY <1>2, <2>1, <2>2, <3>1 DEF TypeOK, ReadersTypeOK, Query
    <3>2. CASE q # r
      BY <1>2, <3>2 DEF TypeOK, ReadersTypeOK, Query
    <3> QED
      BY <3>1, <3>2
  <2> QED
    BY <2>3, <2>4 DEF ReadersTypeOK
<1> QED
  BY <1>1, <1>2

\* A fill stores under the reader's key what the reader read for it.
LEMMA FillTypes ==
  ASSUME TypeOK, NEW r \in Readers, Fill(r)
  PROVE  /\ cache' = [k \in Keys |-> cache'[k]]
         /\ \A k \in Keys : cache'[k] \in ValuesOf(k) \cup {None}
<1>1. key[r] \in Keys /\ value[r] \in ValuesOf(key[r])
  BY DEF Fill, TypeOK, ReadersTypeOK
<1>2. cache' = [cache EXCEPT ![key[r]] = value[r]]
  BY DEF Fill
<1> QED
  BY <1>1, <1>2 DEF TypeOK

LEMMA ReaderTypes ==
  ASSUME TypeOK, NEW r \in Readers, ReaderStep(r)
  PROVE  TypeOK'
<1>1. ASSUME NEW k \in Keys, Ask(r, k) PROVE TypeOK'
  BY <1>1 DEF TypeOK, ReadersTypeOK, Ask
<1>2. CASE CacheGet(r)
  <2>1. CASE EndRead(r)
    BY <1>2, <2>1, EndReadTypes DEF CacheGet, TypeOK
  <2>2. CASE ~EndRead(r)
    BY <1>2, <2>2 DEF CacheGet, TypeOK, ReadersTypeOK
  <2> QED
    BY <2>1, <2>2
<1>3. CASE CacheGetFails(r)
  BY <1>3 DEF TypeOK, ReadersTypeOK, CacheGetFails, Fault
<1>4. CASE Query(r)
  BY <1>4, QueryTypes DEF TypeOK, Query
<1>5. CASE Fill(r)
  <2>1. ReadersTypeOK' /\ blamed' \subseteq Keys
    BY <1>5, EndReadTypes DEF Fill, TypeOK, ReadersTypeOK
  <2> QED
    BY <1>5, <2>1, FillTypes DEF TypeOK, Fill
<1>6. CASE FillFails(r)
  BY <1>6, EndReadTypes DEF TypeOK, FillFails, Fault
<1> QED
  BY <1>1, <1>2, <1>3, <1>4, <1>5, <1>6 DEF ReaderStep

\* One statement of an admin keeps the types if the new row has one.
LEMMA WriteTypes ==
  ASSUME TypeOK, NEW a \in Admins, NEW p \in Problems, NEW new \in Rows,
         NEW keys \in SUBSET Keys, NEW forgotten \in SUBSET Keys,
         WriteRow(a, p, new, keys, forgotten)
  PROVE  TypeOK'
BY DEF TypeOK, ReadersTypeOK, WriteRow, readerVars, ValuesOf, Listings

LEMMA AdminWriteTypes ==
  ASSUME TypeOK, NEW a \in Admins, AdminWrite(a)
  PROVE  TypeOK'
<1>0. PICK p \in Problems :
        \/ CreateProblem(a, p) \/ UpdateProblem(a, p) \/ DeleteProblem(a, p)
        \/ ChangeTestCases(a, p) \/ SeedTestCases(a, p)
  BY DEF AdminWrite
<1>1. \E new \in Rows, keys, forgotten \in SUBSET Keys :
        WriteRow(a, p, new, keys, forgotten)
  <2>1. row[p] \in Rows /\ row[p].text + 1 \in Nat /\ row[p].tests + 1 \in Nat
    BY DEF TypeOK, Rows
  <2>2. CASE CreateProblem(a, p)
    BY <2>2 DEF CreateProblem, Rows, Keys
  <2>3. CASE UpdateProblem(a, p)
    BY <2>1, <2>3 DEF UpdateProblem, Rows, Keys
  <2>4. CASE DeleteProblem(a, p)
    BY <2>1, <2>4 DEF DeleteProblem, Rows, Keys
  <2>5. CASE ChangeTestCases(a, p)
    BY <2>1, <2>5 DEF ChangeTestCases, Rows, Keys
  <2>6. CASE SeedTestCases(a, p)
    BY <2>1, <2>6 DEF SeedTestCases, Rows, Keys
  <2> QED
    BY <1>0, <2>2, <2>3, <2>4, <2>5, <2>6
<1> QED
  BY <1>1, WriteTypes

LEMMA PurgeTypes ==
  ASSUME TypeOK, NEW a \in Admins, AdminPurge(a)
  PROVE  TypeOK'
<1>1. ASSUME NEW k \in Keys, RemoveKey(a, k) PROVE TypeOK'
  BY <1>1 DEF TypeOK, ReadersTypeOK, RemoveKey, readerVars, ValuesOf, Rows, Listings
<1>2. ASSUME NEW keys \in SUBSET purge[a], GiveUp(a, keys), faults' = faults + 1
      PROVE  TypeOK'
  BY <1>2 DEF TypeOK, ReadersTypeOK, GiveUp, readerVars, ValuesOf, Rows, Listings
<1>3. CASE RemoveKeyFails(a)
  BY <1>2, <1>3 DEF RemoveKeyFails, Fault
<1>4. CASE CrashBeforePurge(a)
  BY <1>2, <1>4 DEF CrashBeforePurge, Fault
<1> QED
  BY <1>1, <1>3, <1>4 DEF AdminPurge

LEMMA ExpireTypes ==
  ASSUME TypeOK, NEW k \in Keys, Expire(k)
  PROVE  TypeOK'
BY DEF TypeOK, ReadersTypeOK, Expire, readerVars, ValuesOf, Rows, Listings

LEMMA ConnectionTypes ==
  ASSUME TypeOK, Outage \/ Reconnect
  PROVE  TypeOK'
<1>1. UNCHANGED <<row, cache, readerVars, purge, blamed, writes>>
  BY DEF Outage, Reconnect
<1>2. connected' \in BOOLEAN
  BY Zenon DEF Outage, Reconnect
<1>3. faults' \in Nat
  BY DEF Outage, Reconnect, Fault, TypeOK
<1>4. ReadersTypeOK'
  BY <1>1 DEF TypeOK, ReadersTypeOK, readerVars
<1> QED
  BY <1>1, <1>2, <1>3, <1>4 DEF TypeOK

LEMMA TypeInit == Init => TypeOK
BY DEF Init, TypeOK, ReadersTypeOK, Rows, Keys, ValuesOf

LEMMA TypeStep == TypeOK /\ [Next]_vars => TypeOK'
<1> SUFFICES ASSUME TypeOK, [Next]_vars PROVE TypeOK'
  OBVIOUS
<1>1. CASE UNCHANGED vars
  BY <1>1 DEF TypeOK, ReadersTypeOK, vars, readerVars, ValuesOf, Rows, Listings
<1> QED
  BY <1>1, ReaderTypes, AdminWriteTypes, PurgeTypes, ExpireTypes, ConnectionTypes DEF Next

\* Every variable keeps its type, and what waits to be stored under a key
\* has the type of that key (the answers of getProblemById and listProblems).
THEOREM CacheTypeCorrect == Spec => []TypeOK
<1> QED
  BY TypeInit, TypeStep, PTL DEF Spec

------------------------------------------------------------------------------
(* Withdrawn problems *)

\* What WithdrawnFades says of one step and one problem that is unpublished.
Fades(p) ==
  /\ Carriers(p)' \subseteq Carriers(p)
  /\ \A k \in Keys :
       ~Tells(k, cache[k], p) /\ Tells(k, cache'[k], p) =>
         \E r \in Carriers(p) \ Carriers(p)' : key[r] = k

\* What a query finds now tells nothing about an unpublished problem: either
\* the answer is a 404 or the problem is not on the page.
LEMMA QueryTellsNothing ==
  ASSUME NEW k \in Keys, NEW p \in Problems, row[p].vis # "public", MayShow(k)
  PROVE  ~Tells(k, View(k), p)
BY DEF Tells, MayShow, View, Keys

\* A step that takes readers out of "fill" only, and adds to no entry.
LEMMA FadesQuietly ==
  ASSUME NEW p \in Problems,
         \A q \in Readers : step'[q] = "fill" =>
           step[q] = "fill" /\ key'[q] = key[q] /\ value'[q] = value[q],
         \A k \in Keys : cache'[k] \in {cache[k], None}
  PROVE  Fades(p)
<1>1. Carriers(p)' \subseteq Carriers(p)
  BY DEF Carriers, Tells
<1>2. \A k \in Keys : Tells(k, cache'[k], p) => Tells(k, cache[k], p)
  BY DEF Tells
<1> QED
  BY <1>1, <1>2 DEF Fades

\* A query of an unpublished problem ends the read, one of a page skips it.
LEMMA FadesQuery ==
  ASSUME TypeOK, NEW r \in Readers, Query(r),
         NEW p \in Problems, row[p].vis # "public"
  PROVE  Fades(p)
<1>1. CASE ~MayShow(key[r])
  BY <1>1, FadesQuietly DEF Query, EndRead, TypeOK, ReadersTypeOK
<1>2. CASE MayShow(key[r])
  <2>1. key[r] \in Keys /\ ~Tells(key[r], View(key[r]), p)
    BY <1>2, QueryTellsNothing DEF Query, TypeOK, ReadersTypeOK
  <2>2. ASSUME NEW q \in Carriers(p)' PROVE q \in Carriers(p)
    <3>1. q \in Readers /\ step'[q] = "fill" /\ Tells(key'[q], value'[q], p)
      BY <2>2 DEF Carriers, Tells
    <3>2. key' = key /\ value' = [value EXCEPT ![r] = View(key[r])]
      BY <1>2 DEF Query
    <3>3. q # r
      BY <2>1, <3>1, <3>2 DEF TypeOK, ReadersTypeOK
    <3>4. step[q] = "fill" /\ value'[q] = value[q]
      BY <1>2, <3>1, <3>2, <3>3 DEF Query, TypeOK, ReadersTypeOK
    <3> QED
      BY <3>1, <3>2, <3>4 DEF Carriers
  <2>3. cache' = cache
    BY DEF Query
  <2> QED
    BY <2>2, <2>3 DEF Fades
<1> QED
  BY <1>1, <1>2

\* A fill adds to one entry, and spends the read that does it.
LEMMA FadesFill ==
  ASSUME TypeOK, NEW r \in Readers, Fill(r), NEW p \in Problems
  PROVE  Fades(p)
<1>1. /\ step[r] = "fill" /\ step'[r] = "idle"
      /\ \A q \in Readers : step'[q] = "fill" =>
           step[q] = "fill" /\ key'[q] = key[q] /\ value'[q] = value[q]
  BY DEF Fill, EndRead, TypeOK, ReadersTypeOK
<1>2. Carriers(p)' \subseteq Carriers(p) /\ r \notin Carriers(p)'
  BY <1>1 DEF Carriers, Tells
<1>3. ASSUME NEW k \in Keys, ~Tells(k, cache[k], p), Tells(k, cache'[k], p)
      PROVE  \E q \in Carriers(p) \ Carriers(p)' : key[q] = k
  <2>1. k = key[r] /\ cache'[k] = value[r]
    BY <1>3 DEF Fill, TypeOK, ReadersTypeOK
  <2>2. r \in Carriers(p)
    BY <1>1, <1>3, <2>1 DEF Carriers
  <2> QED
    BY <1>2, <2>1, <2>2
<1> QED
  BY <1>2, <1>3 DEF Fades

\* The other steps of a read end it or bring it no further than its query.
LEMMA FadesReader ==
  ASSUME TypeOK, NEW r \in Readers, ReaderStep(r),
         NEW p \in Problems, row[p].vis # "public"
  PROVE  Fades(p)
<1>1. ASSUME NEW k \in Keys, Ask(r, k) PROVE Fades(p)
  BY <1>1, FadesQuietly DEF Ask, TypeOK, ReadersTypeOK
<1>2. CASE CacheGet(r)
  BY <1>2, FadesQuietly DEF CacheGet, EndRead, TypeOK, ReadersTypeOK
<1>3. CASE CacheGetFails(r)
  BY <1>3, FadesQuietly DEF CacheGetFails, TypeOK, ReadersTypeOK
<1>4. CASE FillFails(r)
  BY <1>4, FadesQuietly DEF FillFails, EndRead, TypeOK, ReadersTypeOK
<1> QED
  BY <1>1, <1>2, <1>3, <1>4, FadesQuery, FadesFill DEF ReaderStep

\* Writes, purges and expiries fill nothing.
LEMMA FadesStep ==
  ASSUME TypeOK, [Next]_vars, NEW p \in Problems, row[p].vis # "public"
  PROVE  Fades(p)
<1>1. CASE UNCHANGED vars
  BY <1>1, FadesQuietly DEF vars, readerVars
<1>2. ASSUME NEW a \in Admins, AdminWrite(a) PROVE Fades(p)
  <2>1. UNCHANGED <<cache, readerVars>>
    BY <1>2 DEF AdminWrite, CreateProblem, UpdateProblem, DeleteProblem,
                ChangeTestCases, SeedTestCases, WriteRow
  <2> QED
    BY <2>1, FadesQuietly DEF readerVars
<1>3. ASSUME NEW a \in Admins, AdminPurge(a) PROVE Fades(p)
  <2>1. UNCHANGED readerVars /\ \A k \in Keys : cache'[k] \in {cache[k], None}
    BY <1>3 DEF AdminPurge, RemoveKey, RemoveKeyFails, CrashBeforePurge, GiveUp, TypeOK
  <2> QED
    BY <2>1, FadesQuietly DEF readerVars
<1>4. ASSUME NEW k \in Keys, Expire(k) PROVE Fades(p)
  BY <1>4, FadesQuietly DEF Expire, readerVars, TypeOK
<1>5. CASE Outage \/ Reconnect
  BY <1>5, FadesQuietly DEF Outage, Reconnect, readerVars
<1> QED
  BY <1>1, <1>2, <1>3, <1>4, <1>5, FadesReader DEF Next

\* While a problem is not published, the only entries that begin to tell
\* about it are those of reads that were under way before it was withdrawn or
\* deleted, once per read (the 404 of getProblemById and the filter of
\* listProblems stand before every fill).
THEOREM WithdrawnFadesHolds == Spec => WithdrawnFades
<1>1. TypeOK /\ [Next]_vars =>
        [\A p \in Problems :
           row[p].vis # "public" /\ row'[p].vis # "public" => Fades(p)]_vars
  BY FadesStep
<1>2. TypeOK /\ [Next]_vars =>
        [\A p \in Problems :
           row[p].vis # "public" /\ row'[p].vis # "public" =>
             /\ Carriers(p)' \subseteq Carriers(p)
             /\ \A k \in Keys :
                  ~Tells(k, cache[k], p) /\ Tells(k, cache'[k], p) =>
                    \E r \in Carriers(p) \ Carriers(p)' : key[r] = k]_vars
  BY <1>1 DEF Fades
<1> QED
  BY <1>2, CacheTypeCorrect, PTL DEF Spec, WithdrawnFades

------------------------------------------------------------------------------
(* Entries were published when they were read *)

\* Whatever has become of a problem since, its entry was read while it was
\* published.  So an id that is new has no entry yet: createProblem, which
\* removes pages only, leaves nothing behind.
ReadWhilePublic ==
  /\ \A p \in Problems : cache[p] # None => cache[p].vis = "public"
  /\ \A r \in Readers : step[r] = "fill" /\ key[r] \in Problems => value[r].vis = "public"

\* The guard of the query is what a fill relies on, some steps later.
LEMMA PublicReader ==
  ASSUME TypeOK, ReadWhilePublic, NEW r \in Readers, ReaderStep(r)
  PROVE  ReadWhilePublic'
<1>1. ASSUME NEW k \in Keys, Ask(r, k) PROVE ReadWhilePublic'
  BY <1>1 DEF ReadWhilePublic, Ask, TypeOK, ReadersTypeOK
<1>2. CASE CacheGet(r)
  BY <1>2 DEF ReadWhilePublic, CacheGet, EndRead, TypeOK, ReadersTypeOK
<1>3. CASE CacheGetFails(r)
  BY <1>3 DEF ReadWhilePublic, CacheGetFails, TypeOK, ReadersTypeOK
<1>4. CASE Query(r)
  BY <1>4 DEF ReadWhilePublic, Query, MayShow, View, EndRead, TypeOK, ReadersTypeOK
<1>5. CASE Fill(r)
  BY <1>5 DEF ReadWhilePublic, Fill, EndRead, TypeOK, ReadersTypeOK, Keys
<1>6. CASE FillFails(r)
  BY <1>6 DEF ReadWhilePublic, FillFails, EndRead, TypeOK, ReadersTypeOK
<1> QED
  BY <1>1, <1>2, <1>3, <1>4, <1>5, <1>6 DEF ReaderStep

LEMMA PublicStep ==
  ASSUME TypeOK, ReadWhilePublic, [Next]_vars
  PROVE  ReadWhilePublic'
<1>1. CASE UNCHANGED vars
  BY <1>1 DEF ReadWhilePublic, vars, readerVars
<1>2. ASSUME NEW a \in Admins, AdminWrite(a) PROVE ReadWhilePublic'
  <2>1. UNCHANGED <<cache, readerVars>>
    BY <1>2 DEF AdminWrite, CreateProblem, UpdateProblem, DeleteProblem,
                ChangeTestCases, SeedTestCases, WriteRow
  <2> QED
    BY <2>1 DEF ReadWhilePublic, readerVars
<1>3. ASSUME NEW a \in Admins, AdminPurge(a) PROVE ReadWhilePublic'
  BY <1>3 DEF ReadWhilePublic, AdminPurge, RemoveKey, RemoveKeyFails, CrashBeforePurge,
              GiveUp, readerVars, TypeOK, Keys
<1>4. ASSUME NEW k \in Keys, Expire(k) PROVE ReadWhilePublic'
  BY <1>4 DEF ReadWhilePublic, Expire, readerVars, TypeOK, Keys
<1>5. CASE Outage \/ Reconnect
  BY <1>5 DEF ReadWhilePublic, Outage, Reconnect, readerVars
<1> QED
  BY <1>1, <1>2, <1>3, <1>4, <1>5, PublicReader DEF Next

------------------------------------------------------------------------------
(* Stale entries *)

\* The entry under key k may be stale: it may still be removed, or was spoilt.
Excused(k) == k \in blamed \/ \E a \in Admins : k \in purge[a]

\* A statement of an admin that changes what a query for k finds is followed
\* by the removal of k, unless nothing is stored under k.  (The seed is
\* excused.)
LEMMA WriteCovers ==
  ASSUME TypeOK, ReadWhilePublic,
         NEW a \in Admins, AdminWrite(a), NEW k \in Keys, View(k)' # View(k)
  PROVE  k \in purge'[a] \/ k \in blamed' \/ cache[k] = None \/ Stale(k)
<1>0. PICK p \in Problems :
        \/ CreateProblem(a, p) \/ UpdateProblem(a, p) \/ DeleteProblem(a, p)
        \/ ChangeTestCases(a, p) \/ SeedTestCases(a, p)
  BY DEF AdminWrite
<1>1. ASSUME NEW new, NEW keys, NEW forgotten,
             WriteRow(a, p, new, keys, forgotten)
      PROVE  /\ purge'[a] = keys
             /\ blamed' = blamed \cup forgotten
             /\ row' = [row EXCEPT ![p] = new]
             /\ k \in Problems => k = p
  BY <1>1 DEF WriteRow, View, TypeOK
<1>2. CASE CreateProblem(a, p)
  <2>1. k \in Problems => cache[k] = None \/ Stale(k)
    BY <1>1, <1>2 DEF CreateProblem, ReadWhilePublic, Stale, View
  <2>2. k \notin Problems => k \in purge'[a]
    BY <1>1, <1>2 DEF CreateProblem, Keys
  <2> QED
    BY <2>1, <2>2
<1>3. CASE UpdateProblem(a, p)
  BY <1>1, <1>3 DEF UpdateProblem, Keys
<1>4. CASE DeleteProblem(a, p)
  BY <1>1, <1>4 DEF DeleteProblem, Keys
<1>5. CASE ChangeTestCases(a, p) \/ SeedTestCases(a, p)
  <2>1. /\ p \in purge'[a] \cup blamed'
        /\ row' = [row EXCEPT ![p] = [row[p] EXCEPT !.tests = @ + 1]]
        /\ k \in Problems => k = p
    BY <1>1, <1>5 DEF ChangeTestCases, SeedTestCases
  <2>2. \A q \in Problems : row'[q].vis = row[q].vis /\ row'[q].text = row[q].text
    BY <2>1 DEF TypeOK, Rows
  <2>3. k \in Problems
    BY <2>2 DEF View
  <2> QED
    BY <2>1, <2>3
<1> QED
  BY <1>0, <1>2, <1>3, <1>4, <1>5

LEMMA StaleWrite ==
  ASSUME TypeOK, ReadWhilePublic, StaleHasCause,
         NEW a \in Admins, AdminWrite(a)
  PROVE  StaleHasCause'
<1>1. /\ UNCHANGED cache /\ blamed \subseteq blamed'
      /\ \A b \in Admins : purge[b] \subseteq purge'[b]
  BY DEF AdminWrite, CreateProblem, UpdateProblem, DeleteProblem,
         ChangeTestCases, SeedTestCases, WriteRow, TypeOK
<1>2. ASSUME NEW k \in Keys, Stale(k)' PROVE Excused(k)'
  <2>1. CASE Stale(k)
    BY <1>1, <2>1 DEF StaleHasCause, Excused
  <2>2. CASE ~Stale(k)
    BY <1>1, <1>2, <2>2, WriteCovers DEF Stale, Excused
  <2> QED
    BY <2>1, <2>2
<1> QED
  BY <1>2 DEF StaleHasCause, Excused

LEMMA StaleStep ==
  ASSUME TypeOK, ReadWhilePublic, StaleHasCause, [Next]_vars
  PROVE  StaleHasCause'
<1>1. ASSUME UNCHANGED row PROVE \A k \in Keys : View(k)' = View(k)
  BY <1>1 DEF View
<1>2. CASE UNCHANGED vars
  BY <1>1, <1>2 DEF StaleHasCause, Stale, vars
<1>3. ASSUME NEW r \in Readers, ReaderStep(r) PROVE StaleHasCause'
  <2>1. CASE Fill(r)
    BY <1>1, <2>1 DEF Fill, StaleHasCause, Stale, TypeOK, ReadersTypeOK
  <2>2. CASE UNCHANGED <<row, cache, purge, blamed>>
    BY <1>1, <2>2 DEF StaleHasCause, Stale
  <2> QED
    BY <1>3, <2>1, <2>2 DEF ReaderStep, Ask, CacheGet, CacheGetFails, Query, FillFails
<1>4. ASSUME NEW a \in Admins, AdminPurge(a) PROVE StaleHasCause'
  <2>1. ASSUME NEW k \in Keys, RemoveKey(a, k) PROVE StaleHasCause'
    BY <1>1, <2>1 DEF RemoveKey, StaleHasCause, Stale, TypeOK
  <2>2. ASSUME NEW keys, GiveUp(a, keys) PROVE StaleHasCause'
    BY <1>1, <2>2 DEF GiveUp, StaleHasCause, Stale, TypeOK
  <2> QED
    BY <1>4, <2>1, <2>2 DEF AdminPurge, RemoveKeyFails, CrashBeforePurge
<1>5. ASSUME NEW k \in Keys, Expire(k) PROVE StaleHasCause'
  BY <1>1, <1>5 DEF Expire, StaleHasCause, Stale, TypeOK
<1>6. CASE Outage \/ Reconnect
  BY <1>1, <1>6 DEF Outage, Reconnect, StaleHasCause, Stale
<1> QED
  BY <1>2, <1>3, <1>4, <1>5, <1>6, StaleWrite DEF Next

\* Every write of the admins' handlers purges all the keys it makes stale:
\* a stale entry is one whose removal is under way or failed, or one that a
\* read filled after the purge, or one the seed script forgot.
THEOREM StaleHasCauseHolds == Spec => []StaleHasCause
<1>1. Init => ReadWhilePublic /\ StaleHasCause
  BY DEF Init, ReadWhilePublic, Keys, StaleHasCause, Stale
<1>2. TypeOK /\ ReadWhilePublic /\ StaleHasCause /\ [Next]_vars
        => ReadWhilePublic' /\ StaleHasCause'
  BY PublicStep, StaleStep
<1> QED
  BY <1>1, <1>2, CacheTypeCorrect, PTL DEF Spec

==============================================================================
