-------------------------- MODULE ProblemPage_proofs --------------------------
(***************************************************************************)
(* Proofs about ProblemPage, for any number of problems, visits,           *)
(* submissions, attempts and failing requests.  PageInv and                *)
(* MismatchHasCause are inductive: the guard of the button (no submission  *)
(* is created while one is polled) is what keeps the chain of timers and   *)
(* polls single, and a poll remembers the status it was sent at, which is  *)
(* what keeps its answer from going back.                                  *)
(***************************************************************************)
EXTENDS ProblemPage, SequenceTheorems, TLAPS

USE PageAssumption

IInv == PageInv /\ MismatchHasCause

\* The statuses and their order.
LEMMA Ranks ==
  /\ DOMAIN Rank = {"QUEUED", "RUNNING", "DONE"}
  /\ Rank["QUEUED"] = 0 /\ Rank["RUNNING"] = 1 /\ Rank["DONE"] = 2
  /\ \A s \in DOMAIN Rank : Rank[s] \in 0..2
BY DEF Rank

\* What a row holds.
LEMMA Rows ==
  ASSUME HookTypes, NEW s \in Subs
  PROVE  /\ row[s] \in [of : Problems, status : DOMAIN Rank]
         /\ row[s].of \in Problems /\ row[s].status \in DOMAIN Rank
<1>1. s \in 1..Len(row) /\ row \in Seq([of : Problems, status : DOMAIN Rank])
  BY DEF Subs, HookTypes
<1>2. row[s] \in [of : Problems, status : DOMAIN Rank]
  BY <1>1, ElementOfSeq
<1> QED
  BY <1>2

\* One problem, nothing submitted.
LEMMA PageInit == Init => IInv
<1> SUFFICES ASSUME NEW p \in Problems, visits = <<p>>, Init
             PROVE  IInv
  BY DEF Init
<1>1. visits \in Seq(Problems) /\ Len(visits) = 1
  OBVIOUS
<1>2. PageTypes
  <2>1. loads \subseteq 1..Len(visits)
    BY <1>1 DEF Init
  <2>2. visits # <<>>
    BY <1>1
  <2>3. shown \in Problems \cup {None}
    BY DEF Init
  <2> QED
  BY <2>1, <2>2, <2>3, <1>1 DEF Init, PageTypes
<1>3. HistoryTypes
  BY DEF Init, HistoryTypes
<1>33. AuxTypes
  BY DEF Init, AuxTypes
<1>4. row \in Seq([of : Problems, status : DOMAIN Rank]) /\ Len(row) = 0
  BY DEF Init
<1>5. HookTypes
  <2>1. /\ timers \subseteq Subs /\ ref \in Subs \cup {0} /\ lost \subseteq Subs
        /\ polls \subseteq [sub : Subs, from : DOMAIN Rank]
    BY DEF Init
  <2>2. creating \in Problems \cup {None} /\ polling \in BOOLEAN /\ attempts \in Nat
    BY DEF Init
  <2>3. current \in 0..Len(row)
    BY <1>4 DEF Init
  <2>4. status \in DOMAIN Rank
    BY Ranks DEF Init
  <2> QED
    BY <1>4, <2>1, <2>2, <2>3, <2>4 DEF HookTypes
<1>6. OneChain /\ PendingIsPolled /\ MismatchHasCause
  BY Ranks DEF Init, OneChain, PendingIsPolled, ShownPending, MismatchHasCause, Rendered
<1> QED
  BY <1>2, <1>3, <1>33, <1>5, <1>6 DEF IInv, PageInv, TypeOK

\* A view is disturbed and a fault counted, or not.
LEMMA AuxKept ==
  ASSUME AuxTypes, faults' = faults \/ Fault,
         \/ disturbed' = disturbed
         \/ \E view \in {"problem", "history"} : disturbed' = disturbed \cup {view}
  PROVE  AuxTypes' /\ disturbed \subseteq disturbed'
<1>1. faults' \in 0..MaxFaults
  BY DEF AuxTypes, Fault
<1>2. disturbed' \subseteq {"problem", "history"} /\ disturbed \subseteq disturbed'
  BY DEF AuxTypes
<1> QED
  BY <1>1, <1>2 DEF AuxTypes

\* What the page shows is kept by a step that leaves it alone.
LEMMA ViewsKept ==
  ASSUME IInv, UNCHANGED <<visits, problemView, historyView, disturbed>>,
         faults' = faults \/ Fault
  PROVE  PageTypes' /\ HistoryTypes' /\ AuxTypes' /\ MismatchHasCause'
<1>1. PageTypes' /\ UNCHANGED <<loading, shown>>
  BY DEF IInv, PageInv, TypeOK, PageTypes, problemView
<1>2. HistoryTypes' /\ UNCHANGED <<tab, loadingHistory, listed>>
  BY DEF IInv, PageInv, TypeOK, HistoryTypes, historyView
<1>3. AuxTypes'
  BY AuxKept DEF IInv, PageInv, TypeOK
<1> QED
  BY <1>1, <1>2, <1>3 DEF IInv, MismatchHasCause, Rendered, Url

\* What submissions and polls say is kept by a step that leaves them alone.
LEMMA HookKept ==
  ASSUME PageInv, UNCHANGED <<row, creating, hook, lost>>
  PROVE  HookTypes' /\ OneChain' /\ PendingIsPolled'
<1>1. HookTypes'
  BY DEF PageInv, TypeOK, HookTypes, hook, Subs
<1> QED
  BY <1>1 DEF PageInv, OneChain, PendingIsPolled, ShownPending, hook

\* Going to another problem.
LEMMA VisitInv ==
  ASSUME IInv, NEW p \in Problems, Visit(p)
  PROVE  IInv'
<1>1. /\ visits' \in Seq(Problems) /\ Len(visits') = Len(visits) + 1
      /\ visits' # <<>> /\ Len(visits) \in Nat
  BY DEF IInv, PageInv, TypeOK, PageTypes, Visit
<1>2. PageTypes'
  <2>1. loads' \subseteq 1..Len(visits')
    <3>1. loads' = loads \cup {Len(visits) + 1} /\ loads \subseteq 1..Len(visits)
      BY DEF IInv, PageInv, TypeOK, PageTypes, Visit, Refetch
    <3>2. 1..Len(visits) \cup {Len(visits) + 1} \subseteq 1..Len(visits')
      BY <1>1
    <3> QED
      BY <3>1, <3>2
  <2>2. shown' \in Problems \cup {None} /\ loading' \in BOOLEAN
    BY <1>1 DEF IInv, PageInv, TypeOK, PageTypes, Visit, Refetch
  <2> QED
  BY <1>1, <2>1, <2>2 DEF PageTypes
<1>3. fetches' \subseteq [visit : 1..Len(visits'), of : Problems]
  <2>1. CASE tab
    BY <1>1, <2>1 DEF IInv, PageInv, TypeOK, HistoryTypes, Visit, FetchHistory
  <2>2. CASE ~tab
    BY <1>1, <2>2 DEF IInv, PageInv, TypeOK, HistoryTypes, Visit
  <2> QED
    BY <2>1, <2>2
<1>4. HistoryTypes' /\ AuxTypes'
  BY <1>3 DEF IInv, PageInv, TypeOK, HistoryTypes, AuxTypes, Visit, FetchHistory
<1>5. HookTypes' /\ OneChain' /\ PendingIsPolled'
  BY HookKept DEF IInv, Visit
<1>6. MismatchHasCause'
  BY DEF MismatchHasCause, Rendered, Visit, Refetch, FetchHistory
<1> QED
  BY <1>2, <1>4, <1>5, <1>6 DEF IInv, PageInv, TypeOK

\* Answers and failures of the problem's fetch.
LEMMA LoadInv ==
  ASSUME IInv, NEW n \in loads, LoadAnswered(n) \/ LoadFails(n)
  PROVE  IInv'
<1>1. n \in 1..Len(visits) /\ visits[n] \in Problems /\ Url \in Problems
  BY DEF IInv, PageInv, TypeOK, PageTypes, Url
<1>2. /\ UNCHANGED <<visits, historyView, row, creating, hook, lost>>
      /\ loads' = loads \ {n} /\ loading' = FALSE
      /\ Url' = Url
  BY DEF LoadAnswered, LoadFails, Url
<1>3. shown' \in Problems \cup {None}
  BY <1>1 DEF IInv, PageInv, TypeOK, PageTypes, LoadAnswered, LoadFails
<1>4. PageTypes'
  BY <1>2, <1>3 DEF IInv, PageInv, TypeOK, PageTypes
<1>5. HistoryTypes' /\ UNCHANGED <<tab, loadingHistory, listed>>
  BY <1>2 DEF IInv, PageInv, TypeOK, HistoryTypes, historyView
<1>6. AuxTypes' /\ disturbed \subseteq disturbed'
  <2>1. disturbed' = disturbed \/ disturbed' = disturbed \cup {"problem"}
    BY DEF LoadAnswered, LoadFails, Disturb
  <2>2. faults' = faults \/ Fault
    BY DEF LoadAnswered, LoadFails
  <2> QED
    BY <2>1, <2>2, AuxKept DEF IInv, PageInv, TypeOK
<1>7. HookTypes' /\ OneChain' /\ PendingIsPolled'
  BY <1>2, HookKept DEF IInv
<1>8. shown' # Url => "problem" \in disturbed'
  <2>1. CASE LoadAnswered(n)
    BY <2>1 DEF LoadAnswered, Disturb
  <2>2. CASE LoadFails(n)
    <3>1. disturbed' = disturbed \cup {"problem"}
      BY <1>1, <2>2 DEF LoadFails, Disturb
    <3> QED
      BY <3>1
  <2> QED
    BY <2>1, <2>2
<1>9. MismatchHasCause'
  BY <1>2, <1>5, <1>6, <1>8 DEF IInv, MismatchHasCause
<1> QED
  BY <1>4, <1>5, <1>6, <1>7, <1>9 DEF IInv, PageInv, TypeOK

\* Opening and closing the history.
LEMMA TabInv ==
  ASSUME IInv, SwitchTab
  PROVE  IInv'
<1>1. Len(visits) \in 1..Len(visits) /\ Url \in Problems
  BY DEF IInv, PageInv, TypeOK, PageTypes, Url
<1>2. /\ UNCHANGED <<visits, problemView, listed, row, creating, hook, lost>>
      /\ UNCHANGED <<disturbed, faults>> /\ Url' = Url /\ tab' = ~tab
  BY DEF SwitchTab, Url
<1>3. PageTypes' /\ AuxTypes' /\ UNCHANGED <<loading, shown>>
  BY <1>2 DEF IInv, PageInv, TypeOK, PageTypes, AuxTypes, problemView
<1>4. HistoryTypes'
  <2>1. CASE tab'
    <3>1. fetches' = fetches \cup {[visit |-> Len(visits), of |-> Url]} /\ loadingHistory'
      BY <2>1 DEF SwitchTab, FetchHistory
    <3> QED
      BY <1>1, <1>2, <2>1, <3>1 DEF IInv, PageInv, TypeOK, HistoryTypes
  <2>2. CASE ~tab'
    BY <1>2, <2>2 DEF IInv, PageInv, TypeOK, HistoryTypes, SwitchTab
  <2> QED
    BY <2>1, <2>2
<1>5. HookTypes' /\ OneChain' /\ PendingIsPolled'
  BY <1>2, HookKept DEF IInv
<1>6. MismatchHasCause'
  BY <1>2, <1>3 DEF IInv, MismatchHasCause, Rendered, SwitchTab, FetchHistory
<1> QED
  BY <1>3, <1>4, <1>5, <1>6 DEF IInv, PageInv, TypeOK

\* Answers and failures of history fetches.
LEMMA HistoryInv ==
  ASSUME IInv, NEW f \in fetches, HistoryAnswered(f) \/ HistoryFails(f)
  PROVE  IInv'
<1>1. f.of \in Problems /\ Url \in Problems
  BY DEF IInv, PageInv, TypeOK, PageTypes, HistoryTypes, Url
<1>2. /\ UNCHANGED <<visits, problemView, tab, row, creating, hook, lost>>
      /\ fetches' = fetches \ {f} /\ loadingHistory' = FALSE
      /\ Url' = Url
  BY DEF HistoryAnswered, HistoryFails, Url
<1>3. listed' \in Problems \cup {None}
  BY <1>1 DEF IInv, PageInv, TypeOK, HistoryTypes, HistoryAnswered, HistoryFails
<1>4. HistoryTypes'
  BY <1>2, <1>3 DEF IInv, PageInv, TypeOK, HistoryTypes
<1>5. PageTypes' /\ UNCHANGED <<loading, shown>>
  BY <1>2 DEF IInv, PageInv, TypeOK, PageTypes, problemView
<1>6. AuxTypes' /\ disturbed \subseteq disturbed'
  <2>1. disturbed' = disturbed \/ disturbed' = disturbed \cup {"history"}
    BY DEF HistoryAnswered, HistoryFails, Disturb
  <2>2. faults' = faults \/ Fault
    BY DEF HistoryAnswered, HistoryFails
  <2> QED
    BY <2>1, <2>2, AuxKept DEF IInv, PageInv, TypeOK
<1>7. HookTypes' /\ OneChain' /\ PendingIsPolled'
  BY <1>2, HookKept DEF IInv
<1>8. listed' # Url => "history" \in disturbed'
  <2>1. CASE HistoryAnswered(f)
    BY <2>1 DEF HistoryAnswered, Disturb
  <2>2. CASE HistoryFails(f)
    <3>1. disturbed' = disturbed \cup {"history"}
      BY <1>1, <2>2 DEF HistoryFails, Disturb
    <3> QED
      BY <3>1
  <2> QED
    BY <2>1, <2>2
<1>9. MismatchHasCause'
  BY <1>2, <1>5, <1>6, <1>8 DEF IInv, MismatchHasCause, Rendered
<1> QED
  BY <1>4, <1>5, <1>6, <1>7, <1>9 DEF IInv, PageInv, TypeOK

\* The button: no submission is polled, so that no timer and no poll is left.
LEMMA SubmitInv ==
  ASSUME IInv, Submit \/ CreateFails
  PROVE  IInv'
<1>1. /\ UNCHANGED <<visits, problemView, historyView, row, hook, lost, disturbed>>
      /\ faults' = faults \/ Fault
  BY DEF Submit, CreateFails
<1>2. creating' \in Problems \cup {None} /\ (polling => creating' = None)
  <2>1. Url \in Problems
    BY DEF IInv, PageInv, TypeOK, PageTypes, Url
  <2> QED
    BY <2>1 DEF Submit, CreateFails, MaySubmit
<1>3. HookTypes'
  BY <1>1, <1>2 DEF IInv, PageInv, TypeOK, HookTypes, hook, Subs
<1>4. OneChain' /\ PendingIsPolled'
  BY <1>1, <1>2 DEF IInv, PageInv, OneChain, PendingIsPolled, ShownPending, hook
<1> QED
  BY <1>1, <1>3, <1>4, ViewsKept DEF IInv, PageInv, TypeOK

\* A chain starts.
LEMMA CreateInv ==
  ASSUME IInv, CreateAnswered
  PROVE  IInv' /\ current' > current
<1> DEFINE s == Len(row) + 1
           new == [of |-> creating, status |-> "QUEUED"]
<1>1. /\ ~polling /\ timers = {} /\ polls = {} /\ Len(row) \in Nat
      /\ creating \in Problems /\ current <= Len(row) /\ current \in Nat
  BY DEF IInv, PageInv, TypeOK, HookTypes, OneChain, CreateAnswered
<1>2. /\ row' \in Seq([of : Problems, status : DOMAIN Rank])
      /\ Len(row') = s /\ row'[s] = new
  <2>1. new \in [of : Problems, status : DOMAIN Rank]
    BY <1>1, Ranks
  <2> QED
    BY <2>1 DEF IInv, PageInv, TypeOK, HookTypes, CreateAnswered
<1>3. /\ current' = s /\ status' = "QUEUED" /\ polling' = TRUE /\ attempts' = 0
      /\ timers' = {s} /\ ref' = s /\ polls' = {} /\ creating' = None /\ lost' = lost
  BY <1>1 DEF CreateAnswered, StartPolling
<1>4. HookTypes'
  <2>1. Subs' = 1..s /\ Subs \subseteq Subs' /\ s \in Subs'
    BY <1>1, <1>2 DEF Subs
  <2>2. timers' \subseteq Subs' /\ ref' \in Subs' \cup {0} /\ lost' \subseteq Subs'
    BY <1>3, <2>1 DEF IInv, PageInv, TypeOK, HookTypes
  <2>3. current' \in 0..Len(row')
    BY <1>1, <1>2, <1>3
  <2>4. status' \in DOMAIN Rank /\ polling' \in BOOLEAN /\ attempts' \in Nat
    BY <1>3, Ranks
  <2> QED
    BY <1>2, <1>3, <2>2, <2>3, <2>4 DEF HookTypes
<1>5. OneChain'
  <2>1. \A n \in timers' : Rank[status'] <= Rank[row'[n].status] /\ attempts' < MaxAttempts
    BY <1>2, <1>3, Ranks
  <2> QED
    BY <1>3, <2>1 DEF OneChain
<1>6. PendingIsPolled'
  BY <1>3 DEF PendingIsPolled
<1>7. PageTypes' /\ HistoryTypes' /\ AuxTypes' /\ MismatchHasCause'
  BY ViewsKept DEF CreateAnswered
<1> QED
  BY <1>1, <1>3, <1>4, <1>5, <1>6, <1>7 DEF IInv, PageInv, TypeOK

\* A timer fires.
LEMMA PollInv ==
  ASSUME IInv, NEW s \in timers, Poll(s)
  PROVE  IInv'
<1> DEFINE q == [sub |-> s, from |-> row[s].status]
<1>1. /\ s \in Subs /\ s = current /\ timers = {s} /\ polls = {} /\ attempts \in Nat
      /\ row[s] \in [of : Problems, status : DOMAIN Rank]
      /\ Rank[status] <= Rank[row[s].status] /\ attempts < MaxAttempts
      /\ polling /\ creating = None
  <2>1. s \in Subs /\ attempts \in Nat
    BY DEF IInv, PageInv, TypeOK, HookTypes
  <2>2. row[s] \in [of : Problems, status : DOMAIN Rank]
    BY <2>1, Rows DEF IInv, PageInv, TypeOK
  <2>3. /\ polls = {} /\ timers \subseteq {current} /\ polling /\ creating = None
        /\ Rank[status] <= Rank[row[s].status] /\ attempts < MaxAttempts
    BY DEF IInv, PageInv, OneChain
  <2> QED
    BY <2>1, <2>2, <2>3
<1>2. /\ timers' = {} /\ attempts' = attempts + 1 /\ polls' = {q}
      /\ UNCHANGED <<row, creating, current, status, polling, ref, lost>>
  BY <1>1 DEF Poll
<1>3. HookTypes'
  <2>1. attempts' \in Nat /\ polls' \subseteq [sub : Subs, from : DOMAIN Rank]
    BY <1>1, <1>2
  <2> QED
    BY <1>2, <2>1 DEF IInv, PageInv, TypeOK, HookTypes, Subs
<1>4. OneChain'
  <2>1. attempts' <= MaxAttempts
    BY <1>1, <1>2
  <2>2. Rank[row[s].status] \in 0..2
    BY <1>1, Ranks
  <2> QED
    BY <1>1, <1>2, <2>1, <2>2 DEF OneChain
<1>5. PendingIsPolled'
  BY <1>1, <1>2 DEF PendingIsPolled
<1>6. PageTypes' /\ HistoryTypes' /\ AuxTypes' /\ MismatchHasCause'
  BY ViewsKept DEF Poll
<1> QED
  BY <1>3, <1>4, <1>5, <1>6 DEF IInv, PageInv, TypeOK

\* The chain is at a poll: no timer is armed, and the poll is the only one.
LEMMA OnePoll ==
  ASSUME IInv, NEW q \in polls
  PROVE  /\ polls = {q} /\ timers = {} /\ polling /\ creating = None
         /\ q.sub \in Subs /\ q.sub = current /\ q.from \in DOMAIN Rank
         /\ row[q.sub] \in [of : Problems, status : DOMAIN Rank]
         /\ Rank[status] <= Rank[q.from] /\ attempts \in Nat /\ attempts <= MaxAttempts
<1>1. q.sub \in Subs /\ q.from \in DOMAIN Rank /\ attempts \in Nat
  BY DEF IInv, PageInv, TypeOK, HookTypes
<1>2. row[q.sub] \in [of : Problems, status : DOMAIN Rank]
  BY <1>1, Rows DEF IInv, PageInv, TypeOK
<1>3. /\ polls = {q} /\ timers = {} /\ polling /\ creating = None /\ q.sub = current
      /\ Rank[status] <= Rank[q.from] /\ attempts <= MaxAttempts
  BY DEF IInv, PageInv, OneChain
<1> QED
  BY <1>1, <1>2, <1>3

\* The chain ends: what is shown is a verdict, or the submission was given up.
LEMMA ChainEnds ==
  ASSUME IInv, polls' = {}, timers' = {}, polling' = FALSE, ref' = 0,
         current' = current, status' \in DOMAIN Rank, UNCHANGED <<row, creating, attempts>>,
         lost \subseteq lost', lost' \subseteq Subs,
         status' \in {"QUEUED", "RUNNING"} => current \in lost'
  PROVE  HookTypes' /\ OneChain' /\ PendingIsPolled'
<1>1. HookTypes'
  BY DEF IInv, PageInv, TypeOK, HookTypes, Subs
<1>2. OneChain'
  BY DEF IInv, PageInv, OneChain
<1> QED
  BY <1>1, <1>2 DEF PendingIsPolled, ShownPending

\* The answer to a poll.
LEMMA AnswerInv ==
  ASSUME IInv, NEW q \in polls, NEW answer \in DOMAIN Rank, PollAnswered(q, answer)
  PROVE  IInv' /\ current' = current /\ Rank[status'] >= Rank[status]
<1>1. /\ polls' = {} /\ current' = current /\ status' = answer
      /\ UNCHANGED <<visits, problemView, tab, listed, row, creating, attempts>>
      /\ UNCHANGED <<disturbed, faults>>
  BY OnePoll DEF PollAnswered
<1>2. /\ Rank[answer] \in Nat /\ Rank[status] \in Nat /\ Rank[q.from] \in Nat
      /\ Rank[row[q.sub].status] \in Nat
  BY OnePoll, Ranks DEF IInv, PageInv, TypeOK, HookTypes
<1>3. Rank[answer] >= Rank[status] /\ Rank[answer] <= Rank[row[q.sub].status]
  BY <1>2, OnePoll DEF PollAnswered
<1>4. PageTypes' /\ AuxTypes' /\ UNCHANGED <<loading, shown>>
  BY <1>1 DEF IInv, PageInv, TypeOK, PageTypes, AuxTypes, problemView
<1>5. CASE Terminal(answer)
  <2>1. Complete(q.sub)
    BY <1>5 DEF PollAnswered
  <2>2. /\ fetches' = fetches \cup {[visit |-> Len(visits), of |-> row[q.sub].of]}
        /\ loadingHistory' = TRUE
    BY <2>1 DEF Complete, FetchHistory
  <2>3. HistoryTypes'
    <3>1. Len(visits) \in 1..Len(visits) /\ row[q.sub].of \in Problems
      BY OnePoll DEF IInv, PageInv, TypeOK, PageTypes
    <3> QED
      BY <1>1, <2>2, <3>1 DEF IInv, PageInv, TypeOK, HistoryTypes
  <2>4. HookTypes' /\ OneChain' /\ PendingIsPolled'
    <3>1. timers' = {} /\ polling' = FALSE /\ ref' = 0 /\ lost' = lost
      BY <2>1, OnePoll DEF Complete, StopPolling
    <3>2. lost \subseteq Subs
      BY DEF IInv, PageInv, TypeOK, HookTypes
    <3> QED
      BY <1>1, <1>5, <3>1, <3>2, ChainEnds DEF Terminal
  <2>5. MismatchHasCause'
    BY <1>1, <1>4, <2>2 DEF IInv, MismatchHasCause, Rendered, Url
  <2> QED
    BY <1>1, <1>3, <1>4, <2>3, <2>4, <2>5 DEF IInv, PageInv, TypeOK
<1>6. CASE ~Terminal(answer)
  <2>1. UNCHANGED <<fetches, loadingHistory>>
    BY <1>6 DEF PollAnswered, GiveUp, Again
  <2>2. HistoryTypes' /\ MismatchHasCause'
    BY <1>1, <1>4, <2>1 DEF IInv, PageInv, TypeOK, HistoryTypes, MismatchHasCause, Rendered, Url
  <2>3. HookTypes' /\ OneChain' /\ PendingIsPolled'
    <3>1. CASE Exhausted
      <4>1. GiveUp(q.sub)
        BY <1>6, <3>1 DEF PollAnswered
      <4>2. timers' = {} /\ polling' = FALSE /\ ref' = 0 /\ lost' = lost \cup {q.sub}
        BY <4>1, OnePoll DEF GiveUp, StopPolling
      <4>3. lost' \subseteq Subs /\ current \in lost'
        BY <4>2, OnePoll DEF IInv, PageInv, TypeOK, HookTypes
      <4> QED
        BY <1>1, <4>2, <4>3, ChainEnds
    <3>2. CASE ~Exhausted
      <4>1. Again(q.sub)
        BY <1>6, <3>2 DEF PollAnswered
      <4>2. /\ timers' = {q.sub} /\ ref' = q.sub /\ UNCHANGED <<polling, lost>>
            /\ attempts' < MaxAttempts
        BY <1>1, <3>2, <4>1, OnePoll DEF Again, Exhausted
      <4>3. HookTypes'
        BY <1>1, <4>2, OnePoll DEF IInv, PageInv, TypeOK, HookTypes, Subs
      <4>4. OneChain'
        BY <1>1, <1>3, <4>2, OnePoll DEF OneChain
      <4>5. PendingIsPolled'
        BY <4>2, OnePoll DEF PendingIsPolled
      <4> QED
        BY <4>3, <4>4, <4>5
    <3> QED
      BY <3>1, <3>2
  <2> QED
    BY <1>1, <1>3, <1>4, <2>2, <2>3 DEF IInv, PageInv, TypeOK
<1> QED
  BY <1>5, <1>6

\* A poll fails.
LEMMA FailureInv ==
  ASSUME IInv, NEW q \in polls, PollFails(q)
  PROVE  IInv' /\ UNCHANGED <<current, status>>
<1>1. /\ polls' = {} /\ timers' = {} /\ polling' = FALSE /\ ref' = 0
      /\ lost' = lost \cup {q.sub}
      /\ UNCHANGED <<row, creating, attempts, current, status>>
  BY OnePoll DEF PollFails, GiveUp, StopPolling
<1>2. HookTypes' /\ OneChain' /\ PendingIsPolled'
  <2>1. lost' \subseteq Subs /\ current \in lost' /\ status' \in DOMAIN Rank
    BY <1>1, OnePoll DEF IInv, PageInv, TypeOK, HookTypes
  <2> QED
    BY <1>1, <2>1, ChainEnds
<1>3. /\ UNCHANGED <<visits, problemView, historyView, disturbed>>
      /\ faults' = faults \/ Fault
  BY DEF PollFails, GiveUp, historyView
<1> QED
  BY <1>1, <1>2, <1>3, ViewsKept DEF IInv, PageInv, TypeOK

\* The judge goes on: no status known to the page is ahead of it.
LEMMA JudgeInv ==
  ASSUME IInv, NEW s \in Subs, Judge(s)
  PROVE  IInv'
<1>1. PICK next \in DOMAIN Rank : /\ Rank[next] > Rank[row[s].status]
                                  /\ row' = [row EXCEPT ![s].status = next]
  BY DEF Judge
<1>2. /\ UNCHANGED <<visits, problemView, historyView, creating, hook, lost>>
      /\ UNCHANGED <<disturbed, faults>>
  BY DEF Judge
<1>3. s \in 1..Len(row) /\ row \in Seq([of : Problems, status : DOMAIN Rank])
  BY DEF Subs, IInv, PageInv, TypeOK, HookTypes
<1>4. /\ row' \in Seq([of : Problems, status : DOMAIN Rank]) /\ Len(row') = Len(row)
      /\ row'[s].status = next /\ \A n \in Subs \ {s} : row'[n] = row[n]
  <2> DEFINE e == [row[s] EXCEPT !.status = next]
             R == [of : Problems, status : DOMAIN Rank]
  <2>1. row' = [row EXCEPT ![s] = e]
    BY <1>1
  <2>2. e \in R /\ e.status = next
    BY Rows DEF IInv, PageInv, TypeOK
  <2> HIDE DEF e, R
  <2>3. row \in Seq(R)
    BY <1>3 DEF R
  <2>4. /\ [row EXCEPT ![s] = e] \in Seq(R) /\ Len([row EXCEPT ![s] = e]) = Len(row)
        /\ \A n \in 1..Len(row) : [row EXCEPT ![s] = e][n] = IF s = n THEN e ELSE row[n]
    BY <1>3, <2>2, <2>3, ExceptSeq
  <2> QED
    BY <1>3, <2>1, <2>2, <2>4 DEF R, Subs
<1>5. HookTypes' /\ Subs' = Subs
  BY <1>2, <1>4 DEF IInv, PageInv, TypeOK, HookTypes, hook, Subs
<1>6. \A n \in Subs : Rank[row'[n].status] >= Rank[row[n].status]
  <2>1. Rank[next] \in Nat /\ \A n \in Subs : Rank[row[n].status] \in Nat
    BY Rows, Ranks DEF IInv, PageInv, TypeOK
  <2> QED
    BY <1>1, <1>4, <2>1
<1>7. OneChain' /\ PendingIsPolled'
  <2>1. /\ Rank[status] \in Nat /\ \A q \in polls : q.sub \in Subs /\ Rank[q.from] \in Nat
        /\ timers \subseteq Subs
    BY Ranks DEF IInv, PageInv, TypeOK, HookTypes
  <2>2. \A n \in Subs : Rank[row[n].status] \in Nat /\ Rank[row'[n].status] \in Nat
    <3>1. \A n \in Subs : row[n].status \in DOMAIN Rank
      BY Rows DEF IInv, PageInv, TypeOK
    <3>2. \A n \in Subs : row'[n].status \in DOMAIN Rank
      BY <1>1, <1>4, <3>1
    <3> QED
      BY <3>1, <3>2, Ranks
  <2>3. /\ \A q \in polls : Rank[q.from] <= Rank[row'[q.sub].status]
        /\ \A n \in timers : Rank[status] <= Rank[row'[n].status]
    BY <1>6, <2>1, <2>2 DEF IInv, PageInv, OneChain
  <2> QED
    BY <1>2, <2>3 DEF IInv, PageInv, OneChain, PendingIsPolled, ShownPending, hook
<1> QED
  BY <1>2, <1>5, <1>7, ViewsKept DEF IInv, PageInv, TypeOK

\* Every step keeps the invariant, and no step goes back to an older submission
\* or an earlier status.
LEMMA StepInv ==
  ASSUME IInv, [Next]_vars
  PROVE  /\ IInv'
         /\ \/ current' > current
            \/ current' = current /\ Rank[status'] >= Rank[status]
<1> DEFINE NoStepBack == \/ current' > current
                         \/ current' = current /\ Rank[status'] >= Rank[status]
<1>1. UNCHANGED <<current, status>> => NoStepBack
  BY Ranks DEF IInv, PageInv, TypeOK, HookTypes
<1>2. UNCHANGED hook => NoStepBack
  BY <1>1 DEF hook
<1> HIDE DEF NoStepBack
<1>3. ASSUME UNCHANGED vars PROVE IInv' /\ NoStepBack
  <2>1. /\ UNCHANGED <<visits, problemView, historyView, row, creating, hook, lost>>
        /\ UNCHANGED <<disturbed, faults>>
    BY <1>3 DEF vars
  <2>2. PageTypes' /\ HistoryTypes' /\ AuxTypes' /\ MismatchHasCause'
    BY <2>1, ViewsKept
  <2>3. HookTypes' /\ OneChain' /\ PendingIsPolled'
    BY <2>1, HookKept DEF IInv
  <2> QED
    BY <1>2, <2>1, <2>2, <2>3 DEF IInv, PageInv, TypeOK
<1>4. ASSUME NEW p \in Problems, Visit(p) PROVE IInv' /\ NoStepBack
  BY <1>2, <1>4, VisitInv DEF Visit
<1>5. ASSUME NEW n \in loads, LoadAnswered(n) \/ LoadFails(n) PROVE IInv' /\ NoStepBack
  BY <1>2, <1>5, LoadInv DEF LoadAnswered, LoadFails
<1>6. ASSUME SwitchTab PROVE IInv' /\ NoStepBack
  BY <1>2, <1>6, TabInv DEF SwitchTab
<1>7. ASSUME NEW f \in fetches, HistoryAnswered(f) \/ HistoryFails(f)
      PROVE  IInv' /\ NoStepBack
  BY <1>2, <1>7, HistoryInv DEF HistoryAnswered, HistoryFails
<1>8. ASSUME Submit \/ CreateFails PROVE IInv' /\ NoStepBack
  BY <1>2, <1>8, SubmitInv DEF Submit, CreateFails
<1>9. ASSUME CreateAnswered PROVE IInv' /\ NoStepBack
  BY <1>9, CreateInv DEF NoStepBack
<1>10. ASSUME NEW s \in timers, Poll(s) PROVE IInv' /\ NoStepBack
  BY <1>1, <1>10, PollInv DEF Poll
<1>11. ASSUME NEW q \in polls, Answered(q) PROVE IInv' /\ NoStepBack
  BY <1>11, AnswerInv DEF Answered, NoStepBack
<1>12. ASSUME NEW q \in polls, PollFails(q) PROVE IInv' /\ NoStepBack
  BY <1>1, <1>12, FailureInv
<1>13. ASSUME NEW s \in Subs, Judge(s) PROVE IInv' /\ NoStepBack
  BY <1>2, <1>13, JudgeInv DEF Judge
<1>14. IInv' /\ NoStepBack
  BY <1>3, <1>4, <1>5, <1>6, <1>7, <1>8, <1>9, <1>10, <1>11, <1>12, <1>13 DEF Next
<1> QED
  BY <1>14 DEF NoStepBack

\* The page is consistent: one polling chain, which the button and the shown
\* submission agree with (ProblemDetailPage, useSubmissionPolling).
THEOREM PageInvariant == Spec => []PageInv
<1>1. IInv /\ [Next]_vars => IInv'
  BY StepInv
<1>2. IInv => PageInv
  BY DEF IInv
<1> QED
  BY <1>1, <1>2, PageInit, PTL DEF Spec

\* A problem or a history shown under another problem's URL has one of the two
\* named causes.
THEOREM MismatchHasCauseHolds == Spec => []MismatchHasCause
<1>1. IInv /\ [Next]_vars => IInv'
  BY StepInv
<1>2. IInv => MismatchHasCause
  BY DEF IInv
<1> QED
  BY <1>1, <1>2, PageInit, PTL DEF Spec

\* Late answers never take the page back to an older submission or an earlier
\* status of the one it shows.
THEOREM NeverRegressesHolds == Spec => NeverRegresses
<1>1. IInv /\ [Next]_vars => IInv'
  BY StepInv
<1>2. IInv /\ [Next]_vars
        => [\/ current' > current
            \/ current' = current /\ Rank[status'] >= Rank[status]]_<<current, status>>
  BY StepInv
<1> QED
  BY <1>1, <1>2, PageInit, PTL DEF Spec, NeverRegresses

==============================================================================
