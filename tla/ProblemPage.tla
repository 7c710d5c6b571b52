----------------------------- MODULE ProblemPage -----------------------------
(***************************************************************************)
(* ProblemDetailPage with its polling hook, in one tab of a signed-in      *)
(* browser.  A jump in the browser's history from one problem to another   *)
(* keeps the component and all its state: only the effects that depend on  *)
(* the id of the URL run again.  Nothing cancels a request, so that the    *)
(* answers of an earlier visit still arrive, in any order, and are stored  *)
(* without looking at the URL.                                             *)
(*                                                                         *)
(* The judge moves a submission from QUEUED over RUNNING to a verdict      *)
(* (DONE), as SubmissionLifecycle promises; a poll returns the status of   *)
(* some moment between its sending and its answer.  Of a problem, a        *)
(* history and a submission only the id is kept; console, editor and modal *)
(* only show this state.                                                   *)
(***************************************************************************)
EXTENDS Integers, Sequences, FiniteSets

CONSTANTS
  Problems,
  MaxAttempts,      \* maxAttempts of the polling hook (60)
  MaxVisits,        \* bound on the problems visited
  MaxSubs,          \* bound on submissions
  MaxFaults,        \* bound on failing requests
  None

ASSUME PageAssumption ==
  /\ None \notin Problems
  /\ {MaxAttempts, MaxVisits, MaxSubs} \subseteq Nat \ {0} /\ MaxFaults \in Nat

VARIABLES
  visits,           \* problems visited, the last one in the URL
  loads,            \* visits whose problem is being fetched
  loading, shown,   \* the page's state: spinner, problem or None
  tab,              \* the history tab is open
  fetches,          \* history fetches under way: [visit, of]
  loadingHistory, listed,
  row,              \* per submission: its problem and its status at the server
  creating,         \* the problem being submitted to (isSubmitting), or None
  current, status,  \* currentSubmission, 0 if none, and its status
  polling,          \* isPolling
  timers, ref,      \* armed timers and timerRef, by the submission they poll
  polls,            \* polls under way: [sub, from]
  attempts,
  lost,             \* history: submissions the hook gave up
  disturbed,        \* history: views that met, in this visit, a failure or the
                    \* answer to a fetch for another problem
  faults

problemView == <<loads, loading, shown>>
historyView == <<tab, fetches, loadingHistory, listed>>
hook == <<current, status, polling, timers, ref, polls, attempts>>
vars == <<visits, problemView, historyView, row, creating, hook, lost, disturbed, faults>>

Url   == visits[Len(visits)]
Subs  == 1..Len(row)
Rank  == [QUEUED |-> 0, RUNNING |-> 1, DONE |-> 2]

Init ==
  /\ visits \in {<<p>> : p \in Problems} /\ loads = {1} /\ loading = TRUE
  /\ shown = None /\ tab = FALSE /\ fetches = {} /\ loadingHistory = FALSE
  /\ listed = None /\ row = <<>> /\ creating = None /\ current = 0
  /\ status = "DONE" /\ polling = FALSE /\ timers = {} /\ ref = 0 /\ polls = {}
  /\ attempts = 0 /\ lost = {} /\ disturbed = {} /\ faults = 0

Fault == faults < MaxFaults /\ faults' = faults + 1

------------------------------------------------------------------------------
(* What the page fetches when the URL changes *)

\* Bug: the effect has no dependency.
FetchOnce == UNCHANGED <<loads, loading>>

\* The effect of fetchProblem.
Refetch == loads' = loads \cup {Len(visits) + 1} /\ loading' = TRUE

\* fetchHistory for problem p, called in visit n.
FetchHistory(n, p) ==
  fetches' = fetches \cup {[visit |-> n, of |-> p]} /\ loadingHistory' = TRUE

Visit(p) ==
  /\ Len(visits) < MaxVisits /\ p # Url
  /\ visits' = Append(visits, p)
  /\ Refetch
  /\ IF tab THEN FetchHistory(Len(visits) + 1, p)
     ELSE UNCHANGED <<fetches, loadingHistory>>
  /\ disturbed' = {}
  /\ UNCHANGED <<shown, tab, listed, row, creating, hook, lost, faults>>

\* A view has stored the answer to a fetch for p, or met a failure.
Disturb(view, p) ==
  disturbed' = IF p = Url THEN disturbed ELSE disturbed \cup {view}

LoadAnswered(n) ==
  /\ n \in loads
  /\ shown' = visits[n]
  /\ loads' = loads \ {n} /\ loading' = FALSE
  /\ Disturb("problem", visits[n])
  /\ UNCHANGED <<visits, historyView, row, creating, hook, lost, faults>>

LoadFails(n) ==
  /\ n \in loads /\ Fault
  /\ loads' = loads \ {n} /\ loading' = FALSE
  /\ Disturb("problem", None)
  /\ UNCHANGED <<visits, shown, historyView, row, creating, hook, lost>>

\* The page is there, not the spinner or "Problem Not Found".
Rendered == ~loading /\ shown # None

\* setActiveTab, and its effect.
SwitchTab ==
  /\ Rendered
  /\ tab' = ~tab
  /\ IF tab' THEN FetchHistory(Len(visits), Url)
     ELSE UNCHANGED <<fetches, loadingHistory>>
  /\ UNCHANGED <<visits, problemView, listed, row, creating, hook, lost, disturbed,
                 faults>>

HistoryAnswered(f) ==
  /\ f \in fetches
  /\ listed' = f.of
  /\ fetches' = fetches \ {f} /\ loadingHistory' = FALSE
  /\ Disturb("history", f.of)
  /\ UNCHANGED <<visits, problemView, tab, row, creating, hook, lost, faults>>

HistoryFails(f) ==
  /\ f \in fetches /\ Fault
  /\ fetches' = fetches \ {f} /\ loadingHistory' = FALSE
  /\ Disturb("history", None)
  /\ UNCHANGED <<visits, problemView, tab, listed, row, creating, hook, lost>>

------------------------------------------------------------------------------
(* Submitting *)

\* Bug: the button is only disabled while the submission is created.
MaySubmitWhilePolling == Rendered /\ creating = None

\* The button is not disabled.
MaySubmit == Rendered /\ creating = None /\ ~polling

\* The problem of the URL is submitted to, whatever the page shows.
Submit ==
  /\ MaySubmit /\ Len(row) < MaxSubs
  /\ creating' = Url
  /\ UNCHANGED <<visits, problemView, historyView, row, hook, lost, disturbed, faults>>

\* startPolling: createSubmission returns a row that is QUEUED.
StartPolling(s) ==
  /\ current' = s /\ status' = "QUEUED" /\ polling' = TRUE /\ attempts' = 0
  /\ timers' = (timers \ {ref}) \cup {s} /\ ref' = s
  /\ UNCHANGED polls

CreateAnswered ==
  /\ creating # None
  /\ row' = Append(row, [of |-> creating, status |-> "QUEUED"])
  /\ StartPolling(Len(row) + 1)
  /\ creating' = None
  /\ UNCHANGED <<visits, problemView, historyView, lost, disturbed, faults>>

\* A refusal, or an answer that is lost.
CreateFails ==
  /\ creating # None /\ Fault
  /\ creating' = None
  /\ UNCHANGED <<visits, problemView, historyView, row, hook, lost, disturbed>>

------------------------------------------------------------------------------
(* Polling *)

\* A poll starts when its timer fires.
Poll(s) ==
  /\ s \in timers
  /\ timers' = timers \ {s}
  /\ attempts' = attempts + 1
  /\ polls' = polls \cup {[sub |-> s, from |-> row[s].status]}
  /\ UNCHANGED <<visits, problemView, historyView, row, creating, current, status,
                 polling, ref, lost, disturbed, faults>>

StopPolling == timers' = timers \ {ref} /\ ref' = 0 /\ polling' = FALSE

\* Bug: a submission that is being judged counts as judged.
TerminalUnlessQueued(s) == s # "QUEUED"

Terminal(s) == s \notin {"QUEUED", "RUNNING"}

\* Bug: the safeguard is missing.
NeverExhausted == FALSE

Exhausted == attempts >= MaxAttempts

\* What VerdictCard and ExecutionModal take as still being judged.
ShownPending == polling \/ status \in {"QUEUED", "RUNNING"}

\* onComplete runs the fetchHistory of the render that submitted.
Complete(s) ==
  /\ StopPolling
  /\ FetchHistory(Len(visits), row[s].of)
  /\ UNCHANGED lost

\* Bug: isPolling is left set.
GiveUpSilently(s) ==
  /\ lost' = lost \cup {s}
  /\ UNCHANGED <<fetches, loadingHistory, timers, ref, polling>>

GiveUp(s) ==
  /\ StopPolling
  /\ lost' = lost \cup {s}
  /\ UNCHANGED <<fetches, loadingHistory>>

Again(s) ==
  /\ timers' = timers \cup {s} /\ ref' = s
  /\ UNCHANGED <<polling, lost, fetches, loadingHistory>>

PollAnswered(q, answer) ==
  /\ q \in polls
  /\ Rank[answer] \in Rank[q.from]..Rank[row[q.sub].status]
  /\ polls' = polls \ {q}
  /\ current' = q.sub /\ status' = answer
  /\ IF Terminal(answer) THEN Complete(q.sub)
     ELSE IF Exhausted THEN GiveUp(q.sub)
     ELSE Again(q.sub)
  /\ UNCHANGED <<visits, problemView, tab, listed, row, creating, attempts, disturbed,
                 faults>>

PollFails(q) ==
  /\ q \in polls /\ Fault
  /\ polls' = polls \ {q}
  /\ GiveUp(q.sub)
  /\ UNCHANGED <<visits, problemView, tab, listed, row, creating, current, status,
                 attempts, disturbed>>

\* The judge goes on with a submission.
Judge(s) ==
  /\ \E next \in DOMAIN Rank :
       /\ Rank[next] > Rank[row[s].status]
       /\ row' = [row EXCEPT ![s].status = next]
  /\ UNCHANGED <<visits, problemView, historyView, creating, hook, lost, disturbed, faults>>

------------------------------------------------------------------------------
Answered(q) == \E answer \in DOMAIN Rank : PollAnswered(q, answer)

Next ==
  \/ \E p \in Problems : Visit(p)
  \/ \E n \in loads : LoadAnswered(n) \/ LoadFails(n)
  \/ SwitchTab \/ (\E f \in fetches : HistoryAnswered(f) \/ HistoryFails(f))
  \/ Submit \/ CreateAnswered \/ CreateFails
  \/ \E s \in timers : Poll(s)
  \/ \E q \in polls : Answered(q) \/ PollFails(q)
  \/ \E s \in Subs : Judge(s)

\* Timers fire and polls are answered or fail; the judge may never finish.
Spec ==
  /\ Init /\ [][Next]_vars
  /\ WF_vars(\E s \in timers : Poll(s))
  /\ WF_vars(\E q \in polls : Answered(q) \/ PollFails(q))

------------------------------------------------------------------------------
(* Properties *)

PageTypes ==
  /\ visits \in Seq(Problems) /\ visits # <<>> /\ loads \subseteq 1..Len(visits)
  /\ shown \in Problems \cup {None} /\ loading \in BOOLEAN

HistoryTypes ==
  /\ fetches \subseteq [visit : 1..Len(visits), of : Problems]
  /\ listed \in Problems \cup {None} /\ tab \in BOOLEAN /\ loadingHistory \in BOOLEAN

HookTypes ==
  /\ row \in Seq([of : Problems, status : DOMAIN Rank])
  /\ creating \in Problems \cup {None} /\ current \in 0..Len(row)
  /\ status \in DOMAIN Rank /\ timers \subseteq Subs /\ ref \in Subs \cup {0}
  /\ polls \subseteq [sub : Subs, from : DOMAIN Rank] /\ polling \in BOOLEAN
  /\ attempts \in Nat /\ lost \subseteq Subs

AuxTypes == disturbed \subseteq {"problem", "history"} /\ faults \in 0..MaxFaults

TypeOK == PageTypes /\ HistoryTypes /\ HookTypes /\ AuxTypes

\* One chain of timers and polls follows the submission that is shown while the
\* button is disabled, however visits and answers interleave, and none when it
\* is not: it sends at most MaxAttempts polls, none of which can return an
\* earlier status than the one shown.
OneChain ==
  /\ polling <=> timers # {} \/ polls # {}
  /\ polling => creating = None
  /\ polls # {} => timers = {}
  /\ \A q, other \in polls : q = other
  /\ timers \subseteq {current}
  /\ \A q \in polls : q.sub = current /\ Rank[status] <= Rank[q.from]
  /\ \A s \in timers : Rank[status] <= Rank[row[s].status] /\ attempts < MaxAttempts
  /\ \A q \in polls : Rank[q.from] <= Rank[row[q.sub].status]
  /\ attempts <= MaxAttempts

\* A submission that is shown as pending is followed, or was given up after a
\* failed poll or the last attempt.
PendingIsPolled == ShownPending => polling \/ current \in lost

PageInv == TypeOK /\ OneChain /\ PendingIsPolled

\* The page never goes back to an older submission or an earlier status.
NeverRegresses ==
  [][\/ current' > current
     \/ current' = current /\ Rank[status'] >= Rank[status]]_<<current, status>>

\* What is shown belongs to the URL once its fetch has ended, except when, since
\* the URL changed, a fetch failed or one for another problem was answered.
MismatchHasCause ==
  /\ Rendered /\ shown # Url => "problem" \in disturbed
  /\ tab /\ ~loadingHistory /\ listed # Url => "history" \in disturbed

\* The button does not stay disabled, even if the judge never finishes.
PollingEnds == polling ~> ~polling

==============================================================================
