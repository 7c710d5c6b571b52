---------------------------- MODULE ClientSession ----------------------------
(***************************************************************************)
(* Who is signed in: the tabs of one browser share the token in            *)
(* localStorage, and each keeps its own user in the state of AuthProvider. *)
(*                                                                         *)
(* Requests are answered late and in any order, and a handler changes the  *)
(* shared token without looking at which token its request was sent with.  *)
(* No code listens to the changes other tabs make.  What the server        *)
(* answers is given by the token: 401 only to one that is missing or       *)
(* expired, or to a wrong password; any request may fail otherwise.        *)
(***************************************************************************)
EXTENDS Integers, Sequences

CONSTANTS
  Tabs, Accounts,
  MaxTokens,        \* bound on the tokens the server issues
  None

ASSUME SessionAssumption == MaxTokens \in Nat \ {0} /\ None \notin Accounts

VARIABLES
  owner,            \* the account of each token the server issued
  valid,            \* the tokens that have not expired
  storage,          \* localStorage: a token, or 0
  user,             \* per tab: the user of AuthProvider, or None
  me,               \* per tab: token that initAuth sent /auth/me with, or -1
  form,             \* per tab: [kind, by] of the form under way, or None
  data,             \* per tab: token of another request under way, or -1
  foreign,          \* history: tabs whose token another tab changed since they
                    \* loaded, signed in or signed out
  late,             \* history: tabs where /auth/me was answered after that
  rejected          \* history: tabs that met a 401 after that

session == <<storage, user>>
requests == <<me, form, data>>
server == <<owner, valid>>
past   == <<foreign, late, rejected>>
vars   == <<server, session, requests, past>>

Tokens == 1..Len(owner)

TypeOK ==
  /\ owner \in Seq(Accounts) /\ Len(owner) <= MaxTokens
  /\ valid \subseteq Tokens /\ storage \in Tokens \cup {0}
  /\ user \in [Tabs -> Accounts \cup {None}]
  /\ me \in [Tabs -> Tokens \cup {-1}]
  /\ form \in [Tabs -> [kind : {"login", "register"}, by : Accounts] \cup {None}]
  /\ data \in [Tabs -> Tokens \cup {0, -1}]
  /\ foreign \subseteq Tabs /\ late \subseteq Tabs /\ rejected \subseteq Tabs

\* initAuth asks only if there is a token.
Sent(token) == IF token = 0 THEN -1 ELSE token

\* The browser may hold a token of an earlier visit, valid or not.
Init ==
  /\ owner \in {<<>>} \cup {<<a>> : a \in Accounts}
  /\ valid \in SUBSET (1..Len(owner)) /\ storage = Len(owner)
  /\ user = [t \in Tabs |-> None]
  /\ me = [t \in Tabs |-> Sent(storage)]
  /\ form = [t \in Tabs |-> None] /\ data = [t \in Tabs |-> -1]
  /\ foreign = {} /\ late = {} /\ rejected = {}

IsAuthenticated(t) == user[t] # None

\* Answers a request may get that was sent with a token; "fails" is any error
\* but 401: network, limits, 404, 500.
Answers(token) ==
  {"fails"} \cup (IF token # 0 THEN {"ok"} ELSE {})
            \cup (IF token \notin valid THEN {"401"} ELSE {})

------------------------------------------------------------------------------
(* The token in localStorage *)

\* The other tabs do not learn of it.
Store(t, token) ==
  /\ storage' = token
  /\ foreign' = IF token = storage THEN foreign
                ELSE foreign \cup (Tabs \ {t})

\* A tab that reads or writes token and user together starts afresh.
StoreAfresh(t, token) ==
  /\ storage' = token
  /\ foreign' = IF token = storage THEN foreign \ {t} ELSE Tabs \ {t}
  /\ rejected' = rejected \ {t} /\ late' = late \ {t}

------------------------------------------------------------------------------
(* AuthProvider *)

\* A tab is opened or reloaded: initAuth asks who the token belongs to.
Load(t) ==
  /\ me' = [me EXCEPT ![t] = Sent(storage)]
  /\ user' = [user EXCEPT ![t] = None]
  /\ form' = [form EXCEPT ![t] = None]
  /\ data' = [data EXCEPT ![t] = -1]
  /\ foreign' = foreign \ {t} /\ late' = late \ {t} /\ rejected' = rejected \ {t}
  /\ UNCHANGED <<server, storage>>

\* A 401, like any other error, ends the session there is by now.
InitAuth(t) ==
  /\ me[t] # -1
  /\ me' = [me EXCEPT ![t] = -1]
  /\ \E answer \in Answers(me[t]) :
       IF answer = "ok"
         THEN /\ user' = [user EXCEPT ![t] = owner[me[t]]]
              /\ UNCHANGED <<storage, foreign>>
         ELSE /\ user' = [user EXCEPT ![t] = None]
              /\ Store(t, 0)
  /\ late' = IF storage = me[t] /\ ~IsAuthenticated(t) THEN late ELSE late \cup {t}
  /\ UNCHANGED <<server, form, data, rejected>>

\* The pages of both forms are open to everybody, also while initAuth waits.
SubmitForm(t, kind, by) ==
  /\ form[t] = None
  /\ form' = [form EXCEPT ![t] = [kind |-> kind, by |-> by]]
  /\ UNCHANGED <<server, session, me, data, past>>

\* Bug: the user is left as it was.
SignInStoresToken(t, by, token) ==
  StoreAfresh(t, token) /\ UNCHANGED user

SignIn(t, by, token) ==
  StoreAfresh(t, token) /\ user' = [user EXCEPT ![t] = by]

FormSucceeds(t) ==
  /\ form[t] # None /\ Len(owner) < MaxTokens
  /\ owner' = Append(owner, form[t].by)
  /\ valid' = valid \cup {Len(owner')}
  /\ SignIn(t, form[t].by, Len(owner'))
  /\ form' = [form EXCEPT ![t] = None]
  /\ UNCHANGED <<me, data>>

\* A wrong password is a 401, too: the interceptor removes the token of
\* whoever is signed in.
FormFails(t) ==
  /\ form[t] # None
  /\ form' = [form EXCEPT ![t] = None]
  /\ \/ UNCHANGED <<storage, foreign, rejected>>
     \/ form[t].kind = "login" /\ Store(t, 0) /\ rejected' = rejected \cup {t}
  /\ UNCHANGED <<server, user, me, data, late>>

\* Bug: only the token is removed.
SignOutKeepsUser(t) == StoreAfresh(t, 0) /\ UNCHANGED user

SignOut(t) == StoreAfresh(t, 0) /\ user' = [user EXCEPT ![t] = None]

Logout(t) ==
  /\ IsAuthenticated(t)
  /\ SignOut(t)
  /\ UNCHANGED <<server, requests>>

------------------------------------------------------------------------------
(* Requests of the pages *)

\* Pages behind ProtectedRoute, and what others do only for signed-in users.
SendData(t) ==
  /\ IsAuthenticated(t) /\ data[t] = -1
  /\ data' = [data EXCEPT ![t] = storage]
  /\ UNCHANGED <<server, session, me, form, past>>

\* The interceptor removes the token there is by now; AuthProvider keeps its
\* user.
DataAnswered(t) ==
  /\ data[t] # -1
  /\ data' = [data EXCEPT ![t] = -1]
  /\ \E answer \in Answers(data[t]) :
       IF answer = "401" THEN Store(t, 0) /\ rejected' = rejected \cup {t}
       ELSE UNCHANGED <<storage, foreign, rejected>>
  /\ UNCHANGED <<server, user, me, form, late>>

Expire(token) ==
  /\ token \in valid
  /\ valid' = valid \ {token}
  /\ UNCHANGED <<owner, session, requests, past>>

------------------------------------------------------------------------------
(* Specification *)

Next ==
  \/ \E t \in Tabs :
       \/ Load(t) \/ InitAuth(t) \/ FormSucceeds(t) \/ FormFails(t) \/ Logout(t)
       \/ SendData(t) \/ DataAnswered(t)
       \/ \E kind \in {"login", "register"}, by \in Accounts : SubmitForm(t, kind, by)
  \/ \E token \in Tokens : Expire(token)

Spec == Init /\ [][Next]_vars

------------------------------------------------------------------------------
(* Properties *)

\* The user a tab shows is the one its requests are made for, unless another
\* tab changed the token, or /auth/me was answered after the user had signed in.
UserOwnsToken ==
  \A t \in Tabs \ (foreign \cup late) :
    user[t] # None /\ storage # 0 => owner[storage] = user[t]

\* A tab shows a signed-in user without a token only after a 401, or for the
\* same two reasons.
GhostHasCause ==
  \A t \in Tabs \ (foreign \cup late \cup rejected) : user[t] # None => storage # 0

\* The inductive invariant: the two and the types of what they relate.
SessionInv == TypeOK /\ UserOwnsToken /\ GhostHasCause

==============================================================================
