------------------------- MODULE ClientSession_proofs -------------------------
(***************************************************************************)
(* Proofs about ClientSession: for any number of tabs, accounts and tokens *)
(* a tab shows another user than its requests are made for only for one of *)
(* the named reasons.  The two invariants are inductive together with the  *)
(* types: every step that stores a token names the other tabs as foreign,  *)
(* and every step that sets a user without a token is late or rejected.    *)
(***************************************************************************)
EXTENDS ClientSession, SequenceTheorems, TLAPS

USE SessionAssumption

\* No tab shows a user at first.
LEMMA SessionInit == Init => SessionInv
<1> SUFFICES ASSUME Init PROVE SessionInv
  OBVIOUS
<1>1. /\ owner \in Seq(Accounts) /\ Len(owner) <= MaxTokens
      /\ storage \in Tokens \cup {0}
  <2>1. CASE owner = <<>>
    BY <2>1 DEF Init, Tokens
  <2>2. ASSUME NEW a \in Accounts, owner = <<a>>
        PROVE  /\ owner \in Seq(Accounts) /\ Len(owner) <= MaxTokens
               /\ storage \in Tokens \cup {0}
    BY <2>2 DEF Init, Tokens
  <2> QED
    BY <2>1, <2>2 DEF Init
<1>2. TypeOK
  BY <1>1 DEF Init, TypeOK, Tokens, Sent
<1> QED
  BY <1>2 DEF Init, SessionInv, UserOwnsToken, GhostHasCause

\* A new token belongs to the account that signed in, and the old ones keep
\* their accounts.
LEMMA Issued ==
  ASSUME TypeOK, NEW by \in Accounts, owner' = Append(owner, by)
  PROVE  /\ owner' \in Seq(Accounts) /\ Len(owner') = Len(owner) + 1
         /\ owner'[Len(owner')] = by
         /\ \A n \in Tokens : owner'[n] = owner[n]
         /\ Tokens' = Tokens \cup {Len(owner')} /\ Tokens \subseteq Nat
BY DEF TypeOK, Tokens

\* Signing in, with a new token.
LEMMA FormSucceedsInv ==
  ASSUME SessionInv, NEW t \in Tabs, FormSucceeds(t)
  PROVE  SessionInv'
<1> DEFINE by == form[t].by
<1>1. by \in Accounts
  BY DEF SessionInv, TypeOK, FormSucceeds
<1>2. /\ owner' \in Seq(Accounts) /\ Len(owner') = Len(owner) + 1
      /\ owner'[Len(owner')] = by
      /\ Tokens' = Tokens \cup {Len(owner')} /\ Tokens \subseteq Nat
  BY <1>1, Issued DEF SessionInv, FormSucceeds
<1>3. /\ storage' = Len(owner') /\ storage' # 0 /\ storage' # storage
      /\ user' = [user EXCEPT ![t] = by] /\ foreign' = Tabs \ {t}
  BY <1>2 DEF FormSucceeds, SignIn, StoreAfresh, SessionInv, TypeOK, Tokens
<1>4. TypeOK'
  <2>1. user' \in [Tabs -> Accounts \cup {None}]
    BY <1>1, <1>3 DEF SessionInv, TypeOK
  <2>2. /\ me' \in [Tabs -> Tokens' \cup {-1}]
        /\ data' \in [Tabs -> Tokens' \cup {0, -1}]
    BY <1>2 DEF FormSucceeds, SessionInv, TypeOK
  <2>3. form' \in [Tabs -> [kind : {"login", "register"}, by : Accounts] \cup {None}]
    <3> DEFINE Forms == [kind : {"login", "register"}, by : Accounts] \cup {None}
    <3>1. form \in [Tabs -> Forms] /\ None \in Forms /\ form' = [form EXCEPT ![t] = None]
      BY DEF FormSucceeds, SessionInv, TypeOK
    <3> HIDE DEF Forms
    <3>2. form' \in [Tabs -> Forms]
      BY <3>1
    <3> QED
      BY <3>2 DEF Forms
  <2>4. valid' \subseteq Tokens' /\ storage' \in Tokens' /\ Len(owner') <= MaxTokens
    <3>1. Len(owner) \in Nat /\ Len(owner) < MaxTokens
      BY DEF FormSucceeds, SessionInv, TypeOK
    <3>2. valid' = valid \cup {Len(owner')} /\ valid \subseteq Tokens
      BY DEF FormSucceeds, SessionInv, TypeOK
    <3>3. Len(owner') <= MaxTokens
      BY <1>2, <3>1
    <3>4. Len(owner') \in Tokens' /\ \A n \in Tokens : n \in Tokens'
      BY <1>2
    <3> QED
      BY <1>3, <3>2, <3>3, <3>4
  <2>5. foreign' \subseteq Tabs /\ late' \subseteq Tabs /\ rejected' \subseteq Tabs
    BY DEF FormSucceeds, SignIn, StoreAfresh, SessionInv, TypeOK
  <2> QED
    BY <1>2, <2>1, <2>2, <2>3, <2>4, <2>5 DEF TypeOK
<1> QED
  BY <1>2, <1>3, <1>4 DEF SessionInv, TypeOK, UserOwnsToken, GhostHasCause

\* Every other step leaves the issued tokens alone.
LEMMA InitAuthInv ==
  ASSUME SessionInv, NEW t \in Tabs, InitAuth(t)
  PROVE  SessionInv'
<1>1. PICK answer \in Answers(me[t]) :
        IF answer = "ok"
          THEN /\ user' = [user EXCEPT ![t] = owner[me[t]]]
               /\ UNCHANGED <<storage, foreign>>
          ELSE /\ user' = [user EXCEPT ![t] = None] /\ Store(t, 0)
  BY DEF InitAuth
<1>2. answer = "ok" => me[t] \in Tokens /\ owner[me[t]] \in Accounts
  BY DEF InitAuth, Answers, SessionInv, TypeOK, Tokens
<1>3. user' \in [Tabs -> Accounts \cup {None}] /\ storage' \in Tokens \cup {0}
      /\ foreign' \subseteq Tabs
  BY <1>1, <1>2 DEF SessionInv, TypeOK, Store
<1>4. me' \in [Tabs -> Tokens \cup {-1}] /\ late' \subseteq Tabs
      /\ UNCHANGED <<owner, valid, form, data, rejected>>
  BY DEF SessionInv, TypeOK, InitAuth, server
<1>5. TypeOK'
  BY <1>3, <1>4 DEF SessionInv, TypeOK, Tokens, InitAuth
<1>6. UserOwnsToken' /\ GhostHasCause'
  BY DEF SessionInv, TypeOK, UserOwnsToken, GhostHasCause, InitAuth, Store,
         Answers, Tokens, IsAuthenticated, server
<1> QED
  BY <1>5, <1>6 DEF SessionInv

\* A form that fails, or a request that is answered.
LEMMA RejectedInv ==
  ASSUME SessionInv, NEW t \in Tabs, FormFails(t) \/ DataAnswered(t)
  PROVE  SessionInv'
<1>1. TypeOK'
  BY DEF SessionInv, TypeOK, FormFails, DataAnswered, Store, Answers, Tokens,
         server
<1>2. UserOwnsToken' /\ GhostHasCause'
  BY DEF SessionInv, TypeOK, UserOwnsToken, GhostHasCause, FormFails,
         DataAnswered, Store, Answers, Tokens, server
<1> QED
  BY <1>1, <1>2 DEF SessionInv

\* Loading a tab and signing out start afresh.
LEMMA AfreshInv ==
  ASSUME SessionInv, NEW t \in Tabs, Load(t) \/ Logout(t)
  PROVE  SessionInv'
<1>1. TypeOK'
  <2>1. CASE Load(t)
    <3>1. /\ me' \in [Tabs -> Tokens \cup {-1}]
          /\ data' \in [Tabs -> Tokens \cup {0, -1}]
      BY <2>1 DEF SessionInv, TypeOK, Load, Sent
    <3>2. form' \in [Tabs -> [kind : {"login", "register"}, by : Accounts] \cup {None}]
      BY <2>1 DEF SessionInv, TypeOK, Load
    <3> QED
      BY <2>1, <3>1, <3>2 DEF SessionInv, TypeOK, Load, Tokens, server
  <2>2. CASE Logout(t)
    BY <2>2 DEF SessionInv, TypeOK, Logout, SignOut, StoreAfresh, Tokens, server,
                requests
  <2> QED
    BY <2>1, <2>2
<1>2. UserOwnsToken' /\ GhostHasCause'
  BY DEF SessionInv, TypeOK, UserOwnsToken, GhostHasCause, Load, Logout,
         SignOut, StoreAfresh, server, requests
<1> QED
  BY <1>1, <1>2 DEF SessionInv

\* Sending a request changes no session, nor does the end of a token.
LEMMA SentInv ==
  ASSUME SessionInv, NEW t \in Tabs,
         \/ SendData(t)
         \/ \E kind \in {"login", "register"}, by \in Accounts : SubmitForm(t, kind, by)
  PROVE  SessionInv'
<1>1. CASE SendData(t)
  BY <1>1 DEF SessionInv, TypeOK, UserOwnsToken, GhostHasCause, SendData, Tokens,
              server, session, past
<1>2. ASSUME NEW kind \in {"login", "register"}, NEW by \in Accounts,
             SubmitForm(t, kind, by)
      PROVE  SessionInv'
  <2>1. [kind |-> kind, by |-> by] \in [kind : {"login", "register"}, by : Accounts]
    OBVIOUS
  <2>2. form' \in [Tabs -> [kind : {"login", "register"}, by : Accounts] \cup {None}]
    BY <1>2, <2>1 DEF SessionInv, TypeOK, SubmitForm
  <2> QED
    BY <1>2, <2>2 DEF SessionInv, TypeOK, UserOwnsToken, GhostHasCause, SubmitForm,
                      Tokens, server, session, past
<1> QED
  BY <1>1, <1>2

\* SessionInv (UserOwnsToken, GhostHasCause): AuthProvider and the interceptors
\* of api.ts keep user and token together, whatever requests overlap.
THEOREM SessionInvariant == Spec => []SessionInv
<1>1. Init => SessionInv
  BY SessionInit
<1>2. SessionInv /\ [Next]_vars => SessionInv'
  <2> SUFFICES ASSUME SessionInv, [Next]_vars PROVE SessionInv'
    OBVIOUS
  <2>1. CASE UNCHANGED vars
    BY <2>1 DEF SessionInv, TypeOK, UserOwnsToken, GhostHasCause, Tokens, vars,
                server, session, requests, past
  <2>2. ASSUME NEW t \in Tabs, FormSucceeds(t) PROVE SessionInv'
    BY <2>2, FormSucceedsInv
  <2>3. ASSUME NEW t \in Tabs, InitAuth(t) PROVE SessionInv'
    BY <2>3, InitAuthInv
  <2>4. ASSUME NEW t \in Tabs, FormFails(t) \/ DataAnswered(t) PROVE SessionInv'
    BY <2>4, RejectedInv
  <2>5. ASSUME NEW t \in Tabs, Load(t) \/ Logout(t) PROVE SessionInv'
    BY <2>5, AfreshInv
  <2>6. ASSUME NEW t \in Tabs,
               \/ SendData(t)
               \/ \E kind \in {"login", "register"}, by \in Accounts :
                    SubmitForm(t, kind, by)
        PROVE SessionInv'
    BY <2>6, SentInv
  <2>7. ASSUME NEW token \in Tokens, Expire(token) PROVE SessionInv'
    BY <2>7 DEF SessionInv, TypeOK, UserOwnsToken, GhostHasCause, Expire, Tokens,
                session, requests, past
  <2> QED
    BY <2>1, <2>2, <2>3, <2>4, <2>5, <2>6, <2>7 DEF Next
<1> QED
  BY <1>1, <1>2, PTL DEF Spec

\* A user is shown without a token only after a 401 or for the other two
\* reasons (the interceptor of api.ts, AuthProvider).
THEOREM GhostHasCauseHolds == Spec => []GhostHasCause
<1>1. SessionInv => GhostHasCause
  BY DEF SessionInv
<1> QED
  BY <1>1, SessionInvariant, PTL

==============================================================================
