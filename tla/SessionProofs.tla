---------------------------- MODULE SessionProofs ----------------------------
(***************************************************************************)
(* Whose tokens a tab holds and sends, and what a logout ends, proved for  *)
(* any number of tabs, users, logins and requests and any lives of tokens. *)
(***************************************************************************)
EXTENDS AuthSession, TLAPS

----------------------------------------------------------------------------
(* Values and their types. *)

LEMMA TokensHaveOwners ==
  ASSUME NEW tokens \in Tokens
  PROVE  tokens # NoTokens <=> tokens.owner \in Users
BY SessionConstants DEF Tokens, NoTokens

LEMMA TimesAdd ==
  ASSUME NEW t \in 0..MaxTime
  PROVE  t + AccessLife \in 0..(MaxTime + AccessLife)
BY SessionConstants

LEMMA IssuedIsTokens ==
  ASSUME now \in 0..MaxTime, NEW u \in Users
  PROVE  Issued(u) \in Tokens /\ Issued(u) # NoTokens /\ Issued(u).owner = u
<1>1. Issued(u) \in Tokens /\ Issued(u).owner = u
  BY TimesAdd DEF Issued, Tokens
<1>2. QED
  BY <1>1, TokensHaveOwners

LEMMA KeptIsTokens ==
  ASSUME now \in 0..MaxTime, NEW tokens \in Tokens, tokens # NoTokens
  PROVE  Kept(tokens) \in Tokens /\ Kept(tokens) # NoTokens /\ Kept(tokens).owner = tokens.owner
<1>1. Kept(tokens) \in Tokens /\ Kept(tokens).owner = tokens.owner
  BY TimesAdd DEF Kept, Tokens
<1>2. QED
  BY <1>1, TokensHaveOwners

LEMMA NoTokensType == NoTokens \in Tokens
BY DEF Tokens

LEMMA SignedOutIsState ==
  ASSUME NEW status \in {"checking", "unauthenticated"}
  PROVE  /\ SignedOut(status) \in AuthState
         /\ SignedOut(status).user = NoUser
         /\ SignedOut(status).tokens = NoTokens
BY NoTokensType DEF SignedOut, AuthState

LEMMA EndedCalls ==
  /\ \A phase \in {"idle", "done", "failed"} : EndedLogin(phase) \in Login
  /\ \A phase \in {"idle", "done", "forbidden", "failed"} : EndedRequest(phase) \in Request
<1>1. (CHOOSE t \in Tabs : TRUE) \in Tabs
  BY SessionConstants
<1>2. QED
  BY <1>1, NoTokensType DEF EndedLogin, EndedRequest, Login, Request, Panels

LEMMA NoRefreshType == NoRefresh \in Refresh
BY NoTokensType DEF NoRefresh, Refresh

----------------------------------------------------------------------------
(* Type correctness. *)

\* A session that is stored has tokens, and a refresh has some to send: without
\* this an answer would be given to nobody.
StoredSessionsHaveTokens == storage = NoSession \/ storage.tokens # NoTokens

RefreshesHaveTokens ==
  \A t \in Tabs : refreshes[t].phase # "idle" => refreshes[t].tokens # NoTokens

TypeInv == TypeOK /\ StoredSessionsHaveTokens /\ RefreshesHaveTokens

LEMMA BecomesTypes ==
  ASSUME TypeOK, NEW t \in Tabs, NEW new \in AuthState, Becomes(t, new)
  PROVE  /\ state' \in [Tabs -> AuthState]
         /\ due' \subseteq Tabs
         /\ state'[t] = new
         /\ \A s \in Tabs : s # t => state'[s] = state[s]
BY DEF Becomes, TypeOK

LEMMA ClearSessionTypes ==
  ASSUME TypeOK, NEW t \in Tabs, ClearSession(t)
  PROVE  /\ storage' = NoSession
         /\ storage' \in [tokens : Tokens, user : Users \cup {NoUser}]
         /\ removals' \subseteq Tabs
         /\ storage # NoSession => removals' = removals \cup (Tabs \ {t})
         /\ storage = NoSession => removals' = removals
BY NoTokensType DEF ClearSession, NoSession, TypeOK

\* A refresh that is out already is left as it is.
LEMMA RefreshedTypes ==
  ASSUME TypeInv, NEW t \in Tabs, NEW tokens \in Tokens, tokens # NoTokens,
         NEW user \in Users \cup {NoUser}, refreshes' = Refreshed(t, tokens, user)
  PROVE  /\ refreshes' \in [Tabs -> Refresh]
         /\ RefreshesHaveTokens'
         /\ \A s \in Tabs : s # t => refreshes'[s] = refreshes[s]
         /\ refreshes[t].phase # "idle" => refreshes'[t] = refreshes[t]
         /\ refreshes[t].phase = "idle" =>
              refreshes'[t].tokens = tokens /\ refreshes'[t].user = user
         /\ refreshes'[t].phase # "idle"
<1>1. refreshes \in [Tabs -> Refresh]
  BY DEF TypeInv, TypeOK
<1> DEFINE sent == [phase |-> "sent", tokens |-> tokens, user |-> user]
<1>2. sent \in Refresh /\ sent.phase = "sent" /\ sent.tokens = tokens /\ sent.user = user
  BY DEF Refresh
<1>3. refreshes' = IF refreshes[t].phase = "idle" THEN [refreshes EXCEPT ![t] = sent]
                   ELSE refreshes
  BY DEF Refreshed
<1> HIDE DEF sent
<1>4. CASE refreshes[t].phase = "idle"
  BY <1>1, <1>2, <1>3, <1>4 DEF TypeInv, RefreshesHaveTokens
<1>5. CASE refreshes[t].phase # "idle"
  BY <1>1, <1>3, <1>5 DEF TypeInv, RefreshesHaveTokens
<1>6. QED
  BY <1>4, <1>5

LEMMA ResumedTypes ==
  ASSUME TypeOK, NEW t \in Tabs, NEW tokens \in Tokens
  PROVE  Resumed(t, tokens) \in [1..RequestCount -> Request]
<1>1. ASSUME NEW n \in 1..RequestCount PROVE Resumed(t, tokens)[n] \in Request
  <2>1. requests[n] \in Request
    BY DEF TypeOK
  <2>2. EndedRequest("failed") \in Request
    BY EndedCalls
  <2>3. [requests[n] EXCEPT !.phase = "sent", !.used = tokens] \in Request
    BY <2>1 DEF Request
  <2>4. [requests[n] EXCEPT !.phase = "resent", !.used = tokens] \in Request
    BY <2>1 DEF Request
  <2>5. QED
    BY <2>1, <2>2, <2>3, <2>4 DEF Resumed
<1>2. QED
  BY <1>1 DEF Resumed

LEMMA InitTypeInv ==
  ASSUME Init
  PROVE  TypeInv
<1>1. SignedOut("checking") \in AuthState
  BY SignedOutIsState
<1>2. storage \in [tokens : Tokens, user : Users \cup {NoUser}] /\ StoredSessionsHaveTokens
  <2>1. CASE storage = NoSession
    BY <2>1, NoTokensType DEF NoSession, StoredSessionsHaveTokens
  <2>2. ASSUME NEW u \in Users,
               storage = [tokens |-> [owner |-> u, issued |-> 0, expiresAt |-> AccessLife],
                          user |-> u]
        PROVE  storage.tokens \in Tokens /\ storage.tokens # NoTokens
    <3>1. 0 \in 0..MaxTime /\ AccessLife \in 0..(MaxTime + AccessLife)
      BY SessionConstants
    <3>2. storage.tokens \in Tokens /\ storage.tokens.owner \in Users
      BY <2>2, <3>1 DEF Tokens
    <3>3. QED
      BY <3>2, TokensHaveOwners
  <2>3. QED
    BY <2>1, <2>2 DEF Init, StoredSessionsHaveTokens
<1>3. RefreshesHaveTokens
  BY DEF Init, RefreshesHaveTokens, NoRefresh
<1>4. 0 \in 0..MaxTime
  BY SessionConstants
<1>5. TypeOK
  BY <1>1, <1>2, <1>4, NoRefreshType, EndedCalls DEF Init, TypeOK
<1>6. QED
  BY <1>2, <1>3, <1>5 DEF TypeInv

\* What a step leaves alone keeps its type.
LEMMA RestoreTypes ==
  ASSUME TypeInv, NEW t \in Tabs, Restore(t)
  PROVE  TypeInv'
<1>1. /\ storage \in [tokens : Tokens, user : Users \cup {NoUser}]
      /\ state \in [Tabs -> AuthState] /\ due \subseteq Tabs
      /\ now' = now /\ storage' = storage /\ logins' = logins /\ requests' = requests
      /\ removals' = removals /\ loggedOut' = loggedOut
  BY DEF Restore, TypeInv, TypeOK
<1>2. overtaken' \in BOOLEAN
  BY DEF Restore, TypeInv, TypeOK
<1>3. CASE storage = NoSession
  <2>1. state' = [state EXCEPT ![t] = SignedOut("unauthenticated")] /\ refreshes' = refreshes
    BY <1>3 DEF Restore
  <2>2. state' \in [Tabs -> AuthState]
    BY <1>1, <2>1, SignedOutIsState
  <2>3. due' \subseteq Tabs
    BY <1>1, <1>3 DEF Restore
  <2>4. QED
    BY <1>1, <1>2, <2>1, <2>2, <2>3 DEF TypeInv, TypeOK, StoredSessionsHaveTokens,
                                        RefreshesHaveTokens
<1>4. CASE storage # NoSession
  <2> DEFINE new == [status |-> "authenticated", user |-> storage.user,
                     tokens |-> storage.tokens, isAuthenticating |-> FALSE]
  <2>1. /\ state' = [state EXCEPT ![t] = new] /\ due' = due
        /\ refreshes' = IF IsTokenExpired(storage.tokens)
                        THEN Refreshed(t, storage.tokens, state[t].user) ELSE refreshes
    BY <1>4 DEF Restore
  <2>2. new \in AuthState
    BY <1>1 DEF AuthState
  <2> HIDE DEF new
  <2>3. state' \in [Tabs -> AuthState]
    BY <1>1, <2>1, <2>2
  <2>4. storage.tokens \in Tokens /\ storage.tokens # NoTokens
    BY <1>1, <1>4 DEF TypeInv, StoredSessionsHaveTokens
  <2>5. state[t].user \in Users \cup {NoUser}
    BY <1>1 DEF AuthState
  <2>6. refreshes' \in [Tabs -> Refresh] /\ RefreshesHaveTokens'
    <3>1. CASE IsTokenExpired(storage.tokens)
      <4>1. refreshes' = Refreshed(t, storage.tokens, state[t].user)
        BY <2>1, <3>1
      <4>2. QED
        BY <4>1, <2>4, <2>5, RefreshedTypes
    <3>2. CASE ~IsTokenExpired(storage.tokens)
      BY <2>1, <3>2 DEF TypeInv, TypeOK, RefreshesHaveTokens
    <3>3. QED
      BY <3>1, <3>2
  <2>7. QED
    BY <1>1, <1>2, <2>1, <2>3, <2>6 DEF TypeInv, TypeOK, StoredSessionsHaveTokens
<1>5. QED
  BY <1>3, <1>4

LEMMA NoSessionType ==
  NoSession \in [tokens : Tokens, user : Users \cup {NoUser}]
BY NoTokensType DEF NoSession

LEMMA HandleRemovalTypes ==
  ASSUME TypeInv, NEW t \in Tabs, HandleRemoval(t)
  PROVE  TypeInv'
<1>1. TypeOK
  BY DEF TypeInv
<1>2. overtaken' \in BOOLEAN /\ removals' \subseteq Tabs
  BY <1>1 DEF HandleRemoval, TypeOK
<1>3. state' \in [Tabs -> AuthState] /\ due' \subseteq Tabs
  BY <1>1, SignedOutIsState, BecomesTypes DEF HandleRemoval
<1>4. QED
  BY <1>2, <1>3, NoSessionType
     DEF HandleRemoval, TypeInv, TypeOK, StoredSessionsHaveTokens, RefreshesHaveTokens

LEMMA LogoutTypes ==
  ASSUME TypeInv, NEW t \in Tabs, Logout(t)
  PROVE  TypeInv'
<1>1. TypeOK
  BY DEF TypeInv
<1>2. overtaken' \in BOOLEAN /\ loggedOut' \in BOOLEAN
  BY <1>1 DEF Logout, TypeOK
<1>3. state' \in [Tabs -> AuthState] /\ due' \subseteq Tabs
  BY <1>1, SignedOutIsState, BecomesTypes DEF Logout
<1>4. /\ storage' = NoSession /\ removals' \subseteq Tabs
      /\ storage' \in [tokens : Tokens, user : Users \cup {NoUser}]
  BY <1>1, ClearSessionTypes DEF Logout
<1>5. QED
  BY <1>2, <1>3, <1>4
     DEF Logout, TypeInv, TypeOK, StoredSessionsHaveTokens, RefreshesHaveTokens

LEMMA RefreshSucceedsTypes ==
  ASSUME TypeInv, NEW t \in Tabs, RefreshSucceeds(t)
  PROVE  TypeInv'
<1> DEFINE tokens == Kept(refreshes[t].tokens)
           new    == [state[t] EXCEPT !.status = "authenticated", !.tokens = tokens,
                                      !.isAuthenticating = FALSE]
<1>1. /\ TypeOK /\ refreshes[t] \in Refresh /\ state[t] \in AuthState /\ now \in 0..MaxTime
      /\ refreshes[t].tokens # NoTokens
  BY DEF TypeInv, TypeOK, RefreshesHaveTokens, RefreshSucceeds
<1>2. tokens \in Tokens /\ tokens # NoTokens
  BY <1>1, KeptIsTokens DEF Refresh
<1>3. /\ refreshes' = [refreshes EXCEPT ![t] = NoRefresh]
      /\ Becomes(t, new) /\ storage' = Stored(tokens, refreshes[t].user)
      /\ requests' = Resumed(t, tokens)
      /\ UNCHANGED <<now, logins, removals, overtaken, loggedOut>>
  BY DEF RefreshSucceeds
<1> HIDE DEF tokens
<1>4. new \in AuthState
  BY <1>1, <1>2 DEF AuthState
<1>5. storage' \in [tokens : Tokens, user : Users \cup {NoUser}] /\ storage'.tokens = tokens
  BY <1>1, <1>2, <1>3 DEF Stored, Refresh
<1>6. requests' \in [1..RequestCount -> Request]
  BY <1>1, <1>2, <1>3, ResumedTypes
<1>7. refreshes' \in [Tabs -> Refresh] /\ RefreshesHaveTokens'
  BY <1>3, NoRefreshType DEF TypeInv, TypeOK, RefreshesHaveTokens, NoRefresh
<1> HIDE DEF new
<1>8. state' \in [Tabs -> AuthState] /\ due' \subseteq Tabs
  BY <1>1, <1>3, <1>4, BecomesTypes
<1>9. QED
  BY <1>1, <1>2, <1>3, <1>5, <1>6, <1>7, <1>8 DEF TypeInv, TypeOK, StoredSessionsHaveTokens

LEMMA RefreshFailsTypes ==
  ASSUME TypeInv, NEW t \in Tabs, RefreshFails(t)
  PROVE  TypeInv'
<1>1. TypeOK
  BY DEF TypeInv
<1>2. overtaken' \in BOOLEAN
  BY <1>1 DEF RefreshFails, TypeOK
<1>3. state' \in [Tabs -> AuthState] /\ due' \subseteq Tabs
  BY <1>1, SignedOutIsState, BecomesTypes DEF RefreshFails
<1>4. /\ storage' = NoSession /\ removals' \subseteq Tabs
      /\ storage' \in [tokens : Tokens, user : Users \cup {NoUser}]
  BY <1>1, ClearSessionTypes DEF RefreshFails
<1>5. requests' \in [1..RequestCount -> Request]
  BY <1>1, NoTokensType, ResumedTypes DEF RefreshFails
<1>6. refreshes' \in [Tabs -> Refresh] /\ RefreshesHaveTokens'
  BY NoRefreshType DEF RefreshFails, TypeInv, TypeOK, RefreshesHaveTokens, NoRefresh
<1>7. QED
  BY <1>1, <1>2, <1>3, <1>4, <1>5, <1>6 DEF RefreshFails, TypeInv, TypeOK, StoredSessionsHaveTokens

LEMMA AnswerRefreshTypes ==
  ASSUME TypeInv, NEW t \in Tabs, AnswerRefresh(t)
  PROVE  /\ TypeInv'
         /\ \A s \in Tabs : s # t => refreshes'[s] = refreshes[s]
         /\ refreshes[t].phase = "sent" /\ refreshes'[t].phase # "idle"
         /\ refreshes'[t].user = refreshes[t].user
         /\ refreshes'[t].tokens.owner = refreshes[t].tokens.owner
<1> DEFINE issued == Issued(refreshes[t].tokens.owner)
<1>1. /\ refreshes \in [Tabs -> Refresh] /\ refreshes[t].phase = "sent" /\ now \in 0..MaxTime
      /\ refreshes[t].tokens \in Tokens /\ refreshes[t].tokens # NoTokens
  BY DEF AnswerRefresh, TypeInv, TypeOK, RefreshesHaveTokens, Refresh
<1>2. issued \in Tokens /\ issued # NoTokens /\ issued.owner = refreshes[t].tokens.owner
  BY <1>1, TokensHaveOwners, IssuedIsTokens
<1>3. refreshes[t] \in Refresh
  BY <1>1
<1> HIDE DEF issued
<1>4. PICK answered \in Refresh :
        /\ refreshes' = [refreshes EXCEPT ![t] = answered]
        /\ answered.phase # "idle" /\ answered.user = refreshes[t].user
        /\ answered.tokens # NoTokens
        /\ answered.tokens.owner = refreshes[t].tokens.owner
  <2>1. CASE refreshes' = [refreshes EXCEPT ![t].phase = "answered", ![t].tokens = issued]
    <3> DEFINE answered == [[refreshes[t] EXCEPT !.phase = "answered"] EXCEPT !.tokens = issued]
    <3>1. /\ answered \in Refresh /\ answered.phase = "answered"
          /\ answered.user = refreshes[t].user /\ answered.tokens = issued
      BY <1>2, <1>3 DEF Refresh
    <3> HIDE DEF answered
    <3>2. refreshes' = [refreshes EXCEPT ![t] = answered]
      <4>1. refreshes' = [[refreshes EXCEPT ![t].phase = "answered"]
                            EXCEPT ![t].tokens = issued]
        BY <2>1
      <4>2. QED
        BY <1>1, <4>1 DEF answered
    <3>3. QED
      BY <1>2, <3>1, <3>2
  <2>2. CASE refreshes' = [refreshes EXCEPT ![t].phase = "failed"]
    <3> DEFINE answered == [refreshes[t] EXCEPT !.phase = "failed"]
    <3>1. answered \in Refresh /\ answered.phase = "failed"
          /\ answered.user = refreshes[t].user /\ answered.tokens = refreshes[t].tokens
      BY <1>1 DEF Refresh
    <3>2. refreshes' = [refreshes EXCEPT ![t] = answered]
      BY <1>1, <2>2
    <3>3. QED
      BY <1>1, <3>1, <3>2
  <2>3. QED
    BY <2>1, <2>2 DEF AnswerRefresh, issued
<1>5. refreshes' \in [Tabs -> Refresh] /\ RefreshesHaveTokens'
  BY <1>1, <1>4 DEF TypeInv, RefreshesHaveTokens
<1>6. TypeInv'
  BY <1>5 DEF AnswerRefresh, TypeInv, TypeOK, StoredSessionsHaveTokens
<1>7. QED
  BY <1>1, <1>4, <1>6

LEMMA ReloadTypes ==
  ASSUME TypeInv, NEW t \in Tabs, Reload(t)
  PROVE  TypeInv'
<1>1. state' \in [Tabs -> AuthState] /\ due' \subseteq Tabs /\ removals' \subseteq Tabs
  BY SignedOutIsState DEF Reload, TypeInv, TypeOK
<1>2. refreshes' \in [Tabs -> Refresh] /\ RefreshesHaveTokens'
  BY NoRefreshType DEF Reload, TypeInv, TypeOK, RefreshesHaveTokens, NoRefresh
<1>3. logins' \in [1..LoginCount -> Login]
  BY EndedCalls DEF Reload, TypeInv, TypeOK
<1>4. requests' \in [1..RequestCount -> Request]
  BY EndedCalls DEF Reload, TypeInv, TypeOK
<1>5. QED
  BY <1>1, <1>2, <1>3, <1>4 DEF Reload, TypeInv, TypeOK, StoredSessionsHaveTokens

LEMMA StartLoginTypes ==
  ASSUME TypeInv, NEW n \in 1..LoginCount, NEW t \in Tabs, StartLogin(n, t)
  PROVE  /\ TypeInv'
         /\ \A s \in Tabs : /\ state'[s].user = state[s].user
                            /\ state'[s].tokens = state[s].tokens
         /\ \A m \in 1..LoginCount : m # n => logins'[m] = logins[m]
<1>1. /\ state \in [Tabs -> AuthState] /\ logins \in [1..LoginCount -> Login]
      /\ overtaken \in BOOLEAN
  BY DEF TypeInv, TypeOK
<1>2. [phase |-> "submitted", tab |-> t, tokens |-> NoTokens] \in Login
  BY NoTokensType DEF Login
<1>3. [state[t] EXCEPT !.isAuthenticating = TRUE] \in AuthState
  BY <1>1 DEF AuthState
<1>4. /\ state' = [state EXCEPT ![t].isAuthenticating = TRUE]
      /\ logins' = [logins EXCEPT ![n] =
           [phase |-> "submitted", tab |-> t, tokens |-> NoTokens]]
      /\ loggedOut' = FALSE
      /\ UNCHANGED <<now, storage, due, refreshes, requests, removals>>
  BY DEF StartLogin
<1>5. overtaken' \in BOOLEAN
  BY <1>1 DEF StartLogin
<1>6. state' \in [Tabs -> AuthState] /\ logins' \in [1..LoginCount -> Login]
  BY <1>1, <1>2, <1>3, <1>4
<1>7. \A s \in Tabs : state'[s].user = state[s].user /\ state'[s].tokens = state[s].tokens
  BY <1>1, <1>4 DEF AuthState
<1>8. TypeInv'
  BY <1>4, <1>5, <1>6 DEF TypeInv, TypeOK, StoredSessionsHaveTokens, RefreshesHaveTokens
<1>9. QED
  BY <1>1, <1>4, <1>7, <1>8

LEMMA LoginFailsTypes ==
  ASSUME TypeInv, NEW n \in 1..LoginCount, LoginFails(n)
  PROVE  TypeInv'
<1>1. TypeOK /\ logins[n].tab \in Tabs
  BY DEF TypeInv, TypeOK, Login
<1>2. state' \in [Tabs -> AuthState] /\ due' \subseteq Tabs
  BY <1>1, SignedOutIsState, BecomesTypes DEF LoginFails
<1>3. logins' \in [1..LoginCount -> Login]
  BY <1>1, EndedCalls DEF LoginFails, TypeOK
<1>4. overtaken' \in BOOLEAN
  BY <1>1 DEF LoginFails, TypeOK
<1>5. QED
  BY <1>1, <1>2, <1>3, <1>4
     DEF LoginFails, TypeInv, TypeOK, StoredSessionsHaveTokens, RefreshesHaveTokens

LEMMA LoginIsAcceptedTypes ==
  ASSUME TypeInv, NEW n \in 1..LoginCount, LoginIsAccepted(n)
  PROVE  /\ TypeInv'
         /\ logins[n].phase = "submitted" /\ logins'[n].phase = "profile"
         /\ \A m \in 1..LoginCount : m # n => logins'[m] = logins[m]
<1> DEFINE issued == Issued(UserOf[n])
           login  == [[logins[n] EXCEPT !.phase = "profile"] EXCEPT !.tokens = issued]
<1>1. /\ logins \in [1..LoginCount -> Login] /\ logins[n] \in Login /\ now \in 0..MaxTime
      /\ UserOf[n] \in Users
  BY SessionConstants DEF TypeInv, TypeOK
<1>2. issued \in Tokens
  BY <1>1, IssuedIsTokens
<1>3. /\ logins[n].phase = "submitted"
      /\ logins' = [logins EXCEPT ![n].phase = "profile", ![n].tokens = issued]
      /\ UNCHANGED <<now, storage, state, due, refreshes, requests, removals, overtaken,
                     loggedOut>>
  BY DEF LoginIsAccepted
<1> HIDE DEF issued
<1>4. login \in Login /\ login.phase = "profile"
  BY <1>1, <1>2 DEF Login
<1> HIDE DEF login
<1>5. logins' = [logins EXCEPT ![n] = login]
  <2>1. logins' = [[logins EXCEPT ![n].phase = "profile"] EXCEPT ![n].tokens = issued]
    BY <1>3
  <2>2. QED
    BY <1>1, <2>1 DEF login
<1>6. logins' \in [1..LoginCount -> Login]
  BY <1>1, <1>4, <1>5
<1>7. TypeInv'
  BY <1>3, <1>6 DEF TypeInv, TypeOK, StoredSessionsHaveTokens, RefreshesHaveTokens
<1>8. QED
  BY <1>1, <1>3, <1>4, <1>5, <1>7

LEMMA LoginSucceedsTypes ==
  ASSUME TypeInv, NEW n \in 1..LoginCount, LoginSucceeds(n)
  PROVE  /\ TypeInv'
         /\ logins[n].tab \in Tabs
         /\ storage' # NoSession /\ storage'.tokens.owner = storage'.user
         /\ state'[logins[n].tab].tokens = storage'.tokens
         /\ state'[logins[n].tab].user = storage'.user
         /\ \A t \in Tabs : t # logins[n].tab => state'[t] = state[t]
<1> DEFINE tokens == logins[n].tokens
           t      == logins[n].tab
           new    == [status |-> "authenticated", user |-> tokens.owner, tokens |-> tokens,
                      isAuthenticating |-> FALSE]
<1>1. TypeOK /\ t \in Tabs /\ tokens \in Tokens /\ tokens # NoTokens
  BY DEF TypeInv, TypeOK, Login, LoginSucceeds, AccessIsValid
<1>2. tokens.owner \in Users
  BY <1>1, TokensHaveOwners
<1>3. /\ Becomes(t, new) /\ storage' = [tokens |-> tokens, user |-> tokens.owner]
      /\ logins' = [logins EXCEPT ![n] = EndedLogin("done")]
      /\ UNCHANGED <<now, refreshes, requests, removals, loggedOut>>
  BY DEF LoginSucceeds, Profile, Stored
<1>4. overtaken' \in BOOLEAN
  BY <1>1 DEF LoginSucceeds, TypeOK
<1>5. new \in AuthState /\ new.tokens = tokens /\ new.user = tokens.owner
  BY <1>1, <1>2 DEF AuthState
<1>6. /\ storage' \in [tokens : Tokens, user : Users \cup {NoUser}]
      /\ storage'.tokens = tokens /\ storage'.user = tokens.owner
  BY <1>1, <1>2, <1>3
<1> HIDE DEF new, tokens, t
<1>7. /\ state' \in [Tabs -> AuthState] /\ due' \subseteq Tabs /\ state'[t] = new
      /\ \A s \in Tabs : s # t => state'[s] = state[s]
  BY <1>1, <1>3, <1>5, BecomesTypes
<1>8. logins' \in [1..LoginCount -> Login]
  BY <1>1, <1>3, EndedCalls DEF TypeOK
<1>9. storage' # NoSession
  BY <1>1, <1>6 DEF NoSession
<1>10. TypeInv'
  BY <1>1, <1>3, <1>4, <1>6, <1>7, <1>8 DEF TypeInv, TypeOK, StoredSessionsHaveTokens,
                                             RefreshesHaveTokens
<1>11. QED
  BY <1>1, <1>5, <1>6, <1>7, <1>9, <1>10 DEF t

\* A new request, as it waits for a refresh or is sent.
LEMMA StartRequestTypes ==
  ASSUME TypeInv, NEW n \in 1..RequestCount, NEW t \in Tabs, NEW panel \in Panels,
         StartRequest(n, t, panel)
  PROVE  /\ TypeInv'
         /\ \A m \in 1..RequestCount : m # n => requests'[m] = requests[m]
         /\ requests'[n].tab = t /\ requests'[n].panel = panel
         /\ requests'[n].user = state[t].user /\ state[t].user \in Users
         /\ requests'[n].held = state[t].tokens
         /\ requests'[n].used \in {NoTokens, state[t].tokens}
         /\ \/ requests'[n].phase = "sent" /\ refreshes' = refreshes
            \/ /\ requests'[n].phase = "awaiting"
               /\ state[t].tokens # NoTokens
               /\ refreshes' = Refreshed(t, state[t].tokens, state[t].user)
               /\ overtaken' = (overtaken \/ state[t].user # storage.user)
<1> DEFINE s == state[t]
           r == [phase |-> "sent", tab |-> t, panel |-> panel, user |-> s.user,
                 held |-> s.tokens, used |-> s.tokens]
           w == [r EXCEPT !.phase = "awaiting", !.used = NoTokens]
<1>1. /\ TypeOK /\ s \in AuthState /\ requests \in [1..RequestCount -> Request]
      /\ s.user \in Users /\ s.tokens \in Tokens
  BY DEF TypeInv, TypeOK, AuthState, StartRequest
<1>2. /\ IF s.tokens # NoTokens /\ IsTokenExpired(s.tokens)
         THEN /\ requests' = [requests EXCEPT ![n] = w]
              /\ refreshes' = Refreshed(t, s.tokens, s.user)
              /\ overtaken' = (overtaken \/ s.user # storage.user)
         ELSE /\ requests' = [requests EXCEPT ![n] = r]
              /\ refreshes' = refreshes /\ overtaken' = overtaken
      /\ UNCHANGED <<now, storage, state, due, logins, removals, loggedOut>>
  BY DEF StartRequest
<1>3. overtaken' \in BOOLEAN
  BY <1>1, <1>2 DEF TypeOK
<1> HIDE DEF s
<1>4. /\ r \in Request /\ r.phase = "sent" /\ r.tab = t /\ r.panel = panel
      /\ r.user = s.user /\ r.held = s.tokens /\ r.used = s.tokens
  BY <1>1 DEF Request
<1>5. /\ w \in Request /\ w.phase = "awaiting" /\ w.tab = t /\ w.panel = panel
      /\ w.user = s.user /\ w.held = s.tokens /\ w.used = NoTokens
  BY <1>1, NoTokensType DEF Request
<1> HIDE DEF r, w
<1>6. CASE s.tokens # NoTokens /\ IsTokenExpired(s.tokens)
  <2>1. /\ requests' = [requests EXCEPT ![n] = w]
        /\ refreshes' = Refreshed(t, s.tokens, s.user)
        /\ overtaken' = (overtaken \/ s.user # storage.user)
    BY <1>2, <1>6
  <2>2. refreshes' \in [Tabs -> Refresh] /\ RefreshesHaveTokens'
    BY <1>1, <1>6, <2>1, RefreshedTypes
  <2>3. requests' \in [1..RequestCount -> Request] /\ requests'[n] = w
        /\ \A m \in 1..RequestCount : m # n => requests'[m] = requests[m]
    BY <1>1, <1>5, <2>1
  <2>4. TypeInv'
    BY <1>2, <1>3, <2>2, <2>3 DEF TypeInv, TypeOK, StoredSessionsHaveTokens
  <2>5. QED
    BY <1>1, <1>5, <1>6, <2>1, <2>3, <2>4 DEF s
<1>7. CASE ~(s.tokens # NoTokens /\ IsTokenExpired(s.tokens))
  <2>1. requests' = [requests EXCEPT ![n] = r] /\ refreshes' = refreshes
    BY <1>2, <1>7
  <2>2. requests' \in [1..RequestCount -> Request] /\ requests'[n] = r
        /\ \A m \in 1..RequestCount : m # n => requests'[m] = requests[m]
    BY <1>1, <1>4, <2>1
  <2>3. TypeInv'
    BY <1>2, <1>3, <2>1, <2>2 DEF TypeInv, TypeOK, StoredSessionsHaveTokens, RefreshesHaveTokens
  <2>4. QED
    BY <1>1, <1>4, <2>1, <2>2, <2>3 DEF s
<1>8. QED
  BY <1>6, <1>7

\* A refused request waits for a refresh of the tokens it holds, or is over.
LEMMA UnauthorizedTypes ==
  ASSUME TypeInv, NEW n \in 1..RequestCount, Unauthorized(n)
  PROVE  /\ TypeInv'
         /\ \A m \in 1..RequestCount : m # n => requests'[m] = requests[m]
         /\ \/ requests'[n] = EndedRequest("failed") /\ refreshes' = refreshes
            \/ /\ requests'[n] = [[requests[n] EXCEPT !.phase = "refreshing"]
                                    EXCEPT !.used = NoTokens]
               /\ requests[n].phase = "sent" /\ requests[n].held # NoTokens
               /\ refreshes' = Refreshed(requests[n].tab, requests[n].held, requests[n].user)
               /\ overtaken' = (overtaken \/ requests[n].user # state[requests[n].tab].user
                                          \/ requests[n].user # storage.user)
<1> DEFINE r == requests[n]
           w == [[requests[n] EXCEPT !.phase = "refreshing"] EXCEPT !.used = NoTokens]
<1>1. TypeOK /\ requests \in [1..RequestCount -> Request] /\ r \in Request
  BY DEF TypeInv, TypeOK
<1>2. /\ IF r.phase = "sent" /\ r.held # NoTokens
         THEN /\ requests' = [requests EXCEPT ![n].phase = "refreshing", ![n].used = NoTokens]
              /\ refreshes' = Refreshed(r.tab, r.held, r.user)
              /\ overtaken' = (overtaken \/ r.user # state[r.tab].user \/ r.user # storage.user)
         ELSE /\ requests' = [requests EXCEPT ![n] = EndedRequest("failed")]
              /\ refreshes' = refreshes /\ overtaken' = overtaken
      /\ UNCHANGED <<now, storage, state, due, logins, removals, loggedOut>>
  BY DEF Unauthorized
<1>3. overtaken' \in BOOLEAN
  BY <1>1, <1>2 DEF TypeOK
<1>4. w \in Request
  BY <1>1, NoTokensType DEF Request
<1>5. CASE r.phase = "sent" /\ r.held # NoTokens
  <2>1. requests' = [[requests EXCEPT ![n].phase = "refreshing"] EXCEPT ![n].used = NoTokens]
    BY <1>2, <1>5
  <2>2. requests' = [requests EXCEPT ![n] = w]
    BY <1>1, <2>1
  <2>3. /\ refreshes' = Refreshed(r.tab, r.held, r.user)
        /\ overtaken' = (overtaken \/ r.user # state[r.tab].user \/ r.user # storage.user)
    BY <1>2, <1>5
  <2>4. r.tab \in Tabs /\ r.held \in Tokens /\ r.user \in Users \cup {NoUser}
    BY <1>1 DEF Request
  <2>5. refreshes' \in [Tabs -> Refresh] /\ RefreshesHaveTokens'
    BY <1>5, <2>3, <2>4, RefreshedTypes
  <2> HIDE DEF w
  <2>6. requests' \in [1..RequestCount -> Request] /\ requests'[n] = w
        /\ \A m \in 1..RequestCount : m # n => requests'[m] = requests[m]
    BY <1>1, <1>4, <2>2
  <2>7. TypeInv'
    BY <1>2, <1>3, <2>5, <2>6 DEF TypeInv, TypeOK, StoredSessionsHaveTokens
  <2>8. QED
    BY <1>5, <2>3, <2>6, <2>7 DEF w
<1>6. CASE ~(r.phase = "sent" /\ r.held # NoTokens)
  <2>1. requests' = [requests EXCEPT ![n] = EndedRequest("failed")] /\ refreshes' = refreshes
    BY <1>2, <1>6
  <2>2. requests' \in [1..RequestCount -> Request]
    BY <1>1, <2>1, EndedCalls
  <2>3. TypeInv'
    BY <1>2, <1>3, <2>1, <2>2 DEF TypeInv, TypeOK, StoredSessionsHaveTokens, RefreshesHaveTokens
  <2>4. QED
    BY <1>1, <2>1, <2>3
<1>7. QED
  BY <1>5, <1>6

LEMMA AuthorizedTypes ==
  ASSUME TypeInv, NEW n \in 1..RequestCount, Authorized(n)
  PROVE  /\ TypeInv'
         /\ \A m \in 1..RequestCount : m # n => requests'[m] = requests[m]
         /\ requests'[n] = EndedRequest(
              IF RoleOf[requests[n].used.owner] \in EndpointRoles(requests[n].panel)
              THEN "done" ELSE "forbidden")
<1> DEFINE phase == IF RoleOf[requests[n].used.owner] \in EndpointRoles(requests[n].panel)
                    THEN "done" ELSE "forbidden"
<1>1. requests \in [1..RequestCount -> Request]
  BY DEF TypeInv, TypeOK
<1>2. requests' = [requests EXCEPT ![n] = EndedRequest(phase)]
  BY DEF Authorized
<1>3. EndedRequest(phase) \in Request
  BY EndedCalls
<1> HIDE DEF phase
<1>4. requests' \in [1..RequestCount -> Request]
  BY <1>1, <1>2, <1>3
<1>5. TypeInv'
  BY <1>4 DEF Authorized, TypeInv, TypeOK, StoredSessionsHaveTokens, RefreshesHaveTokens
<1>6. QED
  BY <1>1, <1>2, <1>5 DEF phase

LEMMA NextTypeInv ==
  ASSUME TypeInv, [Next]_vars
  PROVE  TypeInv'
<1>1. CASE Tick
  <2>1. now' \in 0..MaxTime
    BY <1>1, SessionConstants DEF Tick, TypeInv, TypeOK
  <2>2. QED
    BY <1>1, <2>1 DEF Tick, TypeInv, TypeOK, StoredSessionsHaveTokens, RefreshesHaveTokens
<1>2. CASE UNCHANGED vars
  BY <1>2 DEF vars, TypeInv, TypeOK, StoredSessionsHaveTokens, RefreshesHaveTokens
<1>3. QED
  BY <1>1, <1>2, RestoreTypes, HandleRemovalTypes, RefreshSucceedsTypes, RefreshFailsTypes,
     AnswerRefreshTypes, LogoutTypes, ReloadTypes, LoginIsAcceptedTypes, LoginSucceedsTypes,
     LoginFailsTypes, StartLoginTypes, UnauthorizedTypes, AuthorizedTypes, StartRequestTypes
     DEF Next

\* Every state of the session is well typed: what is stored, held, sent and
\* answered are tokens that somebody owns, or none.
THEOREM SessionTypeCorrectness == Spec => []TypeOK
<1>1. TypeInv => TypeOK
  BY DEF TypeInv
<1>2. QED
  BY <1>1, InitTypeInv, NextTypeInv, PTL DEF Spec

----------------------------------------------------------------------------
(***************************************************************************)
(* The inductive invariant, of a session in which no login or logout       *)
(* overtook a call.  What happens at the end of a call is right because of *)
(* whose call it was: so the invariant says whose every call in flight is. *)
(***************************************************************************)

StatesOwned ==
  \A t \in Tabs : state[t].tokens # NoTokens => state[t].tokens.owner = state[t].user

StorageOwned == storage.tokens # NoTokens => storage.tokens.owner = storage.user

\* A refresh is of the user its tab shows and the stored session names.
RefreshesFollow == \A t \in Tabs : refreshes[t].phase # "idle" =>
  /\ refreshes[t].tokens.owner = refreshes[t].user
  /\ refreshes[t].user = state[t].user
  /\ refreshes[t].user = storage.user

\* A request waits for a refresh of its own user, and is one a hook makes
\* for that user.
RequestFollows(r) ==
  /\ r.held # NoTokens => r.held.owner = r.user
  /\ r.used # NoTokens => r.used.owner = r.user
  /\ r.phase \in {"awaiting", "refreshing"} =>
       refreshes[r.tab].phase # "idle" /\ refreshes[r.tab].user = r.user
  /\ r.phase \in {"awaiting", "sent", "refreshing", "resent"} =>
       r.user \in Users /\ RoleOf[r.user] \in HookRoles(r.panel)

RequestsFollow == \A n \in 1..RequestCount : RequestFollows(requests[n])

\* Where no session is stored, every tab is without tokens or is about to be.
RemovalsFollow == removals # {} => storage = NoSession

GoneEverywhere ==
  storage = NoSession => \A t \in Tabs : t \in removals \/ state[t].tokens = NoTokens

\* A login has begun after what removed the last session, which stays removed
\* until it ends.
LoginsAlone == \A n \in 1..LoginCount : LoginIsOut(n) => removals = {} /\ ~loggedOut

LogoutStands == loggedOut => storage = NoSession

Orderly ==
  /\ StatesOwned /\ StorageOwned
  /\ RefreshesFollow /\ RequestsFollow
  /\ RemovalsFollow /\ GoneEverywhere
  /\ LoginsAlone /\ LogoutStands

SessionInv == ~overtaken => Orderly

\* Where a tab refreshes there is a session, and nothing removes it.
LEMMA RefreshingHasSession ==
  ASSUME TypeInv, Orderly, NEW t \in Tabs, refreshes[t].phase # "idle"
  PROVE  storage # NoSession /\ refreshes[t].user \in Users /\ removals = {} /\ ~loggedOut
<1>1. refreshes[t].tokens \in Tokens /\ refreshes[t].tokens # NoTokens
  BY DEF TypeInv, TypeOK, RefreshesHaveTokens, Refresh
<1>2. refreshes[t].user \in Users
  BY <1>1, TokensHaveOwners DEF Orderly, RefreshesFollow
<1>3. storage # NoSession
  BY <1>2, SessionConstants DEF Orderly, RefreshesFollow, NoSession
<1>4. QED
  BY <1>2, <1>3 DEF Orderly, RemovalsFollow, LogoutStands

\* Refreshes that are out stay out for the requests that wait for them.
LEMMA RequestsWaitOn ==
  ASSUME TypeInv, RequestsFollow, requests' = requests,
         \A t \in Tabs : refreshes[t].phase # "idle" =>
           refreshes'[t].phase # "idle" /\ refreshes'[t].user = refreshes[t].user
  PROVE  RequestsFollow'
<1>1. ASSUME NEW n \in 1..RequestCount PROVE RequestFollows(requests[n])'
  <2>1. requests[n].tab \in Tabs /\ RequestFollows(requests[n])
    BY DEF TypeInv, TypeOK, Request, RequestsFollow
  <2>2. QED
    BY <2>1 DEF RequestFollows
<1>2. QED
  BY <1>1 DEF RequestsFollow

LEMMA EndedRequestFollows ==
  ASSUME NEW phase \in {"idle", "done", "failed"}
  PROVE  RequestFollows(EndedRequest(phase))
BY DEF RequestFollows, EndedRequest

LEMMA RestoreOrderly ==
  ASSUME TypeInv, TypeInv', Orderly, NEW t \in Tabs, Restore(t), ~overtaken'
  PROVE  Orderly'
<1>1. /\ state \in [Tabs -> AuthState] /\ storage' = storage /\ logins' = logins
      /\ requests' = requests /\ removals' = removals /\ loggedOut' = loggedOut
      /\ refreshes'[t].phase # "idle" => state[t].user = storage.user
  BY DEF Restore, TypeInv, TypeOK
<1>2. /\ StorageOwned' /\ RemovalsFollow' /\ LogoutStands' /\ LoginsAlone'
  BY <1>1 DEF Orderly, StorageOwned, RemovalsFollow, LogoutStands, LoginsAlone, LoginIsOut
<1>3. CASE storage = NoSession
  <2>1. state' = [state EXCEPT ![t] = SignedOut("unauthenticated")] /\ refreshes' = refreshes
    BY <1>3 DEF Restore
  <2>2. /\ state'[t].tokens = NoTokens
        /\ \A s \in Tabs : s # t => state'[s] = state[s]
    BY <1>1, <2>1, SignedOutIsState
  <2>3. \A s \in Tabs : refreshes[s].phase = "idle"
    BY <1>3, RefreshingHasSession
  <2>4. StatesOwned' /\ RefreshesFollow' /\ GoneEverywhere'
    BY <1>1, <1>3, <2>1, <2>2, <2>3
       DEF Orderly, StatesOwned, RefreshesFollow, GoneEverywhere
  <2>5. RequestsFollow'
    BY <1>1, <2>1, RequestsWaitOn DEF Orderly
  <2>6. QED
    BY <1>2, <2>4, <2>5 DEF Orderly
<1>4. CASE storage # NoSession
  <2> DEFINE new == [status |-> "authenticated", user |-> storage.user,
                     tokens |-> storage.tokens, isAuthenticating |-> FALSE]
  <2>1. /\ state' = [state EXCEPT ![t] = new]
        /\ refreshes' = IF IsTokenExpired(storage.tokens)
                        THEN Refreshed(t, storage.tokens, state[t].user) ELSE refreshes
    BY <1>4 DEF Restore
  <2>2. new.user = storage.user /\ new.tokens = storage.tokens
    OBVIOUS
  <2> HIDE DEF new
  <2>3. /\ state'[t].tokens = storage.tokens /\ state'[t].user = storage.user
        /\ \A s \in Tabs : s # t => state'[s] = state[s]
    BY <1>1, <2>1, <2>2
  <2>4. storage.tokens \in Tokens /\ storage.tokens # NoTokens /\ state[t].user \in Users \cup {NoUser}
    BY <1>1, <1>4 DEF TypeInv, TypeOK, StoredSessionsHaveTokens, AuthState
  <2>5. /\ \A s \in Tabs : s # t => refreshes'[s] = refreshes[s]
        /\ refreshes[t].phase # "idle" => refreshes'[t] = refreshes[t]
        /\ refreshes[t].phase = "idle" /\ refreshes'[t].phase # "idle" =>
             refreshes'[t].tokens = storage.tokens /\ refreshes'[t].user = state[t].user
    <3>1. CASE IsTokenExpired(storage.tokens)
      <4>1. refreshes' = Refreshed(t, storage.tokens, state[t].user)
        BY <2>1, <3>1
      <4>2. QED
        BY <4>1, <2>4, RefreshedTypes
    <3>2. CASE ~IsTokenExpired(storage.tokens)
      BY <2>1, <3>2
    <3>3. QED
      BY <3>1, <3>2
  <2>6. StatesOwned'
    BY <1>1, <2>3, <2>4 DEF Orderly, StatesOwned, StorageOwned
  <2>7. ASSUME NEW s \in Tabs, refreshes'[s].phase # "idle"
        PROVE  /\ refreshes'[s].tokens.owner = refreshes'[s].user
               /\ refreshes'[s].user = state'[s].user
               /\ refreshes'[s].user = storage'.user
    <3>1. CASE s # t
      BY <1>1, <2>3, <2>5, <2>7, <3>1 DEF Orderly, RefreshesFollow
    <3>2. CASE s = t /\ refreshes[t].phase # "idle"
      BY <1>1, <2>3, <2>5, <2>7, <3>2 DEF Orderly, RefreshesFollow
    <3>3. CASE s = t /\ refreshes[t].phase = "idle"
      BY <1>1, <2>3, <2>4, <2>5, <2>7, <3>3 DEF Orderly, StorageOwned
    <3>4. QED
      BY <3>1, <3>2, <3>3
  <2>8. RefreshesFollow'
    BY <2>7 DEF RefreshesFollow
  <2>9. RequestsFollow'
    <3>1. \A s \in Tabs : refreshes[s].phase # "idle" =>
            refreshes'[s].phase # "idle" /\ refreshes'[s].user = refreshes[s].user
      BY <2>5
    <3>2. QED
      BY <1>1, <3>1, RequestsWaitOn DEF Orderly
  <2>10. GoneEverywhere'
    BY <1>1, <1>4 DEF GoneEverywhere
  <2>11. QED
    BY <1>2, <2>6, <2>8, <2>9, <2>10 DEF Orderly
<1>5. QED
  BY <1>3, <1>4

\* The session is removed by one tab while nothing is in flight that would bring
\* it back: the storage event of a removal, and a logout.
LEMMA RemovalOrderly ==
  ASSUME TypeInv, TypeInv', Orderly, NEW t \in Tabs,
         Becomes(t, SignedOut("unauthenticated")), storage' = NoSession,
         \A s \in Tabs : refreshes'[s].phase = "idle",
         \A n \in 1..LoginCount : ~LoginIsOut(n),
         storage # NoSession => Tabs \ {t} \subseteq removals',
         storage = NoSession => removals \ {t} \subseteq removals',
         RequestsFollow', logins' = logins
  PROVE  Orderly'
<1>1. /\ state'[t].tokens = NoTokens
      /\ \A s \in Tabs : s # t => state'[s] = state[s]
  BY SignedOutIsState, BecomesTypes DEF TypeInv
<1>2. StatesOwned'
  BY <1>1 DEF Orderly, StatesOwned
<1>3. StorageOwned' /\ RemovalsFollow' /\ LogoutStands' /\ RefreshesFollow'
  BY DEF StorageOwned, RemovalsFollow, LogoutStands, RefreshesFollow, NoSession
<1>4. GoneEverywhere'
  BY <1>1 DEF Orderly, GoneEverywhere
<1>5. LoginsAlone'
  BY DEF LoginsAlone, LoginIsOut
<1>6. QED
  BY <1>2, <1>3, <1>4, <1>5 DEF Orderly

LEMMA HandleRemovalOrderly ==
  ASSUME TypeInv, TypeInv', Orderly, NEW t \in Tabs, HandleRemoval(t), ~overtaken'
  PROVE  Orderly'
<1>1. /\ Becomes(t, SignedOut("unauthenticated")) /\ storage' = NoSession
      /\ removals' = IF storage = NoSession THEN removals \ {t} ELSE Tabs \ {t}
      /\ logins' = logins /\ requests' = requests /\ refreshes' = refreshes
      /\ ~Refreshing /\ \A n \in 1..LoginCount : ~LoginIsOut(n)
  BY DEF HandleRemoval
<1>2. \A s \in Tabs : refreshes[s].phase = "idle"
  BY <1>1 DEF Refreshing
<1>3. RequestsFollow'
  BY <1>1, RequestsWaitOn DEF Orderly
<1>4. QED
  BY <1>1, <1>2, <1>3, RemovalOrderly

LEMMA LogoutOrderly ==
  ASSUME TypeInv, TypeInv', Orderly, NEW t \in Tabs, Logout(t), ~overtaken'
  PROVE  Orderly'
<1>1. /\ Becomes(t, SignedOut("unauthenticated")) /\ ClearSession(t)
      /\ logins' = logins /\ requests' = requests /\ refreshes' = refreshes
      /\ ~InFlight
  BY DEF Logout
<1>2. /\ \A s \in Tabs : refreshes[s].phase = "idle"
      /\ \A n \in 1..LoginCount : ~LoginIsOut(n)
  BY <1>1 DEF InFlight, Refreshing
<1>3. RequestsFollow'
  BY <1>1, RequestsWaitOn DEF Orderly
<1>4. /\ storage' = NoSession
      /\ storage # NoSession => Tabs \ {t} \subseteq removals'
      /\ storage = NoSession => removals \ {t} \subseteq removals'
  BY <1>1 DEF ClearSession
<1>5. QED
  BY <1>1, <1>2, <1>3, <1>4, RemovalOrderly

\* A request that waited for the refresh of a tab goes on as the refresh's user.
LEMMA ResumedFollow ==
  ASSUME TypeInv, Orderly, NEW t \in Tabs, NEW tokens \in Tokens,
         tokens # NoTokens => tokens.owner = refreshes[t].user,
         requests' = Resumed(t, tokens),
         \A s \in Tabs : s # t => refreshes'[s] = refreshes[s]
  PROVE  RequestsFollow'
<1>1. ASSUME NEW n \in 1..RequestCount PROVE RequestFollows(requests[n])'
  <2> DEFINE r == requests[n]
  <2>1. r \in Request /\ RequestFollows(r)
    BY DEF TypeInv, TypeOK, Orderly, RequestsFollow
  <2>2. requests'[n] =
          CASE r.tab = t /\ r.phase = "awaiting" ->
                 [r EXCEPT !.phase = "sent", !.used = tokens]
            [] r.tab = t /\ r.phase = "refreshing" ->
                 IF tokens = NoTokens THEN EndedRequest("failed")
                 ELSE [r EXCEPT !.phase = "resent", !.used = tokens]
            [] OTHER -> r
    BY DEF Resumed
  <2> HIDE DEF r
  <2>3. CASE r.tab = t /\ r.phase = "awaiting"
    <3>1. requests'[n] = [r EXCEPT !.phase = "sent", !.used = tokens]
      BY <2>2, <2>3
    <3>2. /\ requests'[n].phase = "sent" /\ requests'[n].used = tokens
          /\ requests'[n].held = r.held /\ requests'[n].user = r.user
          /\ requests'[n].panel = r.panel
      BY <2>1, <3>1 DEF Request
    <3>3. QED
      BY <2>1, <2>3, <3>2 DEF RequestFollows
  <2>4. CASE r.tab = t /\ r.phase = "refreshing" /\ tokens = NoTokens
    <3>1. requests'[n] = EndedRequest("failed")
      BY <2>2, <2>4
    <3>2. QED
      BY <3>1 DEF RequestFollows, EndedRequest
  <2>5. CASE r.tab = t /\ r.phase = "refreshing" /\ tokens # NoTokens
    <3>1. requests'[n] = [r EXCEPT !.phase = "resent", !.used = tokens]
      BY <2>2, <2>5
    <3>2. /\ requests'[n].phase = "resent" /\ requests'[n].used = tokens
          /\ requests'[n].held = r.held /\ requests'[n].user = r.user
          /\ requests'[n].panel = r.panel
      BY <2>1, <3>1 DEF Request
    <3>3. QED
      BY <2>1, <2>5, <3>2 DEF RequestFollows
  <2>6. CASE ~(r.tab = t /\ r.phase \in {"awaiting", "refreshing"})
    <3>1. requests'[n] = r
      BY <2>2, <2>6
    <3>2. r.tab \in Tabs
      BY <2>1 DEF Request
    <3>3. QED
      BY <2>1, <2>6, <3>1, <3>2 DEF RequestFollows
  <2>7. QED
    BY <2>3, <2>4, <2>5, <2>6
<1>2. QED
  BY <1>1 DEF RequestsFollow

LEMMA RefreshSucceedsOrderly ==
  ASSUME TypeInv, TypeInv', Orderly, NEW t \in Tabs, RefreshSucceeds(t)
  PROVE  Orderly'
<1> DEFINE tokens == Kept(refreshes[t].tokens)
           new    == [state[t] EXCEPT !.status = "authenticated", !.tokens = tokens,
                                      !.isAuthenticating = FALSE]
<1>1. /\ TypeOK /\ refreshes \in [Tabs -> Refresh] /\ state[t] \in AuthState
      /\ now \in 0..MaxTime /\ refreshes[t].phase # "idle"
      /\ refreshes[t].tokens \in Tokens /\ refreshes[t].tokens # NoTokens
  BY DEF TypeInv, TypeOK, RefreshesHaveTokens, RefreshSucceeds, Refresh
<1>2. /\ tokens \in Tokens /\ tokens # NoTokens /\ tokens.owner = refreshes[t].user
      /\ refreshes[t].user = state[t].user /\ refreshes[t].user = storage.user
  BY <1>1, KeptIsTokens DEF Orderly, RefreshesFollow
<1>3. /\ refreshes' = [refreshes EXCEPT ![t] = NoRefresh]
      /\ Becomes(t, new) /\ storage' = Stored(tokens, refreshes[t].user)
      /\ requests' = Resumed(t, tokens)
      /\ logins' = logins /\ removals' = removals /\ loggedOut' = loggedOut
  BY DEF RefreshSucceeds
<1> HIDE DEF tokens
<1>4. new \in AuthState /\ new.tokens = tokens /\ new.user = state[t].user
  BY <1>1, <1>2 DEF AuthState
<1> HIDE DEF new
<1>5. state'[t] = new /\ \A s \in Tabs : s # t => state'[s] = state[s]
  BY <1>1, <1>3, <1>4, BecomesTypes
<1>6. storage'.tokens = tokens /\ storage'.user = refreshes[t].user /\ storage' # NoSession
  BY <1>2, <1>3 DEF Stored, NoSession
<1>7. removals = {} /\ ~loggedOut
  BY <1>1, RefreshingHasSession
<1>8. /\ refreshes'[t].phase = "idle"
      /\ \A s \in Tabs : s # t => refreshes'[s] = refreshes[s]
  BY <1>1, <1>3 DEF NoRefresh
<1>9. StatesOwned' /\ StorageOwned'
  BY <1>2, <1>4, <1>5, <1>6 DEF Orderly, StatesOwned, StorageOwned
<1>10. RefreshesFollow'
  BY <1>2, <1>5, <1>6, <1>8 DEF Orderly, RefreshesFollow
<1>11. RequestsFollow'
  BY <1>2, <1>3, <1>8, ResumedFollow
<1>12. RemovalsFollow' /\ GoneEverywhere' /\ LoginsAlone' /\ LogoutStands'
  BY <1>3, <1>6, <1>7
     DEF Orderly, RemovalsFollow, GoneEverywhere, LoginsAlone, LogoutStands, LoginIsOut
<1>13. QED
  BY <1>9, <1>10, <1>11, <1>12 DEF Orderly

LEMMA RefreshFailsOrderly ==
  ASSUME TypeInv, TypeInv', Orderly, NEW t \in Tabs, RefreshFails(t), ~overtaken'
  PROVE  Orderly'
<1>1. /\ refreshes \in [Tabs -> Refresh]
      /\ refreshes' = [refreshes EXCEPT ![t] = NoRefresh]
      /\ Becomes(t, SignedOut("unauthenticated")) /\ ClearSession(t)
      /\ requests' = Resumed(t, NoTokens) /\ logins' = logins
      /\ \A s \in Tabs \ {t} : refreshes[s].phase = "idle"
      /\ \A n \in 1..LoginCount : ~LoginIsOut(n)
  BY DEF RefreshFails, TypeInv, TypeOK
<1>2. /\ refreshes'[t].phase = "idle"
      /\ \A s \in Tabs : s # t => refreshes'[s] = refreshes[s]
  BY <1>1 DEF NoRefresh
<1>3. \A s \in Tabs : refreshes'[s].phase = "idle"
  BY <1>1, <1>2
<1>4. RequestsFollow'
  BY <1>1, <1>2, NoTokensType, ResumedFollow
<1>5. /\ storage' = NoSession
      /\ storage # NoSession => Tabs \ {t} \subseteq removals'
      /\ storage = NoSession => removals \ {t} \subseteq removals'
  BY <1>1 DEF ClearSession
<1>6. QED
  BY <1>1, <1>3, <1>4, <1>5, RemovalOrderly

LEMMA AnswerRefreshOrderly ==
  ASSUME TypeInv, TypeInv', Orderly, NEW t \in Tabs, AnswerRefresh(t)
  PROVE  Orderly'
<1>1. /\ \A s \in Tabs : s # t => refreshes'[s] = refreshes[s]
      /\ refreshes[t].phase # "idle" /\ refreshes'[t].phase # "idle"
      /\ refreshes'[t].user = refreshes[t].user
      /\ refreshes'[t].tokens.owner = refreshes[t].tokens.owner
  BY AnswerRefreshTypes
<1>2. UNCHANGED <<now, storage, state, due, logins, requests, removals, overtaken, loggedOut>>
  BY DEF AnswerRefresh
<1>3. RefreshesFollow'
  BY <1>1, <1>2 DEF Orderly, RefreshesFollow
<1>4. RequestsFollow'
  <2>1. \A s \in Tabs : refreshes[s].phase # "idle" =>
          refreshes'[s].phase # "idle" /\ refreshes'[s].user = refreshes[s].user
    BY <1>1
  <2>2. QED
    BY <1>2, <2>1, RequestsWaitOn DEF Orderly
<1>5. QED
  BY <1>2, <1>3, <1>4 DEF Orderly, StatesOwned, StorageOwned, RemovalsFollow, GoneEverywhere,
                          LoginsAlone, LogoutStands, LoginIsOut

\* A tab is loaded anew: its calls are over, and it is without tokens.
LEMMA ReloadOrderly ==
  ASSUME TypeInv, TypeInv', Orderly, NEW t \in Tabs, Reload(t)
  PROVE  Orderly'
<1>1. /\ state \in [Tabs -> AuthState] /\ refreshes \in [Tabs -> Refresh]
      /\ logins \in [1..LoginCount -> Login] /\ requests \in [1..RequestCount -> Request]
  BY DEF TypeInv, TypeOK
<1>2. /\ state' = [state EXCEPT ![t] = SignedOut("checking")]
      /\ refreshes' = [refreshes EXCEPT ![t] = NoRefresh]
      /\ removals' = removals \ {t}
      /\ storage' = storage /\ loggedOut' = loggedOut
  BY DEF Reload
<1>3. /\ state'[t].tokens = NoTokens /\ refreshes'[t].phase = "idle"
      /\ \A s \in Tabs : s # t => state'[s] = state[s] /\ refreshes'[s] = refreshes[s]
  BY <1>1, <1>2, SignedOutIsState DEF NoRefresh
<1>4. StatesOwned' /\ StorageOwned' /\ RefreshesFollow'
  BY <1>2, <1>3 DEF Orderly, StatesOwned, StorageOwned, RefreshesFollow
<1>5. RemovalsFollow' /\ GoneEverywhere' /\ LogoutStands'
  BY <1>2, <1>3 DEF Orderly, RemovalsFollow, GoneEverywhere, LogoutStands
<1>6. LoginsAlone'
  <2>1. ASSUME NEW n \in 1..LoginCount, LoginIsOut(n)'
        PROVE  LoginIsOut(n)
    <3>1. logins'[n] = IF logins[n].tab = t /\ LoginIsOut(n)
                       THEN EndedLogin("failed") ELSE logins[n]
      BY DEF Reload
    <3>2. EndedLogin("failed").phase = "failed"
      BY DEF EndedLogin
    <3>3. QED
      BY <2>1, <3>1, <3>2 DEF LoginIsOut
  <2>2. QED
    BY <1>2, <2>1 DEF Orderly, LoginsAlone
<1>7. ASSUME NEW n \in 1..RequestCount PROVE RequestFollows(requests[n])'
  <2> DEFINE r == requests[n]
  <2>1. requests'[n] =
          IF r.tab = t /\ r.phase \in {"awaiting", "sent", "refreshing", "resent"}
          THEN EndedRequest("failed") ELSE r
    BY DEF Reload
  <2>2. r \in Request /\ r.tab \in Tabs /\ RequestFollows(r)
    BY <1>1 DEF Orderly, RequestsFollow, Request
  <2> HIDE DEF r
  <2>3. CASE r.tab = t /\ r.phase \in {"awaiting", "sent", "refreshing", "resent"}
    BY <2>1, <2>3 DEF RequestFollows, EndedRequest
  <2>4. CASE ~(r.tab = t /\ r.phase \in {"awaiting", "sent", "refreshing", "resent"})
    BY <1>3, <2>1, <2>2, <2>4 DEF RequestFollows
  <2>5. QED
    BY <2>3, <2>4
<1>8. RequestsFollow'
  BY <1>7 DEF RequestsFollow
<1>9. QED
  BY <1>4, <1>5, <1>6, <1>8 DEF Orderly

LEMMA StartLoginOrderly ==
  ASSUME TypeInv, TypeInv', Orderly, NEW n \in 1..LoginCount, NEW t \in Tabs,
         StartLogin(n, t), ~overtaken'
  PROVE  Orderly'
<1>1. /\ \A s \in Tabs : /\ state'[s].user = state[s].user
                         /\ state'[s].tokens = state[s].tokens
      /\ ~InFlight /\ loggedOut' = FALSE
      /\ UNCHANGED <<now, storage, due, refreshes, requests, removals>>
  BY StartLoginTypes DEF StartLogin
<1>2. removals = {}
  BY <1>1 DEF InFlight
<1>3. StatesOwned' /\ StorageOwned' /\ RefreshesFollow' /\ GoneEverywhere'
  BY <1>1 DEF Orderly, StatesOwned, StorageOwned, RefreshesFollow, GoneEverywhere
<1>4. RequestsFollow'
  BY <1>1, RequestsWaitOn DEF Orderly
<1>5. RemovalsFollow' /\ LoginsAlone' /\ LogoutStands'
  BY <1>1, <1>2 DEF RemovalsFollow, LoginsAlone, LogoutStands
<1>6. QED
  BY <1>3, <1>4, <1>5 DEF Orderly

LEMMA LoginFailsOrderly ==
  ASSUME TypeInv, TypeInv', Orderly, NEW n \in 1..LoginCount, LoginFails(n), ~overtaken'
  PROVE  Orderly'
<1> DEFINE t == logins[n].tab
<1>1. /\ TypeOK /\ t \in Tabs /\ logins \in [1..LoginCount -> Login]
      /\ Becomes(t, SignedOut("unauthenticated")) /\ ~Refreshing
      /\ logins' = [logins EXCEPT ![n] = EndedLogin("failed")]
      /\ UNCHANGED <<now, storage, refreshes, requests, removals, loggedOut>>
  BY DEF LoginFails, TypeInv, TypeOK, Login
<1> HIDE DEF t
<1>2. /\ state'[t].tokens = NoTokens
      /\ \A s \in Tabs : s # t => state'[s] = state[s]
  BY <1>1, SignedOutIsState, BecomesTypes
<1>3. StatesOwned' /\ StorageOwned' /\ RefreshesFollow' /\ GoneEverywhere'
  BY <1>1, <1>2
     DEF Orderly, StatesOwned, StorageOwned, RefreshesFollow, GoneEverywhere, Refreshing
<1>4. RequestsFollow'
  BY <1>1, RequestsWaitOn DEF Orderly
<1>5. LoginsAlone'
  <2>1. ASSUME NEW m \in 1..LoginCount, LoginIsOut(m)' PROVE LoginIsOut(m)
    BY <1>1, <2>1 DEF LoginIsOut, EndedLogin
  <2>2. QED
    BY <1>1, <2>1 DEF Orderly, LoginsAlone
<1>6. QED
  BY <1>1, <1>3, <1>4, <1>5 DEF Orderly, RemovalsFollow, LogoutStands

LEMMA LoginIsAcceptedOrderly ==
  ASSUME TypeInv, TypeInv', Orderly, NEW n \in 1..LoginCount, LoginIsAccepted(n)
  PROVE  Orderly'
<1>1. UNCHANGED <<now, storage, state, due, refreshes, requests, removals, overtaken, loggedOut>>
  BY DEF LoginIsAccepted
<1>2. /\ logins[n].phase = "submitted"
      /\ \A m \in 1..LoginCount : m # n => logins'[m] = logins[m]
  BY LoginIsAcceptedTypes
<1>3. LoginsAlone'
  <2>1. ASSUME NEW m \in 1..LoginCount, LoginIsOut(m)' PROVE LoginIsOut(m)
    BY <1>2, <2>1 DEF LoginIsOut
  <2>2. QED
    BY <1>1, <2>1 DEF Orderly, LoginsAlone
<1>4. RequestsFollow'
  BY <1>1, RequestsWaitOn DEF Orderly
<1>5. QED
  BY <1>1, <1>3, <1>4 DEF Orderly, StatesOwned, StorageOwned, RefreshesFollow, RemovalsFollow,
                          GoneEverywhere, LogoutStands

LEMMA LoginSucceedsOrderly ==
  ASSUME TypeInv, TypeInv', Orderly, NEW n \in 1..LoginCount, LoginSucceeds(n), ~overtaken'
  PROVE  Orderly'
<1> DEFINE t == logins[n].tab
<1>1. /\ logins \in [1..LoginCount -> Login] /\ LoginIsOut(n) /\ ~Refreshing
      /\ logins' = [logins EXCEPT ![n] = EndedLogin("done")]
      /\ UNCHANGED <<now, refreshes, requests, removals, loggedOut>>
  BY DEF LoginSucceeds, TypeInv, TypeOK, LoginIsOut
<1>2. /\ t \in Tabs
      /\ storage' # NoSession /\ storage'.tokens.owner = storage'.user
      /\ state'[t].tokens = storage'.tokens /\ state'[t].user = storage'.user
      /\ \A s \in Tabs : s # t => state'[s] = state[s]
  BY LoginSucceedsTypes
<1>3. removals = {} /\ ~loggedOut
  BY <1>1 DEF Orderly, LoginsAlone
<1> HIDE DEF t
<1>4. StatesOwned' /\ StorageOwned' /\ RefreshesFollow' /\ GoneEverywhere'
  BY <1>1, <1>2
     DEF Orderly, StatesOwned, StorageOwned, RefreshesFollow, GoneEverywhere, Refreshing
<1>5. RequestsFollow'
  BY <1>1, RequestsWaitOn DEF Orderly
<1>6. RemovalsFollow' /\ LoginsAlone' /\ LogoutStands'
  BY <1>1, <1>3 DEF RemovalsFollow, LoginsAlone, LogoutStands
<1>7. QED
  BY <1>4, <1>5, <1>6 DEF Orderly

\* Of what the hooks fetch for a role, the API refuses only the influencers' panel,
\* to roles that neither the menu nor the landing page leads there.
LEMMA RefusedPanels ==
  ASSUME NEW role \in Roles, NEW panel \in Panels,
         role \in HookRoles(panel), role \notin EndpointRoles(panel)
  PROVE  panel = "influencer" /\ "influencer" \notin PanelsOf(role)
<1>1. panel = "influencer"
  BY DEF Panels, HookRoles, EndpointRoles
<1>2. role \notin NavRoles("influencer") /\ DefaultPanel(role) # "influencer"
  BY <1>1 DEF Roles, EndpointRoles, NavRoles, DefaultPanel
<1>3. QED
  BY <1>1, <1>2 DEF PanelsOf

\* A refresh begun for a user both the tab and the stored session name.
LEMMA RefreshedFollow ==
  ASSUME TypeInv, Orderly, NEW t \in Tabs, NEW tokens \in Tokens, tokens # NoTokens,
         refreshes' = Refreshed(t, tokens, tokens.owner),
         state[t].user = tokens.owner, storage.user = tokens.owner,
         UNCHANGED <<state, storage>>
  PROVE  /\ RefreshesFollow'
         /\ refreshes'[t].phase # "idle" /\ refreshes'[t].user = tokens.owner
         /\ \A s \in Tabs : refreshes[s].phase # "idle" => refreshes'[s] = refreshes[s]
<1>1. tokens.owner \in Users
  BY TokensHaveOwners
<1>2. /\ \A s \in Tabs : s # t => refreshes'[s] = refreshes[s]
      /\ refreshes[t].phase # "idle" => refreshes'[t] = refreshes[t]
      /\ refreshes[t].phase = "idle" =>
           refreshes'[t].tokens = tokens /\ refreshes'[t].user = tokens.owner
      /\ refreshes'[t].phase # "idle"
  BY <1>1, RefreshedTypes
<1>3. RefreshesFollow'
  BY <1>2 DEF Orderly, RefreshesFollow
<1>4. refreshes'[t].user = tokens.owner
  BY <1>2 DEF Orderly, RefreshesFollow
<1>5. QED
  BY <1>2, <1>3, <1>4

\* A step of one request, which leaves state, storage and logins alone.
LEMMA RequestStepOrderly ==
  ASSUME TypeInv, Orderly, NEW n \in 1..RequestCount,
         UNCHANGED <<now, storage, state, due, logins, removals, loggedOut>>,
         \A m \in 1..RequestCount : m # n => requests'[m] = requests[m],
         RequestFollows(requests[n])', RefreshesFollow',
         \A s \in Tabs : refreshes[s].phase # "idle" => refreshes'[s] = refreshes[s]
  PROVE  Orderly'
<1>1. ASSUME NEW m \in 1..RequestCount PROVE RequestFollows(requests[m])'
  <2>1. CASE m = n
    BY <2>1
  <2>2. CASE m # n
    <3>1. RequestFollows(requests[m]) /\ requests[m].tab \in Tabs /\ requests'[m] = requests[m]
      BY <2>2 DEF Orderly, RequestsFollow, TypeInv, TypeOK, Request
    <3>2. QED
      BY <3>1 DEF RequestFollows
  <2>3. QED
    BY <2>1, <2>2
<1>2. RequestsFollow'
  BY <1>1 DEF RequestsFollow
<1>3. QED
  BY <1>2 DEF Orderly, StatesOwned, StorageOwned, RemovalsFollow, GoneEverywhere,
              LoginsAlone, LogoutStands, LoginIsOut

LEMMA StartRequestOrderly ==
  ASSUME TypeInv, TypeInv', Orderly, NEW n \in 1..RequestCount, NEW t \in Tabs,
         NEW panel \in Panels, StartRequest(n, t, panel), ~overtaken'
  PROVE  Orderly'
<1> DEFINE r == requests'[n]
           user == state[t].user
           tokens == state[t].tokens
<1>1. /\ \A m \in 1..RequestCount : m # n => requests'[m] = requests[m]
      /\ r.tab = t /\ r.panel = panel /\ r.user = user /\ user \in Users
      /\ r.held = tokens /\ r.used \in {NoTokens, tokens}
      /\ \/ r.phase = "sent" /\ refreshes' = refreshes
         \/ /\ r.phase = "awaiting"
            /\ tokens # NoTokens
            /\ refreshes' = Refreshed(t, tokens, user)
            /\ overtaken' = (overtaken \/ user # storage.user)
  BY StartRequestTypes
<1>2. /\ RoleOf[user] \in HookRoles(panel)
      /\ UNCHANGED <<now, storage, state, due, logins, removals, loggedOut>>
  BY DEF StartRequest
<1>3. tokens \in Tokens /\ (tokens # NoTokens => tokens.owner = user)
  BY DEF TypeInv, TypeOK, AuthState, Orderly, StatesOwned
<1> HIDE DEF r, user, tokens
<1>4. CASE r.phase = "sent" /\ refreshes' = refreshes
  <2>1. RequestFollows(requests[n])'
    BY <1>1, <1>2, <1>3, <1>4 DEF RequestFollows, r
  <2>2. RefreshesFollow'
    BY <1>2, <1>4 DEF Orderly, RefreshesFollow
  <2>3. QED
    BY <1>1, <1>2, <1>4, <2>1, <2>2, RequestStepOrderly DEF r
<1>5. CASE /\ r.phase = "awaiting"
           /\ tokens # NoTokens
           /\ refreshes' = Refreshed(t, tokens, user)
           /\ overtaken' = (overtaken \/ user # storage.user)
  <2>1. user = storage.user /\ user = tokens.owner
    BY <1>3, <1>5
  <2>2. /\ RefreshesFollow'
        /\ refreshes'[t].phase # "idle" /\ refreshes'[t].user = tokens.owner
        /\ \A s \in Tabs : refreshes[s].phase # "idle" => refreshes'[s] = refreshes[s]
    BY <1>2, <1>3, <1>5, <2>1, RefreshedFollow DEF user
  <2>3. RequestFollows(requests[n])'
    BY <1>1, <1>2, <1>3, <1>5, <2>1, <2>2 DEF RequestFollows, r
  <2>4. QED
    BY <1>1, <1>2, <2>2, <2>3, RequestStepOrderly DEF r
<1>6. QED
  BY <1>1, <1>4, <1>5

LEMMA UnauthorizedOrderly ==
  ASSUME TypeInv, TypeInv', Orderly, NEW n \in 1..RequestCount, Unauthorized(n), ~overtaken'
  PROVE  Orderly'
<1> DEFINE r == requests[n]
<1>1. /\ r \in Request /\ RequestFollows(r)
      /\ r.tab \in Tabs /\ r.held \in Tokens
  BY DEF TypeInv, TypeOK, Request, Orderly, RequestsFollow
<1>2. /\ \A m \in 1..RequestCount : m # n => requests'[m] = requests[m]
      /\ \/ requests'[n] = EndedRequest("failed") /\ refreshes' = refreshes
         \/ /\ requests'[n] = [[r EXCEPT !.phase = "refreshing"] EXCEPT !.used = NoTokens]
            /\ r.phase = "sent" /\ r.held # NoTokens
            /\ refreshes' = Refreshed(r.tab, r.held, r.user)
            /\ overtaken' = (overtaken \/ r.user # state[r.tab].user \/ r.user # storage.user)
  BY UnauthorizedTypes
<1>3. UNCHANGED <<now, storage, state, due, logins, removals, loggedOut>>
  BY DEF Unauthorized
<1> HIDE DEF r
<1>4. CASE requests'[n] = EndedRequest("failed") /\ refreshes' = refreshes
  <2>1. RequestFollows(requests[n])'
    BY <1>4 DEF RequestFollows, EndedRequest
  <2>2. RefreshesFollow'
    BY <1>3, <1>4 DEF Orderly, RefreshesFollow
  <2>3. QED
    BY <1>2, <1>3, <1>4, <2>1, <2>2, RequestStepOrderly
<1>5. CASE /\ requests'[n] = [[r EXCEPT !.phase = "refreshing"] EXCEPT !.used = NoTokens]
           /\ r.phase = "sent" /\ r.held # NoTokens
           /\ refreshes' = Refreshed(r.tab, r.held, r.user)
           /\ overtaken' = (overtaken \/ r.user # state[r.tab].user \/ r.user # storage.user)
  <2>1. /\ requests'[n].phase = "refreshing" /\ requests'[n].used = NoTokens
        /\ requests'[n].tab = r.tab /\ requests'[n].panel = r.panel
        /\ requests'[n].user = r.user /\ requests'[n].held = r.held
    BY <1>1, <1>5 DEF Request
  <2>2. r.held.owner = r.user /\ r.user = state[r.tab].user /\ r.user = storage.user
    BY <1>1, <1>5 DEF RequestFollows
  <2>3. /\ RefreshesFollow'
        /\ refreshes'[r.tab].phase # "idle" /\ refreshes'[r.tab].user = r.held.owner
        /\ \A s \in Tabs : refreshes[s].phase # "idle" => refreshes'[s] = refreshes[s]
    BY <1>1, <1>3, <1>5, <2>2, RefreshedFollow
  <2>4. RequestFollows(requests[n])'
    BY <1>1, <1>5, <2>1, <2>2, <2>3 DEF RequestFollows
  <2>5. QED
    BY <1>2, <1>3, <2>3, <2>4, RequestStepOrderly
<1>6. QED
  BY <1>2, <1>4, <1>5

LEMMA AuthorizedOrderly ==
  ASSUME TypeInv, TypeInv', Orderly, NEW n \in 1..RequestCount, Authorized(n)
  PROVE  Orderly'
<1> DEFINE phase == IF RoleOf[requests[n].used.owner] \in EndpointRoles(requests[n].panel)
                    THEN "done" ELSE "forbidden"
<1>1. phase \in {"done", "forbidden"}
  OBVIOUS
<1>2. /\ requests'[n] = EndedRequest(phase)
      /\ \A m \in 1..RequestCount : m # n => requests'[m] = requests[m]
  BY AuthorizedTypes
<1> HIDE DEF phase
<1>3. UNCHANGED <<now, storage, state, due, refreshes, logins, removals, overtaken, loggedOut>>
  BY DEF Authorized
<1>4. RequestFollows(requests[n])'
  BY <1>1, <1>2 DEF RequestFollows, EndedRequest
<1>5. RefreshesFollow'
  BY <1>3 DEF Orderly, RefreshesFollow
<1>6. QED
  BY <1>2, <1>3, <1>4, <1>5, RequestStepOrderly

LEMMA InitOrderly ==
  ASSUME Init
  PROVE  Orderly
<1>1. /\ StatesOwned /\ GoneEverywhere
  BY DEF Init, StatesOwned, GoneEverywhere, SignedOut
<1>2. StorageOwned
  BY DEF Init, StorageOwned, NoSession
<1>3. RefreshesFollow
  BY DEF Init, RefreshesFollow, NoRefresh
<1>4. RequestsFollow
  BY EndedRequestFollows DEF Init, RequestsFollow
<1>5. LoginsAlone /\ RemovalsFollow /\ LogoutStands
  BY DEF Init, LoginsAlone, LoginIsOut, EndedLogin, RemovalsFollow, LogoutStands
<1>6. QED
  BY <1>1, <1>2, <1>3, <1>4, <1>5 DEF Orderly

\* Once something was overtaken it stays so.
LEMMA OvertakenStays ==
  ASSUME TypeInv, [Next]_vars, overtaken
  PROVE  overtaken'
BY DEF Next, Restore, HandleRemoval, RefreshSucceeds, RefreshFails, AnswerRefresh, Logout,
       Reload, LoginIsAccepted, LoginSucceeds, LoginFails, StartLogin, Unauthorized,
       Authorized, StartRequest, Tick, vars

LEMMA NextSessionInv ==
  ASSUME TypeInv, TypeInv', SessionInv, [Next]_vars
  PROVE  SessionInv'
<1> SUFFICES ASSUME ~overtaken' PROVE Orderly'
  BY DEF SessionInv
<1>1. Orderly
  BY OvertakenStays DEF SessionInv
<1>2. CASE UNCHANGED <<storage, state, due, refreshes, logins, requests, removals, overtaken,
                       loggedOut>>
  <2>1. RequestsFollow'
    BY <1>1, <1>2, RequestsWaitOn DEF Orderly
  <2>2. QED
    BY <1>1, <1>2, <2>1 DEF Orderly, StatesOwned, StorageOwned, RefreshesFollow,
       RemovalsFollow, GoneEverywhere, LoginsAlone, LogoutStands, LoginIsOut
<1>3. CASE \E t \in Tabs :
             \/ Restore(t) \/ HandleRemoval(t) \/ RefreshSucceeds(t) \/ RefreshFails(t)
             \/ AnswerRefresh(t) \/ Logout(t) \/ Reload(t)
  BY <1>1, <1>3, RestoreOrderly, HandleRemovalOrderly, RefreshSucceedsOrderly,
     RefreshFailsOrderly, AnswerRefreshOrderly, LogoutOrderly, ReloadOrderly
<1>4. CASE \E n \in 1..LoginCount :
             \/ LoginIsAccepted(n) \/ LoginSucceeds(n) \/ LoginFails(n)
             \/ \E t \in Tabs : StartLogin(n, t)
  BY <1>1, <1>4, LoginIsAcceptedOrderly, LoginSucceedsOrderly, LoginFailsOrderly,
     StartLoginOrderly
<1>5. CASE \E n \in 1..RequestCount :
             \/ Unauthorized(n) \/ Authorized(n)
             \/ \E t \in Tabs, panel \in Panels : StartRequest(n, t, panel)
  BY <1>1, <1>5, UnauthorizedOrderly, AuthorizedOrderly, StartRequestOrderly
<1>6. QED
  BY <1>2, <1>3, <1>4, <1>5 DEF Next, Tick, vars

----------------------------------------------------------------------------
(* The theorems. *)

\* The inductive invariant: every call in flight is of the user its tab shows and
\* the stored session names, until a login or a logout overtakes one.
THEOREM SessionInvariance == Spec => [](TypeInv /\ SessionInv)
<1>1. Init => TypeInv /\ SessionInv
  BY InitTypeInv, InitOrderly DEF SessionInv
<1>2. TypeInv /\ SessionInv /\ [Next]_vars => (TypeInv /\ SessionInv)'
  BY NextTypeInv, NextSessionInv
<1>3. QED
  BY <1>1, <1>2, PTL DEF Spec

\* A tab and the stored session name the user their tokens are of.
THEOREM OwnershipCorrectness == Spec => []UserOwnsTokens
<1>1. SessionInv => UserOwnsTokens
  BY DEF SessionInv, Orderly, StatesOwned, StorageOwned, UserOwnsTokens
<1>2. QED
  BY <1>1, SessionInvariance, PTL

\* A panel's request is sent with tokens of the user who opened the panel, after
\* whatever refresh.
THEOREM RequestCorrectness == Spec => []RequestsRunAsTheirUser
<1>1. SessionInv => RequestsRunAsTheirUser
  BY DEF SessionInv, Orderly, RequestsFollow, RequestFollows, RequestsRunAsTheirUser
<1>2. QED
  BY <1>1, SessionInvariance, PTL

\* A request is refused in the API's answer only.
LEMMA OnlyAnswersRefuse ==
  ASSUME TypeInv, [Next]_vars, NEW n \in 1..RequestCount,
         requests[n].phase # "forbidden", requests'[n].phase = "forbidden"
  PROVE  Authorized(n)
<1> USE DEF EndedRequest
<1>1. requests \in [1..RequestCount -> Request]
  BY DEF TypeInv, TypeOK
<1>2. requests' # requests
  OBVIOUS
<1>3. ASSUME NEW t \in Tabs, NEW tokens, requests' = Resumed(t, tokens) PROVE FALSE
  BY <1>1, <1>3 DEF Resumed, Request
<1>4. ASSUME NEW t \in Tabs, Reload(t) PROVE FALSE
  BY <1>1, <1>4 DEF Reload, Request
<1>5. ASSUME NEW m \in 1..RequestCount, Unauthorized(m) PROVE FALSE
  <2>1. CASE m # n
    BY <1>5, <2>1, UnauthorizedTypes
  <2>2. CASE m = n /\ requests'[n] = EndedRequest("failed")
    BY <2>2
  <2>3. CASE m = n /\ requests'[n] = [[requests[n] EXCEPT !.phase = "refreshing"]
                                        EXCEPT !.used = NoTokens]
    BY <1>1, <2>3 DEF Request
  <2>4. QED
    BY <1>5, <2>1, <2>2, <2>3, UnauthorizedTypes
<1>6. ASSUME NEW m \in 1..RequestCount, NEW t \in Tabs, NEW panel \in Panels,
             StartRequest(m, t, panel)
      PROVE  FALSE
  BY <1>6, StartRequestTypes
<1>7. ASSUME NEW m \in 1..RequestCount, Authorized(m) PROVE Authorized(n)
  BY <1>7, AuthorizedTypes
<1>8. ASSUME NEW t \in Tabs, RefreshSucceeds(t) \/ RefreshFails(t) PROVE FALSE
  BY <1>3, <1>8 DEF RefreshSucceeds, RefreshFails
<1>9. ASSUME NEW t \in Tabs,
             Restore(t) \/ HandleRemoval(t) \/ AnswerRefresh(t) \/ Logout(t)
      PROVE  FALSE
  BY <1>2, <1>9 DEF Restore, HandleRemoval, AnswerRefresh, Logout
<1>10. ASSUME NEW m \in 1..LoginCount,
              \/ LoginIsAccepted(m) \/ LoginSucceeds(m) \/ LoginFails(m)
              \/ \E t \in Tabs : StartLogin(m, t)
       PROVE  FALSE
  BY <1>2, <1>10 DEF LoginIsAccepted, LoginSucceeds, LoginFails, StartLogin
<1>11. QED
  BY <1>2, <1>4, <1>5, <1>6, <1>7, <1>8, <1>9, <1>10 DEF Next, Tick, vars

\* The menu and the landing page lead nobody to a panel the API forbids: what it
\* refuses is the influencers' panel, fetched for a user who has no way to it.
THEOREM PanelCorrectness == Spec => PanelsAreAllowed
<1> DEFINE Allowed ==
      \A n \in 1..RequestCount :
        LET r == requests[n] IN
        (~overtaken /\ r.phase # "forbidden" /\ requests'[n].phase = "forbidden") =>
          r.panel = "influencer" /\ "influencer" \notin PanelsOf(RoleOf[r.user])
<1>1. TypeInv /\ SessionInv /\ [Next]_vars => [Allowed]_vars
  <2> SUFFICES ASSUME TypeInv, SessionInv, [Next]_vars, NEW n \in 1..RequestCount, ~overtaken,
                      requests[n].phase # "forbidden", requests'[n].phase = "forbidden"
               PROVE  /\ requests[n].panel = "influencer"
                      /\ "influencer" \notin PanelsOf(RoleOf[requests[n].user])
    OBVIOUS
  <2> DEFINE r == requests[n]
  <2>1. Authorized(n)
    BY OnlyAnswersRefuse
  <2>2. r.phase \in {"sent", "resent"} /\ r.used # NoTokens /\ RequestFollows(r)
    BY <2>1 DEF SessionInv, Orderly, RequestsFollow, Authorized, AccessIsValid
  <2>3. r.user \in Users /\ RoleOf[r.user] \in HookRoles(r.panel) /\ r.used.owner = r.user
    BY <2>2 DEF RequestFollows
  <2>4. requests'[n] = EndedRequest(
          IF RoleOf[r.used.owner] \in EndpointRoles(r.panel) THEN "done" ELSE "forbidden")
    BY <2>1, AuthorizedTypes
  <2>5. RoleOf[r.used.owner] \notin EndpointRoles(r.panel)
    BY <2>4 DEF EndedRequest
  <2>6. r.panel \in Panels /\ RoleOf[r.user] \in Roles
    BY <2>3, SessionConstants DEF TypeInv, TypeOK, Request
  <2>7. QED
    BY <2>3, <2>5, <2>6, RefusedPanels
<1>2. QED
  BY <1>1, SessionInvariance, PTL DEF Spec, PanelsAreAllowed

\* A logout ends the session in every tab, once the tabs have settled.
THEOREM LogoutCorrectness == Spec => []LogoutEndsTheSession
<1>1. SessionInv => LogoutEndsTheSession
  BY DEF SessionInv, Orderly, LogoutStands, GoneEverywhere, LogoutEndsTheSession,
         IsSettled, InFlight
<1>2. QED
  BY <1>1, SessionInvariance, PTL

=============================================================================
