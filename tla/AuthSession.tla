----------------------------- MODULE AuthSession -----------------------------
(***************************************************************************)
(* The session of the web application: AuthProvider in each tab of a       *)
(* browser, the session the tabs share in localStorage, and the API that   *)
(* issues and checks the tokens.                                           *)
(*                                                                         *)
(* Between the two ends of a fetch the tab runs other handlers: logins,    *)
(* logouts, other requests, events of other tabs.  A reload loses what the *)
(* tab had in flight.  Tokens are what they say of themselves, since the   *)
(* API keeps none; time is counted in units of the margin of               *)
(* isTokenExpired.                                                         *)
(***************************************************************************)
EXTENDS Integers

CONSTANTS
  Tabs, Users,
  RoleOf,           \* the role of a user
  AccessLife,       \* jwt.accessExpiresIn
  RefreshLife,      \* jwt.refreshExpiresIn
  Margin,           \* before its expiry, when a tab holds a token for expired
  LoginCount,       \* bound: logins
  UserOf,           \* bound: who makes the n-th login
  RequestCount,     \* bound: requests of the panels
  MaxTime           \* bound: the clock

Roles == {"admin_dentsu", "gestor_afiliados", "finance", "admin_marca", "auditor",
          "influencer"}

NoUser == "nobody"

ASSUME SessionConstants ==
  /\ Tabs # {} /\ NoUser \notin Users
  /\ RoleOf \in [Users -> Roles]
  /\ AccessLife \in Nat /\ RefreshLife \in Nat /\ Margin \in Nat
  /\ Margin <= AccessLife /\ AccessLife < RefreshLife
  /\ UserOf \in [1..LoginCount -> Users]
  /\ LoginCount \in Nat /\ RequestCount \in Nat /\ MaxTime \in Nat

VARIABLES
  now,
  storage,          \* the session in localStorage
  state,            \* the AuthState of each tab
  due,              \* tabs whose restoring effect runs again
  refreshes,        \* refreshPromise of each tab, and what it closes over
  logins,           \* calls of login
  requests,         \* calls of request
  removals,         \* tabs that are still to hear that the session was removed
  overtaken,        \* history, in no state of the program: a login or a logout
                    \* overtook a call in flight, or a refresh was begun for
                    \* another user than the session's
  loggedOut         \* history too: since the last login there was a logout

vars == <<now, storage, state, due, refreshes, logins, requests, removals,
          overtaken, loggedOut>>

NoTokens == [owner |-> NoUser, issued |-> 0, expiresAt |-> 0]
NoSession == [tokens |-> NoTokens, user |-> NoUser]

Tokens == [owner : Users, issued : 0..MaxTime, expiresAt : 0..(MaxTime + AccessLife)]
            \cup {NoTokens}

Panels == {"influencer", "gestor", "finance", "admin"}

AuthState == [status : {"checking", "authenticated", "unauthenticated"},
              user : Users \cup {NoUser}, tokens : Tokens, isAuthenticating : BOOLEAN]

Refresh == [phase : {"idle", "sent", "answered", "failed"},
            tokens : Tokens, user : Users \cup {NoUser}]

Login == [phase : {"idle", "submitted", "profile", "done", "failed"},
          tab : Tabs, tokens : Tokens]

\* A request holds the user and the tokens of the render it was made in; used are
\* the tokens it was last sent with.
Request == [phase : {"idle", "awaiting", "sent", "refreshing", "resent",
                     "done", "forbidden", "failed"},
            tab : Tabs, panel : Panels, user : Users \cup {NoUser},
            held : Tokens, used : Tokens]

TypeOK ==
  /\ now \in 0..MaxTime
  /\ storage \in [tokens : Tokens, user : Users \cup {NoUser}]
  /\ state \in [Tabs -> AuthState]
  /\ due \subseteq Tabs
  /\ refreshes \in [Tabs -> Refresh]
  /\ logins \in [1..LoginCount -> Login]
  /\ requests \in [1..RequestCount -> Request]
  /\ removals \subseteq Tabs
  /\ overtaken \in BOOLEAN
  /\ loggedOut \in BOOLEAN

\* Of a call that has ended only the outcome is kept.
EndedLogin(phase) ==
  [phase |-> phase, tab |-> CHOOSE t \in Tabs : TRUE, tokens |-> NoTokens]
EndedRequest(phase) ==
  [phase |-> phase, tab |-> CHOOSE t \in Tabs : TRUE, panel |-> "admin", user |-> NoUser,
   held |-> NoTokens, used |-> NoTokens]
SignedOut(status) ==
  [status |-> status, user |-> NoUser, tokens |-> NoTokens, isAuthenticating |-> FALSE]
NoRefresh == [phase |-> "idle", tokens |-> NoTokens, user |-> NoUser]

\* Somebody may have left a session in the browser.
Init ==
  /\ now = 0
  /\ storage \in {NoSession} \cup
       {[tokens |-> [owner |-> u, issued |-> 0, expiresAt |-> AccessLife], user |-> u] :
          u \in Users}
  /\ state = [t \in Tabs |-> SignedOut("checking")]
  /\ due = Tabs
  /\ refreshes = [t \in Tabs |-> NoRefresh]
  /\ logins = [n \in 1..LoginCount |-> EndedLogin("idle")]
  /\ requests = [n \in 1..RequestCount |-> EndedRequest("idle")]
  /\ removals = {}
  /\ overtaken = FALSE
  /\ loggedOut = FALSE

----------------------------------------------------------------------------
(* Tokens. *)

\* Mutant of Kept: the time of expiry is taken for a lifetime.
Kept_Absolute(tokens) == [tokens EXCEPT !.expiresAt = now + tokens.expiresAt]

\* The tokens a tab keeps of an answer: their time of expiry is counted from its
\* arrival, not from their making.
Kept(tokens) == [tokens EXCEPT !.expiresAt = now + AccessLife]
Issued(user) == [owner |-> user, issued |-> now, expiresAt |-> now + AccessLife]

IsTokenExpired(tokens) == tokens = NoTokens \/ tokens.expiresAt - now < Margin

\* What the API makes of an access token and of a refresh token: it looks at the
\* token alone.
AccessIsValid(tokens) == tokens # NoTokens /\ now < tokens.issued + AccessLife
RefreshIsValid(tokens) == now < tokens.issued + RefreshLife

\* fetchProfile: the API answers with what the access token says.
Profile(tokens) == tokens.owner

----------------------------------------------------------------------------
(* AuthProvider. *)

Stored(tokens, user) == [tokens |-> tokens, user |-> user]

\* A tab renders a new state; its restoring effect runs again if that changed the
\* tokens or the user, which it depends on through refreshTokens.
Becomes(t, new) ==
  /\ state' = [state EXCEPT ![t] = new]
  /\ due' = IF new.tokens # state[t].tokens \/ new.user # state[t].user
            THEN due \cup {t} ELSE due

\* Mutant of ClearSession: the session is forgotten in the tab only.
ClearSession_Kept(t) == UNCHANGED <<storage, removals>>

\* clearAuthSession: the other tabs hear of it when there was a session to remove.
ClearSession(t) ==
  /\ storage' = NoSession
  /\ removals' = IF storage = NoSession THEN removals
                 ELSE removals \cup (Tabs \ {t})

LoginIsOut(n) == logins[n].phase \in {"submitted", "profile"}
Refreshing == \E t \in Tabs : refreshes[t].phase # "idle"

\* Something is on its way that will write or remove a session.
InFlight == Refreshing \/ removals # {} \/ \E n \in 1..LoginCount : LoginIsOut(n)

\* refreshTokens: a tab has one refresh at a time, whoever asks and with whatever
\* tokens.
Refreshed(t, tokens, user) ==
  IF refreshes[t].phase = "idle"
  THEN [refreshes EXCEPT ![t] = [phase |-> "sent", tokens |-> tokens, user |-> user]]
  ELSE refreshes

\* Mutant of Restore: the user the tab has is kept.
Restore_Merged(t) ==
  /\ t \in due
  /\ IF storage = NoSession
     THEN /\ state' = [state EXCEPT ![t] = SignedOut("unauthenticated")]
          /\ due' = IF state[t].tokens = NoTokens THEN due \ {t} ELSE due
          /\ UNCHANGED refreshes
     ELSE /\ state' = [state EXCEPT ![t] =
               [@ EXCEPT !.status = "authenticated", !.tokens = storage.tokens]]
          /\ due' = due
          /\ refreshes' = IF IsTokenExpired(storage.tokens)
                          THEN Refreshed(t, storage.tokens, state[t].user)
                          ELSE refreshes
  /\ overtaken' = (overtaken \/ /\ refreshes'[t].phase # "idle"
                                /\ state[t].user # storage.user)
  /\ UNCHANGED <<now, storage, logins, requests, removals, loggedOut>>

\* The restoring effect.  A session it finds is parsed anew, so that the state
\* changes and the effect runs again, as long as there is one.
Restore(t) ==
  /\ t \in due
  /\ IF storage = NoSession
     THEN /\ state' = [state EXCEPT ![t] = SignedOut("unauthenticated")]
          /\ due' = IF state[t].tokens = NoTokens THEN due \ {t} ELSE due
          /\ UNCHANGED refreshes
     ELSE /\ state' = [state EXCEPT ![t] =
               [status |-> "authenticated", user |-> storage.user,
                tokens |-> storage.tokens, isAuthenticating |-> FALSE]]
          /\ due' = due
          /\ refreshes' = IF IsTokenExpired(storage.tokens)
                          THEN Refreshed(t, storage.tokens, state[t].user)
                          ELSE refreshes
  /\ overtaken' = (overtaken \/ /\ refreshes'[t].phase # "idle"
                                /\ state[t].user # storage.user)
  /\ UNCHANGED <<now, storage, logins, requests, removals, loggedOut>>

\* The storage event of another tab's removal.
HandleRemoval(t) ==
  /\ t \in removals
  /\ Becomes(t, SignedOut("unauthenticated"))
  /\ storage' = NoSession
  /\ removals' = IF storage = NoSession THEN removals \ {t} ELSE Tabs \ {t}
  /\ overtaken' = (overtaken \/ Refreshing \/ \E n \in 1..LoginCount : LoginIsOut(n))
  /\ UNCHANGED <<now, refreshes, logins, requests, loggedOut>>

\* The user logs out.
Logout(t) ==
  /\ state[t].status = "authenticated"
  /\ Becomes(t, SignedOut("unauthenticated"))
  /\ ClearSession(t)
  /\ overtaken' = (overtaken \/ InFlight)
  /\ loggedOut' = TRUE
  /\ UNCHANGED <<now, refreshes, logins, requests>>

\* The calls of request that a refresh of the tab has kept waiting go on with its
\* result: to their first attempt, or to their second unless there is no token.
Resumed(t, tokens) ==
  [n \in 1..RequestCount |->
     LET r == requests[n] IN
     CASE r.tab = t /\ r.phase = "awaiting" ->
            [r EXCEPT !.phase = "sent", !.used = tokens]
       [] r.tab = t /\ r.phase = "refreshing" ->
            IF tokens = NoTokens THEN EndedRequest("failed")
            ELSE [r EXCEPT !.phase = "resent", !.used = tokens]
       [] OTHER -> r]

\* The answer to a refresh: the tab keeps the user it has, the session is stored
\* with the user the refresh was started with.
RefreshSucceeds(t) ==
  LET tokens == Kept(refreshes[t].tokens) IN
  /\ refreshes[t].phase = "answered"
  /\ refreshes' = [refreshes EXCEPT ![t] = NoRefresh]
  /\ Becomes(t, [state[t] EXCEPT !.status = "authenticated", !.tokens = tokens,
                                 !.isAuthenticating = FALSE])
  /\ storage' = Stored(tokens, refreshes[t].user)
  /\ requests' = Resumed(t, tokens)
  /\ UNCHANGED <<now, logins, removals, overtaken, loggedOut>>

\* A refresh that fails, for whatever reason, logs the tab out.
RefreshFails(t) ==
  /\ refreshes[t].phase = "failed"
  /\ refreshes' = [refreshes EXCEPT ![t] = NoRefresh]
  /\ Becomes(t, SignedOut("unauthenticated"))
  /\ ClearSession(t)
  /\ requests' = Resumed(t, NoTokens)
  /\ overtaken' =
       \/ overtaken
       \/ \E s \in Tabs \ {t} : refreshes[s].phase # "idle"
       \/ \E n \in 1..LoginCount : LoginIsOut(n)
       \/ removals # {}
  /\ UNCHANGED <<now, logins, loggedOut>>

\* login, up to its first await.  The form of LoginPage is there as long as there
\* is no user, and is closed while the tab says it authenticates.
StartLogin(n, t) ==
  /\ logins[n].phase = "idle"
  /\ \A m \in 1..(n - 1) : logins[m].phase # "idle"
  /\ ~state[t].isAuthenticating
  /\ state[t].status # "authenticated" \/ state[t].user = NoUser
  /\ state' = [state EXCEPT ![t].isAuthenticating = TRUE]
  /\ logins' = [logins EXCEPT ![n] =
       [phase |-> "submitted", tab |-> t, tokens |-> NoTokens]]
  /\ overtaken' = (overtaken \/ InFlight)
  /\ loggedOut' = FALSE
  /\ UNCHANGED <<now, storage, due, refreshes, requests, removals>>

\* A login that fails leaves the stored session alone.
LoginFails(n) ==
  /\ LoginIsOut(n)
  /\ logins' = [logins EXCEPT ![n] = EndedLogin("failed")]
  /\ Becomes(logins[n].tab, SignedOut("unauthenticated"))
  /\ overtaken' = (overtaken \/ Refreshing)
  /\ UNCHANGED <<now, storage, refreshes, requests, removals, loggedOut>>

\* The tokens have arrived, the profile is asked for.
LoginIsAccepted(n) ==
  /\ logins[n].phase = "submitted"
  /\ logins' = [logins EXCEPT ![n].phase = "profile",
                              ![n].tokens = Issued(UserOf[n])]
  /\ UNCHANGED <<now, storage, state, due, refreshes, requests, removals, overtaken, loggedOut>>

\* The profile ends the login.
LoginSucceeds(n) ==
  LET login == logins[n] IN
  /\ login.phase = "profile"
  /\ AccessIsValid(login.tokens)
  /\ logins' = [logins EXCEPT ![n] = EndedLogin("done")]
  /\ storage' = Stored(login.tokens, Profile(login.tokens))
  /\ Becomes(login.tab, [status |-> "authenticated", user |-> Profile(login.tokens),
                         tokens |-> login.tokens, isAuthenticating |-> FALSE])
  /\ overtaken' = (overtaken \/ Refreshing \/ \E m \in 1..LoginCount : m # n /\ LoginIsOut(m))
  /\ UNCHANGED <<now, refreshes, requests, removals, loggedOut>>

----------------------------------------------------------------------------
(* Requests of the panels. *)

\* NavItem.roles.
NavRoles(panel) ==
  CASE panel = "influencer" -> {"influencer", "admin_dentsu", "gestor_afiliados"}
    [] panel = "gestor"     -> {"admin_dentsu", "gestor_afiliados", "admin_marca"}
    [] panel = "finance"    -> {"admin_dentsu", "finance"}
    [] panel = "admin"      -> {"admin_dentsu", "auditor"}

\* The roles for which the hooks of useDashboardData fetch.  The hook of the
\* influencers' panel looks at no role.
HookRoles(panel) ==
  CASE panel = "influencer" -> Roles
    [] panel = "gestor"     -> {"admin_dentsu", "gestor_afiliados", "admin_marca"}
    [] panel = "finance"    -> {"admin_dentsu", "finance"}
    [] panel = "admin"      -> {"admin_dentsu", "auditor"}

\* Mutant of EndpointRoles: brand administrators are left out.
EndpointRoles_NoBrand(panel) ==
  CASE panel = "influencer" -> {"influencer", "admin_dentsu", "gestor_afiliados"}
    [] panel = "gestor"     -> {"admin_dentsu", "gestor_afiliados"}
    [] panel = "finance"    -> {"admin_dentsu", "finance"}
    [] panel = "admin"      -> {"admin_dentsu", "auditor"}

\* The roles DashboardController asks for.
EndpointRoles(panel) ==
  CASE panel = "influencer" -> {"influencer", "admin_dentsu", "gestor_afiliados",
                                "admin_marca"}
    [] panel = "gestor"     -> {"admin_dentsu", "gestor_afiliados", "admin_marca"}
    [] panel = "finance"    -> {"admin_dentsu", "finance"}
    [] panel = "admin"      -> {"admin_dentsu", "auditor"}

\* getDefaultDashboardPath, for users of one role.
DefaultPanel(role) ==
  CASE role \in {"admin_dentsu", "auditor"}            -> "admin"
    [] role = "finance"                                -> "finance"
    [] role \in {"gestor_afiliados", "admin_marca"}    -> "gestor"
    [] role = "influencer"                             -> "influencer"

\* Panels a user comes to, after the login or by the menu.
PanelsOf(role) == {p \in Panels : role \in NavRoles(p)} \cup {DefaultPanel(role)}

\* Mutant of StartRequest: the tokens are read from localStorage.
StartRequest_Stored(n, t, panel) ==
  LET s == state[t]
      r == [phase |-> "sent", tab |-> t, panel |-> panel, user |-> s.user,
            held |-> s.tokens, used |-> storage.tokens] IN
  /\ requests[n].phase = "idle"
  /\ s.user # NoUser
  /\ RoleOf[s.user] \in HookRoles(panel)
  /\ IF s.tokens # NoTokens /\ IsTokenExpired(s.tokens)
     THEN /\ requests' = [requests EXCEPT ![n] =
               [r EXCEPT !.phase = "awaiting", !.used = NoTokens]]
          /\ refreshes' = Refreshed(t, s.tokens, s.user)
          /\ overtaken' = (overtaken \/ s.user # storage.user)
     ELSE /\ requests' = [requests EXCEPT ![n] = r]
          /\ UNCHANGED <<refreshes, overtaken>>
  /\ UNCHANGED <<now, storage, state, due, logins, removals, loggedOut>>

\* request, with ensureValidAccessToken, up to its first await.  AppLayout calls
\* three of the hooks on every page, so that a panel is fetched whether or not the
\* user has come to it.
StartRequest(n, t, panel) ==
  LET s == state[t]
      r == [phase |-> "sent", tab |-> t, panel |-> panel, user |-> s.user,
            held |-> s.tokens, used |-> s.tokens] IN
  /\ requests[n].phase = "idle"
  /\ s.user # NoUser
  /\ RoleOf[s.user] \in HookRoles(panel)
  /\ IF s.tokens # NoTokens /\ IsTokenExpired(s.tokens)
     THEN /\ requests' = [requests EXCEPT ![n] =
               [r EXCEPT !.phase = "awaiting", !.used = NoTokens]]
          /\ refreshes' = Refreshed(t, s.tokens, s.user)
          /\ overtaken' = (overtaken \/ s.user # storage.user)
     ELSE /\ requests' = [requests EXCEPT ![n] = r]
          /\ UNCHANGED <<refreshes, overtaken>>
  /\ UNCHANGED <<now, storage, state, due, logins, removals, loggedOut>>

\* The API does not know the token.  A first attempt has the tokens it holds
\* refreshed, which may no longer be those of the tab; a second one fails.
Unauthorized(n) ==
  LET r == requests[n] IN
  /\ r.phase \in {"sent", "resent"}
  /\ ~AccessIsValid(r.used)
  /\ IF r.phase = "sent" /\ r.held # NoTokens
     THEN /\ requests' = [requests EXCEPT ![n].phase = "refreshing",
                                          ![n].used = NoTokens]
          /\ refreshes' = Refreshed(r.tab, r.held, r.user)
          /\ overtaken' = (overtaken \/ r.user # state[r.tab].user \/ r.user # storage.user)
     ELSE /\ requests' = [requests EXCEPT ![n] = EndedRequest("failed")]
          /\ UNCHANGED <<refreshes, overtaken>>
  /\ UNCHANGED <<now, storage, state, due, logins, removals, loggedOut>>

\* RolesGuard has the last word on a token that is valid.
Authorized(n) ==
  LET r == requests[n] IN
  /\ r.phase \in {"sent", "resent"}
  /\ AccessIsValid(r.used)
  /\ requests' = [requests EXCEPT ![n] = EndedRequest(
       IF RoleOf[r.used.owner] \in EndpointRoles(r.panel) THEN "done" ELSE "forbidden")]
  /\ UNCHANGED <<now, storage, state, due, refreshes, logins, removals, overtaken, loggedOut>>

----------------------------------------------------------------------------
(* The API and the browser. *)

\* AuthService.refreshToken: new tokens for whoever the old one names.  A fetch
\* that does not reach the API fails like one it refuses.
AnswerRefresh(t) ==
  /\ refreshes[t].phase = "sent"
  /\ \/ /\ RefreshIsValid(refreshes[t].tokens)
        /\ refreshes' = [refreshes EXCEPT ![t].phase = "answered",
                           ![t].tokens = Issued(refreshes[t].tokens.owner)]
     \/ refreshes' = [refreshes EXCEPT ![t].phase = "failed"]
  /\ UNCHANGED <<now, storage, state, due, logins, requests, removals, overtaken, loggedOut>>

\* A tab is loaded anew: what it had in flight is lost.
Reload(t) ==
  /\ state[t].status # "checking"
  /\ state' = [state EXCEPT ![t] = SignedOut("checking")]
  /\ due' = due \cup {t}
  /\ refreshes' = [refreshes EXCEPT ![t] = NoRefresh]
  /\ removals' = removals \ {t}
  /\ logins' = [n \in 1..LoginCount |->
       IF logins[n].tab = t /\ LoginIsOut(n)
       THEN EndedLogin("failed") ELSE logins[n]]
  /\ requests' = [n \in 1..RequestCount |->
       IF requests[n].tab = t /\ requests[n].phase \in {"awaiting", "sent", "refreshing", "resent"}
       THEN EndedRequest("failed") ELSE requests[n]]
  /\ UNCHANGED <<now, storage, overtaken, loggedOut>>

Tick ==
  /\ now < MaxTime
  /\ now' = now + 1
  /\ UNCHANGED <<storage, state, due, refreshes, logins, requests, removals, overtaken, loggedOut>>

----------------------------------------------------------------------------

Next ==
  \/ \E t \in Tabs :
       \/ Restore(t) \/ HandleRemoval(t) \/ RefreshSucceeds(t) \/ RefreshFails(t)
       \/ AnswerRefresh(t) \/ Logout(t) \/ Reload(t)
  \/ \E n \in 1..LoginCount :
       \/ LoginIsAccepted(n) \/ LoginSucceeds(n) \/ LoginFails(n)
       \/ \E t \in Tabs : StartLogin(n, t)
  \/ \E n \in 1..RequestCount :
       \/ Unauthorized(n) \/ Authorized(n)
       \/ \E t \in Tabs, panel \in Panels : StartRequest(n, t, panel)
  \/ Tick

Spec == Init /\ [][Next]_vars

----------------------------------------------------------------------------

\* A tab shows the user its tokens are of, and the stored session names that user
\* too, unless a login or a logout overtook a call in flight or the session was
\* restored with an expired token.  refreshTokens keeps whatever user the tab has
\* when the answer comes, and stores the one it started with.
UserOwnsTokens == ~overtaken =>
  /\ \A t \in Tabs : state[t].tokens # NoTokens => state[t].tokens.owner = state[t].user
  /\ storage.tokens # NoTokens => storage.tokens.owner = storage.user

\* A panel's request runs as the user who opened the panel, whatever refresh it
\* had to wait for, under the same condition.
RequestsRunAsTheirUser == ~overtaken =>
  \A n \in 1..RequestCount :
    requests[n].used # NoTokens => requests[n].used.owner = requests[n].user

\* The panels the login and the menu lead a user to are panels the API lets that
\* user read, whatever refreshes and logins come before: routes.ts, navigation.tsx,
\* useDashboardData and DashboardController each list the roles for themselves.
\* What the API refuses is only the influencers' panel that AppLayout has fetched
\* for users who have no way to it.
PanelsAreAllowed ==
  [][\A n \in 1..RequestCount :
       LET r == requests[n] IN
       (~overtaken /\ r.phase # "forbidden" /\ requests'[n].phase = "forbidden") =>
         r.panel = "influencer" /\ "influencer" \notin PanelsOf(RoleOf[r.user])]_vars

\* The tabs have nothing left to do: no answer or event is on its way, and every
\* effect that would run finds what the tab shows.
IsSettled ==
  /\ ~InFlight
  /\ \A t \in due : /\ storage # NoSession
                    /\ state[t].tokens = storage.tokens
                    /\ state[t].user = storage.user

\* A logout ends the session in every tab, once they have settled: neither the tab
\* nor another one brings it back, unless the logout overtook a call in flight.
LogoutEndsTheSession ==
  (loggedOut /\ ~overtaken /\ IsSettled) =>
    /\ storage = NoSession
    /\ \A t \in Tabs : state[t].tokens = NoTokens

=============================================================================
