------------------------------ MODULE Session -------------------------------
(***************************************************************************)
(* The session of the frontend: one entry of localStorage that all tabs    *)
(* share, the auth state of each tab, the logins, and the requests that    *)
(* are sent with the stored token and may come back with a 401.            *)
(*                                                                         *)
(* What React does in one task is one action: when the state of a tab      *)
(* changes, the shell is drawn again, and a page that appears then runs    *)
(* its effects (initialize, and the load of its list).                     *)
(***************************************************************************)
EXTENDS Naturals, FiniteSets

CONSTANTS
  Tabs,
  Calls,        \* bound: page requests in flight at a time, over all tabs
  Roles,        \* the roles of the demonstration users
  Home,         \* the role a tab logs in with by itself, "admin" in the code
  MaxSessions,  \* bound: users stop opening tabs and switching roles
  None          \* "no value"

(* A session is its token, the role in it, and (for the properties) the tab that asked for it. *)
SessionType == [id : Nat \ {0}, role : Roles, owner : Tabs]

ASSUME SessionAssumption ==
  /\ Home \in Roles /\ None \notin Roles /\ None \notin SessionType
  /\ MaxSessions \in Nat

VARIABLES
  storage,   \* the session under TOKEN_KEY, or None
  tab,       \* the auth state of each tab, and the role it is logging in as
  call,      \* page requests in flight: their tab and the token they were sent with
  issued,    \* sessions issued so far; their ids count up
  expired,   \* tokens expire in the order in which they were issued
  refused    \* 0 until a login fails; then 1 and 2 in turn, a change for each failure

vars == <<storage, tab, call, issued, expired, refused>>

Closed == [phase |-> "closed", session |-> None, loading |-> FALSE,
           initialized |-> FALSE, login |-> None]

Idle == [tab |-> None, token |-> None]

(* The module is evaluated when the tab opens; its effects have not run yet. *)
Loaded ==
  [phase |-> "loaded", session |-> storage, loading |-> storage = None,
   initialized |-> storage # None, login |-> None]

Init ==
  /\ storage = None /\ issued = 0 /\ expired = 0 /\ refused = 0
  /\ tab = [t \in Tabs |-> Closed]
  /\ call = [c \in Calls |-> Idle]

Live(s) == s # None /\ s.id > expired

(* The shell is on the screen, with its choice of roles and a page. *)
ShellShown(t) == tab[t].phase = "running" /\ ~tab[t].loading

-----------------------------------------------------------------------------
(* Mutant: loading is not set while the tab logs in. *)
InitializeQuietly(state, stored) ==
  IF state.initialized THEN state
  ELSE IF stored # None THEN [state EXCEPT !.session = stored, !.initialized = TRUE]
  ELSE [state EXCEPT !.login = Home]

(* The effect of useAuth: nothing once initialized; a session in the       *)
(* storage is taken over; otherwise the tab logs in.                       *)
Initialize(state, stored) ==
  IF state.initialized THEN state
  ELSE IF stored # None THEN [state EXCEPT !.session = stored, !.initialized = TRUE]
  ELSE [state EXCEPT !.loading = TRUE, !.login = Home]

(* request() reads the token from the storage when it sends. *)
Sent(t, token) == [tab |-> t, token |-> token]

(* A page that appears loads its list; no call when the bound is reached. *)
PageLoads(t, token) ==
  \/ \E c \in Calls : call[c] = Idle /\ call' = [call EXCEPT ![c] = Sent(t, token)]
  \/ (\A c \in Calls : call[c] # Idle) /\ UNCHANGED call

-----------------------------------------------------------------------------
(* Logins a tab may still ask for without being told to by its user. *)
Room ==
  issued + Cardinality({t \in Tabs : tab[t].login # None \/ tab[t].phase = "loaded"})
    < MaxSessions

Open(t) ==
  /\ tab[t].phase = "closed" /\ Room
  /\ tab' = [tab EXCEPT ![t] = Loaded]
  /\ UNCHANGED <<storage, call, issued, expired, refused>>

(* First effects: of App, and of the page unless the shell is still hidden. *)
Mount(t) ==
  /\ tab[t].phase = "loaded"
  /\ tab' = [tab EXCEPT ![t] = Initialize([@ EXCEPT !.phase = "running"], storage)]
  /\ IF tab[t].loading THEN UNCHANGED call ELSE PageLoads(t, storage)
  /\ UNCHANGED <<storage, issued, expired, refused>>

(* Closing or reloading a tab cuts off its requests and forgets its state. *)
Close(t) ==
  /\ tab[t].phase # "closed"
  /\ tab' = [tab EXCEPT ![t] = Closed]
  /\ call' = [c \in Calls |-> IF call[c].tab = t THEN Idle ELSE call[c]]
  /\ UNCHANGED <<storage, issued, expired, refused>>

ShownRole(t) == IF tab[t].session = None THEN Home ELSE tab[t].session.role

(* Mutant: the choice of roles stays on the screen while the tab is loading. *)
SwitchAnyTime(t, role) ==
  /\ tab[t].phase = "running" /\ Room /\ role # ShownRole(t)
  /\ tab' = [tab EXCEPT ![t].loading = TRUE, ![t].login = role]
  /\ UNCHANGED <<storage, call, issued, expired, refused>>

SwitchRole(t, role) ==
  /\ ShellShown(t) /\ Room /\ role # ShownRole(t)
  /\ tab' = [tab EXCEPT ![t].loading = TRUE, ![t].login = role]
  /\ UNCHANGED <<storage, call, issued, expired, refused>>

(* Mutant: a switch of role shows the new session but keeps the stored one. *)
LoginKeepsStorage(t) ==
  LET s == [id |-> issued + 1, role |-> tab[t].login, owner |-> t] IN
  /\ tab[t].login # None
  /\ storage' = IF storage = None THEN s ELSE storage
  /\ tab' = [tab EXCEPT ![t] = [@ EXCEPT !.session = s, !.initialized = TRUE,
                                         !.loading = FALSE, !.login = None]]
  /\ PageLoads(t, storage')
  /\ issued' = issued + 1
  /\ UNCHANGED <<expired, refused>>

(* Saved and shown, then the page appears and loads with the new token. *)
LoginSucceeds(t) ==
  LET s == [id |-> issued + 1, role |-> tab[t].login, owner |-> t] IN
  /\ tab[t].login # None
  /\ storage' = s
  /\ tab' = [tab EXCEPT ![t] = [@ EXCEPT !.session = s, !.initialized = TRUE,
                                         !.loading = FALSE, !.login = None]]
  /\ PageLoads(t, s)
  /\ issued' = issued + 1
  /\ UNCHANGED <<expired, refused>>

(* Mutant: loading is not reset when the login fails. *)
StillLoading(t, stored) == [tab[t] EXCEPT !.login = None]

(* Mutant: only the effect of App logs in, and that has run. *)
WaitsAfterFailure(t, stored) == [tab[t] EXCEPT !.loading = FALSE, !.login = None]

(* The finally branch; the page appears, and a tab that has never had a    *)
(* session logs in again at once.                                          *)
AfterFailure(t, stored) ==
  Initialize([tab[t] EXCEPT !.loading = FALSE, !.login = None], stored)

(* The login fails, any number of times.  Whatever the database has to     *)
(* say, the handler answers 401, and request() drops the stored session;  *)
(* an error of another kind leaves it.                                     *)
LoginFails(t) ==
  /\ tab[t].login # None
  /\ storage' \in {storage, None}
  /\ tab' = [tab EXCEPT ![t] = AfterFailure(t, storage')]
  /\ PageLoads(t, storage')
  /\ refused' = (refused % 2) + 1
  /\ UNCHANGED <<issued, expired>>

-----------------------------------------------------------------------------
(* Requests of the page. *)

(* The user looks at a record, turns a page, advances a status, ... *)
Send(t, c) ==
  /\ ShellShown(t) /\ call[c] = Idle
  /\ call' = [call EXCEPT ![c] = Sent(t, storage)]
  /\ UNCHANGED <<storage, tab, issued, expired, refused>>

Ends(c) == call' = [call EXCEPT ![c] = Idle]

(* Any answer but a 401, or none at all. *)
Answered(c) ==
  /\ call[c] # Idle /\ Ends(c)
  /\ UNCHANGED <<storage, tab, issued, expired, refused>>

(* A store that has written loads its list again, whether or not its page is shown. *)
LoadsAgain(c) ==
  /\ call[c] # Idle /\ call[c].token # None
  /\ call' = [call EXCEPT ![c].token = storage]
  /\ UNCHANGED <<storage, tab, issued, expired, refused>>

(* Mutant: any refusal, such as a 403 or a 429, clears the session. *)
RefusedByAnyMeans(token) == TRUE

(* No token, or an expired one. *)
MissingOrInvalid(token) == ~Live(token)

(* The stored session goes, whichever it is by now; the state of the tab stays. *)
Unauthorized(c) ==
  /\ call[c] # Idle /\ MissingOrInvalid(call[c].token)
  /\ storage' = None /\ Ends(c)
  /\ UNCHANGED <<tab, issued, expired, refused>>

Expire ==
  /\ expired < issued
  /\ expired' = expired + 1
  /\ UNCHANGED <<storage, tab, call, issued, refused>>

-----------------------------------------------------------------------------
LoginAnswered(t) == LoginSucceeds(t) \/ LoginFails(t)

Next ==
  \/ \E t \in Tabs :
       \/ Open(t) \/ Mount(t) \/ Close(t) \/ LoginAnswered(t)
       \/ \E role \in Roles : SwitchRole(t, role)
       \/ \E c \in Calls : Send(t, c)
  \/ \E c \in Calls : Answered(c) \/ LoadsAgain(c) \/ Unauthorized(c)
  \/ Expire

Spec == Init /\ [][Next]_vars

(* A tab that is open runs its effects, and fetch settles: nothing is asked of the user. *)
FairSpec == Spec /\ \A t \in Tabs : WF_vars(Mount(t)) /\ WF_vars(LoginAnswered(t))

-----------------------------------------------------------------------------
TabType ==
  [phase : {"closed", "loaded", "running"}, session : SessionType \cup {None},
   loading : BOOLEAN, initialized : BOOLEAN, login : Roles \cup {None}]

(* Types.  A tab that logs in shows its loading page, so that its user     *)
(* cannot start a second login.                                            *)
TypeOK ==
  /\ storage \in SessionType \cup {None}
  /\ tab \in [Tabs -> TabType]
  /\ call \in [Calls -> [tab : Tabs \cup {None}, token : SessionType \cup {None}]]
  /\ \A t \in Tabs : tab[t].login # None => tab[t].phase = "running" /\ tab[t].loading
  /\ issued \in Nat /\ expired \in 0..issued /\ refused \in 0..2

(* Two logins of one tab never overlap, so the session saved last by a tab *)
(* is the one it shows: as long as the stored session is one the tab has   *)
(* asked for, the role on its screen is the role its requests act with.    *)
OwnSessionShown ==
  \A t \in Tabs :
    tab[t].phase # "closed" /\ storage # None =>
      (storage.owner = t => tab[t].session = storage)

(* Without an expired token and a failed login nobody is logged out, and   *)
(* every request carries a token: no order of openings, effects, switches  *)
(* and late answers in several tabs clears the storage by itself.          *)
NobodyLoggedOut ==
  expired = 0 /\ refused = 0 =>
    /\ issued > 0 => storage # None
    /\ \A c \in Calls : call[c] # Idle => call[c].token # None

(* A tab that shows the shell has a session; while it has none, a login is *)
(* on its way, so that a first login that fails is tried again at once.    *)
(* And no tab hangs by itself: one that shows its loading page without a   *)
(* login under way has taken over the session of another tab.              *)
SessionOrLogin ==
  \A t \in Tabs :
    tab[t].phase = "running" /\ tab[t].login = None =>
      /\ tab[t].session # None
      /\ tab[t].loading => tab[t].session.owner # t

(* The loading page is shown and nothing is under way. *)
Stuck(t) == tab[t].phase = "running" /\ tab[t].loading /\ tab[t].login = None

(* A tab whose first effect finds the session of another tab takes it over *)
(* but stays on its loading page; from there only closing or reloading the *)
(* tab helps.                                                              *)
StuckTabsStay ==
  [][\A t \in Tabs : Stuck(t) => Stuck(t)' \/ tab'[t].phase = "closed"]_vars

(* From some time on no login fails: the backend is up, its database too.  *)
TroubleEnds == <>[][\A t \in Tabs : ~LoginFails(t)]_vars

(* A login that has been sent ends with the shell, or with the tab closed, *)
(* however often it is refused on the way, provided that logins fail only  *)
(* for some time.  Nothing in the code ends a series of failures: a tab    *)
(* that has never had a session logs in again after each, and shows its    *)
(* loading page, for as long as the backend is down.                       *)
LoginsEnd ==
  TroubleEnds =>
    \A t \in Tabs : tab[t].login # None ~> (ShellShown(t) \/ tab[t].phase = "closed")
=============================================================================
