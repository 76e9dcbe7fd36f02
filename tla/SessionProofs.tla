--------------------------- MODULE SessionProofs ----------------------------
(***************************************************************************)
(* The safety properties of Session, for any number of tabs, requests,     *)
(* roles, logins and failures.                                             *)
(***************************************************************************)
EXTENDS Session, TLAPS

(* What the effects and the end of a login make of the state of a tab. *)
LEMMA InitializeType ==
  ASSUME NEW state \in TabType, state.login = None, state.phase = "running",
         NEW stored \in SessionType \cup {None}
  PROVE  /\ Initialize(state, stored) \in TabType
         /\ Initialize(state, stored).phase = "running"
         /\ Initialize(state, stored).login # None => Initialize(state, stored).loading
  BY SessionAssumption DEF Initialize, TabType

LEMMA PageLoadsType ==
  ASSUME TypeOK, NEW t \in Tabs, NEW token \in SessionType \cup {None}, PageLoads(t, token)
  PROVE  call' \in [Calls -> [tab : Tabs \cup {None}, token : SessionType \cup {None}]]
  BY DEF TypeOK, PageLoads, Sent

(* Types are right, and a tab that logs in shows its loading page, in every *)
(* order of openings, logins, failures and late answers.                    *)
THEOREM SessionTypes == Spec => []TypeOK
<1>1. Init => TypeOK
  BY SessionAssumption DEF Init, TypeOK, TabType, Closed, Idle
<1>2. ASSUME TypeOK, [Next]_vars
      PROVE  TypeOK'
  <2> USE <1>2
  <2>1. ASSUME NEW t \in Tabs, Open(t) PROVE TypeOK'
    <3>1. Loaded \in TabType /\ Loaded.login = None
      BY DEF TypeOK, Loaded, TabType
    <3> QED BY <2>1, <3>1 DEF Open, TypeOK
  <2>2. ASSUME NEW t \in Tabs, Mount(t) PROVE TypeOK'
    <3> DEFINE state == [tab[t] EXCEPT !.phase = "running"]
               after == Initialize(state, storage)
    <3>1. state \in TabType /\ state.login = None /\ state.phase = "running"
      BY <2>2 DEF Mount, TypeOK, TabType
    <3>2. after \in TabType /\ after.phase = "running" /\ (after.login # None => after.loading)
      BY <3>1, InitializeType DEF TypeOK
    <3>3. tab' = [tab EXCEPT ![t] = after]
      BY <2>2 DEF Mount
    <3>4. call' \in [Calls -> [tab : Tabs \cup {None}, token : SessionType \cup {None}]]
      BY <2>2, PageLoadsType DEF Mount, TypeOK
    <3> HIDE DEF after
    <3> QED BY <2>2, <3>2, <3>3, <3>4 DEF Mount, TypeOK
  <2>3. ASSUME NEW t \in Tabs, Close(t) PROVE TypeOK'
    BY <2>3 DEF Close, Closed, Idle, TypeOK, TabType
  <2>4. ASSUME NEW t \in Tabs, NEW role \in Roles, SwitchRole(t, role) PROVE TypeOK'
    <3> DEFINE after == [tab[t] EXCEPT !.loading = TRUE, !.login = role]
    <3>1. tab' = [tab EXCEPT ![t] = after]
      BY <2>4 DEF SwitchRole, TypeOK
    <3>2. after \in TabType /\ after.phase = "running" /\ after.loading
      BY <2>4 DEF SwitchRole, ShellShown, TypeOK, TabType
    <3> HIDE DEF after
    <3> QED BY <2>4, <3>1, <3>2 DEF SwitchRole, TypeOK
  <2>5. ASSUME NEW t \in Tabs, LoginSucceeds(t) PROVE TypeOK'
    <3> DEFINE s == [id |-> issued + 1, role |-> tab[t].login, owner |-> t]
    <3>1. s \in SessionType
      BY <2>5 DEF LoginSucceeds, TypeOK, TabType, SessionType
    <3>2. /\ storage' = s /\ PageLoads(t, s) /\ tab[t].login # None
          /\ tab' = [tab EXCEPT ![t] = [@ EXCEPT !.session = s, !.initialized = TRUE,
                                                 !.loading = FALSE, !.login = None]]
          /\ issued' = issued + 1 /\ expired' = expired /\ refused' = refused
      BY <2>5 DEF LoginSucceeds
    <3> HIDE DEF s
    <3>3. call' \in [Calls -> [tab : Tabs \cup {None}, token : SessionType \cup {None}]]
      BY <3>1, <3>2, PageLoadsType
    <3>4. tab' \in [Tabs -> TabType]
      BY <3>1, <3>2 DEF TypeOK, TabType
    <3>5. \A u \in Tabs : tab'[u].login # None => tab'[u].phase = "running" /\ tab'[u].loading
      BY <3>2 DEF TypeOK, TabType
    <3> QED BY <3>1, <3>2, <3>3, <3>4, <3>5 DEF TypeOK
  <2>6. ASSUME NEW t \in Tabs, LoginFails(t) PROVE TypeOK'
    <3> DEFINE state == [tab[t] EXCEPT !.loading = FALSE, !.login = None]
               after == Initialize(state, storage')
    <3>1. /\ storage' \in SessionType \cup {None}
          /\ state \in TabType /\ state.login = None /\ state.phase = "running"
      BY <2>6 DEF LoginFails, TypeOK, TabType
    <3>2. after \in TabType /\ after.phase = "running" /\ (after.login # None => after.loading)
      BY <3>1, InitializeType
    <3>3. tab' = [tab EXCEPT ![t] = after]
      BY <2>6 DEF LoginFails, AfterFailure
    <3>4. call' \in [Calls -> [tab : Tabs \cup {None}, token : SessionType \cup {None}]]
      BY <2>6, <3>1, PageLoadsType DEF LoginFails
    <3> HIDE DEF after
    <3> QED BY <2>6, <3>1, <3>2, <3>3, <3>4, SessionAssumption DEF LoginFails, TypeOK
  <2>7. ASSUME NEW t \in Tabs, NEW c \in Calls, Send(t, c) PROVE TypeOK'
    BY <2>7 DEF Send, Sent, TypeOK
  <2>8. ASSUME NEW c \in Calls, Answered(c) \/ LoadsAgain(c) \/ Unauthorized(c) PROVE TypeOK'
    BY <2>8 DEF Answered, LoadsAgain, Unauthorized, Ends, Idle, TypeOK
  <2>9. CASE Expire
    BY <2>9 DEF Expire, TypeOK
  <2>10. CASE UNCHANGED vars
    BY <2>10 DEF vars, TypeOK
  <2> QED BY <2>1, <2>2, <2>3, <2>4, <2>5, <2>6, <2>7, <2>8, <2>9, <2>10 DEF Next, LoginAnswered
<1> QED BY <1>1, <1>2, PTL DEF Spec

-----------------------------------------------------------------------------
(* Changes of one tab, as the properties see them. *)
LEMMA TabSteps ==
  ASSUME TypeOK, Next
  PROVE  \/ \E t \in Tabs :
              \/ Open(t) \/ Mount(t) \/ Close(t) \/ LoginSucceeds(t) \/ LoginFails(t)
              \/ \E role \in Roles : SwitchRole(t, role)
         \/ UNCHANGED <<storage, tab>>
         \/ storage' = None /\ UNCHANGED tab
  BY DEF Next, LoginAnswered, Send, Answered, LoadsAgain, Unauthorized, Expire

(* The session a tab has stored is the one on its screen as long as it is   *)
(* stored: its logins never overlap.                                        *)
THEOREM OwnSessionIsShown == Spec => []OwnSessionShown
<1>1. Init => OwnSessionShown
  BY DEF Init, OwnSessionShown, Closed
<1>2. ASSUME TypeOK, OwnSessionShown, [Next]_vars
      PROVE  OwnSessionShown'
  <2> SUFFICES ASSUME NEW u \in Tabs, tab'[u].phase # "closed", storage' # None,
                      storage'.owner = u
               PROVE  tab'[u].session = storage'
    BY DEF OwnSessionShown
  <2> USE <1>2 DEF TypeOK, TabType
  <2>1. ASSUME NEW t \in Tabs, Open(t) PROVE tab'[u].session = storage'
    BY <2>1 DEF Open, Loaded, OwnSessionShown
  <2>2. ASSUME NEW t \in Tabs, Mount(t) PROVE tab'[u].session = storage'
    BY <2>2 DEF Mount, Initialize, OwnSessionShown
  <2>3. ASSUME NEW t \in Tabs, Close(t) PROVE tab'[u].session = storage'
    BY <2>3 DEF Close, Closed, OwnSessionShown
  <2>4. ASSUME NEW t \in Tabs, LoginSucceeds(t) PROVE tab'[u].session = storage'
    BY <2>4 DEF LoginSucceeds
  <2>5. ASSUME NEW t \in Tabs, LoginFails(t) PROVE tab'[u].session = storage'
    <3>1. tab[u].phase # "closed" /\ storage' = storage
      BY <2>5 DEF LoginFails
    <3>2. tab[u].session = storage
      BY <3>1 DEF OwnSessionShown
    <3> QED BY <2>5, <3>1, <3>2 DEF LoginFails, AfterFailure, Initialize
  <2>6. ASSUME NEW t \in Tabs, NEW role \in Roles, SwitchRole(t, role)
        PROVE  tab'[u].session = storage'
    BY <2>6 DEF SwitchRole, OwnSessionShown
  <2>7. CASE UNCHANGED <<storage, tab>>
    BY <2>7 DEF OwnSessionShown
  <2> QED BY <2>1, <2>2, <2>3, <2>4, <2>5, <2>6, <2>7, TabSteps DEF vars
<1> QED BY <1>1, <1>2, SessionTypes, PTL DEF Spec

(* Only a tab without a session is uninitialized, hence logs in when told   *)
(* to; and a tab that opened without a session can only find one of another *)
(* tab when its effects run.                                                *)
InitializedHasSession == \A t \in Tabs : tab[t].initialized => tab[t].session # None

OpenedWithout ==
  \A t \in Tabs :
    tab[t].phase = "loaded" /\ tab[t].loading =>
      ~tab[t].initialized /\ (storage = None \/ storage.owner # t)

(* A tab that shows the shell has a session, or is getting one; only with   *)
(* the session of another tab does it hang.                                 *)
THEOREM SessionIsComing == Spec => []SessionOrLogin
<1> DEFINE Inv == InitializedHasSession /\ OpenedWithout /\ SessionOrLogin
<1>1. Init => Inv
  BY DEF Init, InitializedHasSession, OpenedWithout, SessionOrLogin, Closed
<1>2. ASSUME TypeOK, Inv, [Next]_vars
      PROVE  Inv'
  <2> DEFINE Goal(u) ==
        /\ tab'[u].initialized => tab'[u].session # None
        /\ tab'[u].phase = "loaded" /\ tab'[u].loading =>
             ~tab'[u].initialized /\ (storage' = None \/ storage'.owner # u)
        /\ tab'[u].phase = "running" /\ tab'[u].login = None =>
             tab'[u].session # None /\ (tab'[u].loading => tab'[u].session.owner # u)
  <2> SUFFICES ASSUME NEW u \in Tabs PROVE Goal(u)
    BY DEF InitializedHasSession, OpenedWithout, SessionOrLogin
  <2> USE <1>2, SessionAssumption DEF TypeOK, TabType, InitializedHasSession, OpenedWithout,
          SessionOrLogin
  <2>1. ASSUME NEW t \in Tabs, Open(t) PROVE Goal(u)
    BY <2>1 DEF Open, Loaded
  <2>2. ASSUME NEW t \in Tabs, Mount(t) PROVE Goal(u)
    <3> DEFINE state == [tab[t] EXCEPT !.phase = "running"]
               after == Initialize(state, storage)
    <3>1. /\ storage' = storage /\ tab' = [tab EXCEPT ![t] = after]
          /\ tab[t].phase = "loaded" /\ tab[t].login = None
      BY <2>2 DEF Mount
    <3>2. /\ after.phase = "running" /\ (after.initialized => after.session # None)
          /\ after.login = None => after.session # None /\ (after.loading => after.session.owner # t)
      BY <3>1 DEF Initialize
    <3> HIDE DEF after
    <3>3. CASE u = t
      BY <3>1, <3>2, <3>3
    <3>4. CASE u # t
      BY <3>1, <3>4
    <3> QED BY <3>3, <3>4
  <2>3. ASSUME NEW t \in Tabs, Close(t) PROVE Goal(u)
    BY <2>3 DEF Close, Closed
  <2>4. ASSUME NEW t \in Tabs, LoginSucceeds(t) PROVE Goal(u)
    <3> DEFINE s == [id |-> issued + 1, role |-> tab[t].login, owner |-> t]
    <3>1. s \in SessionType /\ s # None /\ s.owner = t
      BY <2>4 DEF LoginSucceeds, SessionType
    <3>2. /\ storage' = s /\ tab[t].phase = "running"
          /\ tab' = [tab EXCEPT ![t] = [@ EXCEPT !.session = s, !.initialized = TRUE,
                                                 !.loading = FALSE, !.login = None]]
      BY <2>4 DEF LoginSucceeds
    <3> HIDE DEF s
    <3> QED BY <3>1, <3>2
  <2>5. ASSUME NEW t \in Tabs, LoginFails(t) PROVE Goal(u)
    <3> DEFINE after == AfterFailure(t, storage')
    <3>1. /\ storage' \in {storage, None} /\ tab' = [tab EXCEPT ![t] = after]
          /\ tab[t].login # None /\ tab[t].phase = "running"
      BY <2>5 DEF LoginFails
    <3>2. /\ after.phase = "running" /\ (after.initialized => after.session # None)
          /\ after.login = None => after.session # None /\ ~after.loading
      BY <3>1 DEF AfterFailure, Initialize
    <3> HIDE DEF after
    <3>3. CASE u = t
      BY <3>1, <3>2, <3>3
    <3>4. CASE u # t
      BY <3>1, <3>4
    <3> QED BY <3>3, <3>4
  <2>6. ASSUME NEW t \in Tabs, NEW role \in Roles, SwitchRole(t, role) PROVE Goal(u)
    BY <2>6 DEF SwitchRole
  <2>7. CASE UNCHANGED tab /\ storage' \in {storage, None}
    BY <2>7
  <2> QED BY <2>1, <2>2, <2>3, <2>4, <2>5, <2>6, <2>7, TabSteps DEF vars
<1> QED BY <1>1, <1>2, SessionTypes, PTL DEF Spec

-----------------------------------------------------------------------------
(* While nothing has expired or failed, a tab that shows the shell and a    *)
(* call in flight both find a session in the storage.                       *)
Undisturbed ==
  expired = 0 /\ refused = 0 =>
    /\ issued > 0 => storage # None
    /\ \A t \in Tabs : tab[t].phase # "closed" /\ ~tab[t].loading => storage # None
    /\ \A c \in Calls : call[c] # Idle => call[c].token # None /\ storage # None

(* A page that loads with a session leaves no call without a token. *)
LEMMA PageLoadsWithToken ==
  ASSUME TypeOK, NEW t \in Tabs, NEW token \in SessionType, PageLoads(t, token),
         \A c \in Calls : call[c] # Idle => call[c].token # None
  PROVE  \A c \in Calls : call'[c] # Idle => call'[c].token # None
  BY SessionAssumption DEF TypeOK, PageLoads, Sent

LEMMA UndisturbedStep ==
  ASSUME TypeOK, Undisturbed, [Next]_vars
  PROVE  Undisturbed'
<1> SUFFICES ASSUME expired' = 0, refused' = 0
             PROVE  /\ issued' > 0 => storage' # None
                    /\ \A t \in Tabs :
                         tab'[t].phase # "closed" /\ ~tab'[t].loading => storage' # None
                    /\ \A c \in Calls :
                         call'[c] # Idle => call'[c].token # None /\ storage' # None
  BY DEF Undisturbed, Idle
<1> DEFINE Goal ==
      /\ issued' > 0 => storage' # None
      /\ \A t \in Tabs : tab'[t].phase # "closed" /\ ~tab'[t].loading => storage' # None
      /\ \A c \in Calls : call'[c] # Idle => call'[c].token # None /\ storage' # None
<1>1. ASSUME NEW t \in Tabs, Open(t) PROVE Goal
  BY <1>1 DEF Open, Loaded, Undisturbed, TypeOK, TabType
<1>2. ASSUME NEW t \in Tabs, Mount(t) PROVE Goal
  <2>1. /\ expired = 0 /\ refused = 0 /\ storage' = storage /\ issued' = issued
        /\ tab[t].phase = "loaded"
        /\ tab' = [tab EXCEPT ![t] = Initialize([@ EXCEPT !.phase = "running"], storage)]
    BY <1>2 DEF Mount
  <2>2. \A u \in Tabs : tab'[u].phase # "closed" /\ ~tab'[u].loading => storage' # None
    BY <2>1 DEF Undisturbed, Initialize, TypeOK, TabType
  <2>3. \A c \in Calls : call'[c] # Idle => call'[c].token # None /\ storage' # None
    <3>1. CASE tab[t].loading
      BY <1>2, <2>1, <3>1 DEF Mount, Undisturbed
    <3>2. CASE ~tab[t].loading
      <4>1. storage \in SessionType
        BY <2>1, <3>2 DEF Undisturbed, TypeOK
      <4>2. PageLoads(t, storage)
        BY <1>2, <3>2 DEF Mount
      <4>3. \A c \in Calls : call'[c] # Idle => call'[c].token # None
        BY <2>1, <4>1, <4>2, PageLoadsWithToken DEF Undisturbed
      <4> QED BY <2>1, <4>1, <4>3, SessionAssumption
    <3> QED BY <3>1, <3>2
  <2> QED BY <2>1, <2>2, <2>3 DEF Undisturbed
<1>3. ASSUME NEW t \in Tabs, Close(t) PROVE Goal
  BY <1>3 DEF Close, Closed, Undisturbed, TypeOK, TabType
<1>4. ASSUME NEW t \in Tabs, NEW role \in Roles, SwitchRole(t, role) PROVE Goal
  BY <1>4 DEF SwitchRole, Undisturbed, TypeOK, TabType
<1>5. ASSUME NEW t \in Tabs, LoginSucceeds(t) PROVE Goal
  <2> DEFINE s == [id |-> issued + 1, role |-> tab[t].login, owner |-> t]
  <2>1. s \in SessionType
    BY <1>5 DEF LoginSucceeds, TypeOK, TabType, SessionType
  <2>2. storage' = s /\ PageLoads(t, s) /\ expired = 0 /\ refused = 0
    BY <1>5 DEF LoginSucceeds
  <2> HIDE DEF s
  <2>3. \A c \in Calls : call'[c] # Idle => call'[c].token # None
    BY <2>1, <2>2, PageLoadsWithToken DEF Undisturbed
  <2> QED BY <2>1, <2>2, <2>3, SessionAssumption
<1>6. ASSUME NEW t \in Tabs, LoginFails(t) PROVE Goal
  BY <1>6 DEF LoginFails, TypeOK
<1>7. ASSUME NEW t \in Tabs, NEW c \in Calls, Send(t, c) PROVE Goal
  <2>1. expired = 0 /\ refused = 0 /\ storage # None
    BY <1>7 DEF Send, ShellShown, Undisturbed
  <2> QED BY <1>7, <2>1 DEF Send, Sent, Undisturbed, TypeOK
<1>8. ASSUME NEW c \in Calls, Answered(c) PROVE Goal
  BY <1>8 DEF Answered, Ends, Undisturbed, TypeOK
<1>9. ASSUME NEW c \in Calls, LoadsAgain(c) PROVE Goal
  BY <1>9 DEF LoadsAgain, Undisturbed, TypeOK
<1>10. ASSUME NEW c \in Calls, Unauthorized(c) PROVE FALSE
  <2>1. expired = 0 /\ call[c].token \in SessionType /\ call[c].token # None
    BY <1>10 DEF Unauthorized, Undisturbed, TypeOK
  <2> QED BY <1>10, <2>1 DEF Unauthorized, MissingOrInvalid, Live, SessionType
<1>11. CASE Expire
  BY <1>11 DEF Expire, TypeOK
<1>12. CASE UNCHANGED vars
  BY <1>12 DEF vars, Undisturbed
<1> QED
  BY <1>1, <1>2, <1>3, <1>4, <1>5, <1>6, <1>7, <1>8, <1>9, <1>10, <1>11, <1>12
     DEF Next, LoginAnswered

(* Without an expired token and a failed login the storage is never cleared. *)
THEOREM UndisturbedStaysLoggedIn == Spec => []NobodyLoggedOut
<1>1. Init => Undisturbed
  BY DEF Init, Undisturbed, Closed
<1>2. Undisturbed => NobodyLoggedOut
  BY DEF Undisturbed, NobodyLoggedOut
<1> QED BY <1>1, <1>2, UndisturbedStep, SessionTypes, PTL DEF Spec

(* A tab stuck on its loading page has no way out but to be closed. *)
THEOREM StuckForGood == Spec => StuckTabsStay
<1>1. ASSUME TypeOK, [Next]_vars
      PROVE  \A t \in Tabs : Stuck(t) => Stuck(t)' \/ tab'[t].phase = "closed"
  <2> SUFFICES ASSUME NEW u \in Tabs, Stuck(u)
               PROVE  Stuck(u)' \/ tab'[u].phase = "closed"
    OBVIOUS
  <2> USE <1>1 DEF TypeOK, Stuck
  <2>1. ASSUME NEW t \in Tabs, Open(t) PROVE Stuck(u)'
    BY <2>1 DEF Open
  <2>2. ASSUME NEW t \in Tabs, Mount(t) PROVE Stuck(u)'
    BY <2>2 DEF Mount
  <2>3. ASSUME NEW t \in Tabs, Close(t) PROVE Stuck(u)' \/ tab'[u].phase = "closed"
    BY <2>3 DEF Close, Closed
  <2>4. ASSUME NEW t \in Tabs, LoginSucceeds(t) \/ LoginFails(t) PROVE Stuck(u)'
    BY <2>4 DEF LoginSucceeds, LoginFails
  <2>5. ASSUME NEW t \in Tabs, NEW role \in Roles, SwitchRole(t, role) PROVE Stuck(u)'
    BY <2>5 DEF SwitchRole, ShellShown
  <2>6. CASE UNCHANGED tab
    BY <2>6
  <2> QED BY <2>1, <2>2, <2>3, <2>4, <2>5, <2>6, TabSteps DEF vars
<1> QED BY <1>1, SessionTypes, PTL DEF Spec, StuckTabsStay

=============================================================================
