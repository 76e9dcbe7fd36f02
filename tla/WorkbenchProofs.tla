-------------------------- MODULE WorkbenchProofs ---------------------------
(***************************************************************************)
(* The safety properties of Workbench, for every policy, any records,      *)
(* users, searches and page size, any number of calls in flight, and any   *)
(* table of offers that satisfies WorkbenchAssumption.                     *)
(***************************************************************************)
EXTENDS Workbench, PagingProofs, FiniteSetTheorems, TLAPS

CallType ==
  [use : {"none", "list", "advance", "create", "detail"},
   stage : {"idle", "post", "posted", "count", "find", "answer", "get"},
   mounted : BOOLEAN, role : Roles \cup {None}, own : BOOLEAN,
   copy : Copy \cup {None}, target : Statuses \cup {None},
   query : QueryType \cup {None}, total : Nat, items : SUBSET Copy]

PageType ==
  [role : Roles, at : Nat \ {0}, search : Searches, creating : BOOLEAN,
   pending : [copy : Copy, target : Statuses] \cup {None}, detail : BOOLEAN]

(* What the fields of a call hold depends on how far it is. *)
CallShape(q) ==
  /\ q \in CallType
  /\ q.stage \in {"count", "find", "answer"} => q.query \in QueryType
  /\ q.use \in {"advance", "create"} => q.copy \in Copy
  /\ q.stage \in {"post", "posted"} => q.use \in {"advance", "create"}
  /\ q.use = "advance" /\ q.stage = "post" =>
       q.target \in Statuses /\ q.copy.item.version < MaxVersion
  /\ q.stage # "answer" => q.items = {}
  /\ q.use = "none" <=> q.stage = "idle"
  /\ q.use = "detail" <=> q.stage = "get"

TypeInv == TypeOK /\ \A c \in Calls : CallShape(call[c])

-----------------------------------------------------------------------------
(* Lists. *)

LEMMA LiveIsStored ==
  ASSUME TypeOK, NEW rec \in Records, row[rec].phase = "live"
  PROVE  row[rec] \in StoredRow
  BY DEF TypeOK, Row, AbsentRow

LEMMA MatchingType ==
  ASSUME TypeOK, NEW search \in Searches
  PROVE  /\ Matching(search) \subseteq {rec \in Records : row[rec].phase = "live"}
         /\ Cardinality(Matching(search)) \in Nat
<1>1. Matching(search) \subseteq {rec \in Records : row[rec].phase = "live"}
  BY WorkbenchAssumption DEF Matching
<1>2. IsFiniteSet(Matching(search))
  BY <1>1, WorkbenchAssumption, FS_Subset
<1> QED BY <1>1, <1>2, FS_CardinalityType

(* The rows of a list are copies of live records. *)
LEMMA ItemsAreCopies ==
  ASSUME TypeOK, NEW query \in QueryType
  PROVE  /\ \A copy \in ItemsOf(query) :
              \E rec \in Records : row[rec].phase = "live" /\ copy = CopyOf(rec)
         /\ ItemsOf(query) \subseteq Copy
<1>1. \A copy \in ItemsOf(query) :
        \E rec \in Records : row[rec].phase = "live" /\ copy = CopyOf(rec)
  BY MatchingType DEF ItemsOf, QueryType
<1>2. \A rec \in Records : row[rec].phase = "live" => CopyOf(rec) \in Copy
  BY LiveIsStored DEF CopyOf, Copy
<1>3. ASSUME NEW copy \in ItemsOf(query) PROVE copy \in Copy
  <2>1. PICK rec \in Records : row[rec].phase = "live" /\ copy = CopyOf(rec)
    BY <1>1
  <2> QED BY <1>2, <2>1
<1> QED BY <1>1, <1>3

LEMMA DefaultQueryType == DefaultQuery \in QueryType
  BY WorkbenchAssumption DEF DefaultQuery, Query, QueryType

LEMMA ListCallShape ==
  ASSUME NEW query \in QueryType, NEW role \in Roles \cup {None}
  PROVE  CallShape(ListCall(query, role))
  BY DEF CallShape, CallType, ListCall, Idle

LEMMA IdleShape == CallShape(Idle)
  BY DEF CallShape, CallType, Idle

-----------------------------------------------------------------------------
(* The backend. *)

LEMMA SameRows ==
  /\ Server!AbsentRow = AbsentRow /\ Server!Statuses = Statuses
  /\ \A c : Server!NewRow(c) = NewRow(c)
  /\ \A from, to : Server!CanTransition(Policy.graph, from, to) = CanTransition(Policy.graph, from, to)
  BY DEF Server!AbsentRow, AbsentRow, Server!NewRow, NewRow, Server!Statuses, Statuses,
         Server!CanTransition, CanTransition

(* What a write makes of a row: a later version, or the same one deleted. *)
Later(before, after) ==
  \/ after = before
  \/ after.version > before.version
  \/ /\ after.version = before.version
     /\ after.status = before.status /\ after.content = before.content

LEMMA OneRowLater ==
  ASSUME TypeOK, NEW rec \in Records, NEW new \in Row,
         row' = [row EXCEPT ![rec] = new], Later(row[rec], new)
  PROVE  /\ row' \in [Records -> Row]
         /\ \A q \in Records : Later(row[q], row'[q])
<1>1. row' \in [Records -> Row]
  BY DEF TypeOK
<1>2. row'[rec] = new /\ \A q \in Records \ {rec} : row'[q] = row[q]
  BY DEF TypeOK
<1>3. \A q \in Records \ {rec} : Later(row[q], row'[q])
  BY <1>2 DEF Later
<1> QED BY <1>1, <1>2, <1>3

LEMMA CreateType ==
  ASSUME TypeOK, NEW rec \in Records, NEW actor, NEW content \in Contents,
         Server!Create(rec, actor, content)
  PROVE  /\ row' \in [Records -> Row]
         /\ \A q \in Records : Later(row[q], row'[q])
<1>1. row[rec] = AbsentRow /\ row' = [row EXCEPT ![rec] = NewRow(content)]
  BY SameRows DEF Server!Create, Server!Write
<1>2. NewRow(content) \in Row
  BY PolicyAssumption, MaxVersionAssumption DEF NewRow, Row, StoredRow
<1>3. NewRow(content).version > AbsentRow.version
  BY DEF NewRow, AbsentRow
<1> QED BY <1>1, <1>2, <1>3 DEF TypeOK, Later

LEMMA UpdateType ==
  ASSUME TypeOK, NEW rec \in Records, NEW actor, NEW content \in Contents,
         row[rec].version < MaxVersion, Server!Update(rec, actor, content)
  PROVE  /\ row' \in [Records -> Row]
         /\ \A q \in Records : Later(row[q], row'[q])
<1> DEFINE new == [row[rec] EXCEPT !.content = content, !.version = row[rec].version + 1]
<1>1. row[rec].phase = "live" /\ row' = [row EXCEPT ![rec] = new]
  BY DEF Server!Update, Server!Write
<1>2. row[rec] \in StoredRow
  BY <1>1, LiveIsStored
<1>3. row[rec].version + 1 \in 1..MaxVersion /\ row[rec].version + 1 > row[rec].version
  BY <1>2, MaxVersionAssumption DEF StoredRow
<1>4. new \in Row /\ new.version > row[rec].version
  BY <1>2, <1>3 DEF Row, StoredRow
<1> HIDE DEF new
<1>5. Later(row[rec], new)
  BY <1>4 DEF Later
<1> QED BY <1>1, <1>4, <1>5, OneRowLater

LEMMA TransitionType ==
  ASSUME TypeOK, NEW rec \in Records, NEW actor, NEW target \in Statuses,
         row[rec].version < MaxVersion, Server!Transition(rec, actor, target)
  PROVE  /\ row' \in [Records -> Row]
         /\ \A q \in Records : Later(row[q], row'[q])
         /\ row'[rec].version > row[rec].version
<1> DEFINE new == [row[rec] EXCEPT !.status = target, !.version = row[rec].version + 1]
<1>1. row[rec].phase = "live" /\ row' = [row EXCEPT ![rec] = new]
  BY DEF Server!Transition, Server!Write
<1>2. row[rec] \in StoredRow
  BY <1>1, LiveIsStored
<1>3. row[rec].version + 1 \in 1..MaxVersion /\ row[rec].version + 1 > row[rec].version
  BY <1>2, MaxVersionAssumption DEF StoredRow
<1>4. new \in Row /\ new.version > row[rec].version
  BY <1>2, <1>3 DEF Row, StoredRow
<1> HIDE DEF new
<1>5. Later(row[rec], new)
  BY <1>4 DEF Later
<1>6. row'[rec] = new
  BY <1>1 DEF TypeOK
<1> QED BY <1>1, <1>4, <1>5, <1>6, OneRowLater

LEMMA DeleteType ==
  ASSUME TypeOK, NEW rec \in Records, Server!Delete(rec)
  PROVE  /\ row' \in [Records -> Row]
         /\ \A q \in Records : Later(row[q], row'[q])
<1> DEFINE new == [row[rec] EXCEPT !.phase = "deleted"]
<1>1. row[rec].phase = "live" /\ row' = [row EXCEPT ![rec] = new]
  BY DEF Server!Delete
<1>2. row[rec] \in StoredRow
  BY <1>1, LiveIsStored
<1>3. /\ new \in Row /\ new.version = row[rec].version
      /\ new.status = row[rec].status /\ new.content = row[rec].content
  BY <1>2 DEF Row, StoredRow
<1> HIDE DEF new
<1> QED BY <1>1, <1>3 DEF TypeOK, Later

LEMMA PlaceType ==
  ASSUME TypeOK, NEW rec \in Records, MovesToFront(rec)
  PROVE  place' \in [Records -> Nat]
  BY DEF TypeOK, MovesToFront

-----------------------------------------------------------------------------
(* Types. *)

(* One call moves on, or is made. *)
LEMMA OneCallMoves ==
  ASSUME TypeInv, NEW c \in Calls, NEW q, CallShape(q), call' = [call EXCEPT ![c] = q]
  PROVE  call' \in [Calls -> CallType] /\ \A d \in Calls : CallShape(call'[d])
  BY DEF TypeInv, TypeOK, CallType, CallShape

(* What the user can do to the page leaves the server alone and starts a call. *)
LEMMA StartType ==
  ASSUME TypeInv, NEW c \in Calls, NEW q, CallShape(q), Start(c, q),
         UNCHANGED <<server, token>>, page' \in PageType
  PROVE  TypeInv'
<1>1. call' \in [Calls -> CallType] /\ \A d \in Calls : CallShape(call'[d])
  BY OneCallMoves DEF Start
<1> QED BY <1>1 DEF Start, Begins, server, TypeInv, TypeOK, CallType, PageType

LEMMA FreshPageType ==
  ASSUME NEW role \in Roles
  PROVE  FreshPage(role) \in PageType
  BY WorkbenchAssumption DEF FreshPage, PageType

LEMMA InitType == Init => TypeInv
<1> SUFFICES ASSUME Init PROVE TypeInv
  OBVIOUS
<1>1. row \in [Records -> Row]
  <2>1. Server!StartingRow \subseteq Row
    BY PolicyAssumption, MaxVersionAssumption
       DEF Server!StartingRow, Server!AbsentRow, Server!SeedRow, Row, StoredRow, AbsentRow
  <2> QED BY <2>1 DEF Init, Server!Init
<1>2. place \in [Records -> Nat]
  <2> DEFINE used == {rec \in Records : row[rec] # AbsentRow}
  <2>1. Cardinality(used) \in Nat
    BY WorkbenchAssumption, FS_Subset, FS_CardinalityType
  <2>2. place \in [Records -> 0..Cardinality(used)]
    BY DEF Init
  <2> HIDE DEF used
  <2> QED BY <2>1, <2>2
<1>3. store \in [items : SUBSET Copy, total : Nat, loading : BOOLEAN]
  BY DEF Init, EmptyStore
<1>4. page \in PageType /\ token \in Roles \cup {None}
  <2>1. PICK role \in Roles : page = FreshPage(role)
    BY DEF Init, FreshPage
  <2>2. page.role \in Roles
    BY <2>1 DEF FreshPage
  <2> QED BY <2>1, <2>2, FreshPageType, WorkbenchAssumption DEF Init
<1>5. call \in [Calls -> CallType] /\ \A c \in Calls : CallShape(call[c])
  <2>1. PICK c \in Calls :
          call = [d \in Calls |-> IF d = c THEN ListCall(DefaultQuery, token) ELSE Idle]
    BY DEF Init
  <2>2. CallShape(ListCall(DefaultQuery, token))
    BY <1>4, ListCallShape, DefaultQueryType
  <2> QED BY <2>1, <2>2, IdleShape DEF CallShape
<1> QED BY <1>1, <1>2, <1>3, <1>4, <1>5 DEF TypeInv, TypeOK, CallType, PageType

LEMMA UserType ==
  ASSUME TypeInv, NEW c \in Calls, User(c)
  PROVE  TypeInv'
<1>0. page \in PageType /\ token \in Roles \cup {None}
  BY DEF TypeInv, TypeOK, PageType
<1>1. ASSUME NEW search \in Searches, NEW at \in Nat \ {0}, Loads(c, search, at) PROVE TypeInv'
  <2>1. CallShape(ListCall(Query(search, at), token))
    BY <1>0, ListCallShape DEF Query, QueryType
  <2>2. page' \in PageType
    BY <1>0, <1>1 DEF Loads, PageType
  <2> QED BY <1>1, <2>1, <2>2, StartType DEF Loads
<1>2. ASSUME NEW search \in Searches, Search(c, search) PROVE TypeInv'
  BY <1>1, <1>2 DEF Search
<1>3. CASE NextPage(c)
  <2>1. page.search \in Searches /\ page.at + 1 \in Nat \ {0}
    BY <1>0 DEF PageType
  <2> QED BY <1>1, <1>3, <2>1 DEF NextPage
<1>4. CASE PreviousPage(c)
  <2>1. page.search \in Searches /\ page.at - 1 \in Nat \ {0}
    BY <1>0, <1>4 DEF PreviousPage, PageType
  <2> QED BY <1>1, <1>4, <2>1 DEF PreviousPage
<1>5. ASSUME NEW role \in Roles, Remount(c, role) PROVE TypeInv'
  <2> DEFINE left == [d \in Calls |-> [call[d] EXCEPT !.mounted = FALSE]]
  <2>1. page' \in PageType /\ token' \in Roles \cup {None}
    BY <1>0, <1>5, FreshPageType DEF Remount
  <2>2. ASSUME NEW d \in Calls PROVE CallShape(left[d])
    <3> DEFINE q == call[d]
    <3>1. CallShape(q) /\ left[d] = [q EXCEPT !.mounted = FALSE]
      BY DEF TypeInv
    <3> HIDE DEF q, left
    <3>2. q \in CallType
      BY <3>1 DEF CallShape
    <3>3. left[d] \in CallType
      BY <3>1, <3>2 DEF CallType
    <3>4. /\ left[d].stage = q.stage /\ left[d].use = q.use /\ left[d].query = q.query
          /\ left[d].copy = q.copy /\ left[d].items = q.items /\ left[d].role = q.role
          /\ left[d].target = q.target
      BY <3>1, <3>2 DEF CallType
    <3> QED BY <3>1, <3>3, <3>4 DEF CallShape
  <2>3. CallShape(ListCall(DefaultQuery, token'))
    BY <2>1, ListCallShape, DefaultQueryType
  <2>4. call' = [left EXCEPT ![c] = ListCall(DefaultQuery, token')]
    BY <1>5 DEF Remount
  <2>5. call' \in [Calls -> CallType] /\ \A d \in Calls : CallShape(call'[d])
    <3> HIDE DEF left
    <3>1. left \in [Calls -> CallType]
      BY <2>2 DEF left, CallShape
    <3> QED BY <2>2, <2>3, <2>4, <3>1 DEF CallShape
  <2> QED BY <1>5, <2>1, <2>5 DEF Remount, Begins, server, TypeInv, TypeOK, CallType, PageType
<1>6. CASE ConfirmAdvance(c)
  <2> DEFINE q == WriteCall("advance", page.pending.copy, page.pending.target)
  <2>1. /\ page.pending \in [copy : Copy, target : Statuses]
        /\ page.pending.copy.item.version < MaxVersion
    BY <1>0, <1>6 DEF ConfirmAdvance, PageType
  <2>2. CallShape(q)
    BY <1>0, <2>1 DEF CallShape, CallType, WriteCall, Idle
  <2>3. Start(c, q) /\ UNCHANGED <<server, token>> /\ page' = page
    BY <1>6 DEF ConfirmAdvance
  <2> HIDE DEF q
  <2> QED BY <1>0, <2>2, <2>3, StartType
<1>7. ASSUME NEW rec \in Records, NEW k \in Contents, ConfirmCreate(c, rec, k) PROVE TypeInv'
  <2> DEFINE q == WriteCall("create", [rec |-> rec, item |-> NewRow(k)], None)
  <2>1. NewRow(k) \in StoredRow
    BY PolicyAssumption, MaxVersionAssumption DEF NewRow, StoredRow
  <2>2. CallShape(q)
    BY <1>0, <2>1 DEF CallShape, CallType, WriteCall, Idle, Copy
  <2>3. Start(c, q) /\ UNCHANGED <<server, token>> /\ page' = page
    BY <1>7 DEF ConfirmCreate
  <2> HIDE DEF q
  <2> QED BY <1>0, <2>2, <2>3, StartType
<1>8. CASE OpenDetail(c)
  <2> DEFINE q == [Idle EXCEPT !.use = "detail", !.stage = "get", !.mounted = TRUE, !.role = token]
  <2>1. CallShape(q)
    BY <1>0 DEF CallShape, CallType, Idle
  <2>2. call' = [call EXCEPT ![c] = q] /\ UNCHANGED <<server, token, store, page>>
    BY <1>8 DEF OpenDetail
  <2> HIDE DEF q
  <2>3. call' \in [Calls -> CallType] /\ \A d \in Calls : CallShape(call'[d])
    BY <2>1, <2>2, OneCallMoves
  <2> QED BY <2>2, <2>3 DEF server, TypeInv, TypeOK, CallType
<1> QED BY <1>2, <1>3, <1>4, <1>5, <1>6, <1>7, <1>8 DEF User

LEMMA DialogsType ==
  ASSUME TypeInv, Dialogs
  PROVE  TypeInv'
<1>0. page \in PageType /\ store.items \subseteq Copy
  BY DEF TypeInv, TypeOK, PageType
<1>1. ASSUME NEW copy \in store.items, OpenAdvance(copy) PROVE page' \in PageType
  <2>1. copy \in Copy /\ page.role \in Roles /\ copy.item.status \in Statuses
    BY <1>0 DEF PageType, Copy, StoredRow
  <2>2. Offer[page.role][copy.item.status] \in Statuses
    BY <1>1, <2>1, WorkbenchAssumption, PolicyAssumption DEF OpenAdvance, CanTransition
  <2> QED BY <1>0, <1>1, <2>1, <2>2 DEF OpenAdvance, PageType
<1>2. ASSUME CancelAdvance \/ OpenCreate \/ CancelCreate \/ CloseDetail
      PROVE  page' \in PageType
  <2>1. CASE CancelAdvance
    BY <1>0, <2>1 DEF CancelAdvance, PageType
  <2>2. CASE OpenCreate
    BY <1>0, <2>2 DEF OpenCreate, PageType
  <2>3. CASE CancelCreate
    BY <1>0, <2>3 DEF CancelCreate, PageType
  <2>4. CASE CloseDetail
    BY <1>0, <2>4 DEF CloseDetail, PageType
  <2> QED BY <1>2, <2>1, <2>2, <2>3, <2>4
<1>3. UNCHANGED <<server, token, store, call>>
  BY DEF Dialogs, OpenAdvance, CancelAdvance, OpenCreate, CancelCreate, CloseDetail
<1>4. page' \in PageType
  BY <1>1, <1>2 DEF Dialogs
<1> QED BY <1>3, <1>4 DEF server, TypeInv, TypeOK, CallType, PageType

(* A write of the page that is accepted finds the version it was sent with. *)
LEMMA AcceptedType ==
  ASSUME TypeInv, NEW c \in Calls, AdvanceAccepted(c)
  PROVE  LET rec == call[c].copy.rec IN
         /\ rec \in Records
         /\ row' \in [Records -> Row]
         /\ \A q \in Records : Later(row[q], row'[q])
         /\ row'[rec].version > call[c].copy.item.version
<1> DEFINE q == call[c]
<1>1. CallShape(q) /\ q.use = "advance" /\ q.stage = "post" /\ Current(q.copy)
      /\ Server!Transition(q.copy.rec, q.role, q.target)
  BY DEF AdvanceAccepted, TypeInv
<1> HIDE DEF q
<1>2. q.copy \in Copy /\ q.target \in Statuses /\ q.copy.item.version < MaxVersion
  BY <1>1 DEF CallShape
<1>3. q.copy.rec \in Records /\ row[q.copy.rec].version = q.copy.item.version
  BY <1>1, <1>2 DEF Copy, Current
<1>4. row[q.copy.rec].version < MaxVersion /\ TypeOK
  BY <1>2, <1>3 DEF TypeInv
<1>5. /\ row' \in [Records -> Row] /\ \A r \in Records : Later(row[r], row'[r])
      /\ row'[q.copy.rec].version > row[q.copy.rec].version
  BY <1>1, <1>2, <1>3, <1>4, TransitionType
<1> QED BY <1>3, <1>5 DEF q

LEMMA BackendType ==
  ASSUME TypeInv, NEW c \in Calls, Backend(c)
  PROVE  TypeInv'
<1> DEFINE q == call[c]
<1>0. TypeOK /\ CallShape(q) /\ q \in CallType
  BY DEF TypeInv, CallShape
<1>1. ASSUME AdvanceAccepted(c) \/ CreateAccepted(c) PROVE TypeInv'
  <2> DEFINE new == [q EXCEPT !.stage = "posted", !.role = None, !.own = FALSE,
                              !.target = None]
  <2>1. CallShape(new)
    <3>1. q.stage = "post" /\ q.use \in {"advance", "create"}
      BY <1>1 DEF AdvanceAccepted, CreateAccepted
    <3> HIDE DEF q
    <3>2. new \in CallType /\ new.stage = "posted" /\ new.use = q.use /\ new.copy = q.copy
          /\ new.items = q.items
      BY <1>0 DEF CallType
    <3> QED BY <1>0, <3>1, <3>2 DEF CallShape
  <2>2. call' = [call EXCEPT ![c] = new] /\ UNCHANGED <<token, store, page>>
    BY <1>1 DEF AdvanceAccepted, CreateAccepted
  <2>3. row' \in [Records -> Row] /\ place' \in [Records -> Nat]
    <3>1. CASE AdvanceAccepted(c)
      BY <1>0, <3>1, AcceptedType, PlaceType DEF AdvanceAccepted
    <3>2. CASE CreateAccepted(c)
      <4>1. q.copy \in Copy
        BY <1>0, <3>2 DEF CreateAccepted, CallShape
      <4>2. q.copy.rec \in Records /\ q.copy.item.content \in Contents
        BY <4>1 DEF Copy, StoredRow
      <4> QED BY <1>0, <3>2, <4>2, CreateType, PlaceType DEF CreateAccepted
    <3> QED BY <1>1, <3>1, <3>2
  <2> HIDE DEF new
  <2>4. call' \in [Calls -> CallType] /\ \A d \in Calls : CallShape(call'[d])
    BY <2>1, <2>2, OneCallMoves
  <2> QED BY <2>2, <2>3, <2>4 DEF TypeInv, TypeOK, CallType
<1>2. ASSUME NEW new, CallShape(new), call' = [call EXCEPT ![c] = new],
             UNCHANGED <<server, token, store, page>>
      PROVE  TypeInv'
  <2>1. call' \in [Calls -> CallType] /\ \A d \in Calls : CallShape(call'[d])
    BY <1>2, OneCallMoves
  <2> QED BY <1>2, <2>1 DEF server, TypeInv, TypeOK, CallType
<1>3. CASE CountRows(c)
  <2> DEFINE new == [q EXCEPT !.stage = "find", !.role = None, !.total = Cardinality(Matching(q.query.search))]
  <2>1. q.query \in QueryType /\ q.use \notin {"none", "detail"} /\ q.items = {}
    BY <1>0, <1>3 DEF CountRows, CallShape
  <2>2. Cardinality(Matching(q.query.search)) \in Nat
    BY <1>0, <2>1, MatchingType DEF QueryType
  <2>3. CallShape(new)
    <3> HIDE DEF q
    <3>1. /\ new \in CallType /\ new.stage = "find" /\ new.use = q.use /\ new.copy = q.copy
          /\ new.items = q.items /\ new.query = q.query
      BY <1>0, <2>2 DEF CallType
    <3> QED BY <1>0, <2>1, <3>1 DEF CallShape
  <2> QED BY <1>2, <1>3, <2>3 DEF CountRows
<1>4. CASE FindRows(c)
  <2> DEFINE new == [q EXCEPT !.stage = "answer", !.items = ItemsOf(q.query)]
  <2>1. q.query \in QueryType /\ q.use \notin {"none", "detail"}
    BY <1>0, <1>4 DEF FindRows, CallShape
  <2>2. ItemsOf(q.query) \subseteq Copy
    BY <1>0, <2>1, ItemsAreCopies
  <2>3. CallShape(new)
    <3> HIDE DEF q
    <3>1. /\ new \in CallType /\ new.stage = "answer" /\ new.use = q.use /\ new.copy = q.copy
          /\ new.query = q.query
      BY <1>0, <2>2 DEF CallType
    <3> QED BY <1>0, <2>1, <3>1 DEF CallShape
  <2> QED BY <1>2, <1>4, <2>3 DEF FindRows
<1> QED BY <1>1, <1>3, <1>4 DEF Backend

LEMMA OthersType ==
  ASSUME TypeInv, NEW rec \in Records, OthersWrite(rec) \/ OthersDelete(rec)
  PROVE  /\ TypeInv'
         /\ \A q \in Records : Later(row[q], row'[q])
<1>0. TypeOK
  BY DEF TypeInv
<1>1. UNCHANGED <<token, store, page, call>>
  BY DEF OthersWrite, OthersDelete
<1>2. row' \in [Records -> Row] /\ \A q \in Records : Later(row[q], row'[q])
  <2>1. CASE OthersWrite(rec)
    BY <1>0, <2>1, CreateType, UpdateType, TransitionType DEF OthersWrite
  <2>2. CASE OthersDelete(rec)
    BY <1>0, <2>2, DeleteType DEF OthersDelete
  <2> QED BY <2>1, <2>2
<1>3. place' \in [Records -> Nat]
  BY <1>0, PlaceType DEF OthersWrite, OthersDelete, TypeOK
<1> QED BY <1>1, <1>2, <1>3 DEF TypeInv, TypeOK

(* An answer loads the list again, or ends its call in one of four ways. *)
LEMMA HowCallsEnd ==
  ASSUME NEW c \in Calls, Arrives(c)
  PROVE  \/ Reload(c) \/ ListArrives(c)
         \/ ListError(c) \/ WriteError(c)
         \/ DetailOpens(c) /\ call[c].stage = "get"
  BY DEF Arrives, ListFails, WriteFails, DetailArrives, Unauthorized

LEMMA ArrivesType ==
  ASSUME TypeInv, NEW c \in Calls, Arrives(c)
  PROVE  TypeInv'
<1> DEFINE q == call[c]
           StoreType == [items : SUBSET Copy, total : Nat, loading : BOOLEAN]
<1>0. /\ TypeOK /\ CallShape(q) /\ q \in CallType /\ page \in PageType /\ store \in StoreType
      /\ token \in Roles \cup {None}
  BY DEF TypeInv, TypeOK, CallShape, PageType
<1>1. ASSUME NEW new, CallShape(new), call' = [call EXCEPT ![c] = new], UNCHANGED server,
             page' \in PageType, store' \in StoreType, token' \in Roles \cup {None}
      PROVE  TypeInv'
  <2>1. call' \in [Calls -> CallType] /\ \A d \in Calls : CallShape(call'[d])
    BY <1>1, OneCallMoves
  <2> QED BY <1>1, <2>1 DEF server, TypeInv, TypeOK, CallType, PageType
<1>2. DialogCloses(c) => page' \in PageType
  BY <1>0 DEF DialogCloses, PageType
<1>3. CASE Reload(c)
  <2> DEFINE new == [q EXCEPT !.stage = "count", !.query = DefaultQuery, !.role = token]
  <2>1. CallShape(new)
    <3>1. q.stage = "posted"
      BY <1>3 DEF Reload
    <3> HIDE DEF q
    <3>2. /\ new \in CallType /\ new.stage = "count" /\ new.use = q.use /\ new.copy = q.copy
          /\ new.items = q.items /\ new.query = DefaultQuery
      BY <1>0, DefaultQueryType DEF CallType
    <3> QED BY <1>0, <3>1, <3>2, DefaultQueryType DEF CallShape
  <2>2. page' \in PageType /\ store' \in StoreType /\ UNCHANGED <<server, token>>
        /\ call' = [call EXCEPT ![c] = new]
    BY <1>0, <1>3 DEF Reload, Begins
  <2> HIDE DEF new
  <2> QED BY <1>0, <1>1, <2>1, <2>2
<1>4. CASE ListArrives(c)
  <2>1. q.items \subseteq Copy /\ q.total \in Nat
    BY <1>0 DEF CallType
  <2>2. store' \in StoreType
    BY <1>0, <1>4, <2>1 DEF ListArrives
  <2> QED BY <1>0, <1>1, <1>2, <1>4, <2>2, IdleShape DEF ListArrives, Ends
<1>5. CASE ListError(c) \/ WriteError(c) \/ DetailOpens(c)
  <2>1. page' \in PageType
    BY <1>0, <1>2, <1>5 DEF ListError, WriteError, DetailOpens, PageType, CallType
  <2>2. store' \in StoreType
    BY <1>0, <1>5 DEF ListError, WriteError, DetailOpens, ErrorShown
  <2>3. UNCHANGED server /\ token' \in Roles \cup {None}
    <3>1. ListFails(c) \/ WriteFails(c) \/ DetailArrives(c) \/ Unauthorized(c)
            => UNCHANGED server /\ token' \in {token, None}
      BY DEF ListFails, WriteFails, DetailArrives, Unauthorized
    <3>2. Reload(c) \/ ListArrives(c) => UNCHANGED <<server, token>>
      BY DEF Reload, ListArrives
    <3> QED BY <1>0, <3>1, <3>2 DEF Arrives
  <2> QED BY <1>1, <1>5, <2>1, <2>2, <2>3, IdleShape DEF ListError, WriteError, DetailOpens, Ends
<1> QED BY <1>3, <1>4, <1>5, HowCallsEnd

LEMMA TypeStep ==
  ASSUME TypeInv, [Next]_vars
  PROVE  TypeInv'
<1>1. CASE UNCHANGED vars
  BY <1>1 DEF vars, TypeInv, TypeOK
<1>2. CASE StorageChanges
  BY <1>2, WorkbenchAssumption DEF StorageChanges, server, TypeInv, TypeOK
<1> QED
  BY <1>1, <1>2, UserType, DialogsType, BackendType, OthersType, ArrivesType DEF Next

LEMMA TypeInvariant == Spec => []TypeInv
  BY InitType, TypeStep, PTL DEF Spec

(* What a call carries fits what it is for and how far it is, so every      *)
(* answer finds what it needs, and the page number stays above zero.        *)
THEOREM WorkbenchTypes == Spec => []TypeOK
<1>1. TypeInv => TypeOK
  BY DEF TypeInv
<1> QED BY <1>1, TypeInvariant, PTL

-----------------------------------------------------------------------------
(* Copies. *)

(* Only the backend changes rows, and never back. *)
LEMMA PageLeavesRows ==
  ASSUME NEW c \in Calls, User(c) \/ Dialogs \/ Arrives(c) \/ CountRows(c) \/ FindRows(c)
  PROVE  row' = row
<1>1. User(c) => row' = row
  BY DEF User, Search, NextPage, PreviousPage, Loads, Remount, ConfirmAdvance, ConfirmCreate,
         OpenDetail, server
<1>2. Dialogs => row' = row
  BY DEF Dialogs, OpenAdvance, CancelAdvance, OpenCreate, CancelCreate, CloseDetail, server
<1>3. Arrives(c) => row' = row
  BY DEF Arrives, Reload, ListArrives, ListFails, WriteFails, DetailArrives, Unauthorized, server
<1>4. CountRows(c) \/ FindRows(c) => row' = row
  BY DEF CountRows, FindRows, server
<1> QED BY <1>1, <1>2, <1>3, <1>4

LEMMA DialogsLeaveRows == Dialogs => row' = row
  BY DEF Dialogs, OpenAdvance, CancelAdvance, OpenCreate, CancelCreate, CloseDetail, server

LEMMA RowsLater ==
  ASSUME TypeInv, [Next]_vars
  PROVE  \A q \in Records : Later(row[q], row'[q])
<1>1. ASSUME NEW c \in Calls, User(c) \/ Arrives(c) \/ CountRows(c) \/ FindRows(c)
      PROVE  row' = row
  BY <1>1, PageLeavesRows
<1>2. ASSUME NEW c \in Calls, CreateAccepted(c)
      PROVE  \A q \in Records : Later(row[q], row'[q])
  <2>1. call[c].copy \in Copy /\ TypeOK
    BY <1>2 DEF CreateAccepted, TypeInv, CallShape
  <2>2. call[c].copy.rec \in Records /\ call[c].copy.item.content \in Contents
    BY <2>1 DEF Copy, StoredRow
  <2> QED BY <1>2, <2>1, <2>2, CreateType DEF CreateAccepted
<1>3. row' = row => \A q \in Records : Later(row[q], row'[q])
  BY DEF Later
<1>4. StorageChanges \/ UNCHANGED vars => row' = row
  BY DEF StorageChanges, server, vars
<1> QED
  BY <1>1, <1>2, <1>3, <1>4, AcceptedType, OthersType, DialogsLeaveRows DEF Next, Backend

(* A copy that is a state its record has been in. *)
Honest(copy) ==
  /\ copy.item.version <= row[copy.rec].version
  /\ copy.item.version = row[copy.rec].version =>
       /\ copy.item.status = row[copy.rec].status
       /\ copy.item.content = row[copy.rec].content

LEMMA HonestStays ==
  ASSUME TypeInv, [Next]_vars, NEW copy \in Copy, Honest(copy)
  PROVE  Honest(copy)'
<1> DEFINE before == row[copy.rec]
           after == row'[copy.rec]
<1>1. copy.rec \in Records /\ copy.item.version \in Nat
  BY MaxVersionAssumption DEF Copy, StoredRow
<1>2. before \in Row /\ after \in Row /\ Later(before, after)
  BY <1>1, RowsLater, TypeStep DEF TypeInv, TypeOK
<1>3. before.version \in Nat /\ after.version \in Nat
  BY <1>2, MaxVersionAssumption DEF Row, StoredRow, AbsentRow
<1> HIDE DEF before, after
<1>4. /\ copy.item.version <= after.version
      /\ copy.item.version = after.version =>
           copy.item.status = after.status /\ copy.item.content = after.content
  <2>1. /\ copy.item.version <= before.version
        /\ copy.item.version = before.version =>
             copy.item.status = before.status /\ copy.item.content = before.content
    BY DEF Honest, before
  <2> QED BY <1>1, <1>2, <1>3, <2>1 DEF Later
<1> QED BY <1>4 DEF Honest, after

LEMMA HeldType == TypeInv => Held \subseteq Copy
<1> SUFFICES ASSUME TypeInv PROVE Held \subseteq Copy
  OBVIOUS
<1>1. store.items \subseteq Copy
  BY DEF TypeInv, TypeOK
<1>2. \A c \in Calls : call[c].items \subseteq Copy
  BY DEF TypeInv, CallShape, CallType
<1>3. \A c \in Calls : call[c].use = "advance" => call[c].copy \in Copy
  BY DEF TypeInv, CallShape
<1>4. page.pending # None => page.pending.copy \in Copy
  <2>1. page.pending \in [copy : Copy, target : Statuses] \cup {None}
    BY DEF TypeInv, TypeOK
  <2> QED BY <2>1
<1> QED BY <1>1, <1>2, <1>3, <1>4 DEF Held

LEMMA NotHeld ==
  ASSUME NEW copy, copy \notin Held
  PROVE  /\ copy \notin store.items
         /\ page.pending # None => copy # page.pending.copy
  BY DEF Held

(* A step adds no copy but those of the rows a list has just read. *)
LEMMA HeldGrows ==
  ASSUME TypeInv, [Next]_vars, NEW copy \in Held', copy \notin Held
  PROVE  \E rec \in Records : row' = row /\ row[rec].phase = "live" /\ copy = CopyOf(rec)
<1> USE DEF Held
<1>0. call \in [Calls -> CallType]
  BY DEF TypeInv, TypeOK, CallType
<1>1. ASSUME NEW c \in Calls, NEW query, NEW role, Start(c, ListCall(query, role)),
             page'.pending \in {None, page.pending}
      PROVE  FALSE
  BY <1>0, <1>1 DEF Start, Begins, ListCall, Idle, TypeInv, TypeOK
<1>2. ASSUME NEW c \in Calls, User(c) PROVE FALSE
  <2>1. ASSUME NEW search, NEW at, Loads(c, search, at) PROVE FALSE
    <3>1. page'.pending = page.pending
      BY <2>1 DEF Loads, TypeInv, TypeOK
    <3> QED BY <1>1, <2>1, <3>1 DEF Loads
  <2>2. ASSUME NEW role \in Roles, Remount(c, role) PROVE FALSE
    <3> DEFINE left == [d \in Calls |-> [call[d] EXCEPT !.mounted = FALSE]]
    <3>1. \A d \in Calls : left[d].items = call[d].items /\ left[d].copy = call[d].copy
                             /\ left[d].use = call[d].use
      BY <1>0 DEF CallType
    <3>2. call' = [left EXCEPT ![c] = ListCall(DefaultQuery, token')]
      BY <2>2 DEF Remount
    <3>3. /\ call'[c].items = {} /\ call'[c].use = "list"
          /\ \A d \in Calls \ {c} : call'[d] = left[d]
      BY <3>2 DEF ListCall, Idle
    <3>4. page'.pending = None /\ store'.items = store.items
      BY <2>2 DEF Remount, FreshPage, Begins, TypeInv, TypeOK
    <3> HIDE DEF left
    <3> QED BY <3>1, <3>3, <3>4
  <2>3. CASE ConfirmAdvance(c)
    BY <1>0, <2>3 DEF ConfirmAdvance, Start, Begins, WriteCall, Idle, TypeInv, TypeOK
  <2>4. ASSUME NEW rec \in Records, NEW k \in Contents, ConfirmCreate(c, rec, k) PROVE FALSE
    BY <1>0, <2>4 DEF ConfirmCreate, Start, Begins, WriteCall, Idle, TypeInv, TypeOK
  <2>5. CASE OpenDetail(c)
    BY <1>0, <2>5 DEF OpenDetail, Idle, TypeInv, TypeOK
  <2> QED
    BY <1>2, <2>1, <2>2, <2>3, <2>4, <2>5 DEF User, Search, NextPage, PreviousPage
<1>3. CASE Dialogs
  <2>1. store' = store /\ call' = call
    BY <1>3 DEF Dialogs, OpenAdvance, CancelAdvance, OpenCreate, CancelCreate, CloseDetail
  <2>2. page'.pending = None \/ page'.pending = page.pending
          \/ page'.pending.copy \in store.items
    BY <1>3 DEF Dialogs, OpenAdvance, CancelAdvance, OpenCreate, CancelCreate, CloseDetail,
                TypeInv, TypeOK
  <2>3. page'.pending # None /\ copy = page'.pending.copy
    BY <2>1
  <2>4. copy \notin store.items /\ (page.pending # None => copy # page.pending.copy)
    BY NotHeld
  <2> QED BY <2>2, <2>3, <2>4
<1>4. ASSUME NEW c \in Calls, AdvanceAccepted(c) \/ CreateAccepted(c) \/ CountRows(c) PROVE FALSE
  <2>1. store' = store /\ page' = page
    BY <1>4 DEF AdvanceAccepted, CreateAccepted, CountRows
  <2>2. \A d \in Calls : call'[d].items = call[d].items /\ call'[d].copy = call[d].copy
                           /\ call'[d].use = call[d].use
    BY <1>0, <1>4 DEF AdvanceAccepted, CreateAccepted, CountRows, CallType
  <2> QED BY <2>1, <2>2
<1>5. ASSUME NEW c \in Calls, FindRows(c)
      PROVE  \E rec \in Records : row' = row /\ row[rec].phase = "live" /\ copy = CopyOf(rec)
  <2>1. call[c].query \in QueryType /\ row' = row /\ store' = store /\ page' = page
    BY <1>5 DEF FindRows, TypeInv, CallShape, server
  <2>2. /\ call'[c].items = ItemsOf(call[c].query)
        /\ \A d \in Calls : call'[d].copy = call[d].copy /\ call'[d].use = call[d].use
        /\ \A d \in Calls \ {c} : call'[d].items = call[d].items
    BY <1>0, <1>5 DEF FindRows, CallType
  <2>3. copy \in ItemsOf(call[c].query)
    BY <2>1, <2>2
  <2> QED BY <2>1, <2>3, ItemsAreCopies DEF TypeInv
<1>6. ASSUME NEW rec \in Records, OthersWrite(rec) \/ OthersDelete(rec) PROVE FALSE
  BY <1>6 DEF OthersWrite, OthersDelete
<1>7. ASSUME NEW c \in Calls, Arrives(c) PROVE FALSE
  <2>1. CASE Reload(c)
    <3>1. store'.items = store.items /\ page' = page
      BY <2>1 DEF Reload, Begins, TypeInv, TypeOK
    <3>2. \A d \in Calls : call'[d].items = call[d].items /\ call'[d].copy = call[d].copy
                             /\ call'[d].use = call[d].use
      BY <1>0, <2>1 DEF Reload, CallType
    <3> QED BY <3>1, <3>2
  <2>2. ASSUME Ends(c), page'.pending \in {None, page.pending},
               store'.items \in {store.items, call[c].items}
        PROVE  FALSE
    <3>1. call'[c] = Idle /\ \A d \in Calls \ {c} : call'[d] = call[d]
      BY <1>0, <2>2 DEF Ends
    <3> QED BY <2>2, <3>1 DEF Idle
  <2>3. DialogCloses(c) => page'.pending \in {None, page.pending}
    BY DEF DialogCloses, TypeInv, TypeOK
  <2>4. CASE ListArrives(c)
    BY <2>2, <2>3, <2>4 DEF ListArrives, TypeInv, TypeOK
  <2>5. CASE ListError(c) \/ WriteError(c)
    BY <2>2, <2>3, <2>5 DEF ListError, WriteError, ErrorShown, TypeInv, TypeOK
  <2>6. CASE DetailOpens(c)
    <3>1. page'.pending = page.pending
      BY <2>6 DEF DetailOpens, TypeInv, TypeOK
    <3> QED BY <2>2, <2>6, <3>1 DEF DetailOpens
  <2> QED BY <1>7, <2>1, <2>4, <2>5, <2>6, HowCallsEnd
<1>8. CASE StorageChanges \/ UNCHANGED vars
  BY <1>8 DEF StorageChanges, vars
<1> QED BY <1>2, <1>3, <1>4, <1>5, <1>6, <1>7, <1>8 DEF Next, Backend

(* Whatever the order of answers, reloads and dialogs, each copy at the     *)
(* page is a state its record has been in: to the backend the page is a     *)
(* client of Lookahead 0.                                                   *)
THEOREM CopiesAreHonest == Spec => []HonestCopies
<1> DEFINE Inv == \A copy \in Held : Honest(copy)
<1>1. Init => Inv
  <2> SUFFICES ASSUME Init PROVE Held = {}
    OBVIOUS
  <2>1. store.items = {} /\ page.pending = None
    BY DEF Init, EmptyStore
  <2>2. \A c \in Calls : call[c].items = {} /\ call[c].use # "advance"
    BY DEF Init, ListCall, Idle
  <2> QED BY <2>1, <2>2 DEF Held
<1>2. ASSUME TypeInv, Inv, [Next]_vars
      PROVE  Inv'
  <2> SUFFICES ASSUME NEW copy \in Held' PROVE Honest(copy)'
    OBVIOUS
  <2>1. CASE copy \in Held
    BY <1>2, <2>1, HeldType, HonestStays
  <2>2. CASE copy \notin Held
    <3>1. PICK rec \in Records : row' = row /\ copy = CopyOf(rec)
      BY <1>2, <2>2, HeldGrows
    <3>2. row[rec].version \in Nat
      BY <1>2, MaxVersionAssumption DEF TypeInv, TypeOK, Row, StoredRow, AbsentRow
    <3> QED BY <3>1, <3>2 DEF Honest, CopyOf
  <2> QED BY <2>1, <2>2
<1>3. Inv => HonestCopies
  BY DEF Honest, HonestCopies
<1> QED BY <1>1, <1>2, <1>3, TypeInvariant, PTL DEF Spec

-----------------------------------------------------------------------------
(* Offers. *)

(* What the dialog, or an advance sent as the role on the screen, asks for is *)
(* what the page offered this role for the status of the copy it sends.       *)
Offered(role, copy, target) ==
  /\ role \in Roles /\ copy \in Copy
  /\ target = Offer[role][copy.item.status] /\ target # None

PageOffered ==
  /\ page.pending # None => Offered(page.role, page.pending.copy, page.pending.target)
  /\ page.creating => page.role \in Writers

(* A write sent with the role on the screen. *)
CallOffered(q) ==
  q.stage = "post" /\ q.own =>
    /\ q.use = "advance" => Offered(q.role, q.copy, q.target)
    /\ q.use = "create" => q.role \in Writers

CallsOffered == \A c \in Calls : CallOffered(call[c])

OffersSent == PageOffered /\ CallsOffered

(* A page that changes neither its role nor, but to close them, its dialogs. *)
LEMMA PageStaysOffered ==
  ASSUME PageOffered, page'.role = page.role,
         page'.pending = None \/ page'.pending = page.pending,
         page'.creating => page.creating \/ page.role \in Writers
  PROVE  PageOffered'
  BY DEF PageOffered, Offered

LEMMA OffersStep ==
  ASSUME TypeInv, OffersSent, [Next]_vars
  PROVE  OffersSent'
<1>0. /\ call \in [Calls -> CallType] /\ page \in PageType /\ store.items \subseteq Copy
      /\ \A c \in Calls : CallShape(call[c])
      /\ PageOffered /\ CallsOffered
  BY DEF TypeInv, TypeOK, CallType, PageType, OffersSent
<1>1. ASSUME NEW c \in Calls, NEW q, call' = [call EXCEPT ![c] = q], CallOffered(q)
      PROVE  CallsOffered'
  BY <1>0, <1>1 DEF CallsOffered
<1>2. page' = page => PageOffered'
  BY <1>0 DEF PageOffered, Offered
<1>3. call' = call => CallsOffered'
  BY <1>0 DEF CallsOffered
<1>4. ASSUME NEW c \in Calls, User(c) PROVE OffersSent'
  <2>1. ASSUME NEW search, NEW at, Loads(c, search, at) PROVE OffersSent'
    <3> DEFINE q == ListCall(Query(search, at), token)
    <3>1. /\ call' = [call EXCEPT ![c] = q] /\ q.stage # "post"
          /\ page'.pending = page.pending /\ page'.role = page.role
          /\ page'.creating = page.creating
      BY <1>0, <2>1 DEF Loads, Start, ListCall, Idle, PageType
    <3> HIDE DEF q
    <3> QED BY <1>0, <1>1, <3>1, PageStaysOffered DEF CallOffered, OffersSent
  <2>2. ASSUME NEW role \in Roles, Remount(c, role) PROVE OffersSent'
    <3> DEFINE left == [d \in Calls |-> [call[d] EXCEPT !.mounted = FALSE]]
    <3>1. \A d \in Calls :
            /\ left[d].use = call[d].use /\ left[d].stage = call[d].stage
            /\ left[d].role = call[d].role /\ left[d].copy = call[d].copy
            /\ left[d].target = call[d].target /\ left[d].own = call[d].own
      BY <1>0 DEF CallType
    <3>2. /\ call' = [left EXCEPT ![c] = ListCall(DefaultQuery, token')]
          /\ page'.pending = None /\ page'.creating = FALSE
      BY <2>2 DEF Remount, FreshPage
    <3>3. call'[c].stage = "count" /\ \A d \in Calls \ {c} : call'[d] = left[d]
      BY <3>2 DEF ListCall, Idle
    <3> HIDE DEF left
    <3>4. CallsOffered'
      BY <1>0, <3>1, <3>3 DEF CallsOffered, CallOffered
    <3>5. PageOffered'
      BY <3>2 DEF PageOffered
    <3> QED BY <3>4, <3>5 DEF OffersSent
  <2>3. CASE ConfirmAdvance(c)
    <3> DEFINE q == WriteCall("advance", page.pending.copy, page.pending.target)
    <3>1. call' = [call EXCEPT ![c] = q] /\ page' = page
      BY <2>3 DEF ConfirmAdvance, Start
    <3>2. CallOffered(q)
      BY <1>0, <2>3 DEF ConfirmAdvance, PageOffered, CallOffered, WriteCall, Idle
    <3> HIDE DEF q
    <3> QED BY <1>1, <1>2, <3>1, <3>2 DEF OffersSent
  <2>4. ASSUME NEW rec \in Records, NEW k \in Contents, ConfirmCreate(c, rec, k)
        PROVE  OffersSent'
    <3> DEFINE q == WriteCall("create", [rec |-> rec, item |-> NewRow(k)], None)
    <3>1. call' = [call EXCEPT ![c] = q] /\ page' = page
      BY <2>4 DEF ConfirmCreate, Start
    <3>2. CallOffered(q)
      BY <1>0, <2>4 DEF ConfirmCreate, PageOffered, CallOffered, WriteCall, Idle
    <3> HIDE DEF q
    <3> QED BY <1>1, <1>2, <3>1, <3>2 DEF OffersSent
  <2>5. CASE OpenDetail(c)
    <3> DEFINE q == [Idle EXCEPT !.use = "detail", !.stage = "get", !.mounted = TRUE, !.role = token]
    <3>1. call' = [call EXCEPT ![c] = q] /\ q.stage # "post" /\ page' = page
      BY <2>5 DEF OpenDetail, Idle
    <3> HIDE DEF q
    <3> QED BY <1>1, <1>2, <3>1 DEF CallOffered, OffersSent
  <2> QED
    BY <1>4, <2>1, <2>2, <2>3, <2>4, <2>5 DEF User, Search, NextPage, PreviousPage
<1>5. ASSUME Dialogs PROVE OffersSent'
  <2>0. call' = call
    BY <1>5 DEF Dialogs, OpenAdvance, CancelAdvance, OpenCreate, CancelCreate, CloseDetail
  <2>1. ASSUME NEW copy \in store.items, OpenAdvance(copy) PROVE PageOffered'
    <3>1. /\ page'.pending = [copy |-> copy, target |-> Offer[page.role][copy.item.status]]
          /\ page'.role = page.role /\ Offer[page.role][copy.item.status] # None
          /\ page'.creating = page.creating
      BY <1>0, <2>1 DEF OpenAdvance, PageType
    <3>2. copy \in Copy /\ page.role \in Roles
      BY <1>0 DEF PageType
    <3> QED BY <1>0, <3>1, <3>2 DEF PageOffered, Offered
  <2>2. ASSUME OpenCreate PROVE PageOffered'
    <3>1. page'.pending = page.pending /\ page'.role = page.role /\ page.role \in Writers
      BY <1>0, <2>2 DEF OpenCreate, PageType
    <3> QED BY <1>0, <3>1, PageStaysOffered
  <2>3. ASSUME CancelAdvance \/ CancelCreate \/ CloseDetail PROVE PageOffered'
    <3>1. CASE CancelAdvance
      <4>1. page'.role = page.role /\ page'.pending = None /\ page'.creating = page.creating
        BY <1>0, <3>1 DEF CancelAdvance, PageType
      <4> QED BY <1>0, <4>1, PageStaysOffered
    <3>2. CASE CancelCreate
      <4>1. page'.role = page.role /\ page'.pending = page.pending /\ ~page'.creating
        BY <1>0, <3>2 DEF CancelCreate, PageType
      <4> QED BY <1>0, <4>1, PageStaysOffered
    <3>3. CASE CloseDetail
      <4>1. /\ page'.role = page.role /\ page'.pending = page.pending
            /\ page'.creating = page.creating
        BY <1>0, <3>3 DEF CloseDetail, PageType
      <4> QED BY <1>0, <4>1, PageStaysOffered
    <3> QED BY <2>3, <3>1, <3>2, <3>3
  <2> QED BY <1>3, <1>5, <2>0, <2>1, <2>2, <2>3 DEF Dialogs, OffersSent
<1>6. ASSUME NEW c \in Calls, Backend(c) PROVE OffersSent'
  <2>1. page' = page /\ \A d \in Calls \ {c} : call'[d] = call[d]
    BY <1>0, <1>6 DEF Backend, AdvanceAccepted, CreateAccepted, CountRows, FindRows
  <2>2. call'[c].stage # "post"
    BY <1>0, <1>6 DEF Backend, AdvanceAccepted, CreateAccepted, CountRows, FindRows, CallType
  <2>3. CallsOffered'
    BY <1>0, <2>1, <2>2 DEF CallsOffered, CallOffered
  <2> QED BY <1>2, <2>1, <2>3 DEF OffersSent
<1>7. ASSUME NEW c \in Calls, Arrives(c) PROVE OffersSent'
  <2>1. \A d \in Calls \ {c} : call'[d] = call[d]
    BY <1>0, <1>7, HowCallsEnd
       DEF Reload, ListArrives, ListError, WriteError, DetailOpens, Ends
  <2>2. call'[c].stage # "post"
    <3>1. Reload(c) => call'[c].stage = "count"
      BY <1>0 DEF Reload, CallType
    <3>2. Ends(c) => call'[c].stage = "idle"
      BY <1>0 DEF Ends, Idle
    <3> QED BY <1>7, <3>1, <3>2, HowCallsEnd DEF ListArrives, ListError, WriteError, DetailOpens
  <2>3. /\ page'.role = page.role /\ (page'.pending = None \/ page'.pending = page.pending)
        /\ page'.creating => page.creating
    <3>1. ASSUME DialogCloses(c)
          PROVE  /\ page'.role = page.role
                 /\ page'.pending = None \/ page'.pending = page.pending
                 /\ page'.creating => page.creating
      BY <1>0, <3>1 DEF DialogCloses, PageType
    <3>2. DetailOpens(c) => /\ page'.role = page.role /\ page'.pending = page.pending
                            /\ page'.creating = page.creating
      BY <1>0 DEF DetailOpens, PageType
    <3>3. ListArrives(c) \/ ListError(c) => DialogCloses(c)
      BY DEF ListArrives, ListError
    <3>4. Reload(c) \/ WriteError(c) => page' = page
      BY DEF Reload, WriteError
    <3> QED BY <1>7, <3>1, <3>2, <3>3, <3>4, HowCallsEnd
  <2>4. CallsOffered'
    BY <1>0, <2>1, <2>2 DEF CallsOffered, CallOffered
  <2> QED BY <1>0, <2>3, <2>4, PageStaysOffered DEF OffersSent
<1>8. ASSUME UNCHANGED <<page, call>> PROVE OffersSent'
  BY <1>2, <1>3, <1>8 DEF OffersSent
<1> QED
  BY <1>4, <1>5, <1>6, <1>7, <1>8 DEF Next, StorageChanges, OthersWrite, OthersDelete, vars

(* A write the page has offered, and sends as the role it shows, is refused *)
(* only because its record has changed or its code is taken: otherwise the  *)
(* route, the graph and the gate of the review admit it, whatever was       *)
(* switched, opened or stored by other tabs meanwhile.                      *)
THEOREM AdvancesAreAccepted == Spec => []OfferAccepted
<1>1. Init => OffersSent
  <2> SUFFICES ASSUME Init PROVE OffersSent
    OBVIOUS
  <2>1. page.pending = None /\ page.creating = FALSE
    BY DEF Init
  <2>2. \A c \in Calls : call[c].stage # "post"
    BY DEF Init, ListCall, Idle
  <2> QED BY <2>1, <2>2 DEF OffersSent, PageOffered, CallsOffered, CallOffered
<1>2. ASSUME TypeInv, OffersSent, HonestCopies PROVE OfferAccepted
  <2> SUFFICES ASSUME NEW c \in Calls, call[c].stage = "post", call[c].own, UpToDate(c)
               PROVE  Accepted(c)
    BY DEF OfferAccepted
  <2> DEFINE q == call[c]
             status == row[q.copy.rec].status
  <2>1. CallOffered(q) /\ q.use \in {"advance", "create"}
    BY <1>2 DEF OffersSent, CallsOffered, TypeInv, CallShape
  <2>2. CASE q.use = "create"
    <3>1. q.role \in Policy.writers
      BY <2>1, <2>2, WorkbenchAssumption DEF CallOffered
    <3> QED BY <2>2, <3>1 DEF Accepted
  <2>3. CASE q.use = "advance"
    <3>1. Offered(q.role, q.copy, q.target)
      BY <2>1, <2>3 DEF CallOffered
    <3>2. q.copy \in Held /\ Current(q.copy)
      BY <2>3 DEF Held, UpToDate
    <3>3. q.copy.item.status = status
      BY <1>2, <3>2 DEF HonestCopies, Current
    <3>4. q.role \in Roles /\ status \in Statuses /\ Offer[q.role][status] = q.target
          /\ q.target # None
      BY <3>1, <3>3 DEF Offered, Copy, StoredRow
    <3> HIDE DEF q, status
    <3>5. /\ q.role \in Writers /\ CanTransition(Policy.graph, status, q.target)
          /\ ReviewedChange(status, q.target) => MayReview(q.role)
      BY <3>4, WorkbenchAssumption
    <3>6. q.role \in Policy.writers
      BY <3>5, WorkbenchAssumption
    <3> QED BY <3>5, <3>6 DEF q, status, Accepted
  <2> QED BY <2>1, <2>2, <2>3
<1> QED BY <1>1, <1>2, OffersStep, TypeInvariant, CopiesAreHonest, PTL DEF Spec

-----------------------------------------------------------------------------
(* The reload after a write. *)

(* From its answer on, an advance is behind its record, and what its list *)
(* reads is ahead of it.                                                  *)
Superseded(q, table) ==
  q.use = "advance" =>
    /\ q.stage # "post" => table[q.copy.rec].version > q.copy.item.version
    /\ \A copy \in q.items : copy.rec = q.copy.rec => copy.item.version > q.copy.item.version

WriteSuperseded == \A c \in Calls : Superseded(call[c], row)

LEMMA SupersededStays ==
  ASSUME TypeInv, [Next]_vars, NEW c \in Calls, Superseded(call[c], row)
  PROVE  Superseded(call[c], row')
<1> DEFINE q == call[c]
<1> SUFFICES ASSUME q.use = "advance"
             PROVE  q.stage # "post" => row'[q.copy.rec].version > q.copy.item.version
  BY DEF Superseded
<1>1. q.copy \in Copy
  BY DEF TypeInv, CallShape
<1> HIDE DEF q
<1>2. q.copy.rec \in Records /\ q.copy.item.version \in Nat
  BY <1>1, MaxVersionAssumption DEF Copy, StoredRow
<1>3. row[q.copy.rec] \in Row /\ row'[q.copy.rec] \in Row
      /\ Later(row[q.copy.rec], row'[q.copy.rec])
  BY <1>2, RowsLater, TypeStep DEF TypeInv, TypeOK
<1>4. row[q.copy.rec].version \in Nat /\ row'[q.copy.rec].version \in Nat
  BY <1>3, MaxVersionAssumption DEF Row, StoredRow, AbsentRow
<1>5. q.stage # "post" => row[q.copy.rec].version > q.copy.item.version
  BY DEF Superseded, q
<1> QED BY <1>2, <1>3, <1>4, <1>5 DEF Later

LEMMA SupersededStep ==
  ASSUME TypeInv, WriteSuperseded, [Next]_vars
  PROVE  WriteSuperseded'
<1>0. call \in [Calls -> CallType] /\ \A c \in Calls : CallShape(call[c])
  BY DEF TypeInv, TypeOK, CallType
<1>1. \A c \in Calls : Superseded(call[c], row')
  BY SupersededStays DEF WriteSuperseded
<1>2. ASSUME NEW c \in Calls, \A d \in Calls \ {c} : call'[d] = call[d],
             Superseded(call'[c], row')
      PROVE  WriteSuperseded'
  BY <1>1, <1>2 DEF WriteSuperseded
<1>3. ASSUME NEW c \in Calls, User(c) PROVE WriteSuperseded'
  <2>1. ASSUME NEW role \in Roles, Remount(c, role) PROVE WriteSuperseded'
    <3> DEFINE left == [d \in Calls |-> [call[d] EXCEPT !.mounted = FALSE]]
    <3>1. \A d \in Calls :
            /\ left[d].use = call[d].use /\ left[d].stage = call[d].stage
            /\ left[d].items = call[d].items /\ left[d].copy = call[d].copy
      BY <1>0 DEF CallType
    <3>2. call' = [left EXCEPT ![c] = ListCall(DefaultQuery, token')]
      BY <2>1 DEF Remount
    <3>3. call'[c].use = "list" /\ \A d \in Calls \ {c} : call'[d] = left[d]
      BY <3>2 DEF ListCall, Idle
    <3> HIDE DEF left
    <3> QED BY <1>1, <3>1, <3>3 DEF WriteSuperseded, Superseded
  <2>2. ASSUME NEW q, call' = [call EXCEPT ![c] = q],
               q.use = "advance" => q.stage = "post" /\ q.items = {}
        PROVE  WriteSuperseded'
    <3>1. Superseded(q, row')
      BY <2>2 DEF Superseded
    <3> QED BY <1>0, <1>2, <2>2, <3>1
  <2>3. ASSUME NEW search, NEW at, Loads(c, search, at) PROVE WriteSuperseded'
    <3> DEFINE q == ListCall(Query(search, at), token)
    <3>1. call' = [call EXCEPT ![c] = q] /\ q.use # "advance"
      BY <2>3 DEF Loads, Start, ListCall, Idle
    <3> HIDE DEF q
    <3> QED BY <2>2, <3>1
  <2>4. CASE ConfirmAdvance(c)
    <3> DEFINE q == WriteCall("advance", page.pending.copy, page.pending.target)
    <3>1. call' = [call EXCEPT ![c] = q] /\ q.stage = "post" /\ q.items = {}
      BY <2>4 DEF ConfirmAdvance, Start, WriteCall, Idle
    <3> HIDE DEF q
    <3> QED BY <2>2, <3>1
  <2>5. ASSUME NEW rec \in Records, NEW k \in Contents, ConfirmCreate(c, rec, k)
        PROVE  WriteSuperseded'
    <3> DEFINE q == WriteCall("create", [rec |-> rec, item |-> NewRow(k)], None)
    <3>1. call' = [call EXCEPT ![c] = q] /\ q.use # "advance"
      BY <2>5 DEF ConfirmCreate, Start, WriteCall, Idle
    <3> HIDE DEF q
    <3> QED BY <2>2, <3>1
  <2>6. CASE OpenDetail(c)
    <3> DEFINE q == [Idle EXCEPT !.use = "detail", !.stage = "get", !.mounted = TRUE, !.role = token]
    <3>1. call' = [call EXCEPT ![c] = q] /\ q.use # "advance"
      BY <2>6 DEF OpenDetail, Idle
    <3> HIDE DEF q
    <3> QED BY <2>2, <3>1
  <2> QED
    BY <1>3, <2>1, <2>3, <2>4, <2>5, <2>6 DEF User, Search, NextPage, PreviousPage
<1>4. ASSUME NEW c \in Calls, AdvanceAccepted(c) PROVE WriteSuperseded'
  <2>1. /\ call'[c].copy = call[c].copy /\ call'[c].items = call[c].items /\ call[c].items = {}
        /\ \A d \in Calls \ {c} : call'[d] = call[d]
    BY <1>0, <1>4 DEF AdvanceAccepted, CallType, CallShape
  <2>2. row'[call[c].copy.rec].version > call[c].copy.item.version
    BY <1>4, AcceptedType
  <2> QED BY <1>2, <2>1, <2>2 DEF Superseded
<1>5. ASSUME NEW c \in Calls, CreateAccepted(c) PROVE WriteSuperseded'
  <2>1. call'[c].use # "advance" /\ \A d \in Calls \ {c} : call'[d] = call[d]
    BY <1>0, <1>5 DEF CreateAccepted, CallType
  <2> QED BY <1>2, <2>1 DEF Superseded
<1>6. ASSUME NEW c \in Calls, CountRows(c) \/ Reload(c) PROVE WriteSuperseded'
  <2>1. /\ call'[c].copy = call[c].copy /\ call'[c].items = call[c].items
        /\ call'[c].use = call[c].use /\ call[c].stage # "post"
        /\ \A d \in Calls \ {c} : call'[d] = call[d]
    BY <1>0, <1>6 DEF CountRows, Reload, CallType
  <2> QED BY <1>1, <1>2, <2>1 DEF Superseded
<1>7. ASSUME NEW c \in Calls, FindRows(c) PROVE WriteSuperseded'
  <2>1. /\ call'[c].copy = call[c].copy /\ call'[c].items = ItemsOf(call[c].query)
        /\ call'[c].use = call[c].use /\ call[c].stage # "post"
        /\ \A d \in Calls \ {c} : call'[d] = call[d]
    BY <1>0, <1>7 DEF FindRows, CallType
  <2>2. call[c].query \in QueryType /\ TypeOK
    BY <1>0, <1>7 DEF FindRows, CallShape, TypeInv
  <2>3. ASSUME call[c].use = "advance", NEW copy \in ItemsOf(call[c].query),
               copy.rec = call[c].copy.rec
        PROVE  copy.item.version > call[c].copy.item.version
    <3>1. PICK rec \in Records : copy = CopyOf(rec)
      BY <2>2, ItemsAreCopies
    <3>2. row[call[c].copy.rec].version > call[c].copy.item.version
      BY <2>1, <2>3 DEF WriteSuperseded, Superseded
    <3> QED BY <2>3, <3>1, <3>2 DEF CopyOf
  <2>4. Superseded(call'[c], row')
    BY <1>1, <2>1, <2>3 DEF Superseded
  <2> QED BY <1>2, <2>1, <2>4
<1>8. ASSUME NEW c \in Calls, Ends(c) PROVE WriteSuperseded'
  <2>1. call'[c].use # "advance" /\ \A d \in Calls \ {c} : call'[d] = call[d]
    BY <1>0, <1>8 DEF Ends, Idle
  <2> QED BY <1>2, <2>1 DEF Superseded
<1>9. ASSUME call' = call PROVE WriteSuperseded'
  BY <1>1, <1>9 DEF WriteSuperseded
<1>10. ASSUME NEW c \in Calls, Arrives(c) PROVE Reload(c) \/ Ends(c)
  BY <1>10, HowCallsEnd DEF ListArrives, ListError, WriteError, DetailOpens
<1>11. Dialogs => call' = call
  BY DEF Dialogs, OpenAdvance, CancelAdvance, OpenCreate, CancelCreate, CloseDetail
<1> QED
  BY <1>3, <1>4, <1>5, <1>6, <1>7, <1>8, <1>9, <1>10, <1>11
     DEF Next, Backend, StorageChanges, OthersWrite, OthersDelete, vars

(* The list that is loaded after an advance shows what the advance wrote or *)
(* something later, never the record as it was before.                      *)
THEOREM OwnWritesAreRead == Spec => []ReadsOwnWrite
<1>1. Init => WriteSuperseded
  BY DEF Init, ListCall, Idle, WriteSuperseded, Superseded
<1>2. WriteSuperseded => ReadsOwnWrite
  BY DEF WriteSuperseded, Superseded, ReadsOwnWrite
<1> QED BY <1>1, <1>2, SupersededStep, TypeInvariant, PTL DEF Spec

-----------------------------------------------------------------------------
(* The spinner. *)

LEMMA SpinnerStep ==
  ASSUME TypeInv, SpinnerEnds, [Next]_vars
  PROVE  SpinnerEnds'
<1>0. call \in [Calls -> CallType] /\ \A c \in Calls : CallShape(call[c])
  BY DEF TypeInv, TypeOK, CallType
<1> DEFINE Busy(q) == q.use \notin {"none", "detail"}
<1>1. ASSUME NEW c \in Calls, Busy(call'[c]) PROVE SpinnerEnds'
  BY <1>1 DEF SpinnerEnds
<1>2. ASSUME store' = store, \A c \in Calls : call'[c].use = call[c].use PROVE SpinnerEnds'
  BY <1>2 DEF SpinnerEnds
<1>3. ASSUME store'.loading = FALSE PROVE SpinnerEnds'
  BY <1>3 DEF SpinnerEnds
<1>4. ASSUME NEW c \in Calls, User(c) PROVE SpinnerEnds'
  <2>1. ASSUME NEW search, NEW at, Loads(c, search, at) PROVE Busy(call'[c])
    BY <1>0, <2>1 DEF Loads, Start, ListCall, Idle
  <2>2. ASSUME NEW role \in Roles, Remount(c, role) PROVE Busy(call'[c])
    BY <2>2 DEF Remount, ListCall, Idle
  <2>3. ConfirmAdvance(c) => Busy(call'[c])
    BY <1>0 DEF ConfirmAdvance, Start, WriteCall, Idle
  <2>4. ASSUME NEW rec \in Records, NEW k \in Contents, ConfirmCreate(c, rec, k)
        PROVE  Busy(call'[c])
    BY <1>0, <2>4 DEF ConfirmCreate, Start, WriteCall, Idle
  <2>5. CASE OpenDetail(c)
    <3>1. /\ store' = store /\ call[c].use = "none" /\ call'[c].use = "detail"
          /\ \A d \in Calls \ {c} : call'[d] = call[d]
      BY <1>0, <2>5 DEF OpenDetail, Idle
    <3> QED BY <3>1 DEF SpinnerEnds
  <2> QED
    BY <1>1, <1>4, <2>1, <2>2, <2>3, <2>4, <2>5 DEF User, Search, NextPage, PreviousPage
<1>5. ASSUME NEW c \in Calls, Backend(c) PROVE SpinnerEnds'
  <2>1. store' = store /\ \A d \in Calls : call'[d].use = call[d].use
    BY <1>0, <1>5 DEF Backend, AdvanceAccepted, CreateAccepted, CountRows, FindRows, CallType
  <2> QED BY <1>2, <2>1
<1>6. ASSUME NEW c \in Calls, Arrives(c) PROVE SpinnerEnds'
  <2>1. CASE Reload(c)
    <3>1. Busy(call'[c])
      BY <1>0, <2>1 DEF Reload, CallShape, CallType
    <3> QED BY <1>1, <3>1
  <2>2. CASE ListArrives(c) \/ ListError(c) \/ WriteError(c)
    <3>1. store'.loading = FALSE
      BY <2>2 DEF ListArrives, ListError, WriteError, ErrorShown, TypeInv, TypeOK
    <3> QED BY <1>3, <3>1
  <2>3. CASE DetailOpens(c) /\ call[c].stage = "get"
    <3>1. /\ store' = store /\ call[c].use = "detail" /\ call'[c].use = "none"
          /\ \A d \in Calls \ {c} : call'[d] = call[d]
      BY <1>0, <2>3 DEF DetailOpens, Ends, Idle, CallShape
    <3> QED BY <3>1 DEF SpinnerEnds
  <2> QED BY <1>6, <2>1, <2>2, <2>3, HowCallsEnd
<1>7. Dialogs => store' = store /\ call' = call
  BY DEF Dialogs, OpenAdvance, CancelAdvance, OpenCreate, CancelCreate, CloseDetail
<1> QED
  BY <1>2, <1>4, <1>5, <1>6, <1>7 DEF Next, StorageChanges, OthersWrite, OthersDelete, vars

(* In whatever order writes, reloads, failures and answers end, the page does *)
(* not say that it is loading once all of them have.                          *)
THEOREM SpinnersEnd == Spec => []SpinnerEnds
<1>1. Init => SpinnerEnds
  BY DEF Init, ListCall, Idle, SpinnerEnds
<1> QED BY <1>1, SpinnerStep, TypeInvariant, PTL DEF Spec

-----------------------------------------------------------------------------
(* Pages of a list. *)

(* A live record has a place, and no other record has it. *)
PlacesApart ==
  /\ \A rec \in Records : row[rec].phase = "live" => place[rec] # 0
  /\ \A q, r \in Records : q # r /\ place[q] = place[r] => place[q] = 0

LEMMA PlacesStartApart == Init => PlacesApart
<1> SUFFICES ASSUME Init PROVE PlacesApart
  OBVIOUS
<1> DEFINE used == {rec \in Records : row[rec] # AbsentRow}
           n == Cardinality(used)
           f == [rec \in used |-> place[rec]]
<1>1. /\ \A rec \in Records : place[rec] = 0 <=> rec \notin used
      /\ {place[rec] : rec \in used} = 1..n
  BY DEF Init
<1>2. IsFiniteSet(used) /\ n \in Nat
  BY WorkbenchAssumption, FS_Subset, FS_CardinalityType
<1> HIDE DEF n
<1>3. f \in Surjection(used, 1..n)
  BY <1>1 DEF Surjection
<1>4. Cardinality(1..n) = n
  BY <1>2, FS_Interval
<1>5. f \in Injection(used, 1..n)
  BY <1>2, <1>3, <1>4, FS_Surjection DEF n
<1>6. ASSUME NEW q \in used, NEW r \in used, place[q] = place[r] PROVE q = r
  BY <1>5, <1>6 DEF Injection, IsInjective
<1>7. \A rec \in Records : row[rec].phase = "live" => rec \in used
  BY DEF AbsentRow
<1> HIDE DEF used
<1>8. \A q, r \in Records : q # r /\ place[q] = place[r] => place[q] = 0
  BY <1>1, <1>6
<1> QED BY <1>1, <1>7, <1>8 DEF PlacesApart

(* The record written goes to the front, and the ones it passes make room. *)
LEMMA FrontStaysApart ==
  ASSUME TypeOK, PlacesApart, NEW rec \in Records, MovesToFront(rec),
         \A q \in Records \ {rec} : row'[q] = row[q]
  PROVE  PlacesApart'
<1> DEFINE Passed(q) == place[q] # 0 /\ (place[rec] = 0 \/ place[q] < place[rec])
<1>1. /\ place'[rec] = 1
      /\ \A q \in Records \ {rec} : place'[q] = IF Passed(q) THEN place[q] + 1 ELSE place[q]
  BY DEF MovesToFront
<1>2. \A q \in Records : place[q] \in Nat
  BY DEF TypeOK
<1>3. \A q, r \in Records : q # r /\ place[q] = place[r] => place[q] = 0
  BY DEF PlacesApart
<1>4. \A q \in Records \ {rec} : place'[q] # 1 /\ (place[q] # 0 => place'[q] # 0)
  BY <1>1, <1>2, <1>3
<1>5. ASSUME NEW q \in Records \ {rec}, NEW r \in Records \ {rec}, q # r, place'[q] = place'[r]
      PROVE  place'[q] = 0
  BY <1>1, <1>2, <1>3, <1>5
<1>6. \A q \in Records : row'[q].phase = "live" => place'[q] # 0
  BY <1>1, <1>4 DEF PlacesApart
<1>7. \A q, r \in Records : q # r /\ place'[q] = place'[r] => place'[q] = 0
  BY <1>1, <1>4, <1>5
<1> QED BY <1>6, <1>7 DEF PlacesApart

LEMMA PagesLeavePlaces ==
  ASSUME NEW c \in Calls, User(c) \/ Arrives(c) \/ CountRows(c) \/ FindRows(c)
  PROVE  UNCHANGED server
<1>1. User(c) => UNCHANGED server
  BY DEF User, Search, NextPage, PreviousPage, Loads, Remount, ConfirmAdvance, ConfirmCreate,
         OpenDetail
<1>2. Arrives(c) => UNCHANGED server
  BY DEF Arrives, Reload, ListArrives, ListFails, WriteFails, DetailArrives, Unauthorized
<1> QED BY <1>1, <1>2 DEF CountRows, FindRows

LEMMA PlacesStep ==
  ASSUME TypeInv, PlacesApart, [Next]_vars
  PROVE  PlacesApart'
<1>0. TypeOK
  BY DEF TypeInv
<1>1. ASSUME UNCHANGED server PROVE PlacesApart'
  BY <1>1 DEF server, PlacesApart
<1>2. ASSUME NEW c \in Calls, AdvanceAccepted(c) \/ CreateAccepted(c) PROVE PlacesApart'
  <2> DEFINE rec == call[c].copy.rec
  <2>1. rec \in Records
    BY <1>2 DEF AdvanceAccepted, CreateAccepted, TypeInv, CallShape, Copy
  <2>2. MovesToFront(rec) /\ \A q \in Records \ {rec} : row'[q] = row[q]
    BY <1>0, <1>2 DEF AdvanceAccepted, CreateAccepted, Server!Transition, Server!Create,
       Server!Write, TypeOK
  <2> QED BY <1>0, <2>1, <2>2, FrontStaysApart
<1>3. ASSUME NEW rec \in Records, OthersWrite(rec) PROVE PlacesApart'
  <2>1. MovesToFront(rec) /\ \A q \in Records \ {rec} : row'[q] = row[q]
    BY <1>0, <1>3 DEF OthersWrite, Server!Transition, Server!Create, Server!Update,
       Server!Write, TypeOK
  <2> QED BY <1>0, <2>1, FrontStaysApart
<1>4. ASSUME NEW rec \in Records, OthersDelete(rec) PROVE PlacesApart'
  <2>1. place' = place /\ \A q \in Records : row'[q].phase = "live" => row[q].phase = "live"
    BY <1>0, <1>4 DEF OthersDelete, Server!Delete, TypeOK
  <2> QED BY <2>1 DEF PlacesApart
<1>5. Dialogs \/ StorageChanges \/ UNCHANGED vars => UNCHANGED server
  BY DEF Dialogs, OpenAdvance, CancelAdvance, OpenCreate, CancelCreate, CloseDetail,
         StorageChanges, vars, server
<1> QED BY <1>1, <1>2, <1>3, <1>4, <1>5, PagesLeavePlaces DEF Next, Backend

-----------------------------------------------------------------------------
(* In a finite set whose members have different places, counting the places *)
(* up to its own numbers the members from 1.                                *)
LEMMA RanksAreNumbers ==
  ASSUME NEW S, IsFiniteSet(S), NEW f, \A q \in S : f[q] \in Nat,
         \A q, r \in S : f[q] = f[r] => q = r
  PROVE  [r \in S |-> Cardinality({q \in S : f[q] <= f[r]})] \in Bijection(S, 1..Cardinality(S))
<1> DEFINE Below(r) == {q \in S : f[q] <= f[r]}
           rank == [r \in S |-> Cardinality(Below(r))]
           total == Cardinality(S)
<1>1. \A r \in S : Below(r) \in SUBSET S /\ r \in Below(r)
  OBVIOUS
<1>2. total \in Nat
  BY FS_CardinalityType
<1>3. ASSUME NEW r \in S
      PROVE  IsFiniteSet(Below(r)) /\ Cardinality(Below(r)) \in 1..total
  <2>1. IsFiniteSet(Below(r)) /\ Cardinality(Below(r)) <= total
    BY <1>1, FS_Subset
  <2>2. Cardinality(Below(r)) \in Nat /\ Cardinality(Below(r)) # 0
    BY <1>1, <2>1, FS_CardinalityType, FS_EmptySet
  <2> HIDE DEF Below, total
  <2> QED BY <1>2, <2>1, <2>2
<1>4. ASSUME NEW q \in S, NEW r \in S, f[q] < f[r]
      PROVE  Cardinality(Below(q)) < Cardinality(Below(r))
  <2>1. Below(q) \in SUBSET Below(r) /\ r \notin Below(q) /\ r \in Below(r)
    BY <1>4
  <2>2. /\ Cardinality(Below(q)) <= Cardinality(Below(r))
        /\ Cardinality(Below(q)) # Cardinality(Below(r))
    BY <1>3, <2>1, FS_Subset
  <2>3. Cardinality(Below(q)) \in Nat /\ Cardinality(Below(r)) \in Nat
    BY <1>3
  <2> HIDE DEF Below
  <2> QED BY <2>2, <2>3
<1>5. ASSUME NEW q \in S, NEW r \in S, rank[q] = rank[r] PROVE q = r
  <2>1. Cardinality(Below(q)) = Cardinality(Below(r))
    BY <1>5
  <2>2. Cardinality(Below(q)) \in Nat
    BY <1>3
  <2> HIDE DEF Below, rank
  <2>3. ~(f[q] < f[r]) /\ ~(f[r] < f[q])
    BY <1>4, <2>1, <2>2
  <2> QED BY <2>3
<1>6. rank \in Injection(S, 1..total)
  <2>1. rank \in [S -> 1..total]
    BY <1>3
  <2> HIDE DEF rank
  <2> QED BY <1>5, <2>1 DEF Injection, IsInjective
<1>7. IsFiniteSet(1..total) /\ Cardinality(1..total) = total
  BY <1>2, FS_Interval
<1> HIDE DEF rank
<1>8. rank \in Surjection(S, 1..total)
  BY <1>6, <1>7, FS_Injection
<1> QED BY <1>6, <1>8 DEF Bijection, rank

(* Rows of a page of a list that has this many. *)
LEMMA RowsOfAPage ==
  ASSUME NEW total \in Nat, NEW size \in Nat \ {0}, NEW n \in 1..Pages(total, size)
  PROVE  /\ IsFiniteSet(Exactly(total, n, size))
         /\ Cardinality(Exactly(total, n, size)) <= size
         /\ n < Pages(total, size) => Cardinality(Exactly(total, n, size)) = size
<1> DEFINE last == Pages(total, size)
           b == (n - 1) * size
           slots == (b + 1)..(b + size)
<1>1. last \in Nat \ {0} /\ (total # 0 => last * size < total + size) /\ (total = 0 => last = 1)
  <2>1. CASE total = 0
    <3>1. last = 1
      BY <2>1 DEF Pages
    <3> HIDE DEF last
    <3> QED BY <2>1, <3>1
  <2>2. CASE total # 0
    <3>1. last \in Nat \ {0} /\ last * size < total + size
      BY <2>2, PagesFit
    <3> QED BY <2>2, <3>1, Zenon
  <2> QED BY <2>1, <2>2
<1>2. n \in Nat \ {0} /\ b \in Nat
  BY <1>1
<1>3. Exactly(total, n, size) = slots \cap (1..total)
  BY Zenon DEF Exactly, OnPage
<1> HIDE DEF last
<1>4. ASSUME n < last PROVE b + size < total
  <2>1. total # 0
    BY <1>1, <1>2, <1>4
  <2>2. n - 1 \in Nat /\ n - 1 < n /\ n * size + size <= last * size
    BY <1>1, <1>2, <1>4, ProductsGrow
  <2>3. b + size <= n * size
    BY <1>2, <2>2, ProductsGrow
  <2>4. n * size \in Nat /\ last * size \in Nat
    BY <1>1, <1>2
  <2> HIDE DEF b
  <2> QED BY <1>1, <1>2, <2>1, <2>2, <2>3, <2>4
<1> HIDE DEF b
<1>5. IsFiniteSet(slots) /\ Cardinality(slots) = size
  BY <1>2, FS_Interval
<1>6. n < last => slots \cap (1..total) = slots
  BY <1>2, <1>4
<1>7. IsFiniteSet(slots \cap (1..total)) /\ Cardinality(slots \cap (1..total)) <= Cardinality(slots)
  BY <1>5, FS_Subset
<1> HIDE DEF slots
<1> QED BY <1>3, <1>5, <1>6, <1>7 DEF last

LEMMA OneToOneKeepsSize ==
  ASSUME NEW S, NEW T, NEW f \in Bijection(S, T), NEW U \in SUBSET T, IsFiniteSet(U),
         NEW V \in SUBSET S, \A x \in S : x \in V <=> f[x] \in U
  PROVE  IsFiniteSet(V) /\ Cardinality(V) = Cardinality(U)
<1> DEFINE g == [x \in V |-> f[x]]
<1>1. /\ f \in [S -> T] /\ \A x, y \in S : f[x] = f[y] => x = y
      /\ \A t \in T : \E x \in S : f[x] = t
  BY DEF Bijection, Injection, Surjection, IsInjective
<1>2. g \in [V -> U] /\ \A x, y \in V : g[x] = g[y] => x = y
  BY <1>1
<1>3. \A u \in U : \E x \in V : g[x] = u
  BY <1>1
<1> HIDE DEF g
<1>4. g \in Injection(V, U) /\ g \in Surjection(V, U)
  BY <1>2, <1>3 DEF Injection, Surjection, IsInjective
<1> QED BY <1>4, FS_Injection

(* Copies of different records are different. *)
LEMMA AsManyCopies ==
  ASSUME NEW R, IsFiniteSet(R)
  PROVE  Cardinality({CopyOf(rec) : rec \in R}) = Cardinality(R)
<1> DEFINE f == [rec \in R |-> CopyOf(rec)]
           C == {CopyOf(rec) : rec \in R}
<1>1. \A q, r \in R : CopyOf(q) = CopyOf(r) => q = r
  BY DEF CopyOf
<1>2. f \in Surjection(R, C) /\ f \in Injection(R, C)
  BY <1>1 DEF Injection, Surjection, IsInjective
<1> HIDE DEF f, C
<1>3. Cardinality(C) = Cardinality(R)
  BY <1>2, FS_Surjection
<1> QED BY <1>3 DEF C

(* The pages are full up to the last, and they show every match once. *)
LEMMA PagesOfOneList ==
  ASSUME TypeOK, PlacesApart, NEW search \in Searches
  PROVE  LET last == Pages(Cardinality(Matching(search)), PageSize)
             At(n) == ItemsOf(Query(search, n)) IN
         /\ UNION {At(n) : n \in 1..last} = {CopyOf(rec) : rec \in Matching(search)}
         /\ \A m, n \in 1..last : m # n => At(m) \cap At(n) = {}
         /\ \A n \in 1..(last - 1) : Cardinality(At(n)) = PageSize
         /\ Cardinality(At(last)) <= PageSize
<1> DEFINE S == Matching(search)
           total == Cardinality(S)
           last == Pages(total, PageSize)
           rank == [rec \in S |-> Listed(rec, search)]
           On(n) == {rec \in S : rank[rec] \in Exactly(total, n, PageSize)}
           At(n) == ItemsOf(Query(search, n))
<1>1. S \subseteq Records /\ IsFiniteSet(S) /\ total \in Nat
      /\ \A rec \in S : row[rec].phase = "live"
  BY MatchingType, WorkbenchAssumption, FS_Subset
<1>2. rank \in Bijection(S, 1..total)
  <2>1. \A q \in S : place[q] \in Nat
    BY <1>1 DEF TypeOK
  <2>2. \A q, r \in S : place[q] = place[r] => q = r
    BY <1>1 DEF PlacesApart
  <2> HIDE DEF S
  <2>3. [r \in S |-> Cardinality({q \in S : place[q] <= place[r]})] \in Bijection(S, 1..total)
    BY <1>1, <2>1, <2>2, RanksAreNumbers
  <2>4. \A r \in S : Listed(r, search) = Cardinality({q \in S : place[q] <= place[r]})
    BY DEF Listed, S
  <2> QED BY <2>3, <2>4
<1>3. PageSize \in Nat \ {0}
  BY WorkbenchAssumption
<1>4. rank \in [S -> 1..total]
  BY <1>2 DEF Bijection, Injection
<1>5. \A n : At(n) = {CopyOf(rec) : rec \in On(n)}
  <2> TAKE n
  <2>1. At(n) = {CopyOf(rec) : rec \in {q \in S : Listed(q, search)
                                          \in OnPage(n, PageSize, (n - 1) * PageSize)}}
    BY DEF ItemsOf, Query
  <2>2. \A q \in S : rank[q] = Listed(q, search)
    OBVIOUS
  <2> HIDE DEF S, rank, At, total
  <2>3. {q \in S : Listed(q, search) \in OnPage(n, PageSize, (n - 1) * PageSize)} = On(n)
    BY <1>4, <2>2 DEF Exactly
  <2> QED BY <2>1, <2>3
<1> HIDE DEF S, rank, At, total
<1>6. last \in Nat \ {0}
  BY <1>1, <1>3, PagesFit DEF Pages
<1>7. \A n \in 1..last : IsFiniteSet(On(n)) /\ Cardinality(On(n)) <= PageSize
                         /\ (n < last => Cardinality(On(n)) = PageSize)
  <2> TAKE n \in 1..last
  <2> DEFINE U == Exactly(total, n, PageSize)
  <2>1. /\ IsFiniteSet(U) /\ Cardinality(U) <= PageSize
        /\ n < last => Cardinality(U) = PageSize
    BY <1>1, <1>3, RowsOfAPage
  <2>2. U \in SUBSET (1..total)
    BY DEF Exactly
  <2> HIDE DEF U
  <2>3. On(n) \in SUBSET S /\ \A rec \in S : rec \in On(n) <=> rank[rec] \in U
    BY Zenon DEF U
  <2> HIDE DEF On, last
  <2> DEFINE numbers == 1..total
  <2>4. rank \in Bijection(S, numbers) /\ U \in SUBSET numbers
    BY <1>2, <2>2
  <2> HIDE DEF numbers
  <2>5. IsFiniteSet(On(n)) /\ Cardinality(On(n)) = Cardinality(U)
    BY <2>1, <2>3, <2>4, OneToOneKeepsSize
  <2> QED BY <2>1, <2>5
<1>8. \A n \in 1..last : Cardinality(At(n)) = Cardinality(On(n))
  BY <1>5, <1>7, AsManyCopies
<1>9. ASSUME NEW rec \in S PROVE \E n \in 1..last : rec \in On(n)
  <2>1. rank[rec] \in 1..total
    BY <1>4
  <2>2. total \in Nat \ {0}
    BY <1>1, <2>1
  <2>3. PICK n \in 1..last : rank[rec] \in Exactly(total, n, PageSize)
    BY <1>3, <2>1, <2>2, ExactPagesCoverTheList
  <2> QED BY <2>3
<1>10. ASSUME NEW m \in 1..last, NEW n \in 1..last, m # n PROVE At(m) \cap At(n) = {}
  <2>1. On(m) \cap On(n) = {}
    <3>1. CASE total = 0
      BY <1>4, <3>1
    <3>2. CASE total # 0
      <4>1. \A p, q \in Nat \ {0} :
              p # q => Exactly(total, p, PageSize) \cap Exactly(total, q, PageSize) = {}
        BY <1>1, <1>3, <3>2, ExactPagesCoverTheList
      <4>2. m \in Nat \ {0} /\ n \in Nat \ {0}
        <5> HIDE DEF last
        <5> QED BY <1>6
      <4>3. Exactly(total, m, PageSize) \cap Exactly(total, n, PageSize) = {}
        BY <1>10, <4>1, <4>2
      <4> QED BY <4>3
    <3> QED BY <3>1, <3>2
  <2>2. \A q, r \in S : CopyOf(q) = CopyOf(r) => q = r
    BY DEF CopyOf
  <2> QED BY <1>5, <2>1, <2>2
<1>11. UNION {At(n) : n \in 1..last} = {CopyOf(rec) : rec \in S}
  <2>1. ASSUME NEW n \in 1..last PROVE At(n) \subseteq {CopyOf(rec) : rec \in S}
    BY <1>5
  <2>2. ASSUME NEW rec \in S PROVE \E n \in 1..last : CopyOf(rec) \in At(n)
    BY <1>5, <1>9
  <2> HIDE DEF On
  <2> QED BY <2>1, <2>2
<1> HIDE DEF On, last
<1>12. \A n \in 1..(last - 1) : Cardinality(At(n)) = PageSize
  BY <1>6, <1>7, <1>8
<1>13. Cardinality(At(last)) <= PageSize
  BY <1>6, <1>7, <1>8
<1> QED BY <1>10, <1>11, <1>12, <1>13 DEF S, At, total, last

(* So it is for every number of records and every page size: as long as     *)
(* nobody writes, walking through the pages shows each record the search    *)
(* finds once, and none is missed.                                          *)
THEOREM PagesAreTheList == Spec => []PagesMakeTheList
<1>1. TypeInv /\ PlacesApart => PagesMakeTheList
  BY PagesOfOneList DEF PagesMakeTheList, TypeInv
<1>2. Spec => []PlacesApart
  <2>1. Init => PlacesApart
    BY PlacesStartApart
  <2>2. TypeInv /\ PlacesApart /\ [Next]_vars => PlacesApart'
    BY PlacesStep
  <2> QED BY <2>1, <2>2, TypeInvariant, PTL DEF Spec
<1> QED BY <1>1, <1>2, TypeInvariant, PTL

-----------------------------------------------------------------------------
(* The backend of the page. *)

(* Whatever users, pages and other users do to the records is an operation  *)
(* of ReviewedRecord, by somebody who may exist: the page adds no way       *)
(* around the promise that the services are shown to keep.                  *)
THEOREM PageActsThroughTheBackend == Spec => Server!Spec
<1>1. Init => Server!Init
  BY DEF Init
<1>2. ASSUME TypeInv, [Next]_vars
      PROVE  [Server!Next]_(Server!vars)
  <2>1. UNCHANGED server => UNCHANGED Server!vars
    BY DEF server, Server!vars
  <2>2. ASSUME NEW c \in Calls, AdvanceAccepted(c) PROVE Server!Next
    <3>1. /\ Server!Transition(call[c].copy.rec, call[c].role, call[c].target)
          /\ call[c].stage = "post" /\ call[c].use = "advance"
          /\ call[c].role \in Policy.writers
      BY <2>2 DEF AdvanceAccepted
    <3>2. /\ call[c].copy.rec \in Records /\ call[c].target \in Statuses
          /\ call[c].role \in Actors
      BY <1>2, <3>1, WorkbenchAssumption DEF TypeInv, CallShape, CallType, Copy
    <3> QED BY <3>1, <3>2, SameRows DEF Server!Next
  <2>3. ASSUME NEW c \in Calls, CreateAccepted(c) PROVE Server!Next
    <3>1. /\ Server!Create(call[c].copy.rec, call[c].role, call[c].copy.item.content)
          /\ call[c].stage = "post" /\ call[c].use = "create"
          /\ call[c].role \in Policy.writers
      BY <2>3 DEF CreateAccepted
    <3>2. call[c].copy \in Copy /\ call[c].role \in Actors
      BY <1>2, <3>1, WorkbenchAssumption DEF TypeInv, CallShape, CallType
    <3>3. call[c].copy.rec \in Records /\ call[c].copy.item.content \in Contents
      BY <3>2 DEF Copy, StoredRow
    <3> QED BY <3>1, <3>2, <3>3 DEF Server!Next
  <2>4. ASSUME NEW rec \in Records, OthersWrite(rec) PROVE Server!Next
    BY <2>4, SameRows DEF OthersWrite, Server!Next
  <2>5. ASSUME NEW rec \in Records, OthersDelete(rec) PROVE Server!Next
    BY <2>5 DEF OthersDelete, Server!Next
  <2>6. Dialogs \/ StorageChanges \/ UNCHANGED vars => UNCHANGED server
    BY DEF Dialogs, OpenAdvance, CancelAdvance, OpenCreate, CancelCreate, CloseDetail,
           StorageChanges, vars, server
  <2> QED
    BY <1>2, <2>1, <2>2, <2>3, <2>4, <2>5, <2>6, PagesLeavePlaces DEF Next, Backend
<1> QED BY <1>1, <1>2, TypeInvariant, PTL DEF Spec, Server!Spec
=============================================================================
