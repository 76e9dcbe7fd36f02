----------------------------- MODULE Workbench ------------------------------
(***************************************************************************)
(* The workbench page of one kind of record, its store, and the calls they *)
(* make to the backend.  The backend is the atomic record of               *)
(* ReviewedRecord, which the services are shown to implement; lists are    *)
(* read by two queries, and other users write in between.                  *)
(*                                                                         *)
(* The page is mounted anew when the user switches the role or comes back  *)
(* from another page.  The store and its calls survive that.               *)
(*                                                                         *)
(* Who a call acts as is decided when it is sent, by the session that all  *)
(* tabs of the browser share (module Session); the role the page shows may *)
(* be another one by then.                                                 *)
(***************************************************************************)
EXTENDS RecordTypes, Paging, FiniteSets

LOCAL INSTANCE FiniteSetsExt

CONSTANTS
  Roles,      \* the roles the user switches between
  OtherTabs,  \* what other tabs leave in the storage: roles, or None
  Writers,    \* the roles that are shown the buttons that write
  Offer,      \* the next status offered to a role for a status, or None
  Calls,      \* bound: calls in flight at a time
  Searches,   \* the texts searched for
  NoText,     \* the empty one of them
  Hits,       \* the records each text finds
  PageSize,   \* rows of a page, 20 in the code
  MaxWrites,  \* bound: what all users together write to the table
  Strangers,  \* what other users do: operations of ReviewedRecord
  Faults      \* TRUE: calls may fail, or be executed and their answer lost

(* What is offered is an edge of the backend's graph the role may take. *)
ASSUME WorkbenchAssumption ==
  /\ Roles \subseteq Actors /\ OtherTabs \subseteq Roles \cup {None}
  /\ Writers \subseteq Roles \cap Policy.writers
  /\ PageSize \in Nat \ {0} /\ None \notin Statuses \cup Roles \cup Policy.writers
  /\ IsFiniteSet(Records) /\ Hits \in [Searches -> SUBSET Records]
  /\ NoText \in Searches /\ Hits[NoText] = Records
  /\ \A role \in Roles, s \in Statuses :
       Offer[role][s] # None =>
         /\ role \in Writers
         /\ CanTransition(Policy.graph, s, Offer[role][s])
         /\ ReviewedChange(s, Offer[role][s]) => MayReview(role)

VARIABLES
  row, ledger,  \* the backend, as in ReviewedRecord
  place,        \* of a code in the order of latest change: 1, 2, ...; 0 until it is used
  token,        \* the role of the session in localStorage, or None
  store,        \* the store of the page
  page,         \* the state of the mounted page
  call          \* the calls in flight

server == <<row, ledger, place>>
vars == <<row, ledger, place, token, store, page, call>>

Server == INSTANCE ReviewedRecord

-----------------------------------------------------------------------------
(* Lists and their answers. *)

CopyOf(rec) == [rec |-> rec, item |-> row[rec]]

Query(search, at) == [search |-> search, at |-> at]
DefaultQuery == Query(NoText, 1)

Matching(search) == {rec \in Hits[search] : row[rec].phase = "live"}

(* Position of a matching record in the list, counted from 1. *)
Listed(rec, search) == Cardinality({q \in Matching(search) : place[q] <= place[rec]})

ItemsOf(query) ==
  {CopyOf(rec) : rec \in
     {q \in Matching(query.search) :
        Listed(q, query.search)
          \in OnPage(query.at, PageSize, (query.at - 1) * PageSize)}}

(* A call: what for, how far, whether the dialog or page it was made from is *)
(* still mounted, the role of its token until that has been checked, copy    *)
(* and target of a write, for a list the query and the answer so far; and,   *)
(* for the properties, whether the role of a write is the one on the screen. *)
Idle == [use |-> "none", stage |-> "idle", mounted |-> FALSE, role |-> None, own |-> FALSE,
         copy |-> None, target |-> None, query |-> None, total |-> 0, items |-> {}]

ListCall(query, role) ==
  [Idle EXCEPT !.use = "list", !.stage = "count", !.query = query, !.role = role]

(* request() reads the token when it sends. *)
WriteCall(use, copy, target) ==
  [Idle EXCEPT !.use = use, !.stage = "post", !.mounted = TRUE, !.role = token,
               !.own = (token = page.role), !.copy = copy, !.target = target]

EmptyStore == [items |-> {}, total |-> 0, loading |-> FALSE]

(* Mutant: a page that appears again keeps the dialog it had open. *)
KeepsDialog(role) == [page EXCEPT !.role = role, !.at = 1, !.search = NoText]

(* A page as it is mounted. *)
FreshPage(role) ==
  [role |-> role, at |-> 1, search |-> NoText, creating |-> FALSE, pending |-> None,
   detail |-> FALSE]

(* Every operation of the store begins like this. *)
Begins == store' = [store EXCEPT !.loading = TRUE]

Init ==
  /\ Server!Init
  /\ LET used == {rec \in Records : row[rec] # AbsentRow} IN
       /\ place \in [Records -> 0..Cardinality(used)]
       /\ \A rec \in Records : place[rec] = 0 <=> rec \notin used
       /\ {place[rec] : rec \in used} = 1..Cardinality(used)
  /\ page \in [role : Roles, at : {1}, search : {NoText}, creating : {FALSE}, pending : {None},
               detail : {FALSE}]
  /\ token \in {page.role} \cup OtherTabs
  /\ \E c \in Calls :
       call = [d \in Calls |-> IF d = c THEN ListCall(DefaultQuery, token) ELSE Idle]
  /\ store = [EmptyStore EXCEPT !.loading = TRUE]

-----------------------------------------------------------------------------
(* What the user does. *)

(* An open dialog covers the page; the detail covers the other dialogs. *)
NoDialog == ~page.creating /\ page.pending = None /\ ~page.detail

Start(c, started) ==
  /\ call[c].use = "none"
  /\ call' = [call EXCEPT ![c] = started]
  /\ Begins

(* Effect of the page: its query has changed. *)
Loads(c, search, at) ==
  /\ Query(search, at) # Query(page.search, page.at)
  /\ page' = [page EXCEPT !.search = search, !.at = at]
  /\ Start(c, ListCall(Query(search, at), token))
  /\ UNCHANGED <<server, token>>

Search(c, search) == NoDialog /\ Loads(c, search, 1)

NextPage(c) ==
  /\ NoDialog /\ page.at < Pages(store.total, PageSize)
  /\ Loads(c, page.search, page.at + 1)

(* Mutant: the button works on the first page too, and nothing holds the number at one. *)
PreviousUnclamped(c) == NoDialog /\ Loads(c, page.search, page.at - 1)

PreviousPage(c) ==
  /\ NoDialog /\ page.at > 1
  /\ Loads(c, page.search, page.at - 1)

(* A switch of role, whose login stores its session; or a visit to another *)
(* page and back, with the role as it was.                                 *)
Remount(c, role) ==
  /\ call[c].use = "none"
  /\ page' = FreshPage(role)
  /\ token' = IF role = page.role THEN token ELSE role
  /\ call' = [[d \in Calls |-> [call[d] EXCEPT !.mounted = FALSE]]
                EXCEPT ![c] = ListCall(DefaultQuery, token')]
  /\ Begins
  /\ UNCHANGED server

OpenAdvance(copy) ==
  /\ NoDialog /\ Offer[page.role][copy.item.status] # None
  /\ page' = [page EXCEPT !.pending =
                [copy |-> copy, target |-> Offer[page.role][copy.item.status]]]
  /\ UNCHANGED <<server, token, store, call>>

(* Mutant: the page sends the version it expects to get. *)
ConfirmNextVersion(c) ==
  /\ page.pending # None /\ ~page.detail
  /\ page.pending.copy.item.version < MaxVersion
  /\ Start(c, WriteCall("advance", [page.pending.copy EXCEPT !.item.version = @ + 1],
                         page.pending.target))
  /\ UNCHANGED <<server, token, page>>

(* The dialog stays until the answer, and may be confirmed again.  Bound: *)
(* nobody writes to a record that has reached MaxVersion.                 *)
ConfirmAdvance(c) ==
  /\ page.pending # None /\ ~page.detail
  /\ page.pending.copy.item.version < MaxVersion
  /\ Start(c, WriteCall("advance", page.pending.copy, page.pending.target))
  /\ UNCHANGED <<server, token, page>>

CancelAdvance ==
  /\ page.pending # None /\ ~page.detail
  /\ page' = [page EXCEPT !.pending = None]
  /\ UNCHANGED <<server, token, store, call>>

OpenCreate ==
  /\ NoDialog /\ page.role \in Writers
  /\ page' = [page EXCEPT !.creating = TRUE]
  /\ UNCHANGED <<server, token, store, call>>

(* The code is made of the last digits of the clock: it may be in use. *)
ConfirmCreate(c, rec, content) ==
  /\ page.creating /\ ~page.detail
  /\ Start(c, WriteCall("create", [rec |-> rec, item |-> NewRow(content)], None))
  /\ UNCHANGED <<server, token, page>>

CancelCreate ==
  /\ page.creating /\ ~page.detail
  /\ page' = [page EXCEPT !.creating = FALSE]
  /\ UNCHANGED <<server, token, store, call>>

(* The detail of a shown record is fetched past the store. *)
OpenDetail(c) ==
  /\ NoDialog /\ store.items # {} /\ call[c].use = "none"
  /\ call' = [call EXCEPT ![c] = [Idle EXCEPT !.use = "detail", !.stage = "get",
                                              !.mounted = TRUE, !.role = token]]
  /\ UNCHANGED <<server, token, store, page>>

CloseDetail ==
  /\ page.detail
  /\ page' = [page EXCEPT !.detail = FALSE]
  /\ UNCHANGED <<server, token, store, call>>

(* Another tab logs in or switches its role; a 401 it gets, or a failed     *)
(* login of any tab, clears the storage.  Nothing tells this page.          *)
StorageChanges ==
  /\ token' \in OtherTabs
  /\ UNCHANGED <<server, store, page, call>>

-----------------------------------------------------------------------------
(* What the backend does. *)

Touched(rec) == row[rec].version + (IF row[rec].phase = "deleted" THEN 1 ELSE 0)

WritesLeft == MapThenSumSet(Touched, Records) < MaxWrites

(* Mutant: records changed at the same moment have no order among them. *)
SharesTheFront(rec) == place' = [place EXCEPT ![rec] = 1]

(* A write makes a record the latest one. *)
MovesToFront(rec) ==
  LET Passed(q) == place[q] # 0 /\ (place[rec] = 0 \/ place[q] < place[rec]) IN
  place' = [q \in Records |->
              IF q = rec THEN 1 ELSE IF Passed(q) THEN place[q] + 1 ELSE place[q]]

(* The version the page sends, and what it is compared with. *)
Current(copy) ==
  row[copy.rec].phase = "live" /\ row[copy.rec].version = copy.item.version

(* What a write was asked for is still there, or still free. *)
UpToDate(c) ==
  CASE call[c].use = "advance" -> Current(call[c].copy)
    [] call[c].use = "create" -> row[call[c].copy.rec] = AbsentRow

(* Everything the backend asks of a write: the role of the route, the        *)
(* version, the edge, and the role of the review.                            *)
Accepted(c) ==
  LET status == row[call[c].copy.rec].status IN
  /\ call[c].role \in Policy.writers
  /\ UpToDate(c)
  /\ call[c].use = "advance" =>
       /\ CanTransition(Policy.graph, status, call[c].target)
       /\ ReviewedChange(status, call[c].target) => MayReview(call[c].role)

AdvanceAccepted(c) ==
  /\ call[c].use = "advance" /\ call[c].stage = "post"
  /\ WritesLeft /\ call[c].role \in Policy.writers /\ Current(call[c].copy)
  /\ Server!Transition(call[c].copy.rec, call[c].role, call[c].target)
  /\ MovesToFront(call[c].copy.rec)
  /\ call' = [call EXCEPT ![c].stage = "posted", ![c].role = None, ![c].own = FALSE,
                          ![c].target = None]
  /\ UNCHANGED <<token, store, page>>

CreateAccepted(c) ==
  /\ call[c].use = "create" /\ call[c].stage = "post"
  /\ WritesLeft /\ call[c].role \in Policy.writers
  /\ Server!Create(call[c].copy.rec, call[c].role, call[c].copy.item.content)
  /\ MovesToFront(call[c].copy.rec)
  /\ call' = [call EXCEPT ![c].stage = "posted", ![c].role = None, ![c].own = FALSE,
                          ![c].target = None]
  /\ UNCHANGED <<token, store, page>>

CountRows(c) ==
  /\ call[c].stage = "count" /\ call[c].role # None
  /\ call' = [call EXCEPT ![c].stage = "find", ![c].role = None,
                          ![c].total = Cardinality(Matching(call[c].query.search))]
  /\ UNCHANGED <<server, token, store, page>>

FindRows(c) ==
  /\ call[c].stage = "find"
  /\ call' = [call EXCEPT ![c].stage = "answer", ![c].items = ItemsOf(call[c].query)]
  /\ UNCHANGED <<server, token, store, page>>

(* Other users, at other pages. *)
OthersWrite(rec) ==
  /\ WritesLeft /\ row[rec].version < MaxVersion
  /\ \E actor \in Actors :
       \/ "create" \in Strangers /\ \E k \in Contents : Server!Create(rec, actor, k)
       \/ "update" \in Strangers /\ \E k \in Contents : Server!Update(rec, actor, k)
       \/ "transition" \in Strangers /\ \E s \in Statuses : Server!Transition(rec, actor, s)
  /\ MovesToFront(rec)
  /\ UNCHANGED <<token, store, page, call>>

OthersDelete(rec) ==
  /\ WritesLeft /\ "delete" \in Strangers
  /\ Server!Delete(rec)
  /\ UNCHANGED <<place, token, store, page, call>>

-----------------------------------------------------------------------------
(* Answers arrive. *)

(* Mutant: the list is fetched without waiting for the write. *)
ReloadAtOnce(c) ==
  /\ call[c].stage \in {"post", "posted"}
  /\ call' = [call EXCEPT ![c].stage = "count", ![c].query = DefaultQuery, ![c].role = token]
  /\ Begins
  /\ UNCHANGED <<server, token, page>>

(* Written: the store loads its list again, by the default query. *)
Reload(c) ==
  /\ call[c].stage = "posted"
  /\ call' = [call EXCEPT ![c].stage = "count", ![c].query = DefaultQuery, ![c].role = token]
  /\ Begins
  /\ UNCHANGED <<server, token, page>>

Ends(c) == call' = [call EXCEPT ![c] = Idle]

(* The dialog closes when the operation it stands for has come to its end, *)
(* in the page it was confirmed in; whichever dialog is open there by then. *)
DialogCloses(c) ==
  page' = [page EXCEPT !.pending = IF call[c].mounted /\ call[c].use = "advance" THEN None ELSE @,
                       !.creating = @ /\ ~(call[c].mounted /\ call[c].use = "create")]

ListArrives(c) ==
  /\ call[c].stage = "answer"
  /\ store' = [store EXCEPT !.items = call[c].items, !.total = call[c].total,
                            !.loading = FALSE]
  /\ DialogCloses(c) /\ Ends(c)
  /\ UNCHANGED <<server, token>>

(* Mutant: an error leaves the store loading. *)
ErrorKeepsLoading == UNCHANGED store

(* The message it shows is left out. *)
ErrorShown == store' = [store EXCEPT !.loading = FALSE]

(* load catches its error, so that the operation counts as done. *)
ListError(c) == ErrorShown /\ DialogCloses(c) /\ Ends(c)

(* A write that is refused or fails leaves its dialog open. *)
WriteError(c) == ErrorShown /\ Ends(c) /\ UNCHANGED page

(* The detail opens also without its answer, with the page's own copy: what *)
(* it shows is left out.                                                    *)
DetailOpens(c) ==
  /\ page' = [page EXCEPT !.detail = @ \/ call[c].mounted]
  /\ Ends(c) /\ UNCHANGED store

ListFails(c) ==
  /\ Faults /\ call[c].stage \in {"count", "find", "answer"}
  /\ ListError(c)
  /\ UNCHANGED <<server, token>>

(* A refusal other than 401, or a fault before or after the write. *)
WriteFails(c) ==
  /\ call[c].stage \in {"post", "posted"}
  /\ Faults \/ (call[c].stage = "post" /\ call[c].role # None /\ ~Accepted(c))
  /\ WriteError(c)
  /\ UNCHANGED <<server, token>>

DetailArrives(c) ==
  /\ call[c].stage = "get" /\ (Faults \/ call[c].role # None)
  /\ DetailOpens(c)
  /\ UNCHANGED <<server, token>>

(* 401: there was no token to send, or it has expired.  The stored session *)
(* goes, whichever it is by now.                                           *)
Unauthorized(c) ==
  /\ Faults \/ call[c].role = None
  /\ \/ call[c].stage = "count" /\ ListError(c)
     \/ call[c].stage = "post" /\ WriteError(c)
     \/ call[c].stage = "get" /\ DetailOpens(c)
  /\ token' = None
  /\ UNCHANGED server

-----------------------------------------------------------------------------
User(c) ==
  \/ \E search \in Searches : Search(c, search)
  \/ NextPage(c) \/ PreviousPage(c)
  \/ \E role \in Roles : Remount(c, role)
  \/ ConfirmAdvance(c)
  \/ \E rec \in Records, k \in Contents : ConfirmCreate(c, rec, k)
  \/ OpenDetail(c)

Dialogs ==
  \/ \E copy \in store.items : OpenAdvance(copy)
  \/ CancelAdvance \/ OpenCreate \/ CancelCreate \/ CloseDetail

Backend(c) ==
  AdvanceAccepted(c) \/ CreateAccepted(c) \/ CountRows(c) \/ FindRows(c)

Arrives(c) ==
  \/ Reload(c) \/ ListArrives(c) \/ ListFails(c) \/ WriteFails(c) \/ DetailArrives(c)
  \/ Unauthorized(c)

Next ==
  \/ \E c \in Calls : User(c) \/ Backend(c) \/ Arrives(c)
  \/ Dialogs \/ StorageChanges
  \/ \E rec \in Records : OthersWrite(rec) \/ OthersDelete(rec)

Spec == Init /\ [][Next]_vars

-----------------------------------------------------------------------------
(* What user and browser hold of the backend's records. *)
Copy == [rec : Records, item : StoredRow]

Held ==
  store.items
    \cup (UNION {call[c].items : c \in Calls})
    \cup {call[c].copy : c \in {d \in Calls : call[d].use = "advance"}}
    \cup (IF page.pending = None THEN {} ELSE {page.pending.copy})

(* Types of store, page and calls. *)
QueryType == [search : Searches, at : Nat \ {0}]

TypeOK ==
  /\ row \in [Records -> Row] /\ place \in [Records -> Nat] /\ token \in Roles \cup {None}
  /\ store \in [items : SUBSET Copy, total : Nat, loading : BOOLEAN]
  /\ page \in [role : Roles, at : Nat \ {0}, search : Searches, creating : BOOLEAN,
               pending : [copy : Copy, target : Statuses] \cup {None}, detail : BOOLEAN]
  /\ call \in [Calls ->
       [use : {"none", "list", "advance", "create", "detail"},
        stage : {"idle", "post", "posted", "count", "find", "answer", "get"},
        mounted : BOOLEAN, role : Roles \cup {None}, own : BOOLEAN,
        copy : Copy \cup {None}, target : Statuses \cup {None},
        query : QueryType \cup {None}, total : Nat, items : SUBSET Copy]]

(* Whatever the order of answers, reloads and dialogs, a copy at the page  *)
(* is a state its record has been in: never newer than the record, and as  *)
(* long as the record has the same version, the same.  So the page sends   *)
(* versions it has read: to the backend it is a client of Lookahead 0.     *)
HonestCopies ==
  \A copy \in Held :
    /\ copy.item.version <= row[copy.rec].version
    /\ copy.item.version = row[copy.rec].version =>
         /\ copy.item.status = row[copy.rec].status
         /\ copy.item.content = row[copy.rec].content

(* A write the page has offered is refused only because the record has     *)
(* changed or the code is taken, or because another tab has changed the    *)
(* stored session under the open page, so that the call acts as somebody   *)
(* the page does not show: otherwise the backend's route, graph and gates  *)
(* admit it, also after the user has switched roles with dialogs open and  *)
(* calls in flight.                                                        *)
OfferAccepted ==
  \A c \in Calls :
    call[c].stage = "post" /\ call[c].own /\ UpToDate(c) => Accepted(c)

(* The list a store loads after an advance holds what the advance wrote, or *)
(* something later, if it holds the record at all.                          *)
ReadsOwnWrite ==
  \A c \in Calls :
    call[c].use = "advance" =>
      \A copy \in call[c].items :
        copy.rec = call[c].copy.rec => copy.item.version > call[c].copy.item.version

(* Once every call of the store has come to an end the page no longer says *)
(* that it is loading.                                                     *)
SpinnerEnds ==
  (\A c \in Calls : call[c].use \in {"none", "detail"}) => ~store.loading

(* A page that waits for nothing shows records its search finds, unless a  *)
(* call has failed: "current filter range", says the page of its figures.  *)
QueryShown ==
  (\A c \in Calls : call[c].use = "none") =>
    \A copy \in store.items : copy.rec \in Hits[page.search]

(* Between two writes the pages the footer offers make up the list: every  *)
(* record the search finds is on exactly one of them, and all but the last *)
(* are full.  The order by latest change and id has to put every record at *)
(* a place of its own, after any history of writes and removals.           *)
PagesMakeTheList ==
  \A search \in Searches :
    LET last == Pages(Cardinality(Matching(search)), PageSize)
        At(n) == ItemsOf(Query(search, n)) IN
    /\ UNION {At(n) : n \in 1..last} = {CopyOf(rec) : rec \in Matching(search)}
    /\ \A m, n \in 1..last : m # n => At(m) \cap At(n) = {}
    /\ \A n \in 1..(last - 1) : Cardinality(At(n)) = PageSize
    /\ Cardinality(At(last)) <= PageSize
=============================================================================
