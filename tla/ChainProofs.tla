---------------------------- MODULE ChainProofs -----------------------------
(***************************************************************************)
(* The revision chain is complete whatever versions clients send: the      *)
(* compare-and-set and the one transaction for record and revision are     *)
(* enough, no trust in the caller is needed.                               *)
(***************************************************************************)
EXTENDS AggregateProofs

(* What a request that is about to write has prepared. *)
WritePlan(q) ==
  q.pc = "write" =>
    /\ q.op = "create" => q.item.version = 1
    /\ q.op \in {"update", "transition"} => q.item.version = q.expect + 1

WritePlans == \A r \in Requests : WritePlan(req[r])

ChainInv == TypeOK /\ WritePlans /\ ChainComplete

-----------------------------------------------------------------------------
(* Write plans. *)

(* Requests change one at a time, so a property of each request is kept if *)
(* the request that moves keeps it.                                        *)
LEMMA PlansByRequest ==
  ASSUME TypeOK, WritePlans, NEW r \in Requests, NEW q,
         req' = [req EXCEPT ![r] = q], WritePlan(q)
  PROVE  WritePlans'
<1> SUFFICES ASSUME NEW p \in Requests PROVE WritePlan(req'[p])
  BY DEF WritePlans
<1>1. CASE p = r
  BY <1>1 DEF TypeOK
<1>2. CASE p # r
  <2>1. req'[p] = req[p]
    BY <1>2 DEF TypeOK
  <2> QED BY <2>1 DEF WritePlans
<1> QED BY <1>1, <1>2

LEMMA PlansKept ==
  ASSUME TypeOK, WritePlans, [Next]_vars
  PROVE  WritePlans'
<1>1. ASSUME NEW r \in Requests, NEW pc, pc # "write", Goto(r, pc) PROVE WritePlans'
  <2>1. WritePlan([req[r] EXCEPT !.pc = pc])
    BY <1>1 DEF WritePlan, TypeOK, RequestType
  <2>2. req' = [req EXCEPT ![r] = [req[r] EXCEPT !.pc = pc]]
    BY <1>1 DEF Goto, TypeOK
  <2> QED BY <2>1, <2>2, PlansByRequest
<1>2. ASSUME NEW r \in Requests, Finish(r) PROVE WritePlans'
  <2>1. WritePlan(Idle)
    BY DEF WritePlan, Idle
  <2> QED BY <1>2, <2>1, PlansByRequest DEF Finish
<1>3. ASSUME NEW r \in Requests, Client(r) PROVE WritePlans'
  <2>1. PICK q : Submit(r, q) /\ Fresh(q)
    BY <1>3, SubmittedRequest
  <2>2. \A c : NewRow(c).version = 1
    BY DEF NewRow
  <2>3. WritePlan(q)
    BY <2>1, <2>2 DEF Fresh, WritePlan
  <2> QED BY <2>1, <2>3, PlansByRequest DEF Submit
<1>4. ASSUME NEW r \in Requests,
             ReadForUpdate(r) \/ ReadForTransition(r) \/ ReadForDelete(r)
      PROVE  WritePlans'
  <2> DEFINE current == row[req[r].rec]
  <2>1. req[r].rec \in Records /\ Found(req[r].rec)
    BY <1>4 DEF ReadForUpdate, ReadForTransition, ReadForDelete, TypeOK, RequestShape
  <2>2. current \in StoredRow
    BY <2>1, LiveIsStored
  <2>3. ASSUME NEW edited, Keep(r, current, edited), req[r].op # "create",
               req[r].op = "delete" \/ edited.version = req[r].expect + 1
        PROVE  WritePlans'
    <3> DEFINE q == [req[r] EXCEPT !.pc = "write", !.item = edited, !.before = current.status]
    <3>1. WritePlan(q)
      BY <2>3 DEF WritePlan, TypeOK, RequestType
    <3>2. req' = [req EXCEPT ![r] = q]
      BY <2>3 DEF Keep, TypeOK
    <3> HIDE DEF q
    <3> QED BY <3>1, <3>2, PlansByRequest
  <2>4. \A c, s, v : /\ [current EXCEPT !.content = c, !.version = v].version = v
                     /\ [current EXCEPT !.status = s, !.version = v].version = v
    BY <2>2 DEF StoredRow
  <2> HIDE DEF current
  <2>5. CASE ReadForUpdate(r)
    BY <2>3, <2>4, <2>5 DEF ReadForUpdate, NextVersion, current
  <2>6. CASE ReadForTransition(r)
    BY <2>3, <2>4, <2>6 DEF ReadForTransition, NextVersion, current
  <2>7. CASE ReadForDelete(r)
    BY <2>3, <2>7 DEF ReadForDelete, current
  <2> QED BY <1>4, <2>5, <2>6, <2>7
<1>5. ASSUME NEW r \in Requests, Server(r) \/ LoseAudit(r) \/ Fail(r) PROVE WritePlans'
  <2>1. CASE CommitCreate(r) \/ CommitUpdate(r) \/ CommitDelete(r)
    BY <1>1, <2>1 DEF CommitCreate, CommitUpdate, CommitDelete
  <2>2. CASE AppendAudit(r) \/ LoseAudit(r)
    BY <1>1, <1>2, <2>2 DEF AppendAudit, LoseAudit
  <2>3. CASE Refuse(r) \/ WriteRefused(r) \/ Preload(r) \/ Fail(r)
    BY <1>2, <2>3 DEF Refuse, WriteRefused, Preload, Fail
  <2>4. CASE Reget(r)
    <3> DEFINE q == [req[r] EXCEPT !.pc = "preload", !.item = row[req[r].rec]]
    <3>1. Finish(r) \/ req' = [req EXCEPT ![r] = q]
      BY <2>4 DEF Reget, TypeOK
    <3>2. WritePlan(q)
      BY DEF WritePlan, TypeOK, RequestType
    <3> HIDE DEF q
    <3> QED BY <1>2, <3>1, <3>2, PlansByRequest
  <2> QED BY <1>4, <1>5, <2>1, <2>2, <2>3, <2>4 DEF Server
<1>6. CASE UNCHANGED vars
  BY <1>6 DEF vars, WritePlans
<1> QED BY <1>3, <1>5, <1>6 DEF Next

-----------------------------------------------------------------------------
(* Which steps write. *)

(* Every step creates a record, changes a live one, removes a live one, or *)
(* leaves both tables alone.                                               *)
LEMMA WritingSteps ==
  ASSUME [Next]_vars
  PROVE  \/ \E r \in Requests : CommitCreate(r) \/ CommitUpdate(r) \/ CommitDelete(r)
         \/ UNCHANGED <<row, revs>>
BY DEF Next, Client, Server, SubmitCreate, SubmitUpdate, SubmitTransition, SubmitDelete,
       SubmitDetail, Submit, ReadForUpdate, ReadForTransition, ReadForDelete, Keep, Refuse,
       WriteRefused, AppendAudit, LoseAudit, Reget, Preload, Fail, vars

-----------------------------------------------------------------------------
(* Completeness of the chain. *)

(* ChainComplete for any table and chain. *)
ChainCompleteOf(table, chain) ==
    /\ \A x, y \in chain : x.rec = y.rec /\ x.version = y.version => x = y
    /\ \A x \in chain : x.version <= table[x.rec].version
    /\ \A rec \in Records : \A v \in 1..table[rec].version :
         \E x \in chain : x.rec = rec /\ x.version = v
    /\ \A x \in chain :
         x.version = table[x.rec].version =>
           x.status = table[x.rec].status /\ x.content = table[x.rec].content

(* One more revision, for the version that follows that of the row. *)
LEMMA ExtendChain ==
  ASSUME row \in [Records -> Row], revs \subseteq Revision, ChainCompleteOf(row, revs),
         NEW rec \in Records, NEW item \in StoredRow, NEW actor \in Actors,
         item.version = row[rec].version + 1,
         row' = [row EXCEPT ![rec] = item],
         revs' = revs \cup {RevisionOf(rec, item, actor)}
  PROVE  ChainCompleteOf(row, revs)'
<1> DEFINE new == RevisionOf(rec, item, actor)
<1>1. new.rec = rec /\ new.version = item.version /\ new.status = item.status
      /\ new.content = item.content
  BY DEF RevisionOf
<1>2. \A q \in Records : row[q].version \in Nat
  BY MaxVersionAssumption DEF Row, StoredRow, AbsentRow
<1>3. item.version \in Nat /\ \A x \in revs : x.version \in Nat /\ x.rec \in Records
  BY MaxVersionAssumption DEF StoredRow, Revision
<1>4. \A q \in Records : row'[q] = IF q = rec THEN item ELSE row[q]
  OBVIOUS
<1>5. \A x \in revs : x.rec = rec => x.version < item.version
  BY <1>2, <1>3 DEF ChainCompleteOf
<1>6. revs' = revs \cup {new}
  OBVIOUS
<1> HIDE DEF new
<1>7. \A x, y \in revs' : x.rec = y.rec /\ x.version = y.version => x = y
  BY <1>1, <1>3, <1>5, <1>6 DEF ChainCompleteOf
<1>8. \A x \in revs' : x.version <= row'[x.rec].version
  BY <1>1, <1>3, <1>4, <1>5, <1>6 DEF ChainCompleteOf
<1>9. ASSUME NEW q \in Records, NEW v \in 1..row'[q].version
      PROVE  \E x \in revs' : x.rec = q /\ x.version = v
  <2>1. CASE q = rec /\ v = item.version
    BY <2>1, <1>1, <1>6
  <2>2. CASE ~(q = rec /\ v = item.version)
    <3>1. v \in 1..row[q].version
      BY <2>2, <1>2, <1>3, <1>4
    <3> QED BY <3>1, <1>6 DEF ChainCompleteOf
  <2> QED BY <2>1, <2>2
<1>10. ASSUME NEW x \in revs', x.version = row'[x.rec].version
       PROVE  x.status = row'[x.rec].status /\ x.content = row'[x.rec].content
  BY <1>10, <1>1, <1>3, <1>4, <1>5, <1>6 DEF ChainCompleteOf
<1> QED BY <1>7, <1>8, <1>9, <1>10 DEF ChainCompleteOf

LEMMA ChainAsOf == ChainComplete <=> (Policy.versioned => ChainCompleteOf(row, revs))
BY DEF ChainComplete, ChainCompleteOf

LEMMA InitChain == Init => ChainComplete
<1> SUFFICES ASSUME Init, Policy.versioned PROVE ChainCompleteOf(row, revs)
  BY ChainAsOf
<1>1. \A rec \in Records : row[rec] = AbsentRow \/ (row[rec] # AbsentRow /\ row[rec].version = 1)
  BY DEF Init, StartingRow, SeedRow, AbsentRow
<1>2. AbsentRow.version = 0
  BY DEF AbsentRow
<1>3. \A x : x \in revs <=>
        \E rec \in Records : row[rec] # AbsentRow /\ x = RevisionOf(rec, row[rec], "seed")
  BY DEF Init, StartingRevisions, Snapshot
<1>4. \A rec : LET x == RevisionOf(rec, row[rec], "seed") IN
        /\ x.rec = rec /\ x.version = row[rec].version
        /\ x.status = row[rec].status /\ x.content = row[rec].content
  BY DEF RevisionOf
<1>5. \A x \in revs : /\ x.rec \in Records /\ row[x.rec] # AbsentRow
                      /\ x = RevisionOf(x.rec, row[x.rec], "seed")
                      /\ x.version = 1 /\ row[x.rec].version = 1
  BY <1>1, <1>3, <1>4
<1>6. \A x \in revs : x.status = row[x.rec].status /\ x.content = row[x.rec].content
  BY <1>4, <1>5
<1>7. ASSUME NEW rec \in Records, NEW v \in 1..row[rec].version
      PROVE  \E x \in revs : x.rec = rec /\ x.version = v
  <2>1. row[rec] # AbsentRow /\ v = 1
    BY <1>1, <1>2
  <2> QED BY <2>1, <1>1, <1>3, <1>4
<1>8. \A x, y \in revs : x.rec = y.rec /\ x.version = y.version => x = y
  BY <1>5
<1> QED BY <1>5, <1>6, <1>7, <1>8 DEF ChainCompleteOf

LEMMA ChainKept ==
  ASSUME TypeOK, WritePlans, ChainComplete, [Next]_vars
  PROVE  ChainComplete'
<1> SUFFICES ASSUME Policy.versioned, ChainCompleteOf(row, revs)
             PROVE  ChainCompleteOf(row, revs)'
  BY ChainAsOf DEF ChainComplete, ChainCompleteOf
<1>1. CASE UNCHANGED <<row, revs>>
  BY <1>1 DEF ChainCompleteOf
<1>2. ASSUME NEW r \in Requests, CommitCreate(r) \/ CommitUpdate(r)
      PROVE  ChainCompleteOf(row, revs)'
  <2> DEFINE q == req[r]
  <2>1. q.rec \in Records /\ q.actor \in Actors /\ q.item \in StoredRow
    BY <1>2 DEF TypeOK, RequestShape, CommitCreate, CommitUpdate
  <2>2. q.item.version = row[q.rec].version + 1
    <3>1. q.op = "create" => q.item.version = 1
      BY <1>2 DEF WritePlans, WritePlan, CommitCreate, CommitUpdate
    <3>2. q.op \in {"update", "transition"} => q.item.version = q.expect + 1
      BY <1>2 DEF WritePlans, WritePlan, CommitCreate, CommitUpdate
    <3>3. CommitCreate(r) => q.op = "create" /\ row[q.rec].version = 0
      BY DEF CommitCreate, CodeIsFree, AbsentRow
    <3> QED BY <1>2, <3>1, <3>2, <3>3 DEF CommitUpdate, VersionMatches
  <2>3. /\ row' = [row EXCEPT ![q.rec] = q.item]
        /\ revs' = revs \cup {RevisionOf(q.rec, q.item, q.actor)}
    BY <1>2 DEF CommitCreate, CommitUpdate, AppendRevision, Snapshot
  <2> HIDE DEF q
  <2> QED BY <2>1, <2>2, <2>3, ExtendChain DEF TypeOK
<1>3. ASSUME NEW r \in Requests, CommitDelete(r) PROVE ChainCompleteOf(row, revs)'
  <2>1. revs' = revs /\ req[r].rec \in Records
    BY <1>3 DEF CommitDelete, TypeOK, RequestShape
  <2>2. \A rec \in Records : /\ row'[rec].version = row[rec].version
                             /\ row'[rec].status = row[rec].status
                             /\ row'[rec].content = row[rec].content
    <3>1. row[req[r].rec] \in StoredRow
      BY <1>3, <2>1, LiveIsStored DEF CommitDelete
    <3> QED BY <1>3, <2>1, <3>1 DEF CommitDelete, TypeOK, StoredRow
  <2>3. \A x \in revs : x.rec \in Records
    BY DEF TypeOK, Revision
  <2> QED BY <2>1, <2>2, <2>3 DEF ChainCompleteOf
<1> QED BY <1>1, <1>2, <1>3, WritingSteps

(* For every policy with a chain, every number of requests and every        *)
(* version clients may send, failures included: the chain has exactly one   *)
(* revision per version and ends with what the row holds.                   *)
THEOREM ChainIsComplete == Spec => []ChainComplete
<1>1. Init => ChainInv
  <2>1. Init => WritePlans
    BY DEF Init, WritePlans, WritePlan, Idle
  <2> QED BY <2>1, InitType, InitChain DEF ChainInv
<1>2. ChainInv /\ [Next]_vars => ChainInv'
  BY NextType, PlansKept, ChainKept DEF ChainInv
<1>3. ChainInv => ChainComplete
  BY DEF ChainInv
<1> QED BY <1>1, <1>2, <1>3, PTL DEF Spec

-----------------------------------------------------------------------------
(* Reading the chain. *)

(* The revision of a live row is in the chain. *)
LEMMA RowIsChained ==
  ASSUME TypeOK, ChainComplete, Policy.versioned, NEW rec \in Records, Found(rec)
  PROVE  \E x \in revs : x.rec = rec /\ RevisionOf(x.rec, row[rec], x.actor) = x
<1>1. row[rec] \in StoredRow
  BY LiveIsStored
<1>2. row[rec].version \in 1..row[rec].version
  BY <1>1, MaxVersionAssumption DEF StoredRow
<1>3. PICK x \in revs : x.rec = rec /\ x.version = row[rec].version
  BY <1>2 DEF ChainComplete
<1>4. x.status = row[rec].status /\ x.content = row[rec].content /\ x \in Revision
  BY <1>3 DEF ChainComplete, TypeOK
<1>5. RevisionOf(x.rec, row[rec], x.actor) = x
  BY <1>3, <1>4 DEF RevisionOf, Revision
<1> QED BY <1>3, <1>5

(* No revision is ever taken back. *)
LEMMA ChainGrows ==
  ASSUME [Next]_vars
  PROVE  revs \subseteq revs'
BY WritingSteps DEF CommitCreate, CommitUpdate, CommitDelete, AppendRevision

(* A request that gets on to the second query of Get has just made the first. *)
LEMMA OnlyRegetLoads ==
  ASSUME TypeOK, [Next]_vars, NEW p \in Requests, req'[p].pc = "preload"
  PROVE  \/ req'[p] = req[p]
         \/ /\ Found(req[p].rec) /\ Policy.versioned /\ req[p].rec \in Records
            /\ req'[p].rec = req[p].rec /\ req'[p].item = row[req[p].rec]
<1> SUFFICES ASSUME req'[p] # req[p]
             PROVE  /\ Found(req[p].rec) /\ Policy.versioned /\ req[p].rec \in Records
                    /\ req'[p].rec = req[p].rec /\ req'[p].item = row[req[p].rec]
  OBVIOUS
<1>1. req \in [Requests -> RequestType] /\ RequestShape(req[p])
  BY DEF TypeOK
<1>2. CASE Reget(p)
  BY <1>1, <1>2 DEF Reget, Finish, Idle, RequestType, RequestShape
<1>3. CASE Client(p)
  <2>1. PICK q : Submit(p, q) /\ Fresh(q)
    BY <1>3, SubmittedRequest
  <2> QED BY <1>1, <2>1 DEF Submit, Fresh
<1>4. CASE ReadForUpdate(p) \/ ReadForTransition(p) \/ ReadForDelete(p)
  BY <1>1, <1>4 DEF ReadForUpdate, ReadForTransition, ReadForDelete, Keep, RequestType
<1>5. CASE CommitCreate(p) \/ CommitUpdate(p) \/ CommitDelete(p)
  BY <1>1, <1>5 DEF CommitCreate, CommitUpdate, CommitDelete, Goto, RequestType
<1>6. CASE AppendAudit(p) \/ LoseAudit(p)
  BY <1>1, <1>6 DEF AppendAudit, LoseAudit, Goto, Finish, Idle, RequestType
<1>7. CASE Refuse(p) \/ WriteRefused(p) \/ Preload(p) \/ Fail(p)
  BY <1>1, <1>7 DEF Refuse, WriteRefused, Preload, Fail, Finish, Idle
<1> QED BY <1>2, <1>3, <1>4, <1>5, <1>6, <1>7, OnlyItselfMoves DEF Server

LEMMA DetailKept ==
  ASSUME ChainInv, DetailMatchesChain, [Next]_vars
  PROVE  DetailMatchesChain'
<1> SUFFICES ASSUME NEW p \in Requests, req'[p].pc = "preload"
             PROVE  \E x \in revs' : /\ x.rec = req'[p].rec
                                     /\ RevisionOf(x.rec, req'[p].item, x.actor) = x
  BY DEF DetailMatchesChain, RevisionOf
<1>1. \E x \in revs : x.rec = req'[p].rec /\ RevisionOf(x.rec, req'[p].item, x.actor) = x
  BY OnlyRegetLoads, RowIsChained DEF ChainInv, DetailMatchesChain
<1> QED BY <1>1, ChainGrows

(* The chain a detail page or an answer shows always contains the revision *)
(* of the record it shows: record and chain are read by two queries, but   *)
(* the second can only find more.  It holds whatever clients send and      *)
(* whatever fails.                                                         *)
THEOREM DetailsMatchTheirChain == Spec => []DetailMatchesChain
<1> DEFINE Inv == ChainInv /\ DetailMatchesChain
<1>1. Init => Inv
  BY InitType, InitChain DEF Init, ChainInv, WritePlans, WritePlan, Idle, DetailMatchesChain
<1>2. Inv /\ [Next]_vars => Inv'
  BY NextType, PlansKept, ChainKept, DetailKept DEF ChainInv
<1> QED BY <1>1, <1>2, PTL DEF Spec

-----------------------------------------------------------------------------
(* Removals. *)

(* The copy a removal was decided on is in the chain, removable, and the    *)
(* status the request will report is its status.                            *)
RemovalPlan(q) ==
  q.op = "delete" /\ q.pc \in {"write", "audit"} =>
    \E x \in revs : /\ x.rec = q.rec /\ x.version = q.item.version
                    /\ x.status = q.before /\ q.before \in Policy.removable

RemovalPlans == Policy.versioned => \A r \in Requests : RemovalPlan(req[r])

(* A removal decides on a row whose revision is in the chain. *)
LEMMA ReadForDeletePlans ==
  ASSUME ChainInv, Policy.versioned, NEW p \in Requests, ReadForDelete(p)
  PROVE  \E x \in revs : /\ x.rec = req'[p].rec /\ x.version = req'[p].item.version
                         /\ x.status = req'[p].before /\ req'[p].before \in Policy.removable
<1> DEFINE current == row[req[p].rec]
<1>1. req \in [Requests -> RequestType] /\ req[p].rec \in Records /\ Found(req[p].rec)
  BY DEF ReadForDelete, ChainInv, TypeOK, RequestShape
<1>2. PICK x \in revs : x.rec = req[p].rec /\ RevisionOf(x.rec, current, x.actor) = x
  BY <1>1, RowIsChained DEF ChainInv
<1>3. x.version = current.version /\ x.status = current.status
  BY <1>2 DEF RevisionOf
<1>4. /\ req'[p].rec = req[p].rec /\ req'[p].item = current
      /\ req'[p].before = current.status
  BY <1>1 DEF ReadForDelete, Keep, RequestType
<1>5. current.status \in Policy.removable
  BY DEF ReadForDelete, DeleteAllowed
<1> QED BY <1>2, <1>3, <1>4, <1>5

LEMMA RemovalPlansKept ==
  ASSUME ChainInv, RemovalPlans, [Next]_vars
  PROVE  RemovalPlans'
<1> SUFFICES ASSUME Policy.versioned, NEW p \in Requests,
                    req'[p].op = "delete", req'[p].pc \in {"write", "audit"}
             PROVE  \E x \in revs' :
                      /\ x.rec = req'[p].rec /\ x.version = req'[p].item.version
                      /\ x.status = req'[p].before /\ req'[p].before \in Policy.removable
  BY DEF RemovalPlans, RemovalPlan
<1>1. req \in [Requests -> RequestType] /\ RemovalPlan(req[p])
  BY DEF ChainInv, TypeOK, RemovalPlans
<1>2. CASE req'[p] = req[p]
  BY <1>1, <1>2, ChainGrows DEF RemovalPlan
<1>3. CASE ReadForDelete(p)
  BY <1>3, ReadForDeletePlans, ChainGrows
<1>4. CASE CommitCreate(p) \/ CommitUpdate(p) \/ CommitDelete(p)
  <2>1. /\ req[p].op = "delete" /\ req[p].pc = "write" /\ req'[p].rec = req[p].rec
        /\ req'[p].item = req[p].item /\ req'[p].before = req[p].before
    BY <1>1, <1>4 DEF CommitCreate, CommitUpdate, CommitDelete, Goto, RequestType
  <2> QED BY <1>1, <2>1, ChainGrows DEF RemovalPlan
<1>5. CASE Client(p)
  <2>1. PICK q : Submit(p, q) /\ Fresh(q)
    BY <1>5, SubmittedRequest
  <2> QED BY <1>1, <2>1 DEF Submit, Fresh
<1>6. CASE ReadForUpdate(p) \/ ReadForTransition(p)
  BY <1>1, <1>6 DEF ReadForUpdate, ReadForTransition, Keep, RequestType
<1>7. CASE AppendAudit(p) \/ LoseAudit(p) \/ Reget(p)
  BY <1>1, <1>7 DEF AppendAudit, LoseAudit, Reget, Goto, Finish, Idle, RequestType
<1>8. CASE Refuse(p) \/ WriteRefused(p) \/ Preload(p) \/ Fail(p)
  BY <1>1, <1>8 DEF Refuse, WriteRefused, Preload, Fail, Finish, Idle
<1> QED BY <1>2, <1>3, <1>4, <1>5, <1>6, <1>7, <1>8, OnlyItselfMoves DEF ChainInv, Server

(* A record is removed by the commit of a removal only. *)
LEMMA OnlyDeleteRemoves ==
  ASSUME TypeOK, [Next]_vars, NEW rec \in Records, row'[rec].phase = "deleted"
  PROVE  \/ row[rec].phase = "deleted"
         \/ \E r \in Requests : CommitDelete(r) /\ req[r].rec = rec
<1>1. ASSUME NEW r \in Requests, CommitCreate(r) \/ CommitUpdate(r)
      PROVE  row[rec].phase = "deleted"
  <2>1. req[r].item.phase = "live"
    BY <1>1 DEF CommitCreate, CommitUpdate, TypeOK, RequestShape
  <2> QED BY <1>1, <2>1 DEF CommitCreate, CommitUpdate, TypeOK
<1>2. ASSUME NEW r \in Requests, CommitDelete(r), req[r].rec # rec
      PROVE  row[rec].phase = "deleted"
  BY <1>2 DEF CommitDelete, TypeOK
<1> QED BY <1>1, <1>2, WritingSteps

LEMMA RemovalsKept ==
  ASSUME ChainInv, RemovalPlans, RemovalsWereAllowed, [Next]_vars
  PROVE  RemovalsWereAllowed'
<1> SUFFICES ASSUME Policy.versioned PROVE RemovalsWereAllowed'
  BY DEF RemovalsWereAllowed
<1>1. ASSUME NEW rec \in Records, row'[rec].phase = "deleted"
      PROVE  \E x \in revs' : x.rec = rec /\ x.status \in Policy.removable
  <2>1. CASE row[rec].phase = "deleted"
    BY <2>1, ChainGrows DEF RemovalsWereAllowed
  <2>2. ASSUME NEW r \in Requests, CommitDelete(r), req[r].rec = rec
        PROVE  \E x \in revs' : x.rec = rec /\ x.status \in Policy.removable
    BY <2>2, ChainGrows DEF RemovalPlans, RemovalPlan, CommitDelete
  <2> QED BY <1>1, <2>1, <2>2, OnlyDeleteRemoves DEF ChainInv
<1>2. ASSUME NEW e \in audit', e.action = "delete"
      PROVE  \E x \in revs' : /\ x.rec = e.rec /\ x.version = e.version
                              /\ x.status = e.before /\ e.before \in Policy.removable
  <2>1. CASE e \in audit
    BY <1>2, <2>1, ChainGrows DEF RemovalsWereAllowed
  <2>2. CASE e \notin audit
    <3>1. PICK r \in Requests : req[r].pc = "audit" /\ e = AuditEntry(req[r])
      BY <2>2, AuditSteps DEF AppendAudit
    <3>2. /\ e.rec = req[r].rec /\ e.action = req[r].op /\ e.before = req[r].before
          /\ e.version = req[r].item.version
      BY <3>1 DEF AuditEntry
    <3> QED BY <1>2, <3>1, <3>2, ChainGrows DEF RemovalPlans, RemovalPlan
  <2> QED BY <2>1, <2>2
<1> QED BY <1>1, <1>2 DEF RemovalsWereAllowed

(* Every removal, however late it is executed and whatever clients send or  *)
(* fails, was decided on a revision of its record that could be removed,    *)
(* and its audit entry names that revision.                                 *)
THEOREM RemovalsHadCause == Spec => []RemovalsWereAllowed
<1> DEFINE Inv == ChainInv /\ RemovalPlans /\ RemovalsWereAllowed
<1>1. Init => Inv
  <2> SUFFICES ASSUME Init PROVE Inv
    OBVIOUS
  <2>1. ChainInv
    BY InitType, InitChain DEF Init, ChainInv, WritePlans, WritePlan, Idle
  <2>2. RemovalPlans
    BY DEF Init, RemovalPlans, RemovalPlan, Idle
  <2>3. \A rec \in Records : row[rec].phase # "deleted"
    BY DEF Init, StartingRow, SeedRow, AbsentRow
  <2> QED BY <2>1, <2>2, <2>3 DEF Init, RemovalsWereAllowed
<1>2. Inv /\ [Next]_vars => Inv'
  BY NextType, PlansKept, ChainKept, RemovalPlansKept, RemovalsKept DEF ChainInv
<1> QED BY <1>1, <1>2, PTL DEF Spec
=============================================================================
