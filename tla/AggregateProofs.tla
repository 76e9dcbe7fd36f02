--------------------------- MODULE AggregateProofs ---------------------------
(***************************************************************************)
(* Proofs about AggregateService for every policy, every set of records    *)
(* and requests, every bound and every Lookahead.                          *)
(***************************************************************************)
EXTENDS AggregateProperties, TLAPS

-----------------------------------------------------------------------------
(* Types of the building blocks. *)

(* The empty slot is a well-shaped request. *)
LEMMA IdleType == Idle \in RequestType /\ RequestShape(Idle)
BY MaxVersionAssumption DEF Idle, RequestType, RequestShape, Row, AbsentRow

(* A new record is a stored row. *)
LEMMA NewRowType == \A c \in Contents : NewRow(c) \in StoredRow /\ NewRow(c).phase = "live"
BY PolicyAssumption, MaxVersionAssumption DEF NewRow, StoredRow

(* A row that is found is a stored row. *)
LEMMA LiveIsStored ==
  ASSUME TypeOK, NEW rec \in Records, Found(rec)
  PROVE  row[rec] \in StoredRow /\ row[rec].phase = "live"
BY DEF TypeOK, Found, Row, AbsentRow

(* Revisions of a stored row are revisions. *)
LEMMA SnapshotType ==
  ASSUME NEW rec \in Records, NEW item \in StoredRow, NEW actor \in Actors \cup {"seed"}
  PROVE  Snapshot(rec, item, actor) \subseteq Revision
BY DEF Snapshot, RevisionOf, Revision, StoredRow

(* Replacing one request by a well-shaped one keeps all requests so. *)
LEMMA ReplaceRequest ==
  ASSUME TypeOK, NEW r \in Requests, NEW q, q \in RequestType, RequestShape(q),
         req' = [req EXCEPT ![r] = q]
  PROVE  req' \in [Requests -> RequestType] /\ \A p \in Requests : RequestShape(req'[p])
<1>1. req' \in [Requests -> RequestType]
  BY DEF TypeOK
<1>2. ASSUME NEW p \in Requests PROVE RequestShape(req'[p])
  <2>1. CASE p = r
    BY <2>1 DEF TypeOK
  <2>2. CASE p # r
    <3>1. req'[p] = req[p]
      BY <2>2 DEF TypeOK
    <3> QED BY <3>1 DEF TypeOK
  <2> QED BY <2>1, <2>2
<1> QED BY <1>1, <1>2

(* A step that only replaces one request keeps the types. *)
LEMMA RequestStep ==
  ASSUME TypeOK, NEW r \in Requests, NEW q, q \in RequestType, RequestShape(q),
         req' = [req EXCEPT ![r] = q], UNCHANGED <<row, revs, audit>>
  PROVE  TypeOK'
BY ReplaceRequest DEF TypeOK

(* A request that is answered leaves an idle slot. *)
LEMMA FinishStep ==
  ASSUME TypeOK, NEW r \in Requests, Finish(r), UNCHANGED <<row, revs, audit>>
  PROVE  TypeOK'
BY IdleType, RequestStep DEF Finish

-----------------------------------------------------------------------------
(* Type correctness. *)

LEMMA InitType == Init => TypeOK
<1> SUFFICES ASSUME Init PROVE TypeOK
  OBVIOUS
<1>1. StartingRow \subseteq Row
  BY PolicyAssumption, MaxVersionAssumption DEF StartingRow, SeedRow, Row, StoredRow
<1>2. row \in [Records -> Row]
  BY <1>1 DEF Init
<1>3. revs \subseteq Revision
  <2>1. ASSUME NEW rec \in Records, row[rec] # AbsentRow
        PROVE  Snapshot(rec, row[rec], "seed") \subseteq Revision
    <3>1. row[rec] \in StoredRow
      BY <2>1, <1>2 DEF Row
    <3> QED BY <3>1, SnapshotType
  <2> QED BY <2>1 DEF Init, StartingRevisions
<1>4. req \in [Requests -> RequestType] /\ \A r \in Requests : RequestShape(req[r])
  BY IdleType DEF Init
<1> QED BY <1>2, <1>3, <1>4 DEF TypeOK, Init

(* What a request looks like when it has just been submitted. *)
Fresh(q) ==
  \/ q.pc = "write" /\ q.op = "create" /\ \E c \in Contents : q.item = NewRow(c)
  \/ /\ q.pc = "read" /\ q.op \in {"update", "transition"} /\ q.rec \in Seen
     /\ q.expect <= row[q.rec].version + Lookahead
  \/ q.pc = "read" /\ q.op = "delete"
  \/ q.pc = "reget" /\ q.op = "detail"

LEMMA SubmittedRequest ==
  ASSUME NEW r \in Requests, Client(r)
  PROVE  \E q \in RequestType : Submit(r, q) /\ RequestShape(q) /\ Fresh(q)
<1>1. CASE SubmitCreate(r)
  <2> PICK rec \in Records, actor \in Actors \cap Policy.writers, c \in Contents :
        Submit(r, [Idle EXCEPT !.pc = "write", !.op = "create", !.rec = rec,
                               !.actor = actor, !.item = NewRow(c)])
    BY <1>1 DEF SubmitCreate
  <2> DEFINE q == [Idle EXCEPT !.pc = "write", !.op = "create", !.rec = rec,
                               !.actor = actor, !.item = NewRow(c)]
  <2>1. q \in RequestType /\ RequestShape(q)
    BY NewRowType, IdleType DEF RequestType, RequestShape, Row, Idle
  <2>2. Fresh(q)
    BY DEF Fresh, Idle
  <2>3. Submit(r, q)
    OBVIOUS
  <2> HIDE DEF q
  <2> QED BY <2>1, <2>2, <2>3
<1>2. CASE SubmitUpdate(r)
  <2> PICK rec \in Seen, actor \in Actors \cap Policy.writers, c \in Contents,
           v \in 1..(MaxVersion - 1) :
        /\ v <= row[rec].version + Lookahead
        /\ Submit(r, [Idle EXCEPT !.pc = "read", !.op = "update", !.rec = rec,
                                  !.actor = actor, !.expect = v, !.content = c])
    BY <1>2 DEF SubmitUpdate, Expectations
  <2> DEFINE q == [Idle EXCEPT !.pc = "read", !.op = "update", !.rec = rec,
                               !.actor = actor, !.expect = v, !.content = c]
  <2>0. v \in 0..(MaxVersion - 1)
    BY MaxVersionAssumption
  <2>1. q \in RequestType /\ RequestShape(q)
    BY <2>0, IdleType DEF RequestType, RequestShape, Idle, Seen
  <2>2. q.pc = "read" /\ q.op = "update" /\ q.rec = rec /\ q.expect = v
    BY DEF Idle
  <2>3. Submit(r, q)
    OBVIOUS
  <2> HIDE DEF q
  <2>4. Fresh(q)
    BY <2>2 DEF Fresh
  <2> QED BY <2>1, <2>3, <2>4
<1>3. CASE SubmitTransition(r)
  <2> PICK rec \in Seen, actor \in Actors \cap Policy.writers, target \in Statuses,
           v \in 1..(MaxVersion - 1) :
        /\ v <= row[rec].version + Lookahead
        /\ Submit(r, [Idle EXCEPT !.pc = "read", !.op = "transition", !.rec = rec,
                                  !.actor = actor, !.expect = v, !.target = target])
    BY <1>3 DEF SubmitTransition, Expectations
  <2> DEFINE q == [Idle EXCEPT !.pc = "read", !.op = "transition", !.rec = rec,
                               !.actor = actor, !.expect = v, !.target = target]
  <2>0. v \in 0..(MaxVersion - 1)
    BY MaxVersionAssumption
  <2>1. q \in RequestType /\ RequestShape(q)
    BY <2>0, IdleType DEF RequestType, RequestShape, Idle, Seen
  <2>2. q.pc = "read" /\ q.op = "transition" /\ q.rec = rec /\ q.expect = v
    BY DEF Idle
  <2>3. Submit(r, q)
    OBVIOUS
  <2> HIDE DEF q
  <2>4. Fresh(q)
    BY <2>2 DEF Fresh
  <2> QED BY <2>1, <2>3, <2>4
<1>4. CASE SubmitDelete(r)
  <2> PICK rec \in Seen, actor \in Actors \cap Policy.removers :
        Submit(r, [Idle EXCEPT !.pc = "read", !.op = "delete", !.rec = rec, !.actor = actor])
    BY <1>4 DEF SubmitDelete
  <2> DEFINE q == [Idle EXCEPT !.pc = "read", !.op = "delete", !.rec = rec, !.actor = actor]
  <2>1. q \in RequestType /\ RequestShape(q)
    BY IdleType DEF RequestType, RequestShape, Idle, Seen
  <2>2. Fresh(q)
    BY DEF Fresh, Idle
  <2>3. Submit(r, q)
    OBVIOUS
  <2> HIDE DEF q
  <2> QED BY <2>1, <2>2, <2>3
<1>5. CASE SubmitDetail(r)
  <2> PICK rec \in Seen :
        Submit(r, [Idle EXCEPT !.pc = "reget", !.op = "detail", !.rec = rec])
    BY <1>5 DEF SubmitDetail
  <2> DEFINE q == [Idle EXCEPT !.pc = "reget", !.op = "detail", !.rec = rec]
  <2>1. q \in RequestType /\ RequestShape(q)
    BY IdleType DEF RequestType, RequestShape, Idle, Seen
  <2>2. Fresh(q)
    BY DEF Fresh, Idle
  <2>3. Submit(r, q)
    OBVIOUS
  <2> HIDE DEF q
  <2> QED BY <2>1, <2>2, <2>3
<1> QED BY <1>1, <1>2, <1>3, <1>4, <1>5 DEF Client

LEMMA ClientType ==
  ASSUME TypeOK, NEW r \in Requests, Client(r)
  PROVE  TypeOK'
BY SubmittedRequest, RequestStep DEF Submit

(* A service that keeps an edited copy for the write keeps the types. *)
LEMMA KeepStep ==
  ASSUME TypeOK, NEW r \in Requests, req[r].pc = "read",
         NEW current, current.status \in Statuses,
         NEW edited \in StoredRow, edited.phase = "live", Keep(r, current, edited)
  PROVE  TypeOK'
<1> DEFINE q == [req[r] EXCEPT !.pc = "write", !.item = edited, !.before = current.status]
<1>1. req[r] \in RequestType /\ RequestShape(req[r])
  BY DEF TypeOK
<1>2. q \in RequestType /\ RequestShape(q)
  BY <1>1 DEF RequestType, RequestShape, Row
<1>3. req' = [req EXCEPT ![r] = q]
  BY DEF Keep, TypeOK
<1> HIDE DEF q
<1> QED BY <1>2, <1>3, RequestStep DEF Keep

(* An edit within the version bound is a stored row again. *)
LEMMA EditType ==
  ASSUME NEW current \in StoredRow, NEW v \in 0..(MaxVersion - 1)
  PROVE  /\ \A c \in Contents :
              [current EXCEPT !.content = c, !.version = NextVersion(v)] \in StoredRow
         /\ \A s \in Statuses :
              [current EXCEPT !.status = s, !.version = NextVersion(v)] \in StoredRow
<1>1. NextVersion(v) \in 1..MaxVersion
  BY MaxVersionAssumption DEF NextVersion
<1> QED BY <1>1 DEF StoredRow

LEMMA ReadType ==
  ASSUME TypeOK, NEW r \in Requests,
         ReadForUpdate(r) \/ ReadForTransition(r) \/ ReadForDelete(r)
  PROVE  TypeOK'
<1> DEFINE q == req[r]
           current == row[q.rec]
<1>1. q \in RequestType /\ RequestShape(q)
  BY DEF TypeOK
<1>2. q.pc = "read" /\ q.rec \in Records /\ Found(q.rec)
  BY <1>1 DEF RequestShape, ReadForUpdate, ReadForTransition, ReadForDelete
<1>3. current \in StoredRow /\ current.phase = "live"
  BY <1>2, LiveIsStored
<1>4. current.status \in Statuses /\ q.expect \in 0..(MaxVersion - 1)
  BY <1>1, <1>3 DEF StoredRow, RequestType
<1>5. CASE ReadForUpdate(r)
  <2> DEFINE edited == [current EXCEPT !.content = q.content, !.version = NextVersion(q.expect)]
  <2>1. edited \in StoredRow
    BY <1>1, <1>3, <1>4, <1>5, EditType DEF ReadForUpdate, RequestShape
  <2>2. edited.phase = "live"
    BY <1>3 DEF StoredRow
  <2>3. Keep(r, current, edited)
    BY <1>5 DEF ReadForUpdate
  <2> HIDE DEF edited
  <2> QED BY <1>2, <1>4, <2>1, <2>2, <2>3, KeepStep
<1>6. CASE ReadForTransition(r)
  <2> DEFINE edited == [current EXCEPT !.status = q.target, !.version = NextVersion(q.expect)]
  <2>1. edited \in StoredRow
    BY <1>1, <1>3, <1>4, <1>6, EditType DEF ReadForTransition, RequestShape
  <2>2. edited.phase = "live"
    BY <1>3 DEF StoredRow
  <2>3. Keep(r, current, edited)
    BY <1>6 DEF ReadForTransition
  <2> HIDE DEF edited
  <2> QED BY <1>2, <1>4, <2>1, <2>2, <2>3, KeepStep
<1>7. CASE ReadForDelete(r)
  <2>1. Keep(r, current, current)
    BY <1>7 DEF ReadForDelete
  <2> HIDE DEF current
  <2> QED BY <1>2, <1>3, <1>4, <2>1, KeepStep
<1> QED BY <1>5, <1>6, <1>7

LEMMA CommitType ==
  ASSUME TypeOK, NEW r \in Requests,
         CommitCreate(r) \/ CommitUpdate(r) \/ CommitDelete(r)
  PROVE  TypeOK'
<1> DEFINE q == req[r]
           after == [q EXCEPT !.pc = "audit"]
<1>1. q \in RequestType /\ RequestShape(q)
  BY DEF TypeOK
<1>2. q.pc = "write" /\ q.rec \in Records /\ q.actor \in Actors /\ q.item \in StoredRow
  BY <1>1 DEF RequestShape, CommitCreate, CommitUpdate, CommitDelete
<1>3. after \in RequestType /\ RequestShape(after)
  BY <1>1, <1>2 DEF RequestType, RequestShape
<1>4. req' = [req EXCEPT ![r] = after]
  BY DEF CommitCreate, CommitUpdate, CommitDelete, Goto, TypeOK
<1> HIDE DEF after
<1>5. req' \in [Requests -> RequestType] /\ \A p \in Requests : RequestShape(req'[p])
  BY <1>3, <1>4, ReplaceRequest
<1>6. row' \in [Records -> Row]
  <2>1. CASE CommitCreate(r) \/ CommitUpdate(r)
    BY <2>1, <1>2 DEF CommitCreate, CommitUpdate, TypeOK, Row
  <2>2. CASE CommitDelete(r)
    <3>1. [row[q.rec] EXCEPT !.phase = "deleted"] \in Row
      BY <2>2, <1>2, LiveIsStored DEF CommitDelete, Row, StoredRow
    <3> QED BY <2>2, <3>1 DEF CommitDelete, TypeOK
  <2> QED BY <2>1, <2>2
<1>7. revs' \subseteq Revision
  <2>1. Snapshot(q.rec, q.item, q.actor) \subseteq Revision
    BY <1>2, SnapshotType
  <2> QED BY <2>1 DEF CommitCreate, CommitUpdate, CommitDelete, AppendRevision, TypeOK
<1>8. audit' = audit
  BY DEF CommitCreate, CommitUpdate, CommitDelete
<1> QED BY <1>5, <1>6, <1>7, <1>8 DEF TypeOK

LEMMA AnswerType ==
  ASSUME TypeOK, NEW r \in Requests,
         AppendAudit(r) \/ LoseAudit(r) \/ Reget(r) \/ Preload(r)
  PROVE  TypeOK'
<1> DEFINE q == req[r]
<1>1. q \in RequestType /\ RequestShape(q)
  BY DEF TypeOK
<1>2. [q EXCEPT !.pc = "reget"] \in RequestType
  BY <1>1 DEF RequestType
<1>3. q.pc = "audit" => RequestShape([q EXCEPT !.pc = "reget"])
  BY <1>1 DEF RequestShape, RequestType
<1>4. CASE AppendAudit(r)
  <2>1. AuditEntry(q) \in AuditType
    <3>1. q.item.version \in 1..MaxVersion /\ q.item.status \in Statuses
      BY <1>1, <1>4 DEF AppendAudit, RequestShape, StoredRow
    <3>2. q.op \in {"create", "update", "transition", "delete"} /\ q.actor \in Actors
          /\ q.rec \in Records /\ q.before \in Statuses \cup {None}
      BY <1>1, <1>4 DEF AppendAudit, RequestShape, RequestType
    <3> QED BY <3>1, <3>2 DEF AuditEntry, AuditType
  <2>2. req' = [req EXCEPT ![r] = [q EXCEPT !.pc = "reget"]] \/ req' = [req EXCEPT ![r] = Idle]
    BY <1>4 DEF AppendAudit, Goto, Finish, TypeOK
  <2>3. req' \in [Requests -> RequestType] /\ \A p \in Requests : RequestShape(req'[p])
    BY <1>2, <1>3, <1>4, <2>2, IdleType, ReplaceRequest DEF AppendAudit
  <2>4. audit' \subseteq AuditType
    BY <1>4, <2>1 DEF AppendAudit, TypeOK
  <2> QED BY <1>4, <2>3, <2>4 DEF AppendAudit, TypeOK
<1>5. CASE LoseAudit(r)
  <2>1. req' = [req EXCEPT ![r] = [q EXCEPT !.pc = "reget"]] \/ Finish(r)
    BY <1>5 DEF LoseAudit, Goto, TypeOK
  <2> QED BY <1>2, <1>3, <1>5, <2>1, RequestStep, FinishStep DEF LoseAudit
<1>6. CASE Reget(r)
  <2>1. CASE Found(q.rec) /\ Policy.versioned
    <3> DEFINE loaded == [q EXCEPT !.pc = "preload", !.item = row[q.rec]]
    <3>1. q.rec \in Records /\ row[q.rec] \in Row
      BY <1>1, <1>6 DEF Reget, RequestShape, TypeOK
    <3>2. loaded \in RequestType /\ RequestShape(loaded)
      BY <1>1, <1>6, <3>1 DEF Reget, RequestType, RequestShape
    <3>3. req' = [req EXCEPT ![r] = loaded]
      BY <1>6, <2>1 DEF Reget, TypeOK
    <3> HIDE DEF loaded
    <3> QED BY <1>6, <3>2, <3>3, RequestStep DEF Reget
  <2>2. CASE ~(Found(q.rec) /\ Policy.versioned)
    BY <1>6, <2>2, FinishStep DEF Reget
  <2> QED BY <2>1, <2>2
<1>7. CASE Preload(r)
  BY <1>7, FinishStep DEF Preload
<1> QED BY <1>4, <1>5, <1>6, <1>7

LEMMA NextType == TypeOK /\ [Next]_vars => TypeOK'
<1> SUFFICES ASSUME TypeOK, [Next]_vars PROVE TypeOK'
  OBVIOUS
<1>1. ASSUME NEW r \in Requests, Client(r) PROVE TypeOK'
  BY <1>1, ClientType
<1>2. ASSUME NEW r \in Requests, Server(r) PROVE TypeOK'
  <2>1. CASE ReadForUpdate(r) \/ ReadForTransition(r) \/ ReadForDelete(r)
    BY <2>1, ReadType
  <2>2. CASE CommitCreate(r) \/ CommitUpdate(r) \/ CommitDelete(r)
    BY <2>2, CommitType
  <2>3. CASE AppendAudit(r) \/ Reget(r) \/ Preload(r)
    BY <2>3, AnswerType
  <2>4. CASE Refuse(r) \/ WriteRefused(r)
    BY <2>4, FinishStep DEF Refuse, WriteRefused
  <2> QED BY <1>2, <2>1, <2>2, <2>3, <2>4 DEF Server
<1>3. ASSUME NEW r \in Requests, LoseAudit(r) \/ Fail(r) PROVE TypeOK'
  BY <1>3, AnswerType, FinishStep DEF Fail
<1>4. CASE UNCHANGED vars
  BY <1>4 DEF vars, TypeOK
<1> QED BY <1>1, <1>2, <1>3, <1>4 DEF Next

(* Rows, revisions, audit entries and requests always have their types. *)
THEOREM TypeCorrect == Spec => []TypeOK
<1>1. Init => TypeOK
  BY InitType
<1>2. TypeOK /\ [Next]_vars => TypeOK'
  BY NextType
<1> QED BY <1>1, <1>2, PTL DEF Spec

-----------------------------------------------------------------------------
(* Answers and the audit log. *)

(* A request changes by its own steps only. *)
LEMMA OnlyItselfMoves ==
  ASSUME TypeOK, [Next]_vars, NEW p \in Requests, req'[p] # req[p]
  PROVE  Client(p) \/ Server(p) \/ LoseAudit(p) \/ Fail(p)
<1>1. ASSUME NEW r \in Requests, Client(r) \/ Server(r) \/ LoseAudit(r) \/ Fail(r) PROVE r = p
  <2>1. ASSUME r # p PROVE req'[p] = req[p]
    <3>1. CASE Client(r)
      BY <2>1, <3>1 DEF Client, SubmitCreate, SubmitUpdate, SubmitTransition, SubmitDelete,
                        SubmitDetail, Submit, TypeOK
    <3>2. CASE ReadForUpdate(r) \/ ReadForTransition(r) \/ ReadForDelete(r)
      BY <2>1, <3>2 DEF ReadForUpdate, ReadForTransition, ReadForDelete, Keep, TypeOK
    <3>3. CASE CommitCreate(r) \/ CommitUpdate(r) \/ CommitDelete(r)
      BY <2>1, <3>3 DEF CommitCreate, CommitUpdate, CommitDelete, Goto, TypeOK
    <3>4. CASE AppendAudit(r) \/ LoseAudit(r) \/ Reget(r)
      BY <2>1, <3>4 DEF AppendAudit, LoseAudit, Reget, Goto, Finish, TypeOK
    <3>5. CASE Refuse(r) \/ WriteRefused(r) \/ Preload(r) \/ Fail(r)
      BY <2>1, <3>5 DEF Refuse, WriteRefused, Preload, Fail, Finish, TypeOK
    <3> QED BY <1>1, <3>1, <3>2, <3>3, <3>4, <3>5 DEF Server
  <2> QED BY <2>1
<1>2. ~UNCHANGED vars
  BY DEF vars
<1> QED BY <1>1, <1>2 DEF Next

(* What a transition has prepared bears the status it was asked for. *)
TargetKept(q) ==
  q.op = "transition" /\ q.pc \in {"write", "audit", "reget"} => q.item.status = q.target

TargetsKept == \A r \in Requests : TargetKept(req[r])

LEMMA TargetsStay ==
  ASSUME TypeOK, TargetsKept, [Next]_vars
  PROVE  TargetsKept'
<1> SUFFICES ASSUME NEW p \in Requests PROVE TargetKept(req'[p])
  BY DEF TargetsKept
<1>1. req \in [Requests -> RequestType] /\ RequestShape(req[p]) /\ TargetKept(req[p])
  BY DEF TypeOK, TargetsKept
<1>2. CASE Client(p)
  <2>1. PICK q : Submit(p, q) /\ Fresh(q)
    BY <1>2, SubmittedRequest
  <2> QED BY <1>1, <2>1 DEF Submit, Fresh, TargetKept
<1>3. CASE ReadForTransition(p)
  <2>1. row[req[p].rec] \in StoredRow
    BY <1>1, <1>3, LiveIsStored DEF ReadForTransition, RequestShape
  <2> DEFINE edited == [row[req[p].rec] EXCEPT !.status = req[p].target,
                                               !.version = NextVersion(req[p].expect)]
  <2>2. edited.status = req[p].target
    BY <2>1 DEF StoredRow
  <2>3. Keep(p, row[req[p].rec], edited)
    BY <1>3 DEF ReadForTransition
  <2> HIDE DEF edited
  <2> QED BY <1>1, <2>2, <2>3 DEF Keep, RequestType, TargetKept
<1>4. CASE ReadForUpdate(p) \/ ReadForDelete(p)
  BY <1>1, <1>4 DEF ReadForUpdate, ReadForDelete, Keep, RequestType, TargetKept
<1>5. CASE CommitCreate(p) \/ CommitUpdate(p) \/ CommitDelete(p)
  BY <1>1, <1>5 DEF CommitCreate, CommitUpdate, CommitDelete, Goto, RequestType, TargetKept
<1>6. CASE AppendAudit(p) \/ LoseAudit(p) \/ Reget(p)
  BY <1>1, <1>6 DEF AppendAudit, LoseAudit, Reget, Goto, Finish, Idle, RequestType, TargetKept
<1>7. CASE Refuse(p) \/ WriteRefused(p) \/ Preload(p) \/ Fail(p)
  BY <1>1, <1>7 DEF Refuse, WriteRefused, Preload, Fail, Finish, Idle, TargetKept
<1> QED BY <1>1, <1>2, <1>3, <1>4, <1>5, <1>6, <1>7, OnlyItselfMoves DEF Server

(* The log grows by one entry at a time, the one a request owes. *)
LEMMA AuditSteps ==
  ASSUME [Next]_vars
  PROVE  audit' = audit \/ \E r \in Requests : AppendAudit(r)
BY DEF Next, Client, Server, SubmitCreate, SubmitUpdate, SubmitTransition, SubmitDelete,
       SubmitDetail, Submit, ReadForUpdate, ReadForTransition, ReadForDelete, Keep, Refuse,
       CommitCreate, CommitUpdate, CommitDelete, WriteRefused, LoseAudit, Reget, Preload,
       Fail, vars

(* No audit entry is ever taken back. *)
LEMMA AuditGrows ==
  ASSUME [Next]_vars
  PROVE  audit \subseteq audit'
BY AuditSteps DEF AppendAudit

(* A transition gets on to its answer by storing its entry. *)
LEMMA AnswersStayAudited ==
  ASSUME TypeOK, TargetsKept, TransitionAnswerAudited, [Next]_vars
  PROVE  TransitionAnswerAudited'
<1> SUFFICES ASSUME NEW p \in Requests, req'[p].pc = "reget", req'[p].op = "transition"
             PROVE  \E e \in audit' : /\ e.rec = req'[p].rec /\ e.action = "transition"
                                      /\ e.version = req'[p].item.version
                                      /\ e.after = req'[p].target
  BY DEF TransitionAnswerAudited
<1>1. req \in [Requests -> RequestType] /\ TargetKept(req[p])
  BY DEF TypeOK, TargetsKept
<1>2. CASE req'[p] = req[p]
  BY <1>2, AuditGrows DEF TransitionAnswerAudited
<1>3. CASE AppendAudit(p)
  <2>1. req[p].op = "transition" /\ req[p].pc = "audit"
        /\ req'[p].rec = req[p].rec /\ req'[p].item = req[p].item
        /\ req'[p].target = req[p].target
    BY <1>1, <1>3 DEF AppendAudit, Goto, Finish, Idle, RequestType
  <2>2. AuditEntry(req[p]) \in audit'
    BY <1>3 DEF AppendAudit
  <2>3. /\ AuditEntry(req[p]).rec = req[p].rec /\ AuditEntry(req[p]).action = req[p].op
        /\ AuditEntry(req[p]).version = req[p].item.version
        /\ AuditEntry(req[p]).after = req[p].target
    BY <1>1, <2>1 DEF AuditEntry, TargetKept
  <2> QED BY <2>1, <2>2, <2>3
<1>4. CASE Client(p)
  <2>1. PICK q : Submit(p, q) /\ Fresh(q)
    BY <1>4, SubmittedRequest
  <2> QED BY <1>1, <2>1 DEF Submit, Fresh
<1>5. CASE LoseAudit(p) \/ Reget(p)
  BY <1>1, <1>5 DEF LoseAudit, Reget, Goto, Finish, Idle, RequestType
<1>6. CASE ReadForUpdate(p) \/ ReadForTransition(p) \/ ReadForDelete(p)
  BY <1>1, <1>6 DEF ReadForUpdate, ReadForTransition, ReadForDelete, Keep, RequestType
<1>7. CASE CommitCreate(p) \/ CommitUpdate(p) \/ CommitDelete(p)
  BY <1>1, <1>7 DEF CommitCreate, CommitUpdate, CommitDelete, Goto, RequestType
<1>8. CASE Refuse(p) \/ WriteRefused(p) \/ Preload(p) \/ Fail(p)
  BY <1>1, <1>8 DEF Refuse, WriteRefused, Preload, Fail, Finish, Idle
<1> QED BY <1>2, <1>3, <1>4, <1>5, <1>6, <1>7, <1>8, OnlyItselfMoves DEF Server

(* A transition that is being answered has its entry in the log: a lost     *)
(* entry is never answered with success, whatever clients send and whatever *)
(* fails.                                                                   *)
THEOREM AnsweredIsAudited == Spec => []TransitionAnswerAudited
<1> DEFINE Inv == TypeOK /\ TargetsKept /\ TransitionAnswerAudited
<1>1. Init => Inv
  BY InitType DEF Init, TargetsKept, TargetKept, TransitionAnswerAudited, Idle
<1>2. Inv /\ [Next]_vars => Inv'
  BY NextType, TargetsStay, AnswersStayAudited
<1> QED BY <1>1, <1>2, PTL DEF Spec
=============================================================================
