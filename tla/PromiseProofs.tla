---------------------------- MODULE PromiseProofs ---------------------------
(***************************************************************************)
(* When clients send only versions they have read (Lookahead = 0), the     *)
(* check made on the copy and the compare-and-set made on the client's     *)
(* version are about the same row.  Then every write obeys the rules of    *)
(* its policy: the laws of the chain, the review gate and a truthful audit *)
(* log follow, and the service implements the abstract record.             *)
(***************************************************************************)
EXTENDS ChainProofs

(* The edit q has prepared is one the policy allows on the row current,    *)
(* and the status it will report as the one before is that of the row.     *)
Prepared(q, current) ==
  /\ q.before = current.status
  /\ \/ /\ q.op = "update" /\ UpdateAllowed(current)
        /\ \E c \in Contents :
             q.item = [current EXCEPT !.content = c, !.version = current.version + 1]
     \/ /\ q.op = "transition" /\ TransitionAllowed(current, q.target, q.actor)
        /\ q.target \in Statuses
        /\ q.item = [current EXCEPT !.status = q.target, !.version = current.version + 1]

(* The inductive core.  A request never expects a version its record has   *)
(* not reached; so once the record is past the expected version the        *)
(* compare-and-set fails, and until then the prepared edit fits the row.   *)
HonestIn(table, q) ==
  /\ q.pc = "write" /\ q.op = "create" => \E c \in Contents : q.item = NewRow(c)
  /\ q.pc \in {"read", "write"} /\ q.op \in {"update", "transition"} =>
       table[q.rec] # AbsentRow /\ q.expect <= table[q.rec].version
  /\ /\ q.pc = "write" /\ q.op \in {"update", "transition"}
     /\ table[q.rec].phase = "live" /\ table[q.rec].version = q.expect
     => Prepared(q, table[q.rec])

HonestRequests == \A r \in Requests : HonestIn(row, req[r])

HonestInv == ChainInv /\ HonestRequests

-----------------------------------------------------------------------------
(* How the table moves. *)

(* A row stays, is created, gains a version, or is removed as it is. *)
Moves(old, new) ==
  \/ new = old
  \/ old = AbsentRow /\ new # AbsentRow
  \/ old # AbsentRow /\ new # AbsentRow /\ new.version > old.version
  \/ old # AbsentRow /\ new # AbsentRow /\ new.version = old.version /\ new.phase = "deleted"

LEMMA TableMoves ==
  ASSUME TypeOK, WritePlans, [Next]_vars, NEW rec \in Records
  PROVE  Moves(row[rec], row'[rec])
<1>1. CASE UNCHANGED <<row, revs>>
  BY <1>1 DEF Moves
<1>2. ASSUME NEW r \in Requests, CommitCreate(r) PROVE Moves(row[rec], row'[rec])
  <2>1. req[r].item \in StoredRow /\ req[r].item.phase = "live"
    BY <1>2 DEF CommitCreate, TypeOK, RequestShape
  <2>2. req[r].item # AbsentRow
    BY <2>1 DEF AbsentRow
  <2> QED BY <1>2, <2>2 DEF CommitCreate, CodeIsFree, Moves, TypeOK
<1>3. ASSUME NEW r \in Requests, CommitUpdate(r) PROVE Moves(row[rec], row'[rec])
  <2>1. req[r].item.phase = "live" /\ req[r].rec \in Records
    BY <1>3 DEF CommitUpdate, TypeOK, RequestShape
  <2>2. req[r].item # AbsentRow /\ row[req[r].rec] # AbsentRow
    BY <1>3, <2>1 DEF AbsentRow, CommitUpdate, VersionMatches, Found
  <2>3. req[r].item.version = row[req[r].rec].version + 1
    BY <1>3 DEF CommitUpdate, VersionMatches, WritePlans, WritePlan
  <2>4. row[req[r].rec].version \in Nat
    BY <2>1, MaxVersionAssumption DEF TypeOK, Row, StoredRow, AbsentRow
  <2> QED BY <1>3, <2>1, <2>2, <2>3, <2>4 DEF CommitUpdate, Moves, TypeOK
<1>4. ASSUME NEW r \in Requests, CommitDelete(r) PROVE Moves(row[rec], row'[rec])
  <2>1. req[r].rec \in Records
    BY <1>4 DEF CommitDelete, TypeOK, RequestShape
  <2>2. row[req[r].rec] \in StoredRow /\ row[req[r].rec].phase = "live"
    BY <1>4, <2>1, LiveIsStored DEF CommitDelete
  <2> DEFINE removed == [row[req[r].rec] EXCEPT !.phase = "deleted"]
  <2>3. removed.version = row[req[r].rec].version /\ removed.phase = "deleted"
    BY <2>2 DEF StoredRow
  <2>4. row' = [row EXCEPT ![req[r].rec] = removed]
    BY <1>4 DEF CommitDelete, TypeOK
  <2> HIDE DEF removed
  <2>5. removed # AbsentRow /\ row[req[r].rec] # AbsentRow
    BY <2>2, <2>3 DEF AbsentRow
  <2> QED BY <2>1, <2>3, <2>4, <2>5 DEF Moves, TypeOK
<1> QED BY <1>1, <1>2, <1>3, <1>4, WritingSteps

(* A request that waits stays honest while the table moves. *)
LEMMA WaitingStaysHonest ==
  ASSUME TypeOK, TypeOK', NEW q \in RequestType, RequestShape(q), HonestIn(row, q),
         \A rec \in Records : Moves(row[rec], row'[rec])
  PROVE  HonestIn(row', q)
<1>1. CASE q.pc \in {"read", "write"} /\ q.op \in {"update", "transition"}
  <2>1. q.rec \in Records /\ q.expect \in Nat
    BY <1>1, MaxVersionAssumption DEF RequestShape, RequestType
  <2> DEFINE old == row[q.rec]
             new == row'[q.rec]
  <2>2. Moves(old, new) /\ old.version \in Nat /\ new.version \in Nat
    BY <2>1, MaxVersionAssumption DEF TypeOK, Row, StoredRow, AbsentRow
  <2>3. old # AbsentRow /\ q.expect <= old.version
    BY <1>1 DEF HonestIn
  <2>4. /\ q.pc = "write" /\ old.phase = "live" /\ old.version = q.expect
        => Prepared(q, old)
    BY <1>1 DEF HonestIn
  <2> HIDE DEF old, new
  <2>5. new # AbsentRow /\ q.expect <= new.version
    BY <2>1, <2>2, <2>3 DEF Moves
  <2>6. /\ q.pc = "write" /\ new.phase = "live" /\ new.version = q.expect
        => Prepared(q, new)
    BY <2>1, <2>2, <2>3, <2>4 DEF Moves
  <2> QED BY <1>1, <2>5, <2>6 DEF HonestIn, new
<1>2. CASE ~(q.pc \in {"read", "write"} /\ q.op \in {"update", "transition"})
  BY <1>2 DEF HonestIn
<1> QED BY <1>1, <1>2

-----------------------------------------------------------------------------
(* Honesty is kept. *)

LEMMA HonestByRequest ==
  ASSUME TypeOK, TypeOK', HonestRequests, NEW r \in Requests, NEW q,
         req' = [req EXCEPT ![r] = q], HonestIn(row', q),
         \A rec \in Records : Moves(row[rec], row'[rec])
  PROVE  HonestRequests'
<1> SUFFICES ASSUME NEW p \in Requests PROVE HonestIn(row', req'[p])
  BY DEF HonestRequests
<1>1. CASE p = r
  BY <1>1 DEF TypeOK
<1>2. CASE p # r
  <2>1. req'[p] = req[p] /\ req[p] \in RequestType /\ RequestShape(req[p])
    BY <1>2 DEF TypeOK
  <2> QED BY <2>1, WaitingStaysHonest DEF HonestRequests
<1> QED BY <1>1, <1>2

LEMMA ReadIsHonest ==
  ASSUME TypeOK, HonestRequests, NEW r \in Requests,
         ReadForUpdate(r) \/ ReadForTransition(r) \/ ReadForDelete(r)
  PROVE  \E q : req' = [req EXCEPT ![r] = q] /\ HonestIn(row', q) /\ row' = row
<1> DEFINE current == row[req[r].rec]
           kept(edited) == [req[r] EXCEPT !.pc = "write", !.item = edited,
                                          !.before = current.status]
<1>1. req[r] \in RequestType /\ RequestShape(req[r]) /\ req[r].pc = "read"
  BY DEF TypeOK, ReadForUpdate, ReadForTransition, ReadForDelete
<1>2. req[r].rec \in Records /\ Found(req[r].rec)
  BY <1>1 DEF RequestShape, ReadForUpdate, ReadForTransition, ReadForDelete
<1>3. current \in StoredRow /\ current # AbsentRow /\ current.version \in Nat
  BY <1>2, LiveIsStored, MaxVersionAssumption DEF StoredRow, AbsentRow
<1>4. ASSUME NEW edited, Keep(r, current, edited)
      PROVE  req' = [req EXCEPT ![r] = kept(edited)] /\ row' = row
  BY <1>4 DEF Keep, TypeOK
<1>5. ASSUME NEW edited
      PROVE  /\ kept(edited).pc = "write" /\ kept(edited).op = req[r].op
             /\ kept(edited).rec = req[r].rec /\ kept(edited).item = edited
             /\ kept(edited).expect = req[r].expect /\ kept(edited).target = req[r].target
             /\ kept(edited).actor = req[r].actor
             /\ kept(edited).before = current.status
  BY <1>1 DEF RequestType
<1>6. req[r].op \in {"update", "transition"} => req[r].expect <= current.version
  BY <1>1 DEF HonestRequests, HonestIn
<1>10. current.version = req[r].expect => NextVersion(req[r].expect) = current.version + 1
  BY DEF NextVersion
<1> HIDE DEF kept
<1>7. CASE ReadForUpdate(r)
  <2> DEFINE edited == [current EXCEPT !.content = req[r].content,
                                       !.version = NextVersion(req[r].expect)]
  <2>1. Keep(r, current, edited) /\ UpdateAllowed(current) /\ req[r].op = "update"
    BY <1>7 DEF ReadForUpdate
  <2>2. req[r].content \in Contents
    BY <1>1, <2>1 DEF RequestShape
  <2>3. current.version = req[r].expect
        => edited = [current EXCEPT !.content = req[r].content,
                                    !.version = current.version + 1]
    BY <1>10
  <2> HIDE DEF edited
  <2>4. ASSUME current.version = req[r].expect PROVE Prepared(kept(edited), current)
    <3>1. kept(edited).item = [current EXCEPT !.content = req[r].content,
                                              !.version = current.version + 1]
      BY <1>5, <2>3, <2>4
    <3>2. \E c \in Contents : kept(edited).item = [current EXCEPT !.content = c,
                                                         !.version = current.version + 1]
      <4> WITNESS req[r].content \in Contents
      <4> QED BY <3>1
    <3> QED BY <1>5, <2>1, <3>2 DEF Prepared
  <2>5. HonestIn(row, kept(edited))
    BY <1>3, <1>5, <1>6, <2>1, <2>4 DEF HonestIn
  <2> QED BY <1>4, <2>1, <2>5
<1>8. CASE ReadForTransition(r)
  <2> DEFINE edited == [current EXCEPT !.status = req[r].target,
                                       !.version = NextVersion(req[r].expect)]
  <2>1. /\ Keep(r, current, edited) /\ req[r].op = "transition"
        /\ TransitionAllowed(current, req[r].target, req[r].actor)
    BY <1>8 DEF ReadForTransition
  <2>2. req[r].target \in Statuses
    BY <1>1, <2>1 DEF RequestShape
  <2>3. current.version = req[r].expect
        => edited = [current EXCEPT !.status = req[r].target,
                                    !.version = current.version + 1]
    BY <1>10
  <2> HIDE DEF edited
  <2>4. current.version = req[r].expect => Prepared(kept(edited), current)
    BY <1>5, <2>1, <2>2, <2>3 DEF Prepared
  <2>5. HonestIn(row, kept(edited))
    BY <1>3, <1>5, <1>6, <2>1, <2>4 DEF HonestIn
  <2> QED BY <1>4, <2>1, <2>5
<1>9. CASE ReadForDelete(r)
  <2>1. Keep(r, current, current) /\ req[r].op = "delete"
    BY <1>9 DEF ReadForDelete
  <2>2. HonestIn(row, kept(current))
    BY <1>5, <2>1 DEF HonestIn
  <2> QED BY <1>4, <2>1, <2>2
<1> QED BY <1>7, <1>8, <1>9

LEMMA SubmittedIsHonest ==
  ASSUME Lookahead = 0, TypeOK, NEW r \in Requests, Client(r)
  PROVE  \E q : req' = [req EXCEPT ![r] = q] /\ HonestIn(row', q) /\ row' = row
<1>1. PICK q \in RequestType : Submit(r, q) /\ Fresh(q)
  BY SubmittedRequest
<1>2. q.rec \in Seen => q.rec \in Records /\ row[q.rec] # AbsentRow /\ row[q.rec].version \in Nat
  BY MaxVersionAssumption DEF Seen, TypeOK, Row, StoredRow, AbsentRow
<1>3. HonestIn(row, q)
  BY <1>1, <1>2 DEF Fresh, HonestIn
<1> QED BY <1>1, <1>3 DEF Submit

LEMMA HonestKept ==
  ASSUME Lookahead = 0, HonestInv, [Next]_vars
  PROVE  HonestInv'
<1>1. ChainInv'
  BY NextType, PlansKept, ChainKept DEF HonestInv, ChainInv
<1>2. TypeOK /\ TypeOK' /\ HonestRequests /\ \A rec \in Records : Moves(row[rec], row'[rec])
  BY <1>1, TableMoves DEF HonestInv, ChainInv
<1>3. ASSUME NEW r \in Requests, NEW pc, pc \notin {"read", "write"}, Goto(r, pc)
      PROVE  HonestRequests'
  <2>1. HonestIn(row', [req[r] EXCEPT !.pc = pc])
    BY <1>2, <1>3 DEF HonestIn, TypeOK, RequestType
  <2>2. req' = [req EXCEPT ![r] = [req[r] EXCEPT !.pc = pc]]
    BY <1>2, <1>3 DEF Goto, TypeOK
  <2> QED BY <1>2, <2>1, <2>2, HonestByRequest
<1>4. ASSUME NEW r \in Requests, Finish(r) PROVE HonestRequests'
  <2>1. HonestIn(row', Idle)
    BY DEF HonestIn, Idle
  <2> QED BY <1>2, <1>4, <2>1, HonestByRequest DEF Finish
<1>5. ASSUME NEW r \in Requests, Client(r) PROVE HonestRequests'
  BY <1>2, <1>5, SubmittedIsHonest, HonestByRequest
<1>6. ASSUME NEW r \in Requests, Server(r) \/ LoseAudit(r) \/ Fail(r) PROVE HonestRequests'
  <2>1. CASE ReadForUpdate(r) \/ ReadForTransition(r) \/ ReadForDelete(r)
    BY <1>2, <2>1, ReadIsHonest, HonestByRequest
  <2>2. CASE CommitCreate(r) \/ CommitUpdate(r) \/ CommitDelete(r)
    BY <1>3, <2>2 DEF CommitCreate, CommitUpdate, CommitDelete
  <2>3. CASE AppendAudit(r) \/ LoseAudit(r)
    BY <1>3, <1>4, <2>3 DEF AppendAudit, LoseAudit
  <2>4. CASE Refuse(r) \/ WriteRefused(r) \/ Preload(r) \/ Fail(r)
    BY <1>4, <2>4 DEF Refuse, WriteRefused, Preload, Fail
  <2>5. CASE Reget(r)
    <3> DEFINE q == [req[r] EXCEPT !.pc = "preload", !.item = row[req[r].rec]]
    <3>1. Finish(r) \/ req' = [req EXCEPT ![r] = q]
      BY <1>2, <2>5 DEF Reget, TypeOK
    <3>2. HonestIn(row', q)
      BY <1>2 DEF HonestIn, TypeOK, RequestType
    <3> HIDE DEF q
    <3> QED BY <1>2, <1>4, <3>1, <3>2, HonestByRequest
  <2> QED BY <1>6, <2>1, <2>2, <2>3, <2>4, <2>5 DEF Server
<1>7. ASSUME UNCHANGED vars PROVE HonestRequests'
  BY <1>7, <1>2 DEF vars, HonestRequests
<1>8. HonestRequests'
  BY <1>5, <1>6, <1>7 DEF Next
<1> QED BY <1>1, <1>8 DEF HonestInv

LEMMA InitHonest == Init => HonestInv
<1>1. Init => ChainInv
  BY InitType, InitChain DEF ChainInv, Init, WritePlans, WritePlan, Idle
<1>2. Init => HonestRequests
  BY DEF Init, HonestRequests, HonestIn, Idle
<1> QED BY <1>1, <1>2 DEF HonestInv

(* With honest clients the invariant of this module holds. *)
THEOREM HonestInvariant ==
  ASSUME Lookahead = 0
  PROVE  Spec => []HonestInv
<1>1. HonestInv /\ [Next]_vars => HonestInv'
  BY HonestKept
<1> QED BY <1>1, InitHonest, PTL DEF Spec

-----------------------------------------------------------------------------
(* What follows from the invariant. *)

(* The three laws of two consecutive revisions together. *)
Lawful(x, y) ==
  /\ \/ y.status = x.status
     \/ CanTransition(Policy.graph, x.status, y.status) /\ y.content = x.content
  /\ x.status # y.status /\ ReviewedChange(x.status, y.status) => MayReview(y.actor)
  /\ x.status \in Policy.sealed => y.status # x.status /\ y.content = x.content

LawfulChain == \A x, y \in revs : Consecutive(x, y) => Lawful(x, y)

LawfulInv == HonestInv /\ LawfulChain

-----------------------------------------------------------------------------
(* What a commit finds. *)

(* Update and Transition commit an edit their policy allows on the row     *)
(* that is in the table at that moment.                                    *)
LEMMA CommitIsAllowed ==
  ASSUME HonestInv, NEW r \in Requests, CommitUpdate(r)
  PROVE  /\ Prepared(req[r], row[req[r].rec])
         /\ req[r].rec \in Records /\ req[r].actor \in Actors
         /\ row[req[r].rec] \in StoredRow /\ row[req[r].rec].phase = "live"
         /\ req[r].item \in StoredRow
         /\ row' = [row EXCEPT ![req[r].rec] = req[r].item]
         /\ revs' = revs \cup Snapshot(req[r].rec, req[r].item, req[r].actor)
<1>1. /\ req[r].rec \in Records /\ req[r].actor \in Actors /\ req[r].item \in StoredRow
      /\ Found(req[r].rec)
  BY DEF CommitUpdate, VersionMatches, HonestInv, ChainInv, TypeOK, RequestShape
<1>2. Prepared(req[r], row[req[r].rec])
  BY DEF CommitUpdate, VersionMatches, Found, HonestInv, HonestRequests, HonestIn
<1>3. row[req[r].rec] \in StoredRow /\ row[req[r].rec].phase = "live"
  BY <1>1, LiveIsStored DEF HonestInv, ChainInv
<1> QED BY <1>1, <1>2, <1>3 DEF CommitUpdate, AppendRevision

(* Create commits a new row under a code that was free. *)
LEMMA CreateIsAllowed ==
  ASSUME HonestInv, NEW r \in Requests, CommitCreate(r)
  PROVE  /\ req[r].rec \in Records /\ req[r].actor \in Actors
         /\ row[req[r].rec] = AbsentRow
         /\ \E c \in Contents : req[r].item = NewRow(c)
         /\ row' = [row EXCEPT ![req[r].rec] = req[r].item]
         /\ revs' = revs \cup Snapshot(req[r].rec, req[r].item, req[r].actor)
BY DEF CommitCreate, CodeIsFree, AppendRevision, HonestInv, ChainInv, HonestRequests,
       HonestIn, TypeOK, RequestShape

(* A prepared edit in terms of the row it edits. *)
LEMMA PreparedEdit ==
  ASSUME NEW q, NEW current \in StoredRow, Prepared(q, current)
  PROVE  /\ q.item.version = current.version + 1
         /\ \/ /\ current.status \notin Policy.sealed
               /\ q.item.status = current.status
            \/ /\ CanTransition(Policy.graph, current.status, q.item.status)
               /\ ReviewedChange(current.status, q.item.status) => MayReview(q.actor)
               /\ q.item.content = current.content
BY DEF Prepared, UpdateAllowed, TransitionAllowed, StoredRow

-----------------------------------------------------------------------------
(* The laws of the chain. *)

LEMMA LawfulExtension ==
  ASSUME HonestInv, LawfulChain, Policy.versioned,
         NEW rec \in Records, NEW new, new.rec = rec, revs' = revs \cup {new},
         new.version = row[rec].version + 1,
         \A x \in revs : x.rec = rec /\ x.version = row[rec].version => Lawful(x, new)
  PROVE  LawfulChain'
<1>1. \A x \in revs : x.version <= row[x.rec].version
  BY DEF HonestInv, ChainInv, ChainComplete
<1>2. row[rec].version \in Nat /\ \A x \in revs : x.version \in Nat
  BY MaxVersionAssumption
     DEF HonestInv, ChainInv, TypeOK, Row, StoredRow, AbsentRow, Revision
<1>3. ASSUME NEW x \in revs', NEW y \in revs', Consecutive(x, y)
      PROVE  Lawful(x, y)
  <2>1. CASE x \in revs /\ y \in revs
    BY <1>3, <2>1 DEF LawfulChain
  <2>2. CASE x \in revs /\ y = new
    BY <1>2, <1>3, <2>2 DEF Consecutive
  <2>3. CASE x = new
    BY <1>1, <1>2, <1>3, <2>3 DEF Consecutive
  <2> QED BY <2>1, <2>2, <2>3
<1> QED BY <1>3 DEF LawfulChain

LEMMA LawfulKept ==
  ASSUME LawfulInv, [Next]_vars
  PROVE  LawfulChain'
<1>1. CASE revs' = revs
  BY <1>1 DEF LawfulInv, LawfulChain
<1>2. ASSUME NEW r \in Requests, CommitUpdate(r), Policy.versioned PROVE LawfulChain'
  <2> DEFINE q == req[r]
             new == RevisionOf(q.rec, q.item, q.actor)
             current == row[q.rec]
  <2>1. new.rec = q.rec /\ new.version = q.item.version /\ new.status = q.item.status
        /\ new.content = q.item.content /\ new.actor = q.actor
    BY DEF RevisionOf
  <2>2. /\ current \in StoredRow /\ q.rec \in Records /\ revs' = revs \cup {new}
        /\ Prepared(q, current)
    BY <1>2, CommitIsAllowed DEF LawfulInv, Snapshot
  <2>3. /\ q.item.version = current.version + 1
        /\ \/ current.status \notin Policy.sealed /\ q.item.status = current.status
           \/ /\ CanTransition(Policy.graph, current.status, q.item.status)
              /\ ReviewedChange(current.status, q.item.status) => MayReview(q.actor)
              /\ q.item.content = current.content
    BY <2>2, PreparedEdit
  <2>4. \A x \in revs : x.rec = q.rec /\ x.version = current.version =>
          x.status = current.status /\ x.content = current.content
    BY <1>2 DEF LawfulInv, HonestInv, ChainInv, ChainComplete
  <2>5. current.status \in Statuses
        /\ (CanTransition(Policy.graph, current.status, q.item.status)
            => q.item.status # current.status)
    BY <2>2, PolicyAssumption DEF CanTransition, StoredRow
  <2> HIDE DEF new, current, q
  <2>6. ASSUME NEW x \in revs, x.rec = q.rec, x.version = current.version
        PROVE  Lawful(x, new)
    BY <2>1, <2>3, <2>4, <2>5, <2>6 DEF Lawful
  <2> QED BY <1>2, <2>1, <2>2, <2>3, <2>6, LawfulExtension DEF LawfulInv, current
<1>3. ASSUME NEW r \in Requests, CommitCreate(r), Policy.versioned PROVE LawfulChain'
  <2> DEFINE q == req[r]
             new == RevisionOf(q.rec, q.item, q.actor)
  <2>1. \A c : NewRow(c).version = 1
    BY DEF NewRow
  <2>2. /\ q.rec \in Records /\ revs' = revs \cup {new} /\ q.item.version = 1
        /\ row[q.rec].version = 0
    BY <1>3, <2>1, CreateIsAllowed DEF LawfulInv, Snapshot, AbsentRow
  <2>3. new.rec = q.rec /\ new.version = 1
    BY <2>2 DEF RevisionOf
  <2>4. \A x \in revs : x.version # 0
    BY DEF LawfulInv, HonestInv, ChainInv, TypeOK, Revision
  <2> HIDE DEF new, q
  <2> QED BY <1>3, <2>2, <2>3, <2>4, LawfulExtension DEF LawfulInv
<1>4. ASSUME ~Policy.versioned, NEW r \in Requests, CommitCreate(r) \/ CommitUpdate(r)
      PROVE  revs' = revs
  BY <1>4 DEF CommitCreate, CommitUpdate, AppendRevision, Snapshot
<1>5. ASSUME NEW r \in Requests, CommitDelete(r) PROVE revs' = revs
  BY <1>5 DEF CommitDelete
<1> QED BY <1>1, <1>2, <1>3, <1>4, <1>5, WritingSteps

(* Startup leaves first versions only. *)
LEMMA VersionsStartAtOne == Init => \A x \in revs : x.version = 1
<1> SUFFICES ASSUME Init PROVE \A x \in revs : x.version = 1
  OBVIOUS
<1>1. \A rec \in Records : row[rec] # AbsentRow => row[rec].version = 1
  BY DEF Init, StartingRow, SeedRow
<1>2. \A x \in revs : \E rec \in Records :
        row[rec] # AbsentRow /\ x = RevisionOf(rec, row[rec], "seed")
  BY DEF Init, StartingRevisions, Snapshot
<1>3. \A rec : RevisionOf(rec, row[rec], "seed").version = row[rec].version
  BY DEF RevisionOf
<1> QED BY <1>1, <1>2, <1>3

LEMMA InitLawful == Init => LawfulChain
BY VersionsStartAtOne DEF LawfulChain, Consecutive

LEMMA LawfulInvariant ==
  ASSUME Lookahead = 0
  PROVE  Spec => []LawfulInv
<1>1. LawfulInv /\ [Next]_vars => LawfulInv'
  BY HonestKept, LawfulKept DEF LawfulInv
<1>2. Init => LawfulInv
  BY InitHonest, InitLawful DEF LawfulInv
<1> QED BY <1>1, <1>2, PTL DEF Spec

(* Status and content never change together, the status only along an edge. *)
THEOREM ChainIsLegal ==
  ASSUME Lookahead = 0
  PROVE  Spec => []ChainLegal
<1>1. LawfulInv => ChainLegal
  BY DEF LawfulInv, LawfulChain, Lawful, ChainLegal
<1> QED BY <1>1, LawfulInvariant, PTL

(* Only a reviewer's revision enters or leaves a reviewed status. *)
THEOREM ChainIsReviewed ==
  ASSUME Lookahead = 0
  PROVE  Spec => []ChainReviewed
<1>1. LawfulInv => ChainReviewed
  BY DEF LawfulInv, LawfulChain, Lawful, ChainReviewed
<1> QED BY <1>1, LawfulInvariant, PTL

(* The content of a sealed decision is carried over unchanged. *)
THEOREM ChainIsSealed ==
  ASSUME Lookahead = 0
  PROVE  Spec => []ChainSealed
<1>1. LawfulInv => ChainSealed
  BY DEF LawfulInv, LawfulChain, Lawful, ChainSealed
<1> QED BY <1>1, LawfulInvariant, PTL

-----------------------------------------------------------------------------
(* The audit log. *)

(* An entry agrees with the revision of its version and with the one before. *)
Truthful(e, x) ==
  /\ e.version = x.version => e.after = x.status /\ e.actor = x.actor
  /\ e.version = x.version + 1 => e.before = x.status

(* The entries stored, and those that writes already committed will store. *)
Entries == audit \cup {AuditEntry(req[r]) : r \in {p \in Requests : req[p].pc = "audit"}}

(* No entry speaks of a version its record has not reached. *)
Told ==
  \A e \in Entries : e.action \in {"update", "transition"} =>
    /\ e.rec \in Records /\ e.version <= row[e.rec].version
    /\ \A x \in revs : e.rec = x.rec => Truthful(e, x)

(* Kinds without a chain have no revisions. *)
NoChain == ~Policy.versioned => revs = {}

TruthInv == HonestInv /\ NoChain /\ Told

(* What an entry says. *)
LEMMA EntryFields ==
  \A q : /\ AuditEntry(q).rec = q.rec /\ AuditEntry(q).action = q.op
         /\ AuditEntry(q).actor = q.actor /\ AuditEntry(q).version = q.item.version
         /\ AuditEntry(q).before = q.before
         /\ q.op # "delete" => AuditEntry(q).after = q.item.status
BY DEF AuditEntry

(* A request comes to owe an entry by its commit, and owes it unchanged. *)
LEMMA OwedEntries ==
  ASSUME TypeOK, [Next]_vars, NEW p \in Requests, req'[p].pc = "audit"
  PROVE  \/ req'[p] = req[p]
         \/ /\ CommitCreate(p) \/ CommitUpdate(p) \/ CommitDelete(p)
            /\ AuditEntry(req'[p]) = AuditEntry(req[p])
<1> SUFFICES ASSUME req'[p] # req[p]
             PROVE  /\ CommitCreate(p) \/ CommitUpdate(p) \/ CommitDelete(p)
                    /\ AuditEntry(req'[p]) = AuditEntry(req[p])
  OBVIOUS
<1>1. req \in [Requests -> RequestType]
  BY DEF TypeOK
<1>2. CASE CommitCreate(p) \/ CommitUpdate(p) \/ CommitDelete(p)
  <2>1. /\ req'[p].rec = req[p].rec /\ req'[p].op = req[p].op /\ req'[p].actor = req[p].actor
        /\ req'[p].item = req[p].item /\ req'[p].before = req[p].before
    BY <1>1, <1>2 DEF CommitCreate, CommitUpdate, CommitDelete, Goto, RequestType
  <2> QED BY <1>2, <2>1 DEF AuditEntry
<1>3. CASE Client(p)
  <2>1. PICK q : Submit(p, q) /\ Fresh(q)
    BY <1>3, SubmittedRequest
  <2> QED BY <1>1, <2>1 DEF Submit, Fresh
<1>4. CASE ReadForUpdate(p) \/ ReadForTransition(p) \/ ReadForDelete(p)
  BY <1>1, <1>4 DEF ReadForUpdate, ReadForTransition, ReadForDelete, Keep, RequestType
<1>5. CASE AppendAudit(p) \/ LoseAudit(p) \/ Reget(p)
  BY <1>1, <1>5 DEF AppendAudit, LoseAudit, Reget, Goto, Finish, Idle, RequestType
<1>6. CASE Refuse(p) \/ WriteRefused(p) \/ Preload(p) \/ Fail(p)
  BY <1>1, <1>6 DEF Refuse, WriteRefused, Preload, Fail, Finish, Idle
<1> QED BY <1>2, <1>3, <1>4, <1>5, <1>6, OnlyItselfMoves DEF Server

(* The log grows by entries that were owed. *)
LEMMA StoredEntries ==
  ASSUME [Next]_vars, NEW e \in audit'
  PROVE  e \in Entries
<1>1. CASE audit' = audit
  BY <1>1 DEF Entries
<1>2. ASSUME NEW r \in Requests, AppendAudit(r) PROVE e \in Entries
  BY <1>2 DEF AppendAudit, Entries
<1> QED BY <1>1, <1>2, AuditSteps

(* Every entry of the next state is one of this state or of the commit made. *)
LEMMA NewEntries ==
  ASSUME TypeOK, [Next]_vars, NEW e \in Entries'
  PROVE  \/ e \in Entries
         \/ \E r \in Requests : /\ CommitCreate(r) \/ CommitUpdate(r) \/ CommitDelete(r)
                               /\ e = AuditEntry(req[r])
<1>1. CASE e \in audit'
  BY <1>1, StoredEntries
<1>2. CASE e \notin audit'
  <2>1. PICK p \in Requests : req'[p].pc = "audit" /\ e = AuditEntry(req'[p])
    BY <1>2 DEF Entries, AuditEntry
  <2> QED BY <2>1, OwedEntries DEF Entries
<1> QED BY <1>1, <1>2

(* A commit is truthful about the chain it extends: it left the status of  *)
(* the last revision and made the new one.                                 *)
LEMMA CommitIsTruthful ==
  ASSUME HonestInv, HonestInv', NoChain, NEW r \in Requests, CommitUpdate(r)
  PROVE  /\ req[r].item.version <= row'[req[r].rec].version
         /\ \A x \in revs' : req[r].rec = x.rec => Truthful(AuditEntry(req[r]), x)
<1> DEFINE q == req[r]
           current == row[q.rec]
           new == RevisionOf(q.rec, q.item, q.actor)
<1>1. /\ Prepared(q, current) /\ current \in StoredRow /\ q.item \in StoredRow
      /\ q.rec \in Records /\ row' = [row EXCEPT ![q.rec] = q.item]
      /\ revs' = revs \cup Snapshot(q.rec, q.item, q.actor)
  BY CommitIsAllowed
<1>2. row'[q.rec] = q.item /\ q.item.version \in Nat /\ current.version \in Nat
  BY <1>1, MaxVersionAssumption DEF HonestInv, ChainInv, TypeOK, StoredRow
<1>3. q.item.version = current.version + 1 /\ q.before = current.status /\ q.op # "delete"
  BY <1>1, PreparedEdit DEF Prepared
<1>4. ASSUME NEW x \in revs', q.rec = x.rec PROVE Truthful(AuditEntry(q), x)
  <2>1. Policy.versioned
    BY <1>1, <1>4 DEF NoChain, Snapshot
  <2>2. /\ new.version = q.item.version /\ new.status = q.item.status
        /\ new.actor = q.actor
    BY DEF RevisionOf
  <2>3. x = new \/ x \in revs
    BY <1>1, <2>1 DEF Snapshot
  <2>4. ASSUME x \in revs
        PROVE  /\ x.version \in Nat /\ x.version <= current.version
               /\ x.version = current.version => x.status = current.status
    BY <1>4, <2>1, <2>4, MaxVersionAssumption
       DEF HonestInv, ChainInv, ChainComplete, TypeOK, Revision
  <2> DEFINE e == AuditEntry(q)
  <2>5. /\ e.version = current.version + 1 /\ e.before = current.status
        /\ e.after = q.item.status /\ e.actor = q.actor
    BY <1>3, EntryFields
  <2> HIDE DEF new, q, current, e
  <2>6. ASSUME x = new PROVE Truthful(e, x)
    BY <1>2, <1>3, <2>2, <2>5, <2>6 DEF Truthful
  <2>7. ASSUME x \in revs PROVE Truthful(e, x)
    BY <1>2, <2>4, <2>5, <2>7 DEF Truthful
  <2>8. Truthful(e, x)
    BY <2>3, <2>6, <2>7
  <2> QED BY <2>8 DEF e
<1> QED BY <1>2, <1>4

(* Versions never fall, and a new revision is beyond all versions told. *)
LEMMA ToldStays ==
  ASSUME TruthInv, HonestInv', [Next]_vars, NEW e \in Entries,
         e.action \in {"update", "transition"}, e.version \in Nat
  PROVE  /\ e.rec \in Records /\ e.version <= row'[e.rec].version
         /\ \A x \in revs' : e.rec = x.rec => Truthful(e, x)
<1>1. /\ e.rec \in Records /\ e.version <= row[e.rec].version
      /\ \A x \in revs : e.rec = x.rec => Truthful(e, x)
  BY DEF TruthInv, Told
<1>2. row[e.rec].version \in Nat /\ row'[e.rec].version \in Nat
  BY <1>1, MaxVersionAssumption
     DEF TruthInv, HonestInv, ChainInv, TypeOK, Row, StoredRow, AbsentRow
<1>3. Moves(row[e.rec], row'[e.rec])
  BY <1>1, TableMoves DEF TruthInv, HonestInv, ChainInv
<1>4. AbsentRow.version = 0
  BY DEF AbsentRow
<1>5. e.version <= row'[e.rec].version
  BY <1>1, <1>2, <1>3, <1>4 DEF Moves
<1>6. ASSUME NEW x \in revs', x \notin revs, e.rec = x.rec
      PROVE  x.version \in Nat /\ x.version = row[e.rec].version + 1
  <2>1. PICK r \in Requests : CommitCreate(r) \/ CommitUpdate(r)
    BY <1>6, WritingSteps DEF CommitDelete
  <2>2. /\ x = RevisionOf(req[r].rec, req[r].item, req[r].actor)
        /\ req[r].item \in StoredRow
    BY <1>6, <2>1 DEF CommitCreate, CommitUpdate, AppendRevision, Snapshot, TruthInv,
                      HonestInv, ChainInv, TypeOK, RequestShape
  <2>3. x.rec = req[r].rec /\ x.version = req[r].item.version
    BY <2>2 DEF RevisionOf
  <2>4. req[r].item.version = row[req[r].rec].version + 1
    <3>1. CASE CommitCreate(r)
      BY <3>1, <1>4 DEF CommitCreate, CodeIsFree, TruthInv, HonestInv, ChainInv, WritePlans,
                        WritePlan
    <3>2. CASE CommitUpdate(r)
      BY <3>2 DEF CommitUpdate, VersionMatches, TruthInv, HonestInv, ChainInv, WritePlans,
                  WritePlan
    <3> QED BY <2>1, <3>1, <3>2
  <2> QED BY <1>2, <1>6, <2>3, <2>4
<1> QED BY <1>1, <1>2, <1>5, <1>6 DEF Truthful

LEMMA TruthKept ==
  ASSUME Lookahead = 0, TruthInv, [Next]_vars
  PROVE  TruthInv'
<1>1. HonestInv'
  BY HonestKept DEF TruthInv
<1>2. NoChain'
  BY WritingSteps DEF TruthInv, NoChain, CommitCreate, CommitUpdate, CommitDelete,
                      AppendRevision, Snapshot
<1>3. ASSUME NEW e \in Entries PROVE e.version \in Nat
  <2>1. CASE e \in audit
    BY <2>1, MaxVersionAssumption DEF TruthInv, HonestInv, ChainInv, TypeOK, AuditType
  <2>2. CASE e \notin audit
    <3>1. PICK p \in Requests : req[p].pc = "audit" /\ e = AuditEntry(req[p])
      BY <2>2 DEF Entries
    <3>2. req[p].item \in StoredRow
      BY <3>1 DEF TruthInv, HonestInv, ChainInv, TypeOK, RequestShape
    <3> QED BY <3>1, <3>2, EntryFields, MaxVersionAssumption DEF StoredRow
  <2> QED BY <2>1, <2>2
<1>4. ASSUME NEW e \in Entries', e.action \in {"update", "transition"}
      PROVE  /\ e.rec \in Records /\ e.version <= row'[e.rec].version
             /\ \A x \in revs' : e.rec = x.rec => Truthful(e, x)
  <2>1. CASE e \in Entries
    BY <1>1, <1>3, <1>4, <2>1, ToldStays
  <2>2. CASE e \notin Entries
    <3>1. PICK r \in Requests : /\ CommitCreate(r) \/ CommitUpdate(r) \/ CommitDelete(r)
                               /\ e = AuditEntry(req[r])
      BY <2>2, NewEntries DEF TruthInv, HonestInv, ChainInv
    <3>2. CommitUpdate(r)
      BY <1>4, <3>1, EntryFields DEF CommitCreate, CommitDelete
    <3>3. e.rec = req[r].rec /\ e.version = req[r].item.version /\ req[r].rec \in Records
      BY <3>1, <3>2, EntryFields, CommitIsAllowed DEF TruthInv
    <3> QED BY <1>1, <3>1, <3>2, <3>3, CommitIsTruthful DEF TruthInv
  <2> QED BY <2>1, <2>2
<1>5. Told'
  BY <1>4 DEF Told, Truthful
<1> QED BY <1>1, <1>2, <1>5 DEF TruthInv

LEMMA InitTruth == Init => TruthInv
<1> SUFFICES ASSUME Init PROVE TruthInv
  OBVIOUS
<1>1. Entries = {}
  BY DEF Init, Entries, Idle
<1>2. NoChain
  BY DEF NoChain, Init, StartingRevisions, Snapshot
<1> QED BY <1>1, <1>2, InitHonest DEF TruthInv, Told

(* With honest clients no interleaving of two transitions makes the log     *)
(* lie: an entry names the author and the status of its version, and the    *)
(* status that version replaced.                                            *)
THEOREM AuditIsTruthful ==
  ASSUME Lookahead = 0
  PROVE  Spec => []AuditTruthful
<1>1. Init => TruthInv
  BY InitTruth
<1>2. TruthInv /\ [Next]_vars => TruthInv'
  BY TruthKept
<1>3. TruthInv => AuditTruthful
  BY DEF TruthInv, Told, Truthful, Entries, AuditTruthful
<1> QED BY <1>1, <1>2, <1>3, PTL DEF Spec

-----------------------------------------------------------------------------
(* One story per record. *)

(* Two commits in one step are the commit of one request. *)
LEMMA OneCommit ==
  ASSUME TypeOK, NEW r \in Requests, NEW p \in Requests,
         CommitCreate(r) \/ CommitUpdate(r), CommitCreate(p) \/ CommitUpdate(p)
  PROVE  r = p
<1> SUFFICES ASSUME r # p PROVE FALSE
  OBVIOUS
<1>1. req'[r] = [req[r] EXCEPT !.pc = "audit"] /\ req[r].pc = "write"
  BY DEF CommitCreate, CommitUpdate, Goto, TypeOK
<1>2. req'[r] = req[r]
  BY DEF CommitCreate, CommitUpdate, Goto, TypeOK
<1> QED BY <1>1, <1>2 DEF TypeOK, RequestType

(* Entries are about records, and about versions that exist. *)
LEMMA EntryTypes ==
  ASSUME TypeOK, NEW e \in Entries
  PROVE  e.rec \in Records /\ e.version \in Nat \ {0}
<1>1. CASE e \in audit
  BY <1>1, MaxVersionAssumption DEF TypeOK, AuditType
<1>2. CASE e \notin audit
  <2>1. PICK p \in Requests : req[p].pc = "audit" /\ e = AuditEntry(req[p])
    BY <1>2 DEF Entries
  <2>2. req[p].item \in StoredRow /\ req[p].rec \in Records
    BY <2>1 DEF TypeOK, RequestShape
  <2> QED BY <2>1, <2>2, EntryFields, MaxVersionAssumption DEF StoredRow
<1> QED BY <1>1, <1>2

(* What a write does to its row, and what its entry will say of it. *)
LEMMA WriteTellsRow ==
  ASSUME HonestInv, NEW r \in Requests, CommitCreate(r) \/ CommitUpdate(r)
  PROVE  LET q == req[r]
             e == AuditEntry(q) IN
         /\ q.rec \in Records /\ e.rec = q.rec /\ e.action # "delete"
         /\ row' = [row EXCEPT ![q.rec] = q.item]
         /\ q.item.version = e.version /\ q.item.status = e.after
         /\ e.version = row[q.rec].version + 1 /\ row[q.rec].version \in Nat
         /\ row[q.rec].version # 0 => e.before = row[q.rec].status
<1> DEFINE q == req[r]
<1>1. CASE CommitCreate(r)
  <2>1. /\ q.rec \in Records /\ row[q.rec] = AbsentRow
        /\ row' = [row EXCEPT ![q.rec] = q.item]
        /\ \E c \in Contents : q.item = NewRow(c)
    BY <1>1, CreateIsAllowed
  <2>2. q.item.version = 1 /\ row[q.rec].version = 0
    BY <2>1 DEF NewRow, AbsentRow
  <2>3. q.op = "create"
    BY <1>1 DEF CommitCreate
  <2> HIDE DEF q
  <2> QED BY <2>1, <2>2, <2>3, EntryFields DEF q
<1>2. CASE CommitUpdate(r)
  <2>1. /\ Prepared(q, row[q.rec]) /\ q.rec \in Records /\ row[q.rec] \in StoredRow
        /\ row' = [row EXCEPT ![q.rec] = q.item]
    BY <1>2, CommitIsAllowed
  <2>2. q.item.version = row[q.rec].version + 1
    BY <2>1, PreparedEdit
  <2>3. q.before = row[q.rec].status /\ q.op # "delete"
    BY <2>1 DEF Prepared
  <2>4. row[q.rec].version \in Nat
    BY <2>1, MaxVersionAssumption DEF StoredRow
  <2> HIDE DEF q
  <2> QED BY <2>1, <2>2, <2>3, <2>4, EntryFields DEF q
<1> QED BY <1>1, <1>2

(* Version and status of a row stay together, or the version grows by one. *)
LEMMA RowSteps ==
  ASSUME HonestInv, [Next]_vars, NEW rec \in Records
  PROVE  \/ row'[rec].version = row[rec].version /\ row'[rec].status = row[rec].status
         \/ row'[rec].version = row[rec].version + 1
<1>0. row \in [Records -> Row]
  BY DEF HonestInv, ChainInv, TypeOK
<1>1. ASSUME NEW r \in Requests, CommitCreate(r) \/ CommitUpdate(r)
      PROVE  row'[rec] = row[rec] \/ row'[rec].version = row[rec].version + 1
  BY <1>0, <1>1, WriteTellsRow
<1>2. ASSUME NEW r \in Requests, CommitDelete(r)
      PROVE  row'[rec].version = row[rec].version /\ row'[rec].status = row[rec].status
  <2>1. row[req[r].rec] \in StoredRow
    BY <1>2, LiveIsStored DEF CommitDelete, HonestInv, ChainInv, TypeOK, RequestShape
  <2> QED BY <1>0, <1>2, <2>1 DEF CommitDelete, StoredRow
<1> QED BY <1>1, <1>2, WritingSteps

(* AuditTellsOneStory with the entries that are still owed. *)
Story ==
  \A e \in Entries : e.action # "delete" =>
    /\ e.version <= row[e.rec].version
    /\ e.version = row[e.rec].version => e.after = row[e.rec].status
    /\ \A f \in Entries : f.rec = e.rec /\ f.action # "delete" =>
         /\ f.version = e.version => f = e
         /\ f.version = e.version + 1 => f.before = e.after

StoryInv == HonestInv /\ Story

(* An entry about a write is known already, or about the next version of   *)
(* the row it is about.                                                    *)
LEMMA StoryGoesOn ==
  ASSUME HonestInv, [Next]_vars, NEW e \in Entries', e.action # "delete", e \notin Entries
  PROVE  \E r \in Requests : /\ CommitCreate(r) \/ CommitUpdate(r)
                             /\ e = AuditEntry(req[r])
<1>1. PICK r \in Requests : /\ CommitCreate(r) \/ CommitUpdate(r) \/ CommitDelete(r)
                            /\ e = AuditEntry(req[r])
  BY NewEntries DEF HonestInv, ChainInv
<1>2. ~CommitDelete(r)
  BY <1>1, EntryFields DEF CommitDelete
<1> QED BY <1>1, <1>2

LEMMA StoryKept ==
  ASSUME StoryInv, HonestInv', [Next]_vars
  PROVE  Story'
<1>1. \A rec \in Records : row[rec].version \in Nat
  BY MaxVersionAssumption DEF StoryInv, HonestInv, ChainInv, TypeOK, Row, StoredRow, AbsentRow
<1>2. ASSUME NEW e \in Entries', e.action # "delete", e \notin Entries
      PROVE  /\ e.rec \in Records /\ e.version = row[e.rec].version + 1
             /\ row'[e.rec].version = e.version /\ row'[e.rec].status = e.after
             /\ row[e.rec].version # 0 => e.before = row[e.rec].status
  <2>1. PICK r \in Requests : /\ CommitCreate(r) \/ CommitUpdate(r)
                              /\ e = AuditEntry(req[r])
    BY <1>2, StoryGoesOn DEF StoryInv
  <2>2. row \in [Records -> Row]
    BY DEF StoryInv, HonestInv, ChainInv, TypeOK
  <2> QED BY <2>1, <2>2, WriteTellsRow DEF StoryInv
<1>3. ASSUME NEW e \in Entries', e.action # "delete"
      PROVE  /\ e.rec \in Records /\ e.version \in Nat \ {0}
             /\ row[e.rec].version \in Nat
  <2>1. e \in Entries => e.rec \in Records /\ e.version \in Nat \ {0}
    BY EntryTypes DEF StoryInv, HonestInv, ChainInv
  <2> QED BY <1>1, <1>2, <1>3, <2>1
<1>4. ASSUME NEW e \in Entries', e.action # "delete"
      PROVE  /\ e.version <= row'[e.rec].version
             /\ e.version = row'[e.rec].version => e.after = row'[e.rec].status
  <2>1. CASE e \in Entries
    <3>1. /\ e.version <= row[e.rec].version
          /\ e.version = row[e.rec].version => e.after = row[e.rec].status
      BY <1>4, <2>1 DEF StoryInv, Story
    <3>2. \/ /\ row'[e.rec].version = row[e.rec].version
             /\ row'[e.rec].status = row[e.rec].status
          \/ row'[e.rec].version = row[e.rec].version + 1
      BY <1>3, <1>4, RowSteps DEF StoryInv
    <3> QED BY <1>3, <1>4, <3>1, <3>2
  <2>2. CASE e \notin Entries
    BY <1>3, <1>2, <1>4, <2>2
  <2> QED BY <2>1, <2>2
<1>5. ASSUME NEW e \in Entries', e.action # "delete",
             NEW f \in Entries', f.action # "delete", f.rec = e.rec
      PROVE  /\ f.version = e.version => f = e
             /\ f.version = e.version + 1 => f.before = e.after
  <2>1. CASE e \in Entries /\ f \in Entries
    BY <1>5, <2>1 DEF StoryInv, Story
  <2>2. CASE e \in Entries /\ f \notin Entries
    <3>1. /\ e.version <= row[e.rec].version
          /\ e.version = row[e.rec].version => e.after = row[e.rec].status
      BY <1>5, <2>2 DEF StoryInv, Story
    <3>2. /\ f.version = row[e.rec].version + 1
          /\ row[e.rec].version # 0 => f.before = row[e.rec].status
      BY <1>2, <1>5, <2>2
    <3> QED BY <1>3, <1>5, <3>1, <3>2
  <2>3. CASE e \notin Entries /\ f \in Entries
    <3>1. f.version <= row[e.rec].version
      BY <1>5, <2>3 DEF StoryInv, Story
    <3>2. e.version = row[e.rec].version + 1
      BY <1>2, <1>5, <2>3
    <3> QED BY <1>3, <1>5, <3>1, <3>2
  <2>4. CASE e \notin Entries /\ f \notin Entries
    <3>1. PICK r \in Requests : /\ CommitCreate(r) \/ CommitUpdate(r)
                                /\ e = AuditEntry(req[r])
      BY <1>5, <2>4, StoryGoesOn DEF StoryInv
    <3>2. PICK p \in Requests : /\ CommitCreate(p) \/ CommitUpdate(p)
                                /\ f = AuditEntry(req[p])
      BY <1>5, <2>4, StoryGoesOn DEF StoryInv
    <3>3. f = e
      BY <3>1, <3>2, OneCommit DEF StoryInv, HonestInv, ChainInv
    <3> QED BY <1>3, <1>5, <3>3
  <2> QED BY <2>1, <2>2, <2>3, <2>4
<1> QED BY <1>4, <1>5 DEF Story

(* With honest clients the entries about a record line up, however the     *)
(* appends interleave and whichever of them are lost: two that follow each  *)
(* other agree on the status between them, and the last agrees with the    *)
(* row.  No revision chain is needed for it.                               *)
THEOREM AuditIsOneStory ==
  ASSUME Lookahead = 0
  PROVE  Spec => []AuditTellsOneStory
<1>1. Init => StoryInv
  <2>1. Init => Entries = {}
    BY DEF Init, Entries, Idle
  <2> QED BY <2>1, InitHonest DEF StoryInv, Story
<1>2. StoryInv /\ [Next]_vars => StoryInv'
  BY HonestKept, StoryKept DEF StoryInv
<1>3. StoryInv => AuditTellsOneStory
  BY DEF StoryInv, Story, Entries, AuditTellsOneStory
<1> QED BY <1>1, <1>2, <1>3, PTL DEF Spec

-----------------------------------------------------------------------------
(* Completeness of the log while nothing fails. *)

(* Every change of status in the chain has its entry, stored or owed. *)
Reported ==
  \A x, y \in revs : Consecutive(x, y) /\ x.status # y.status =>
    \E e \in Entries : e.rec = y.rec /\ e.action = "transition" /\ e.version = y.version

ReportedInv == TruthInv /\ Reported

(* Without faults an entry that is owed is stored in the end, not dropped. *)
LEMMA EntriesStay ==
  ASSUME TypeOK, Faults = FALSE, [Next]_vars, NEW e \in Entries
  PROVE  e \in Entries'
<1>1. CASE e \in audit
  BY <1>1, AuditGrows DEF Entries
<1>2. ASSUME NEW p \in Requests, req[p].pc = "audit", e = AuditEntry(req[p])
      PROVE  e \in Entries'
  <2>1. CASE req'[p] = req[p]
    BY <1>2, <2>1 DEF Entries, AuditEntry
  <2>2. CASE req'[p] # req[p]
    <3>1. Client(p) \/ Server(p)
      BY <2>2, OnlyItselfMoves DEF LoseAudit, Fail
    <3>2. ~Client(p)
      BY <1>2, SubmittedRequest DEF Submit, Idle
    <3>3. AppendAudit(p)
      BY <1>2, <3>1, <3>2
         DEF Server, ReadForUpdate, ReadForTransition, ReadForDelete, Refuse, CommitCreate,
             CommitUpdate, CommitDelete, WriteRefused, Reget, Preload
    <3> QED BY <1>2, <3>3 DEF AppendAudit, Entries
  <2> QED BY <2>1, <2>2
<1> QED BY <1>1, <1>2 DEF Entries

(* A commit that changes the status of the last revision owes the entry    *)
(* that says so.                                                           *)
LEMMA CommitIsReported ==
  ASSUME HonestInv, HonestInv', Policy.versioned,
         NEW r \in Requests, CommitCreate(r) \/ CommitUpdate(r),
         NEW x \in revs', NEW y \in revs', x \notin revs \/ y \notin revs,
         Consecutive(x, y), x.status # y.status
  PROVE  \E e \in Entries' : e.rec = y.rec /\ e.action = "transition" /\ e.version = y.version
<1> DEFINE q == req[r]
           new == RevisionOf(q.rec, q.item, q.actor)
<1>1. /\ q.rec \in Records /\ q.item.version = row[q.rec].version + 1
      /\ row[q.rec].version \in Nat
  BY WriteTellsRow
<1>2. revs' = revs \cup {new}
  BY DEF CommitCreate, CommitUpdate, AppendRevision, Snapshot
<1>3. new.rec = q.rec /\ new.version = q.item.version /\ new.status = q.item.status
  BY DEF RevisionOf
<1>4. \A z \in revs : /\ z.version \in Nat \ {0} /\ z.version <= row[z.rec].version
                      /\ z.version = row[z.rec].version => z.status = row[z.rec].status
  BY MaxVersionAssumption DEF HonestInv, ChainInv, ChainComplete, TypeOK, Revision
<1> HIDE DEF new
<1>5. y = new /\ x \in revs
  BY <1>1, <1>2, <1>3, <1>4 DEF Consecutive
<1>6. x.rec = q.rec /\ x.version = row[q.rec].version
  BY <1>1, <1>3, <1>4, <1>5 DEF Consecutive
<1>7. q.item.status # row[q.rec].status /\ row[q.rec].version # 0
  BY <1>3, <1>4, <1>5, <1>6
<1>8. CommitUpdate(r)
  BY <1>7 DEF CommitCreate, CodeIsFree, AbsentRow
<1>9. q.op = "transition"
  BY <1>7, <1>8, CommitIsAllowed DEF Prepared, StoredRow
<1>10. req'[r].pc = "audit" /\ AuditEntry(req'[r]) = AuditEntry(q)
  BY DEF CommitCreate, CommitUpdate, Goto, HonestInv, ChainInv, TypeOK, RequestType, AuditEntry
<1>11. AuditEntry(q) \in Entries'
  BY <1>10 DEF Entries, AuditEntry
<1> QED BY <1>3, <1>5, <1>9, <1>11, EntryFields

LEMMA ReportedKept ==
  ASSUME Faults = FALSE, ReportedInv, HonestInv', [Next]_vars
  PROVE  Reported'
<1> SUFFICES ASSUME NEW x \in revs', NEW y \in revs', Consecutive(x, y), x.status # y.status
             PROVE  \E e \in Entries' :
                      e.rec = y.rec /\ e.action = "transition" /\ e.version = y.version
  BY DEF Reported, Consecutive
<1>1. CASE x \in revs /\ y \in revs
  BY <1>1, EntriesStay DEF ReportedInv, Reported, TruthInv, HonestInv, ChainInv
<1>2. CASE x \notin revs \/ y \notin revs
  <2>1. PICK r \in Requests : CommitCreate(r) \/ CommitUpdate(r)
    BY <1>2, WritingSteps DEF CommitDelete
  <2>2. Policy.versioned
    BY <1>2, <2>1 DEF CommitCreate, CommitUpdate, AppendRevision, Snapshot
  <2> QED BY <1>2, <2>1, <2>2, CommitIsReported DEF ReportedInv, TruthInv
<1> QED BY <1>1, <1>2

(* Without faults and with honest clients the log misses no change of       *)
(* status once everybody has been answered; the run audit_lost shows that   *)
(* it does with faults.                                                     *)
THEOREM TransitionsAreAudited ==
  ASSUME Lookahead = 0, Faults = FALSE
  PROVE  Spec => []EveryTransitionAudited
<1>1. Init => ReportedInv
  <2> SUFFICES ASSUME Init PROVE ReportedInv
    OBVIOUS
  <2>1. TruthInv
    BY InitTruth
  <2>2. \A x, y \in revs : ~Consecutive(x, y)
    BY VersionsStartAtOne DEF Consecutive
  <2> QED BY <2>1, <2>2 DEF ReportedInv, Reported
<1>2. ReportedInv /\ [Next]_vars => ReportedInv'
  BY TruthKept, ReportedKept DEF ReportedInv, TruthInv
<1>3. ReportedInv => EveryTransitionAudited
  <2> SUFFICES ASSUME ReportedInv, \A r \in Requests : req[r] = Idle
               PROVE  Entries = audit
    BY DEF ReportedInv, Reported, EveryTransitionAudited
  <2> QED BY DEF Entries, Idle
<1> QED BY <1>1, <1>2, <1>3, PTL DEF Spec

-----------------------------------------------------------------------------
(* Steps. *)

(* A record that has been removed is never written again, whatever clients *)
(* send and however late a write arrives.                                  *)
THEOREM TombstonesAreFinal == Spec => TombstonesFinal
<1> DEFINE Step == \A rec \in Records : row[rec].phase = "deleted" => row'[rec] = row[rec]
<1>1. TypeOK /\ [Next]_vars => [Step]_vars
  <2> SUFFICES ASSUME TypeOK, [Next]_vars, NEW rec \in Records, row[rec].phase = "deleted"
               PROVE  row'[rec] = row[rec]
    OBVIOUS
  <2>1. ASSUME NEW r \in Requests, CommitCreate(r) PROVE row'[rec] = row[rec]
    <3>1. row[req[r].rec].phase = "absent"
      BY <2>1 DEF CommitCreate, CodeIsFree, AbsentRow
    <3> QED BY <2>1, <3>1 DEF CommitCreate, TypeOK
  <2>2. ASSUME NEW r \in Requests, CommitUpdate(r) \/ CommitDelete(r)
        PROVE  row'[rec] = row[rec]
    <3>1. row[req[r].rec].phase = "live"
      BY <2>2 DEF CommitUpdate, CommitDelete, VersionMatches, Found
    <3> QED BY <2>2, <3>1 DEF CommitUpdate, CommitDelete, TypeOK
  <2> QED BY <2>1, <2>2, WritingSteps
<1> QED BY <1>1, TypeCorrect, PTL DEF Spec, TombstonesFinal

(* Whoever enters or leaves a reviewed status may review, for the kinds    *)
(* with and without a chain.                                               *)
THEOREM ReviewGateHolds ==
  ASSUME Lookahead = 0
  PROVE  Spec => ReviewGate
<1> DEFINE Guarded(rec) ==
      /\ row[rec].phase = "live"
      /\ row[rec].status # row'[rec].status
      /\ ReviewedChange(row[rec].status, row'[rec].status)
      => \E r \in Requests : /\ req[r].rec = rec /\ req[r].pc = "write"
                             /\ req'[r].pc = "audit" /\ MayReview(req[r].actor)
<1>1. HonestInv /\ [Next]_vars => [\A rec \in Records : Guarded(rec)]_vars
  <2> SUFFICES ASSUME HonestInv, [Next]_vars, NEW rec \in Records,
                      row[rec].phase = "live", row[rec].status # row'[rec].status,
                      ReviewedChange(row[rec].status, row'[rec].status)
               PROVE  \E r \in Requests : /\ req[r].rec = rec /\ req[r].pc = "write"
                                          /\ req'[r].pc = "audit" /\ MayReview(req[r].actor)
    OBVIOUS
  <2>0. row \in [Records -> Row] /\ req \in [Requests -> RequestType]
    BY DEF HonestInv, ChainInv, TypeOK
  <2>1. ASSUME NEW r \in Requests, CommitCreate(r) PROVE FALSE
    <3>1. row[req[r].rec].phase = "absent"
      BY <2>1 DEF CommitCreate, CodeIsFree, AbsentRow
    <3> QED BY <2>0, <2>1, <3>1 DEF CommitCreate
  <2>2. ASSUME NEW r \in Requests, CommitDelete(r) PROVE FALSE
    <3>1. row[req[r].rec] \in StoredRow /\ req[r].rec \in Records
      BY <2>2, LiveIsStored DEF CommitDelete, HonestInv, ChainInv, TypeOK, RequestShape
    <3> QED BY <2>0, <2>2, <3>1 DEF CommitDelete, StoredRow
  <2>3. ASSUME NEW r \in Requests, CommitUpdate(r)
        PROVE  /\ req[r].rec = rec /\ req[r].pc = "write"
               /\ req'[r].pc = "audit" /\ MayReview(req[r].actor)
    <3>1. /\ Prepared(req[r], row[req[r].rec]) /\ row[req[r].rec] \in StoredRow
          /\ row' = [row EXCEPT ![req[r].rec] = req[r].item] /\ req[r].rec \in Records
      BY <2>3, CommitIsAllowed
    <3>2. req[r].rec = rec /\ row'[rec] = req[r].item
      BY <2>0, <3>1
    <3>3. MayReview(req[r].actor)
      BY <3>1, <3>2, PreparedEdit
    <3>4. req[r].pc = "write" /\ req'[r].pc = "audit"
      BY <2>0, <2>3 DEF CommitUpdate, Goto, RequestType
    <3> QED BY <3>2, <3>3, <3>4
  <2> QED BY <2>1, <2>2, <2>3, WritingSteps
<1> QED BY <1>1, HonestInvariant, PTL DEF Spec, ReviewGate

-----------------------------------------------------------------------------
(* Implementation of the abstract record. *)

(* The abstract module sees the same rows and revisions. *)
LEMMA SameRows ==
  /\ Promise!AbsentRow = AbsentRow
  /\ Promise!Statuses = Statuses
  /\ \A c : Promise!NewRow(c) = NewRow(c)
  /\ \A rec, item, actor : Promise!Snapshot(rec, item, actor) = Snapshot(rec, item, actor)
BY DEF Promise!AbsentRow, AbsentRow, Promise!NewRow, NewRow, Promise!Snapshot, Snapshot,
       Promise!RevisionOf, RevisionOf, Promise!Statuses, Statuses

LEMMA InitPromise == Init => Promise!Init
<1>1. Promise!StartingRow = StartingRow
  BY SameRows DEF Promise!StartingRow, StartingRow, Promise!SeedRow, SeedRow
<1>2. Promise!StartingRevisions(row) = StartingRevisions(row)
  BY SameRows DEF Promise!StartingRevisions, StartingRevisions
<1> QED BY <1>1, <1>2 DEF Init, Promise!Init

LEMMA StepPromise ==
  ASSUME HonestInv, [Next]_vars
  PROVE  [Promise!Next]_<<row, revs>>
<1>1. ASSUME NEW r \in Requests, CommitCreate(r) PROVE Promise!Next
  <2> DEFINE q == req[r]
  <2>1. PICK c \in Contents : q.item = NewRow(c)
    BY <1>1, CreateIsAllowed
  <2>2. Promise!Create(q.rec, q.actor, c)
    BY <1>1, <2>1, CreateIsAllowed, SameRows DEF Promise!Create, Promise!Write
  <2>3. q.rec \in Records /\ q.actor \in Actors
    BY <1>1, CreateIsAllowed
  <2> QED BY <2>2, <2>3 DEF Promise!Next
<1>2. ASSUME NEW r \in Requests, CommitUpdate(r) PROVE Promise!Next
  <2> DEFINE q == req[r]
             current == row[q.rec]
  <2>1. /\ Prepared(q, current) /\ q.rec \in Records /\ q.actor \in Actors
        /\ current \in StoredRow /\ current.phase = "live"
        /\ row' = [row EXCEPT ![q.rec] = q.item]
        /\ revs' = revs \cup Snapshot(q.rec, q.item, q.actor)
    BY <1>2, CommitIsAllowed
  <2>2. Promise!Write(q.rec, q.item, q.actor)
    BY <2>1, SameRows DEF Promise!Write
  <2>3. CASE UpdateAllowed(current)
             /\ \E c \in Contents :
                  q.item = [current EXCEPT !.content = c, !.version = current.version + 1]
    <3>1. PICK c \in Contents :
            q.item = [current EXCEPT !.content = c, !.version = current.version + 1]
      BY <2>3
    <3>2. Promise!Update(q.rec, q.actor, c)
      BY <2>1, <2>2, <2>3, <3>1 DEF Promise!Update, UpdateAllowed
    <3> QED BY <2>1, <3>2 DEF Promise!Next
  <2>4. CASE /\ TransitionAllowed(current, q.target, q.actor) /\ q.target \in Statuses
             /\ q.item = [current EXCEPT !.status = q.target, !.version = current.version + 1]
    <3>1. Promise!Transition(q.rec, q.actor, q.target)
      BY <2>1, <2>2, <2>4
         DEF Promise!Transition, TransitionAllowed, Promise!CanTransition, CanTransition,
             Promise!ReviewedChange, ReviewedChange, Promise!MayReview, MayReview
    <3> QED BY <2>1, <2>4, <3>1, SameRows DEF Promise!Next
  <2> QED BY <2>1, <2>3, <2>4 DEF Prepared
<1>3. ASSUME NEW r \in Requests, CommitDelete(r) PROVE Promise!Next
  <2>1. req[r].rec \in Records
    BY <1>3 DEF CommitDelete, HonestInv, ChainInv, TypeOK, RequestShape
  <2>2. Promise!Delete(req[r].rec)
    BY <1>3 DEF CommitDelete, Found, Promise!Delete
  <2> QED BY <2>1, <2>2 DEF Promise!Next
<1> QED BY <1>1, <1>2, <1>3, WritingSteps

(* With honest clients every behaviour of the service, failures included,   *)
(* is a behaviour of the abstract record.                                   *)
THEOREM ServiceKeepsPromise ==
  ASSUME Lookahead = 0
  PROVE  Spec => KeepsPromise
<1>1. HonestInv /\ [Next]_vars => [Promise!Next]_(Promise!vars)
  BY StepPromise DEF Promise!vars
<1> QED BY <1>1, InitPromise, HonestInvariant, PTL DEF Spec, KeepsPromise, Promise!Spec
=============================================================================
