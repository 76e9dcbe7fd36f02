-------------------------- MODULE AggregateService --------------------------
(***************************************************************************)
(* One kind of record behind its handler, service and repository.          *)
(*                                                                         *)
(* A request is a goroutine.  It reads the record, decides on the copy it  *)
(* read, writes with a compare-and-set on the version the CLIENT sent,     *)
(* appends an audit entry in a separate statement and reads the record     *)
(* again for its answer.  Every database call is one step here, so the     *)
(* steps of the requests interleave as the database allows; record and     *)
(* revision are written by one transaction and hence by one step.          *)
(***************************************************************************)
EXTENDS RecordTypes

CONSTANTS
  Requests,   \* slots for concurrent requests
  Ops,        \* the operations clients issue, a subset of the five below
  Lookahead,  \* how far the expectedVersion of a client may lie ahead of the
              \* version committed when it submits; 0: it sends what it has read
  Faults      \* TRUE: database calls may fail and clients may disconnect

VARIABLES
  row,    \* the table
  revs,   \* the revision table
  audit,  \* the audit log; version links an entry to the write it is about,
          \* as the request id shared by both does
  req     \* the requests in progress

vars == <<row, revs, audit, req>>

Idle ==
  [pc |-> "idle", op |-> "none", rec |-> None, actor |-> None, expect |-> 0,
   target |-> None, content |-> None, item |-> AbsentRow, before |-> None]

Init ==
  /\ row \in [Records -> StartingRow]
  /\ revs = StartingRevisions(row)
  /\ audit = {}
  /\ req = [r \in Requests |-> Idle]

Found(rec) == row[rec].phase = "live"

Goto(r, pc) == req' = [req EXCEPT ![r].pc = pc]

Finish(r) == req' = [req EXCEPT ![r] = Idle]

-----------------------------------------------------------------------------
(* Requests arrive: the route admits the caller and the handler binds the  *)
(* input.  A client names a record it has seen and, but for Lookahead, a   *)
(* version it has seen.                                                    *)

Submit(r, request) ==
  /\ req[r] = Idle
  /\ req' = [req EXCEPT ![r] = request]
  /\ UNCHANGED <<row, revs, audit>>

Seen == {rec \in Records : row[rec] # AbsentRow}

Expectations(rec) == {v \in 1..(MaxVersion - 1) : v <= row[rec].version + Lookahead}

SubmitCreate(r) ==
  /\ "create" \in Ops
  /\ \E rec \in Records, actor \in Actors \cap Policy.writers, c \in Contents :
       Submit(r, [Idle EXCEPT !.pc = "write", !.op = "create", !.rec = rec,
                              !.actor = actor, !.item = NewRow(c)])

SubmitUpdate(r) ==
  /\ "update" \in Ops
  /\ \E rec \in Seen, actor \in Actors \cap Policy.writers, c \in Contents :
       \E v \in Expectations(rec) :
         Submit(r, [Idle EXCEPT !.pc = "read", !.op = "update", !.rec = rec,
                                !.actor = actor, !.expect = v, !.content = c])

SubmitTransition(r) ==
  /\ "transition" \in Ops
  /\ \E rec \in Seen, actor \in Actors \cap Policy.writers, target \in Statuses :
       \E v \in Expectations(rec) :
         Submit(r, [Idle EXCEPT !.pc = "read", !.op = "transition", !.rec = rec,
                                !.actor = actor, !.expect = v, !.target = target])

SubmitDelete(r) ==
  /\ "delete" \in Ops
  /\ \E rec \in Seen, actor \in Actors \cap Policy.removers :
       Submit(r, [Idle EXCEPT !.pc = "read", !.op = "delete", !.rec = rec, !.actor = actor])

SubmitDetail(r) ==
  /\ "detail" \in Ops
  /\ \E rec \in Seen :
       Submit(r, [Idle EXCEPT !.pc = "reget", !.op = "detail", !.rec = rec])

-----------------------------------------------------------------------------
(* The services decide on the copy of the record they have just read and   *)
(* keep the edited copy for the write.                                     *)

(* Mutant: the seal is left to the transition graph. *)
SealForgotten(current) == TRUE

UpdateAllowed(current) == current.status \notin Policy.sealed

(* Mutant: only entering a reviewed status asks for a reviewer. *)
GateOnEntryOnly(current, target, actor) ==
  /\ target \in Policy.reviewed => MayReview(actor)
  /\ CanTransition(Policy.graph, current.status, target)

TransitionAllowed(current, target, actor) ==
  /\ ReviewedChange(current.status, target) => MayReview(actor)
  /\ CanTransition(Policy.graph, current.status, target)

(* Mutant: what may be edited may be removed. *)
RemovalUnsealed(current) == current.status \notin Policy.sealed

DeleteAllowed(current) == current.status \in Policy.removable

(* Mutant: service and model hook both count the write. *)
VersionCountedTwice(expect) == expect + 2

NextVersion(expect) == expect + 1

Keep(r, current, edited) ==
  /\ req' = [req EXCEPT ![r].pc = "write", ![r].item = edited, ![r].before = current.status]
  /\ UNCHANGED <<row, revs, audit>>

ReadForUpdate(r) ==
  LET q == req[r]
      current == row[q.rec] IN
  /\ q.pc = "read" /\ q.op = "update"
  /\ Found(q.rec)
  /\ UpdateAllowed(current)
  /\ Keep(r, current, [current EXCEPT !.content = q.content, !.version = NextVersion(q.expect)])

ReadForTransition(r) ==
  LET q == req[r]
      current == row[q.rec] IN
  /\ q.pc = "read" /\ q.op = "transition"
  /\ Found(q.rec)
  /\ TransitionAllowed(current, q.target, q.actor)
  /\ Keep(r, current, [current EXCEPT !.status = q.target, !.version = NextVersion(q.expect)])

ReadForDelete(r) ==
  LET q == req[r]
      current == row[q.rec] IN
  /\ q.pc = "read" /\ q.op = "delete"
  /\ Found(q.rec)
  /\ DeleteAllowed(current)
  /\ Keep(r, current, current)

(* Not found, locked, forbidden or an invalid transition: the early returns. *)
Refuse(r) ==
  LET q == req[r]
      current == row[q.rec] IN
  /\ q.pc = "read"
  /\ \/ ~Found(q.rec)
     \/ q.op = "update" /\ ~UpdateAllowed(current)
     \/ q.op = "transition" /\ ~TransitionAllowed(current, q.target, q.actor)
     \/ q.op = "delete" /\ ~DeleteAllowed(current)
  /\ Finish(r)
  /\ UNCHANGED <<row, revs, audit>>

-----------------------------------------------------------------------------
(* The repositories write. *)

CodeIsFree(rec) == row[rec] = AbsentRow

(* Mutants: the version is not compared; the soft-deleted rows are not left out. *)
VersionIgnored(rec, expect) == Found(rec)
DeletedStillMatch(rec, expect) == row[rec].version = expect

(* WHERE id = ? AND version = ?, to which gorm adds deleted_at IS NULL. *)
VersionMatches(rec, expect) == Found(rec) /\ row[rec].version = expect

(* The unique index of the revision table on (record, version). *)
RevisionIsFree(rec, version) ==
  \A revision \in revs : revision.rec = rec => revision.version # version

(* Mutant: an edit is not thought worth a revision. *)
RevisionOfTransitionsOnly(q) ==
  revs' = IF q.op = "update" THEN revs ELSE revs \cup Snapshot(q.rec, q.item, q.actor)

AppendRevision(q) == revs' = revs \cup Snapshot(q.rec, q.item, q.actor)

CommitCreate(r) ==
  LET q == req[r] IN
  /\ q.pc = "write" /\ q.op = "create"
  /\ CodeIsFree(q.rec)
  /\ RevisionIsFree(q.rec, q.item.version)
  /\ row' = [row EXCEPT ![q.rec] = q.item]
  /\ AppendRevision(q)
  /\ Goto(r, "audit")
  /\ UNCHANGED audit

(* Mutant: a conflict is resolved by writing the copy over the newer version. *)
CommitOverConflict(r) ==
  LET q == req[r]
      item == [q.item EXCEPT !.version = row[q.rec].version + 1] IN
  /\ q.pc = "write" /\ q.op \in {"update", "transition"}
  /\ Found(q.rec) /\ row[q.rec].version < MaxVersion
  /\ row' = [row EXCEPT ![q.rec] = item]
  /\ AppendRevision([q EXCEPT !.item = item])
  /\ Goto(r, "audit")
  /\ UNCHANGED audit

CommitUpdate(r) ==
  LET q == req[r] IN
  /\ q.pc = "write" /\ q.op \in {"update", "transition"}
  /\ VersionMatches(q.rec, q.expect)
  /\ RevisionIsFree(q.rec, q.item.version)
  /\ row' = [row EXCEPT ![q.rec] = q.item]
  /\ AppendRevision(q)
  /\ Goto(r, "audit")
  /\ UNCHANGED audit

(* Mutant: the row is removed for good and its code becomes free. *)
HardDelete(r) ==
  LET q == req[r] IN
  /\ q.pc = "write" /\ q.op = "delete"
  /\ Found(q.rec)
  /\ row' = [row EXCEPT ![q.rec] = AbsentRow]
  /\ Goto(r, "audit")
  /\ UNCHANGED <<revs, audit>>

(* The soft delete names the id only: neither the version nor the status of *)
(* the copy the service checked is part of its condition.                   *)
CommitDelete(r) ==
  LET q == req[r] IN
  /\ q.pc = "write" /\ q.op = "delete"
  /\ Found(q.rec)
  /\ row' = [row EXCEPT ![q.rec].phase = "deleted"]
  /\ Goto(r, "audit")
  /\ UNCHANGED <<revs, audit>>

(* Mutant: a conflict sends the service back to its read, with the same version. *)
ConflictReadsAgain(r) ==
  LET q == req[r] IN
  /\ q.pc = "write" /\ q.op \in {"update", "transition"}
  /\ ~VersionMatches(q.rec, q.expect)
  /\ Goto(r, "read")
  /\ UNCHANGED <<row, revs, audit>>

(* No row matched or an index refused the insert: nothing is written. *)
WriteRefused(r) ==
  LET q == req[r] IN
  /\ q.pc = "write"
  /\ \/ q.op = "create" /\ ~(CodeIsFree(q.rec) /\ RevisionIsFree(q.rec, q.item.version))
     \/ /\ q.op \in {"update", "transition"}
        /\ ~(VersionMatches(q.rec, q.expect) /\ RevisionIsFree(q.rec, q.item.version))
     \/ q.op = "delete" /\ ~Found(q.rec)
  /\ Finish(r)
  /\ UNCHANGED <<row, revs, audit>>

-----------------------------------------------------------------------------
(* The audit entry and the answer. *)

(* Mutant: the state before is taken after the copy has been edited. *)
BeforeTakenLate(q) ==
  [rec |-> q.rec, action |-> q.op, actor |-> q.actor, version |-> q.item.version,
   before |-> q.item.status,
   after |-> IF q.op = "delete" THEN "deleted" ELSE q.item.status]

AuditEntry(q) ==
  [rec |-> q.rec, action |-> q.op, actor |-> q.actor, version |-> q.item.version,
   before |-> q.before,
   after |-> IF q.op = "delete" THEN "deleted" ELSE q.item.status]

ReadsAgain(q) == q.op \in {"update", "transition"}

(* Mutant: one entry per record and action is taken for enough. *)
AppendAuditOnce(r) ==
  /\ req[r].pc = "audit"
  /\ audit' = IF \E e \in audit : e.rec = req[r].rec /\ e.action = req[r].op
              THEN audit ELSE audit \cup {AuditEntry(req[r])}
  /\ IF ReadsAgain(req[r]) THEN Goto(r, "reget") ELSE Finish(r)
  /\ UNCHANGED <<row, revs>>

AppendAudit(r) ==
  /\ req[r].pc = "audit"
  /\ audit' = audit \cup {AuditEntry(req[r])}
  /\ IF ReadsAgain(req[r]) THEN Goto(r, "reget") ELSE Finish(r)
  /\ UNCHANGED <<row, revs>>

(* Mutant: Transition, too, drops the error of the audit. *)
AuditErrorDropped(r) ==
  /\ Faults
  /\ req[r].pc = "audit"
  /\ IF ReadsAgain(req[r]) THEN Goto(r, "reget") ELSE Finish(r)
  /\ UNCHANGED <<row, revs, audit>>

(* Create and Update drop the error of the audit and answer as if nothing *)
(* had happened; Transition and Delete answer 500.                        *)
LoseAudit(r) ==
  /\ Faults
  /\ req[r].pc = "audit"
  /\ IF req[r].op = "update" THEN Goto(r, "reget") ELSE Finish(r)
  /\ UNCHANGED <<row, revs, audit>>

(* The first query of Get; the kinds with a chain need a second one. *)
Reget(r) ==
  LET q == req[r] IN
  /\ q.pc = "reget"
  /\ IF Found(q.rec) /\ Policy.versioned
     THEN req' = [req EXCEPT ![r].pc = "preload", ![r].item = row[q.rec]]
     ELSE Finish(r)
  /\ UNCHANGED <<row, revs, audit>>

(* The second query of Get reads the chain, then the request is answered. *)
Preload(r) ==
  /\ req[r].pc = "preload"
  /\ Finish(r)
  /\ UNCHANGED <<row, revs, audit>>

(* A database error, a client that disconnects (its context is cancelled) *)
(* or the end of the process, at any point of the request.                *)
Fail(r) ==
  /\ Faults
  /\ req[r].pc # "idle"
  /\ Finish(r)
  /\ UNCHANGED <<row, revs, audit>>

-----------------------------------------------------------------------------
Client(r) ==
  \/ SubmitCreate(r) \/ SubmitUpdate(r) \/ SubmitTransition(r)
  \/ SubmitDelete(r) \/ SubmitDetail(r)

Server(r) ==
  \/ ReadForUpdate(r) \/ ReadForTransition(r) \/ ReadForDelete(r) \/ Refuse(r)
  \/ CommitCreate(r) \/ CommitUpdate(r) \/ CommitDelete(r) \/ WriteRefused(r)
  \/ AppendAudit(r) \/ Reget(r) \/ Preload(r)

Next == \E r \in Requests : Client(r) \/ Server(r) \/ LoseAudit(r) \/ Fail(r)

Spec == Init /\ [][Next]_vars

(* Every goroutine gets on; no client is obliged to send anything. *)
FairSpec == Spec /\ \A r \in Requests : WF_vars(Server(r))
=============================================================================
