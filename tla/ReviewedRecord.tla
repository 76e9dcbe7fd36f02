--------------------------- MODULE ReviewedRecord ---------------------------
(***************************************************************************)
(* What one kind of record promises its callers: every operation looks at  *)
(* the record as it is NOW, decides, and changes record and revision chain *)
(* in one indivisible step.  There is no request, no stale copy and no     *)
(* version to send.  AggregateService is shown to implement it.            *)
(*                                                                         *)
(* Removal is promised only weakly: any live record may disappear.  The    *)
(* code checks the status of a copy and then deletes by id alone, so a     *)
(* stronger promise is not kept (see RemovalsRespectStatus).               *)
(***************************************************************************)
EXTENDS RecordTypes

VARIABLES
  row,     \* the table: one row per code
  ledger   \* the revisions, append-only

vars == <<row, ledger>>

Init ==
  /\ row \in [Records -> StartingRow]
  /\ ledger = StartingRevisions(row)

Write(rec, item, actor) ==
  /\ row' = [row EXCEPT ![rec] = item]
  /\ ledger' = ledger \cup Snapshot(rec, item, actor)

Create(rec, actor, content) ==
  /\ row[rec] = AbsentRow
  /\ Write(rec, NewRow(content), actor)

Update(rec, actor, content) ==
  /\ row[rec].phase = "live"
  /\ row[rec].status \notin Policy.sealed
  /\ Write(rec, [row[rec] EXCEPT !.content = content, !.version = @ + 1], actor)

Transition(rec, actor, target) ==
  /\ row[rec].phase = "live"
  /\ CanTransition(Policy.graph, row[rec].status, target)
  /\ ReviewedChange(row[rec].status, target) => MayReview(actor)
  /\ Write(rec, [row[rec] EXCEPT !.status = target, !.version = @ + 1], actor)

Delete(rec) ==
  /\ row[rec].phase = "live"
  /\ row' = [row EXCEPT ![rec].phase = "deleted"]
  /\ UNCHANGED ledger

Next ==
  \E rec \in Records :
    \/ \E actor \in Actors, content \in Contents :
         Create(rec, actor, content) \/ Update(rec, actor, content)
    \/ \E actor \in Actors, target \in Statuses : Transition(rec, actor, target)
    \/ Delete(rec)

Spec == Init /\ [][Next]_vars
=============================================================================
