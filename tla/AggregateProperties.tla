------------------------- MODULE AggregateProperties -------------------------
(***************************************************************************)
(* What the service of one kind of record must guarantee, whatever the     *)
(* interleaving of its requests.                                           *)
(***************************************************************************)
EXTENDS AggregateService

(* Types of the tables and of the requests. *)
AuditType ==
  [rec : Records, action : {"create", "update", "transition", "delete"}, actor : Actors,
   version : 1..MaxVersion, before : Statuses \cup {None}, after : Statuses \cup {"deleted"}]

RequestType ==
  [pc : {"idle", "read", "write", "audit", "reget", "preload"},
   op : {"create", "update", "transition", "delete", "detail", "none"},
   rec : Records \cup {None}, actor : Actors \cup {None}, expect : 0..(MaxVersion - 1),
   target : Statuses \cup {None}, content : Contents \cup {None},
   item : Row, before : Statuses \cup {None}]

(* A request that has begun names its operation and its record, one that  *)
(* writes holds a complete row and its caller.                            *)
RequestShape(q) ==
  /\ q.pc # "idle" => q.op # "none" /\ q.rec \in Records
  /\ q.pc \in {"read", "write", "audit"} => q.op # "detail" /\ q.actor \in Actors
  /\ q.pc \in {"write", "audit"} => q.item \in StoredRow /\ q.item.phase = "live"
  /\ q.pc = "read" /\ q.op = "update" => q.content \in Contents
  /\ q.pc = "read" /\ q.op = "transition" => q.target \in Statuses
  /\ q.pc = "read" => q.op # "create"

(* Type invariant: rows, revisions, audit entries and requests are what *)
(* the tables and the goroutines can hold.                              *)
TypeOK ==
  /\ row \in [Records -> Row]
  /\ revs \subseteq Revision
  /\ audit \subseteq AuditType
  /\ req \in [Requests -> RequestType]
  /\ \A r \in Requests : RequestShape(req[r])

-----------------------------------------------------------------------------
(* The revision chain. *)

(* Two revisions of one record with consecutive versions. *)
Consecutive(x, y) == x.rec = y.rec /\ y.version = x.version + 1

(* The chain of every record has one revision for each version up to the   *)
(* version of the row, none beyond, and its last one is what the row holds: *)
(* no write is lost, doubled or half done, whatever clients send.           *)
ChainComplete ==
  Policy.versioned =>
    /\ \A x, y \in revs : x.rec = y.rec /\ x.version = y.version => x = y
    /\ \A x \in revs : x.version <= row[x.rec].version
    /\ \A rec \in Records : \A v \in 1..row[rec].version :
         \E x \in revs : x.rec = rec /\ x.version = v
    /\ \A x \in revs :
         x.version = row[x.rec].version =>
           x.status = row[x.rec].status /\ x.content = row[x.rec].content

(* From one revision to the next either the status follows an edge of the  *)
(* graph and the content stays, or the content is edited and the status    *)
(* stays: a write never carries back what another write has changed.       *)
ChainLegal ==
  \A x, y \in revs : Consecutive(x, y) =>
    \/ y.status = x.status
    \/ CanTransition(Policy.graph, x.status, y.status) /\ y.content = x.content

(* A reviewed status is entered or left only by a revision whose author    *)
(* may review, however the requests of operators interleave with it.       *)
ChainReviewed ==
  \A x, y \in revs :
    Consecutive(x, y) /\ x.status # y.status /\ ReviewedChange(x.status, y.status)
      => MayReview(y.actor)

(* The evidence of a sealed decision is never overwritten: the revision    *)
(* after a sealed one changes the status and carries the content over.     *)
ChainSealed ==
  \A x, y \in revs :
    Consecutive(x, y) /\ x.status \in Policy.sealed
      => y.status # x.status /\ y.content = x.content

-----------------------------------------------------------------------------
(* The audit log. *)

(* An audit entry tells what its write did: author and status agree with   *)
(* the revision of that version, and the state it claims to have left is   *)
(* the one of the revision before.                                         *)
AuditTruthful ==
  \A e \in audit, x \in revs :
    e.rec = x.rec /\ e.action \in {"update", "transition"} =>
      /\ e.version = x.version => e.after = x.status /\ e.actor = x.actor
      /\ e.version = x.version + 1 => e.before = x.status

(* The entries about one record tell one story, for the kinds without a    *)
(* chain, too: no version has two of them, each begins where the one about *)
(* the version before ended, and the last one ends where the row is.       *)
AuditTellsOneStory ==
  \A e \in audit : e.action # "delete" =>
    /\ e.version <= row[e.rec].version
    /\ e.version = row[e.rec].version => e.after = row[e.rec].status
    /\ \A f \in audit : f.rec = e.rec /\ f.action # "delete" =>
         /\ f.version = e.version => f = e
         /\ f.version = e.version + 1 => f.before = e.after

(* A transition is answered with success only once its audit entry is      *)
(* stored, whatever fails on the way.                                      *)
TransitionAnswerAudited ==
  \A r \in Requests :
    req[r].pc = "reget" /\ req[r].op = "transition" =>
      \E e \in audit : /\ e.rec = req[r].rec /\ e.action = "transition"
                       /\ e.version = req[r].item.version /\ e.after = req[r].target

(* Whatever a removal met when it was executed, it had been decided on a   *)
(* state that allowed it: a removed record has a revision in a removable   *)
(* status, and the entry about the removal names that very revision.       *)
RemovalsWereAllowed ==
  Policy.versioned =>
    /\ \A rec \in Records : row[rec].phase = "deleted" =>
         \E x \in revs : x.rec = rec /\ x.status \in Policy.removable
    /\ \A e \in audit : e.action = "delete" =>
         \E x \in revs : /\ x.rec = e.rec /\ x.version = e.version
                         /\ x.status = e.before /\ e.before \in Policy.removable

-----------------------------------------------------------------------------
(* Steps. *)

(* A reviewed status is entered or left only by the write of a request     *)
(* whose caller may review; for the kinds without a chain, too.            *)
ReviewGate ==
  [][\A rec \in Records :
       /\ row[rec].phase = "live"
       /\ row[rec].status # row'[rec].status
       /\ ReviewedChange(row[rec].status, row'[rec].status)
       => \E r \in Requests : /\ req[r].rec = rec /\ req[r].pc = "write"
                              /\ req'[r].pc = "audit" /\ MayReview(req[r].actor)]_vars

(* A removed record stays as it was removed: no late write of a request    *)
(* that had read it before changes it, and no create takes its code again. *)
TombstonesFinal ==
  [][\A rec \in Records : row[rec].phase = "deleted" => row'[rec] = row[rec]]_vars

(* A record leaves the table only in a status in which removal is allowed. *)
RemovalsRespectStatus ==
  [][\A rec \in Records :
       row[rec].phase = "live" /\ row'[rec].phase = "deleted"
         => row[rec].status \in Policy.removable]_vars

-----------------------------------------------------------------------------
(* Reading. *)

(* The chain an answer shows contains the revision of the record it shows, *)
(* although record and chain are read by two separate queries.             *)
DetailMatchesChain ==
  \A r \in Requests :
    req[r].pc = "preload" =>
      \E x \in revs : x.rec = req[r].rec /\ RevisionOf(x.rec, req[r].item, x.actor) = x

-----------------------------------------------------------------------------
(* Completion. *)

(* Once nobody is at work, every change of status has its audit entry. *)
EveryTransitionAudited ==
  (\A r \in Requests : req[r] = Idle) =>
    \A x, y \in revs : Consecutive(x, y) /\ x.status # y.status =>
      \E e \in audit : e.rec = y.rec /\ e.action = "transition" /\ e.version = y.version

(* Every request is answered. *)
RequestsAnswered == \A r \in Requests : req[r].pc # "idle" ~> req[r].pc = "idle"

(* A change of status that has been committed reaches the audit log. *)
TransitionsGetAudited ==
  \A rec \in Records, v \in 1..MaxVersion :
    (\E x, y \in revs : Consecutive(x, y) /\ y.rec = rec /\ y.version = v /\ x.status # y.status)
      ~> (\E e \in audit : e.rec = rec /\ e.action = "transition" /\ e.version = v)

-----------------------------------------------------------------------------
(* The service implements the abstract record. *)
Promise == INSTANCE ReviewedRecord WITH ledger <- revs

(* Every step of the service is one atomic operation of the abstract       *)
(* record, or changes nothing it shows.                                    *)
KeepsPromise == Promise!Spec
=============================================================================
