---------------------------- MODULE RecordTypes -----------------------------
(***************************************************************************)
(* What the abstract and the detailed specification of one kind of record  *)
(* share: the constants, the rows of its table and the rows of its         *)
(* revision table.                                                         *)
(***************************************************************************)
EXTENDS Naturals

CONSTANTS
  Policy,      \* the rules of the kind, a policy of module Policies
  Records,     \* the codes; the unique index makes a code name one row for ever
  Actors,      \* the users; the seeded user of each role is named after its role
  Contents,    \* the business fields a revision snapshots, as one opaque value
  MaxVersion,  \* bound: clients stop writing to a record at this version
  None         \* "no value"

Statuses == DOMAIN Policy.graph

ASSUME PolicyAssumption ==
  /\ Policy.initial \in Statuses
  /\ \A s \in Statuses : Policy.graph[s] \subseteq Statuses \ {s}
  /\ Policy.seeds \subseteq Statuses
  /\ Policy.versioned \in BOOLEAN

ASSUME MaxVersionAssumption == MaxVersion \in Nat \ {0}

CanTransition(graph, from, to) == from \in DOMAIN graph /\ to \in graph[from]

(* A reviewer must act when the status left or entered is a reviewed one. *)
ReviewedChange(from, to) == from \in Policy.reviewed \/ to \in Policy.reviewed

(* canReview stands for the role of the caller, taken from its token. *)
MayReview(actor) == actor \in Policy.reviewers

AbsentRow == [phase |-> "absent", status |-> None, version |-> 0, content |-> None]

StoredRow ==
  [phase : {"live", "deleted"}, status : Statuses, version : 1..MaxVersion, content : Contents]

Row == StoredRow \cup {AbsentRow}

Revision ==
  [rec : Records, version : 1..MaxVersion, status : Statuses, content : Contents,
   actor : Actors \cup {"seed"}]

RevisionOf(rec, item, actor) ==
  [rec |-> rec, version |-> item.version, status |-> item.status,
   content |-> item.content, actor |-> actor]

(* The revisions a write of item leaves behind: none for the kinds without a chain. *)
Snapshot(rec, item, actor) ==
  IF Policy.versioned THEN {RevisionOf(rec, item, actor)} ELSE {}

NewRow(content) ==
  [phase |-> "live", status |-> Policy.initial, version |-> 1, content |-> content]

SeedRow(status, content) ==
  [phase |-> "live", status |-> status, version |-> 1, content |-> content]

(* A table as startup leaves it: some codes seeded, the others still free. *)
StartingRow ==
  {AbsentRow} \cup {SeedRow(s, c) : s \in Policy.seeds, c \in Contents}

StartingRevisions(table) ==
  UNION {Snapshot(rec, table[rec], "seed") : rec \in {q \in Records : table[q] # AbsentRow}}
=============================================================================
