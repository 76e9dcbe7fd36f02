---------------------------- MODULE MCAggregate -----------------------------
(***************************************************************************)
(* Model values for the runs of AggregateService, one policy per run.      *)
(***************************************************************************)
EXTENDS AggregateProperties, Policies, TLC

CONSTANTS
  r1, r2, r3,   \* request slots
  c1, c2        \* contents of a record

TwoRequests == {r1, r2}
ThreeRequests == {r1, r2, r3}

OneContent == {c1}
TwoContents == {c1, c2}

(* Requests are interchangeable, and so are contents. *)
RequestSymmetry == Permutations(Requests) \cup Permutations(Contents)
=============================================================================
