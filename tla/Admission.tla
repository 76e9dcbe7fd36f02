----------------------------- MODULE Admission ------------------------------
(***************************************************************************)
(* What the limiter promises: a request is judged once, by one counter,    *)
(* and a counter passes requests until Limit of them have passed.  There   *)
(* is no clock, no count and no way for a number to be drawn twice; a      *)
(* request is passed or rejected for what the verdicts so far ARE.         *)
(*                                                                         *)
(* Lossy counters promise less: they may also reject before the limit is   *)
(* reached, because they count what was sent and not what was answered.    *)
(***************************************************************************)
EXTENDS Naturals, FiniteSets

CONSTANTS
  Requests,  \* each is judged at most once
  Counters,  \* what passes are counted by
  Lossy,     \* the counters that may reject early, a subset
  Limit      \* passes per counter

VARIABLE verdict  \* of each request: Open, or what was said and by which counter

Open == << >>

Init == verdict = [r \in Requests |-> Open]

PassedBy(c) == {r \in Requests : verdict[r] = <<"passed", c>>}

(* One request is judged, once and for good. *)
Judge(r, says, c) == verdict' = [verdict EXCEPT ![r] = <<says, c>>]

Pass(r, c) ==
  /\ Judge(r, "passed", c)
  /\ Cardinality(PassedBy(c)) < Limit

Reject(r, c) ==
  /\ Judge(r, "rejected", c)
  /\ c \in Lossy \/ Cardinality(PassedBy(c)) >= Limit

Next ==
  \E r \in Requests :
    /\ verdict[r] = Open /\ verdict'[r] # Open
    /\ \E c \in Counters : Pass(r, c) \/ Reject(r, c)

Spec == Init /\ [][Next]_verdict
=============================================================================
