---------------------------- MODULE MCWorkbench -----------------------------
(***************************************************************************)
(* Model values for the runs of Workbench: a page of colour proofs, whose  *)
(* table holds at most two.                                                *)
(***************************************************************************)
EXTENDS Workbench, PageOffers, PagingChecks, TLC

CONSTANTS f1, f2,   \* calls in flight
          c1        \* content of a record

OneCall == {f1}
TwoCalls == {f1, f2}
OneContent == {c1}
AnyTab == Roles \cup {None}

(* Each record is found by the text of its code, both by the empty search. *)
HitsByCode == [search \in Searches |-> IF search = NoText THEN Records ELSE {search}]

OfferOfPage ==
  [role \in Roles |-> [status \in Statuses |->
     LET target == OfferedTo(role, "colorProof", status) IN
     IF target = "none" THEN None ELSE target]]

(* Of the tables a start of the backend leaves: one proof, under review, with *)
(* the page opened by a reviewer whose session is the stored one.             *)
SmallInit ==
  /\ Init /\ row["CP1"] # AbsentRow /\ row["CP2"] = AbsentRow
  /\ row["CP1"].status = "review" /\ page.role = "reviewer" /\ token = "reviewer"

SmallSpec == SmallInit /\ [][Next]_vars

CallSymmetry == Permutations(Calls)
=============================================================================
