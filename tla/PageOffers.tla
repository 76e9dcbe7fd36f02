----------------------------- MODULE PageOffers -----------------------------
(***************************************************************************)
(* The next status the workbench page offers for a record, for the four    *)
(* kinds, and what it may be compared with: the rules of the backend.      *)
(***************************************************************************)
EXTENDS Policies

(* The frontend's own table of ranks. *)
clientRank == [viewer |-> 1, operator |-> 2, reviewer |-> 3, admin |-> 4]

roleAtLeast(role, minimum) == clientRank[role] >= clientRank[minimum]

(* By kind and status, for somebody who may review and for somebody who may not; *)
(* a status without an entry, like one the table does not know, is not advanced. *)
nextPermittedStatus(reviewer) ==
  [ pressUnit |->
      [ready |-> "setup", setup |-> "printing", printing |-> "maintenance",
       maintenance |-> "printing"],
    printRun |->
      [setup |-> "printing", printing |-> "proofing",
       proofing |-> IF reviewer THEN "released" ELSE "hold", hold |-> "proofing",
       released |-> IF reviewer THEN "hold" ELSE "none"],
    colorProof |->
      [captured |-> "review", review |-> IF reviewer THEN "accepted" ELSE "none",
       accepted |-> IF reviewer THEN "review" ELSE "none",
       rejected |-> IF reviewer THEN "review" ELSE "none"],
    releaseDecision |->
      [draft |-> IF reviewer THEN "release" ELSE "rework",
       release |-> IF reviewer THEN "rework" ELSE "none",
       rework |-> IF reviewer THEN "release" ELSE "none",
       quarantine |-> IF reviewer THEN "rework" ELSE "none"] ]

(* What the page offers a role: nothing unless it may write. *)
OfferedTo(role, kind, status) ==
  IF roleAtLeast(role, "operator")
  THEN nextPermittedStatus(roleAtLeast(role, "reviewer"))[kind][status]
  ELSE "none"

PolicyOf ==
  [pressUnit |-> PressUnitPolicy, printRun |-> PrintRunPolicy,
   colorProof |-> ColorProofPolicy, releaseDecision |-> ReleaseDecisionPolicy]

(* For every kind, role and status: what is offered is an edge of the      *)
(* backend's graph, its gate admits the role, and the route does.          *)
ASSUME OffersAreAccepted ==
  \A kind \in DOMAIN PolicyOf, role \in DOMAIN clientRank :
    LET policy == PolicyOf[kind] IN
    \A status \in DOMAIN policy.graph :
      LET target == OfferedTo(role, kind, status) IN
      target # "none" =>
        /\ target \in policy.graph[status]
        /\ role \in policy.writers
        /\ {status, target} \cap policy.reviewed # {} => role \in policy.reviewers

(* Every role that may write can lead a new record of each kind somewhere, *)
(* and a reviewer is never left without a next step.                       *)
ASSUME NobodyIsLeftStanding ==
  \A kind \in DOMAIN PolicyOf :
    /\ OfferedTo("operator", kind, PolicyOf[kind].initial) # "none"
    /\ \A status \in DOMAIN PolicyOf[kind].graph : OfferedTo("reviewer", kind, status) # "none"
=============================================================================
