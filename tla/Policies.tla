------------------------------ MODULE Policies ------------------------------
(***************************************************************************)
(* The business rules of the four kinds of record: press units, print      *)
(* runs, colour proofs and release decisions.  The four services of the    *)
(* backend have the same shape; everything in which they differ is one     *)
(* record here, and AggregateService is parameterised by such a record.    *)
(***************************************************************************)
EXTENDS Naturals

(* Roles and what the middleware derives from them. ***********************)

roleRank == [viewer |-> 1, operator |-> 2, reviewer |-> 3, admin |-> 4]

RequireMinimumRole(minimum) == {role \in DOMAIN roleRank : roleRank[role] >= roleRank[minimum]}

RequireRoles(roles) == roles \cap DOMAIN roleRank

canReview(role) == role \in {"reviewer", "admin"}

Reviewers == {role \in DOMAIN roleRank : canReview(role)}

(* The transition graphs.  A status without an entry has no successor.  ***)

PressUnitTransitions ==
  [ ready       |-> {"setup", "printing"},
    setup       |-> {"printing", "maintenance", "ready"},
    printing    |-> {"maintenance", "setup"},
    maintenance |-> {"printing"} ]

PrintRunTransitions ==
  [ setup    |-> {"printing"},
    printing |-> {"proofing", "hold", "setup"},
    proofing |-> {"hold", "released", "printing"},
    hold     |-> {"proofing"},
    released |-> {"hold"} ]

ColorProofTransitions ==
  [ captured |-> {"review"},
    review   |-> {"accepted", "rejected", "captured"},
    accepted |-> {"review"},
    rejected |-> {"review"} ]

ReleaseDecisionTransitions ==
  [ draft      |-> {"release", "rework"},
    release    |-> {"rework", "quarantine", "draft"},
    rework     |-> {"quarantine", "release"},
    quarantine |-> {"rework"} ]

(* Who may call the writing routes of each kind. **************************)

PressUnitRoutes ==
  [writers |-> RequireMinimumRole("operator"), removers |-> RequireRoles({"admin"})]

PrintRunRoutes ==
  [writers |-> RequireMinimumRole("operator"), removers |-> RequireRoles({"admin"})]

ColorProofRoutes ==
  [writers |-> RequireMinimumRole("operator"), removers |-> RequireRoles({"admin"})]

ReleaseDecisionRoutes ==
  [writers |-> RequireMinimumRole("operator"), removers |-> RequireRoles({"admin"})]

(* The statuses of the records an empty table is seeded with. *************)

PressUnitSeeds == {"ready", "setup", "printing"}

PrintRunSeeds == {"setup", "printing", "proofing"}

ColorProofSeeds == {"captured", "review", "accepted"}

ReleaseDecisionSeeds == {"draft", "release", "rework"}

(***************************************************************************)
(* A policy:                                                               *)
(*   initial    the status of a new record                                 *)
(*   graph      its transition graph                                       *)
(*   reviewed   the statuses only a reviewer may enter or leave            *)
(*   reviewers  the roles that count as reviewer                           *)
(*   sealed     the statuses in which Update answers ErrLocked             *)
(*   removable  the statuses in which Delete is accepted                   *)
(*   versioned  whether each write appends a revision                      *)
(*   seeds      the statuses of the seeded records                         *)
(*   writers, removers   the roles the routes admit                        *)
(***************************************************************************)
PressUnitPolicy ==
  [ initial   |-> "ready",  graph     |-> PressUnitTransitions,
    reviewed  |-> {},       reviewers |-> Reviewers,
    sealed    |-> {},       removable |-> DOMAIN PressUnitTransitions,
    versioned |-> FALSE,    seeds     |-> PressUnitSeeds,
    writers   |-> PressUnitRoutes.writers,
    removers  |-> PressUnitRoutes.removers ]

PrintRunPolicy ==
  [ initial   |-> "setup",       graph     |-> PrintRunTransitions,
    reviewed  |-> {"released"},  reviewers |-> Reviewers,
    sealed    |-> {},            removable |-> {"setup"},
    versioned |-> TRUE,          seeds     |-> PrintRunSeeds,
    writers   |-> PrintRunRoutes.writers,
    removers  |-> PrintRunRoutes.removers ]

ColorProofPolicy ==
  [ initial   |-> "captured",                graph     |-> ColorProofTransitions,
    reviewed  |-> {"accepted", "rejected"},  reviewers |-> Reviewers,
    sealed    |-> {},                        removable |-> DOMAIN ColorProofTransitions,
    versioned |-> FALSE,                     seeds     |-> ColorProofSeeds,
    writers   |-> ColorProofRoutes.writers,
    removers  |-> ColorProofRoutes.removers ]

ReleaseDecisionPolicy ==
  [ initial   |-> "draft",                    graph     |-> ReleaseDecisionTransitions,
    reviewed  |-> {"release", "quarantine"},  reviewers |-> Reviewers,
    sealed    |-> {"release", "quarantine"},  removable |-> {"draft"},
    versioned |-> TRUE,                       seeds     |-> ReleaseDecisionSeeds,
    writers   |-> ReleaseDecisionRoutes.writers,
    removers  |-> ReleaseDecisionRoutes.removers ]

AllPolicies == {PressUnitPolicy, PrintRunPolicy, ColorProofPolicy, ReleaseDecisionPolicy}

(* The four tables of rules fit together: no target without a row in the  *)
(* graph, no status gated, sealed, removable or seeded that the graph does *)
(* not know, a new record can be removed again, and no role removes that   *)
(* may not write.                                                          *)
ASSUME PoliciesAreConsistent ==
  \A p \in AllPolicies :
    LET statuses == DOMAIN p.graph IN
    /\ \A s \in statuses : p.graph[s] \subseteq statuses \ {s}
    /\ {p.initial} \cup p.seeds \cup p.reviewed \cup p.sealed \subseteq statuses
    /\ p.initial \in p.removable \cap p.seeds
    /\ p.removable \subseteq statuses
    /\ p.removers \subseteq p.writers /\ p.reviewers \subseteq p.writers
=============================================================================
