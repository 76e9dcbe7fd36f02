SPECIFICATION FairSpec
CONSTANTS
  r1 = r1
  r2 = r2
  r3 = r3
  c1 = c1
  c2 = c2
  None = None
  Requests <- TwoRequests
  Policy <- ReleaseDecisionPolicy
  Records = {"RD"}
  Actors = {"admin"}
  Contents <- OneContent
  MaxVersion = 3
  Ops = {"create", "update", "transition", "delete"}
  Lookahead = 0
  Faults = FALSE
INVARIANTS
  EveryTransitionAudited
PROPERTIES
  RequestsAnswered
  TransitionsGetAudited
