SPECIFICATION Spec
CONSTANTS
  r1 = r1
  r2 = r2
  r3 = r3
  c1 = c1
  c2 = c2
  None = None
  Requests <- TwoRequests
  Policy <- PrintRunPolicy
  Records = {"PR"}
  Actors = {"admin"}
  Contents <- OneContent
  MaxVersion = 3
  Ops = {"create", "update", "transition", "delete", "detail"}
  Lookahead = 1
  Faults = TRUE
SYMMETRY RequestSymmetry
INVARIANTS
  TypeOK
  ChainComplete
  TransitionAnswerAudited
  DetailMatchesChain
PROPERTIES
  TombstonesFinal
