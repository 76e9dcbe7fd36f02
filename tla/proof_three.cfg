SPECIFICATION Spec
CONSTANTS
  r1 = r1
  r2 = r2
  r3 = r3
  c1 = c1
  c2 = c2
  None = None
  Requests <- ThreeRequests
  Policy <- ColorProofPolicy
  Records = {"CP"}
  Actors = {"operator", "admin"}
  Contents <- OneContent
  MaxVersion = 2
  Ops = {"create", "update", "transition", "delete"}
  Lookahead = 0
  Faults = TRUE
SYMMETRY RequestSymmetry
PROPERTIES
  ReviewGate
  KeepsPromise
