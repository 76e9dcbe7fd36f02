SPECIFICATION SmallSpec
CONSTANTS
  f1 = f1
  f2 = f2
  c1 = c1
  None = None
  Policy <- ColorProofPolicy
  Records = {"CP1", "CP2"}
  Actors = {"operator", "reviewer"}
  Contents <- OneContent
  MaxVersion = 2
  MaxWrites = 3
  Roles = {"operator", "reviewer"}
  OtherTabs = {}
  Writers = {"operator", "reviewer"}
  Offer <- OfferOfPage
  Calls <- OneCall
  Searches = {"", "CP1"}
  NoText = ""
  Hits <- HitsByCode
  PageSize = 1
  Strangers = {}
  Faults = FALSE
INVARIANTS
  QueryShown
