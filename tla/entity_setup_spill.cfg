SPECIFICATION Spec
CONSTANTS
  ta = ta
  other = other
  empty = empty
  one = one
  both = both
  Brought = {empty, one, both}
  Contents <- McContents
  Standard = Standard
  Nothing = Nothing
  Entities = {e1, e2, e3}
  Anchors <- McAnchors
  Items <- McItems
  Defaults <- McDefaults
  Collector = "trust_chain_collector"
  Params = {"p"}
  Values = {"x", "y"}
  Orders <- McOrders
INVARIANT EntitiesTrustWhatTheyWereGiven
CHECK_DEADLOCK FALSE
