SPECIFICATION Spec
CONSTANTS
  t1 = t1
  t2 = t2
  ta = ta
  im = im
  op = op
  v = v
  Nothing = Nothing
  Entities = {ta, im, op}
  Superiors = {ta, im, op}
  Records <- McRecords
  Policies <- McPolicies
  TypePolicy <- McTypePolicy
  Values = {v}
  Threads = {t1, t2}
  Searchers = {t1}
  Requesters = {t1, t2}
  Me = ta
  Anchor = ta
  Providers = {im, op}
  CredentialIssuers = {im, op}
  Suitable = {op}
  RecursionLimit = 3
  Federations <- McFederations
  Issuers = {op}
  Hierarchy <- McHierarchy
  MaxCalls = 1
  MaxChanges = 1
INVARIANTS
  SearchesAreComplete
  TrustMarkRequestsGoWhereAsked
PROPERTY SearchesEnd
CHECK_DEADLOCK FALSE
