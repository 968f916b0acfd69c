SPECIFICATION Spec
CONSTANTS
  leaf = leaf
  inter = inter
  anchor = anchor
  NoEntity = NoEntity
  Workers = {t1, t2}
  Entities = {leaf, inter, anchor}
  TrustAnchors = {anchor}
  FederationEntities = {inter, anchor}
  Publishers = {inter, anchor}
  Undated = {anchor}
  Tenants = {anchor}
  Hints <- Ladder
  Subjects = {leaf}
  StopAts = {NoEntity, inter}
  Lifetimes = {2}
  AllowedDelta = 1
  RecursionLimit = 3
  MaxTime = 3
  MaxCalls = 1
PROPERTIES ImplementsChainCollection
CHECK_DEADLOCK FALSE
