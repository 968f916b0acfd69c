SPECIFICATION ResolverSpec
CONSTANTS
  leaf = leaf
  inter = inter
  other = other
  anchor = anchor
  loop = loop
  NoEntity = NoEntity
  Workers = {t1}
  Entities = {leaf, inter, other, anchor, loop}
  TrustAnchors = {anchor}
  FederationEntities = {inter, other, anchor, loop}
  Publishers = {inter, anchor, loop}
  Undated = {loop}
  Tenants = {inter}
  Hints <- McHints
  Subjects = {leaf, loop}
  StopAts = {NoEntity, anchor}
  Lifetimes = {2}
  AllowedDelta = 1
  RecursionLimit = 4
  MaxTime = 2
  MaxCalls = 2
INVARIANTS
  AnswersHaveEveryDocument
PROPERTIES
  CachedStatementIsFresh
  ImplementsChainCollection
  CollectionTerminates
CHECK_DEADLOCK FALSE
