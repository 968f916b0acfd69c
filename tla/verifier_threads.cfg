SPECIFICATION Spec
CONSTANTS
  leaf = leaf
  inter = inter
  anchor = anchor
  ka = ka
  ki = ki
  kj = kj
  kl = kl
  org = org
  l = l
  i = i
  Blank = Blank
  Host <- Hosts
  Workers = {t1, t2}
  Entities = {leaf, inter, anchor}
  Keys = {ka, ki, kj, kl}
  TrustAnchors = {anchor}
  LateAnchors = {inter}
  ConfiguredKeys <- LateKeys
  Statements <- SomeStatements
  Requests <- SomeRequests
  MaxCalls = 2
INVARIANTS KeysAreRooted VerifiedChainsAreRooted CompleteChainsAreVerified
PROPERTIES VerdictsAreStable
CHECK_DEADLOCK FALSE
