SPECIFICATION Spec
CONSTANTS
  t1 = t1
  t2 = t2
  alice = alice
  bob = bob
  ta = ta
  other = other
  NoOne = NoOne
  Threads <- McThreads
  Users <- McUsers
  Anchors <- McAnchors
  TrustAnchors <- McTrustAnchors
  Collections <- McCollections
  OwnChains <- McOwnChains
  Settings <- McSettings
  MaxLogins = 2
  MaxCalls = 2
  MaxTime = 1
  Lifetime = 1
SYMMETRY McSymmetry
INVARIANTS
  TokensAreTheSessionsOwn
  UsersFindTheirSessions
  UsersAreSentWhenRegistered
PROPERTY TokensAreKept
CHECK_DEADLOCK FALSE
