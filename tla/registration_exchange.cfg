SPECIFICATION ExchangeSpec
CONSTANTS
  t1 = t1
  t2 = t2
  w1 = w1
  w2 = w2
  e1 = e1
  e2 = e2
  a1 = a1
  a2 = a2
  k1 = k1
  alice = alice
  NoOne = NoOne
  NoMetadata = NoMetadata
  Threads = {t1, t2}
  Users = {alice}
  Client = e1
  Workers = {w1, w2}
  Entities = {e1, e2}
  Anchors = {a1, a2}
  TrustAnchors = {a1}
  Keys = {k1}
  Untyped = {}
  MaxLogins = 2
  MaxCalls = 1
  MaxTime = 0
  Lifetime = 1
  Collections <- McCollections
  OwnChains <- McOwnChains
  Settings <- McSettings
  TrPriority <- McPriority
  Metadata <- McMetadata
  KeysBy <- McKeysBy
  KeysIn <- McKeysIn
  Refusal <- McRefusal
  Chains <- McChains
  Answers <- McAnswers
  Requests <- McRequests
  Configs <- McConfigs
SYMMETRY McSymmetry
INVARIANT UsersAreSentToWhoKnowsTheClient
PROPERTY ImplementsAgreement
CHECK_DEADLOCK FALSE
