SPECIFICATION Spec
CONSTANTS
  w1 = w1
  w2 = w2
  e1 = e1
  e2 = e2
  a1 = a1
  a2 = a2
  k1 = k1
  k2 = k2
  NoOne = NoOne
  NoMetadata = NoMetadata
  Workers = {w1, w2}
  Entities = {e1, e2}
  Anchors = {a1, a2}
  Keys = {k1, k2}
  Untyped = {"lacking"}
  MaxCalls = 1
  TrPriority <- McPriority
  Metadata <- McMetadata
  KeysBy <- McKeysBy
  KeysIn <- McKeysIn
  Refusal <- McRefusal
  Chains <- McChains
  Answers <- McAnswers
  Requests <- McRequests
  Configs <- McConfigs
INVARIANTS
  ClientsComeFromVerifiedChains
  RegisteredClientsHaveTheirKeys
  IssuedSecretsWork
  AnswersNameTheirAnchor
  AliasesAgree
CHECK_DEADLOCK FALSE
