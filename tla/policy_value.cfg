SPECIFICATION Spec
CONSTANTS
  a = a
  b = b
  grant = grant
  uri = uri
  Character = Character
  NoValue = NoValue
  Values = {a, b}
  Claims = {grant, uri}
  Chains <- SomeChains
  LeafMetadata <- SomeLeaves
INVARIANT ChildrenOnlyRestrict
CHECK_DEADLOCK FALSE
