SPECIFICATION ProcessingSpec
CONSTANTS
  east = east
  west = west
  org = org
  e = e
  w = w
  Blank = Blank
  Subjects = {east, west}
  HostLabels = {org, e, w, Blank}
  Host <- Hosts
  Permits <- SomePermits
  Excludes <- SomeExcludes
  PathLengths <- Negative
  MaxStatements = 3
  TrustChains <- McTrustChains
  a = a
  b = b
  grant = grant
  uri = uri
  Character = Character
  NoValue = NoValue
  Values = {a, b}
  Claims = {grant, uri}
  Chains <- SomeChains
  LeafMetadata <- SomeLeaves
  Verified <- McVerified
INVARIANTS
  CheckedArePermitted
  SoleExclusionHolds
  SuperiorsNarrow
  EssentialIsThere
  SuperiorsAgree
CHECK_DEADLOCK FALSE
