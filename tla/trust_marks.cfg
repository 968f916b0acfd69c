SPECIFICATION Spec
CONSTANTS
  w1 = w1
  w2 = w2
  v1 = v1
  sirtfi = sirtfi
  unknown = unknown
  alpha = alpha
  beta = beta
  ta1 = ta1
  ta2 = ta2
  NoOne = NoOne
  Workers = {w1, w2}
  Verifiers = {v1}
  Ids <- McIds
  AllIds = {sirtfi, unknown}
  Subjects = {alpha, beta}
  Delegated = {sirtfi}
  Forgeries <- McForgeries
  Lifetime <- McLifetime
  Stores = {"file", "simple"}
  Foundings <- McFoundings
  Anchors = {ta1, ta2}
  MaxTime = 2
  MaxLines = 2
  MaxMarks = 2
  MaxKeys = 2
  MaxCalls = 1
SYMMETRY McSymmetry
INVARIANTS
  GoodMarksAreActive
  MarksAreOnRecord
  AcceptedMarksAreGenuine
CHECK_DEADLOCK FALSE
