SPECIFICATION Spec
CONSTANTS
  r1 = r1
  r2 = r2
  None = None
  Panel = {p}
  NItem = 2
  Request = {r1, r2}
  Wants <- BothAndSecond
  AtFirst <- OneOfEach
  Elsewhere <- NoneOfFirst
  Counts = {0}
  Deployments = {TRUE}
  LossForms = {"thrown"}
  MaxNo = 1
  MaxKeys = 2
  MaxMoves = 0
  MaxFaults = 0
PROPERTIES SavedDraftCompletes
CHECK_DEADLOCK FALSE
