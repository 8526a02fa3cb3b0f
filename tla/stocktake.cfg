SPECIFICATION Spec
CONSTANTS
  r1 = r1
  r2 = r2
  None = None
  Panel = {p}
  NItem = 2
  Request = {r1, r2}
  Wants <- BothAndSecond
  AtFirst <- OneOfEach
  Elsewhere <- NoneOfFirst
  Counts = {0, 1}
  Deployments = {TRUE, FALSE}
  LossForms = {"thrown"}
  MaxNo = 2
  MaxKeys = 2
  MaxMoves = 1
  MaxFaults = 1
INVARIANTS
  TypeOK
  OneStocktakePerForm
  ToldTheTruth
  ShortageNeverHidden
PROPERTIES NothingOverwritten
\* Nothing is left to do when the bounds are reached.
CHECK_DEADLOCK FALSE
