SPECIFICATION PanelSpec
CONSTANTS
  l1 = l1
  l2 = l2
  None = None
  Kind = {"WAREHOUSE_TRANSFER"}
  Derived = {}
  Line = {l1}
  Request = {}
  Delta <- UpOrDown
  Original <- Two
  Limit <- Two
  Back <- One
  OnHand <- Enough
  MaxNo = 2
  MaxNotes = 2
  MaxReturns = 1
  Deployments = {TRUE, FALSE}
  LossForms = {"thrown"}
  MaxKeys = 3
  MaxFaults = 2
INVARIANTS
  PanelTypeOK
  OneCorrectionPerForm
  ToldTheTruth
PROPERTY PostsAsSpecified
\* Nothing is left to do when the bounds are reached.
CHECK_DEADLOCK FALSE
