SPECIFICATION Spec
CONSTANTS
  l1 = l1
  r1 = r1
  r2 = r2
  None = None
  Kind = {"HR_ISSUE", "RETURN", "WAREHOUSE_TRANSFER", "PURCHASE_RECEIPT", "STOCKTAKE"}
  Line = {l1}
  Request = {r1, r2}
  Delta <- OnceUpOrDown
  Original <- Two
  Limit <- Two
  Back <- One
  OnHand <- OneEach
  MaxNo = 2
  MaxNotes = 3
  MaxReturns = 2
INVARIANTS
  TypeOK
  EffectiveWithinLimits
  ReservationsCovered
  OrderTellsReceipt
\* Nothing is left to do when the bounds are reached.
CHECK_DEADLOCK FALSE
