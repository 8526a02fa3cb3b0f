SPECIFICATION Spec
CONSTANTS
  None = None
  Nobody = Nobody
  Demand = {0, 2}
  MaxRevision = 2
  Screen = {s1, s2}
  Order = {o1, o2}
  Receipt = {r1, r2}
  Quantity = {1, 2}
  Entry <- Entries
  Change <- Changes
  Minimum = 2
  MaxChanges = 2
  Desk = {k1, k2}
CONSTRAINT ScreensRead
SYMMETRY Symmetry
INVARIANT AcceptedWithinOrdered
\* Nothing is left to do when the bounds are reached.
CHECK_DEADLOCK FALSE
