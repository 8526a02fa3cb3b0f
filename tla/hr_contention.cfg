SPECIFICATION Spec
CONSTANTS
  i1 = i1  i2 = i2  r1 = r1  r2 = r2  a1 = a1  s1 = s1  s2 = s2  k1 = k1  k2 = k2
  Items = {i1, i2}
  Requests = {r1, r2}
  Accounts = {a1}
  Sessions = {s1, s2}
  Keys = {k1, k2}
  TwoStage = FALSE
  Opening <- Opening1And2
  Payloads <- MovingPayloads
  Edits <- NothingSent
SYMMETRY Symmetry
CONSTRAINT OneRaceAtATime
INVARIANTS
  TypeOK
  StockNeverNegative
  LedgerExplainsBalance
  ReservationTracksRequest
  ShippedIffPosted
  SubmittedIsShippable
PROPERTIES
  KeepsPromises
  ReservedUnderMutex
