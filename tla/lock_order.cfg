SPECIFICATION FairSpec
CONSTANTS
  s1 = s1  s2 = s2
  Sessions = {s1, s2}
  Items = {1, 2}
  Requests = {1, 2}
  Replenishments = {10}
  Stocktakes = {20, 21}
  ReturnNotes = {30}
  ItemsOf <- Documents
  Returned <- ReturnOf
  Programs <- OrderedRpcs
  Rank <- RpcRank
  Guard <- RpcGuard
INVARIANTS
  TypeOK
  RpcsKeepOrder
  NoWaitCycle
PROPERTIES
  EveryRpcEnds
