CONSTANTS
  NULL = NULL
  Hdr = 2
  U32 = 64
  Areas <- OddArea
  Requests = {1, 2}
  Nums = {}
  Stale <- NoJunk
SPECIFICATION Spec
INVARIANT HandedOutFits
