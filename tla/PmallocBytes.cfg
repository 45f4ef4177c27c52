CONSTANTS
  NULL = NULL
  Hdr = 2
  U32 = 64
  Areas <- OneArea
  Requests = {2, 4}
  Nums = {}
  Stale <- NoJunk
SPECIFICATION Spec
INVARIANT InsideArea
