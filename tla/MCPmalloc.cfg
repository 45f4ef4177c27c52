CONSTANTS
  NULL = NULL
  Hdr = 2
  U32 = 64
  Areas <- TwoAreas
  Requests = {0, 1, 3}
  Nums = {2}
  Stale <- Junk
SPECIFICATION OrderlySpec
INVARIANTS
  TypeOK
  ListsSound
  HeldSound
  Accounts
PROPERTY HeapSpec
