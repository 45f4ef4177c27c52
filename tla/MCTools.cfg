SPECIFICATION ToolsSpec
CHECK_DEADLOCK FALSE
CONSTANTS
  Hdr = 2
  Areas <- HeapAreas
  Requests = {0, 1, 2}
  Nodes = {n1, n2, n3}
  Values = {1, 2}
  NULL = NULL
  Keys = {0, 1, 2, 3, 4}
  MaxEntries = 5
  Words <- StoredWords
  NameValues = {0, 1}
  Addresses = {1, 2, 3}
  RootLetter = 2
  U32 = 16777216
  GarbageBytes = {0, 8, 124, 232}
  GarbageWords = {0, 16777206}
  Wrap = 16
  Bank = 4
  WordBits = 8
INVARIANTS
  TypeOK
  Disjoint
  InAreas
  Tiled
  Coalesced
  Restored
  Linked
  KeysFound
  EntriesKept
  NamesFound
  NamesVisited
  ListingRight
  MachineReads
  SplitRight
  TextReturns
PROPERTIES
  LiveBlocksStable
  DequeSpec
