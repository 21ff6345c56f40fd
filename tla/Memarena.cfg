\* Two arenas; pages of 2 bytes and chunks of at most 4 unless a request is larger.
CONSTANTS
  Arena = {a1, a2}
  Buf = {b1, b2, b3, b4}
  NULL = NULL
  InitialSize = {0, 3}
  Size = {0, 1, 5}
  PageSize = 2
  MaxChunkSize = 4
  MmapThreshold = 4
  WordSize = 16
  ChunkBound = 3
SYMMETRY Symmetries
SPECIFICATION Spec
INVARIANTS
  MemorySafe
  TotalsExact
  IteratorComplete
CHECK_DEADLOCK FALSE
