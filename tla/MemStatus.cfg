\* Two threads allocate, resize and free two blocks of two sizes.
CONSTANTS
  Thread = {t1, t2}
  Block = {b1, b2}
  Size = {1, 3}
  Usable <- MCUsable
  NULL = NULL
  Budget = 8
SPECIFICATION FairSpec
INVARIANTS
  TypeOK
  AccountsSound
  MaxCovers
PROPERTIES
  MaxMonotone
  CallsReturn
