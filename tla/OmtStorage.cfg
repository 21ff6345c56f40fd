\* The storage of one omt, without and with marks.
CONSTANTS
  MaxSize = 9
  MaxCapacity = 20
  StealGap = {0, 2}
SPECIFICATION Spec
INVARIANTS
  TypeOK
  NoStrayWrite
  Placed
PROPERTIES
  EditKeepsLinear
