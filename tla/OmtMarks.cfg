\* Two threads mark ranges of four values, one reads the marks.
CONSTANTS
  Omt = Omt
  Absent = Absent
  Held <- MCHeld
  Node = {0, 1, 2, 3}
  NODE_NULL = NODE_NULL
  Root = 2
  Left <- MCLeft
  Right <- MCRight
  Weight <- MCWeight
  First <- MCFirst
  Range <- MCRange
  Marker = {m1, m2}
  Reader = {r1}
SPECIFICATION Spec
SYMMETRY Symmetry
INVARIANTS
  IndexesKept
  MarksReachable
  QuietConsistent
  ReaderComplete
PROPERTIES
  ImplementsMarking
