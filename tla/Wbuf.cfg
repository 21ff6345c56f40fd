\* Bytes of three values, integers of two bytes, buffers of none to six bytes.
CONSTANTS
  Base = 3
  IntBytes = 2
  Modulus = 16
  Sizes = {0, 1, 4, 6}
  Chars = {0}
  Ints = {5}
  Longs = {46}
  Literal <- MCLiteral
  MaxItems = 4
SPECIFICATION Spec
INVARIANTS
  LayoutExact
  ChecksumExact
\* A failed assertion stops the program.
CHECK_DEADLOCK FALSE
