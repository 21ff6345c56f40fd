\* One to three words, full or with padding, and the specialization.
CONSTANTS
  LongBits = 8
  WordBits = 4
  ByteBits = 2
  NibbleBits = 4
  Widths = {3, 4, 6, 8, 10}
  Operand <- MCOperand
SPECIFICATION Spec
INVARIANTS
  EditsExact
  AnswersExact
  WalkExact
