\* One omt: edited by position, sorted for lookups, with marks.
CONSTANTS
  h1 = h1
  h2 = h2
  h3 = h3
  Absent = Absent
  Handle <- Handles1
  Value = {1, 2, 3}
  Uses <- SingleUses
  Rewrite <- MCRewrite
  MaxSize = 7
  MCMaxCapacity = 10
SPECIFICATION Spec
INVARIANTS
  TreesSound
  AnswersExact
PROPERTIES
  ImplementsSequence
  ImplementsStorage
CHECK_DEADLOCK FALSE
