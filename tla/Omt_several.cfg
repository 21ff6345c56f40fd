\* Three omts: split, merge, clone, without and with marks.
CONSTANTS
  h1 = h1
  h2 = h2
  h3 = h3
  Absent = Absent
  Handle <- Handles3
  Value = {1, 2}
  Uses <- SeveralUses
  Rewrite <- MCRewrite
  MaxSize = 2
  MCMaxCapacity = 7
SPECIFICATION Spec
SYMMETRY Symmetry3
PROPERTIES
  CombinesExact
  AllImplementStorage
CHECK_DEADLOCK FALSE
