SPECIFICATION Spec
CONSTANTS
  Rooms = {r1, r2}
  MaxSent = 2
  MaxFrames = 3
  Nothing = Nothing
  Convs = {c1, c2}
  MaxTexts = 2
  Slots = {i1, i2}
  NoConv = NoConv
  Groups = {g1, g2}
  Owned = {g1}
  NoGroup = NoGroup
  MaxHits = 2
SYMMETRY Symmetry
CHECK_DEADLOCK FALSE
INVARIANTS
  
  
  NothingStrays
  EveryTextOnce
  
  
