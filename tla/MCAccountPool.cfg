SPECIFICATION PoolSpec
CONSTANTS
  Users = {u1, u2}
  Selections = {s1, s2}
  Admins = {a1}
  SegmentSize = 3
  MaxSegments = 2
  Premium = {3}
  DrawSize = 2
  MaxRefreshes = 1
  FreeCountThreshold = 1
  Nil = Nil
  Gone = Gone
SYMMETRY Symmetry
CHECK_DEADLOCK FALSE
INVARIANTS  DrawsDisjoint
