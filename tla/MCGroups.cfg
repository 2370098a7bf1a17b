SPECIFICATION Spec
CONSTANTS
  Mixes <- MCMixes
  Users = {u1, u2, u3}
  Channels = {c1, c2}
  Requests = {r1, r2}
  MaxMembers = 3
  Lobby = Lobby
  Absent = Absent
  Nil = Nil
SYMMETRY Symmetry
CHECK_DEADLOCK FALSE
INVARIANTS
  CountBooks
  StrangersOnlyByOverlap
  OneOwner
