SPECIFICATION Spec
CONSTANTS
    u1 = u1
    u2 = u2
    c1 = c1
    c2 = c2
    r1 = r1
    r2 = r2
    Nil = Nil
    Users = {u1, u2}
    Subs = {c1, c2}
    UserOf <- OneEach
    Rooms = {r1}
    BufferCap = 1
    MaxConnsPerUser = 1
    MaxRoomsPerConn = 1
    Restarts = TRUE
CHECK_DEADLOCK FALSE
INVARIANTS
  NoSendOnClosed
  GhostOnlyByOverlap
