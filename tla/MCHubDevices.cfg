SPECIFICATION BothSpec
CONSTANTS
    u1 = u1
    c1 = c1
    c2 = c2
    r1 = r1
    Nil = Nil
    Users = {u1}
    Subs = {c1, c2}
    UserOf <- TwoDevices
    Rooms = {r1}
    BufferCap = 2
    MaxEvents = 4
    MaxConnsPerUser = 1
    MaxRoomsPerConn = 1
    Restarts = FALSE
CHECK_DEADLOCK FALSE
INVARIANTS
  
  SlotsMatch
PROPERTIES
  SlotReleased
