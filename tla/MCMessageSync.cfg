SPECIFICATION Spec
CONSTANTS
    Reader = Reader
    c1 = c1
    c2 = c2
    None = None
    Users = {Reader}
    Subs = {c1, c2}
    UserOf <- MCUserOf
    Clients <- AllClients
    Blips = TRUE
    PageSize = 2
    RecentSize = 2
    ArchiveSize = 1
    CacheSize = 2
    BufferCap = 1
SYMMETRY Reconnections
CHECK_DEADLOCK FALSE
INVARIANTS
  ShownOnce
  GapsExplained

  
