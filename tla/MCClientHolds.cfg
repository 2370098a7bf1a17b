SPECIFICATION ClientSpec
CONSTANTS
    t1 = t1
    t2 = t2
    t3 = t3
    t4 = t4
    s1 = s1
    s2 = s2
    s3 = s3
    Nil = Nil
    Tokens = {t1, t2, t3, t4}
    Sockets = {s1, s2}
    Requests = {"rest", "ws"}
    MaxChanges = 0
    MaxExpiries = 2
    Blips = TRUE
SYMMETRY Symmetric
CHECK_DEADLOCK FALSE
INVARIANTS
  HoldsLiveToken
  NotStranded
