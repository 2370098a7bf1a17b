SPECIFICATION Spec
CONSTANTS
    t1 = t1
    t2 = t2
    t3 = t3
    q1 = q1
    q2 = q2
    q3 = q3
    Nil = Nil
    Tokens = {t1, t2, t3}
    Requests = {q1, q2, q3}
    MaxChanges = 1
    Blips = TRUE
SYMMETRY Symmetric
CHECK_DEADLOCK FALSE
INVARIANTS
  OneTokenPerLogin
  SurvivorsOverlapped
PROPERTIES
  OneHolder
