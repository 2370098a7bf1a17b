SPECIFICATION Spec
CONSTANTS
  Tokens = {t1, t2}
  MaxRedraws = 1
  NoOffer = NoOffer
  Values = {v1, v2}
  Emails = {e1, e2}
  MaxCalls = 2
  Clients = {c1, c2}
  Passwords = {p1, p2}
  Links = {l1, l2}
  FailLimit = 2
  MaxEras = 2
  NoValue = NoValue
  None = None
SYMMETRY Symmetry
CHECK_DEADLOCK FALSE
INVARIANTS
  OfferStands
  
  VerifiedIsProved
  
  GuessesBounded
PROPERTIES
  StaysLoggedOut
