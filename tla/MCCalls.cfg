SPECIFICATION Spec
CONSTANTS
  Clients = {c1, c2}
  Peers <- MCPeers
  MaxCalls = 2
  MaxTasks = 1
  Nil = Nil
CHECK_DEADLOCK FALSE
SYMMETRY MCSymmetry
INVARIANTS
  MicOffAtRest
  CardTells
  CallsAgree
