SPECIFICATION FairSpec
CONSTANTS
  ann = ann
  bob = bob
  a1 = a1
  a2 = a2
  b1 = b1
  Clients = {ann, bob}
  Conns = {a1, a2, b1}
  OwnerOf <- MCOwnerOf
  MaxClock <- MCMaxClock
  Env = {"throttle"}
INVARIANTS TypeOK NoGhost ViewsAgree
PROPERTY GhostGoes
CHECK_DEADLOCK FALSE
