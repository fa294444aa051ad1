SPECIFICATION Spec
CONSTANTS
  owner = owner
  guest = guest
  r1 = r1
  r2 = r2
  r3 = r3
  Runs = {r1, r2, r3}
  Users = {owner, guest}
  UserOf <- MCUserOf
  Owner = owner
  None = None
  LockTtl = 1
  PistonTimeout = 2
  Faults = {"redisFail", "lostReply", "lockLoss", "crash"}
INVARIANTS TypeOK LockExcludes LockHasHolder
