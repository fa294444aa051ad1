SPECIFICATION Spec
CONSTANTS
  owner = owner
  guest = guest
  third = third
  s1 = s1
  s2 = s2
  s3 = s3
  Users = {owner, guest, third}
  Owner = owner
  Sockets = {s2}
  UserOf <- MCUserOf
  Tasks = {t1, t2, t3}
  None = None
  MaxCollaborators = 2
  Env = {"overlap", "rest", "elsewhere", "expiry", "delete", "fail", "crash"}
SYMMETRY TaskSymmetry
INVARIANTS TypeOK CapacityHolds
