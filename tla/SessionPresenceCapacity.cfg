SPECIFICATION Spec
CONSTANTS
  owner = owner
  guest = guest
  third = third
  s1 = s1
  s2 = s2
  s3 = s3
  Users = {owner, guest, third}
  Owner = owner
  Sockets = {s1, s2, s3}
  UserOf <- MCUserOf
  Tasks = {t1, t2}
  None = None
  MaxCollaborators = 2
  Env = {"concurrent"}
SYMMETRY TaskSymmetry
INVARIANTS CapacityHolds
