SPECIFICATION Spec
CONSTANTS
  Ids = {i1, i2, i3}
  Users = {ann, bob}
  Names = {n1, n2}
  Codes = {c1, c2, c3}
  Reqs = {r1, r2}
  MaxAttempts = 2
  None = None
  Env = {"fail"}
SYMMETRY Symmetry
INVARIANTS TypeOK NamesUnique ClashIsRace
PROPERTY OwnerDecides
