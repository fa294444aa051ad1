SPECIFICATION Spec
CONSTANTS
  ann = ann
  bob = bob
  cid = cid
  a1 = a1
  a2 = a2
  b1 = b1
  b2 = b2
  Users = {ann, bob, cid}
  Calls = {a1, a2, b1, b2}
  UserOf <- MCUserOf
  Palette <- MCPalette
  HashOf <- MCHashOf
  None = None
  Env = {"keyLoss", "fail"}
INVARIANTS TypeOK AnswerIsStored ColoursDiffer
