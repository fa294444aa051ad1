SPECIFICATION FairSpec
CONSTANTS
  Conns = {c1, c2}
  Updates = {u1, u2}
  None = None
  Env = {"race", "hydrateFail", "reorder", "externalRedis", "writeFail", "eagerClient", "close"}
INVARIANTS TypeOK NoGap
PROPERTIES EventuallyDelivered EventuallyAttached
