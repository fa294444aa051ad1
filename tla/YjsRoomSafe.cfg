SPECIFICATION FairSpec
CONSTANTS
  Conns = {c1, c2, c3}
  Updates = {u1, u2}
  None = None
  Env = {"close"}
INVARIANTS NoEditDropped OneRoomPerSession RoomCoversMongo UnsavedIsScheduled CodeIsCurrent CodeNotBehindRow
PROPERTIES MongoNeverLoses ImplementsSharedDoc EventuallyDurable
