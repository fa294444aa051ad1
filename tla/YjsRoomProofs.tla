--------------------------- MODULE YjsRoomProofs ---------------------------
(***************************************************************************)
(* What is proved of YjsRoom for every number of connections, every set of *)
(* updates and, where nothing else is said, every choice of Env.           *)
(***************************************************************************)
EXTENDS YjsRoom, SequenceTheorems, TLAPS

\* Taking an upsert out of the queue leaves a queue of upserts.
LEMMA RemoveAtType ==
  ASSUME NEW S, NEW s \in Seq(S), NEW i \in DOMAIN s
  PROVE  RemoveAt(s, i) \in Seq(S)
<1>1. i \in 1 .. Len(s) /\ Len(s) \in Nat
  OBVIOUS
<1>2. \A j \in 1 .. i - 1 : s[j] \in S
  BY <1>1
<1>3. \A j \in i + 1 .. Len(s) : s[j] \in S
  BY <1>1
<1>4. SubSeq(s, 1, i - 1) \in Seq(S)
  BY <1>1, <1>2, SubSeqProperties
<1>5. SubSeq(s, i + 1, Len(s)) \in Seq(S)
  BY <1>1, <1>3, SubSeqProperties
<1> QED
  BY <1>4, <1>5, ConcatProperties DEF RemoveAt

-----------------------------------------------------------------------------
(* Type correctness.                                                       *)

TypeInv == TypeOK /\ HasRoom /\ RowRead

\* The type invariant holds while the process has just started.
LEMMA TypeInit == Init => TypeInv
  BY DEF Init, TypeInv, TypeOK, HasRoom, RowRead, Docs, Stored, Rooms, PCs

\* The end of a hydration keeps the types.
LEMMA TypeInstall ==
  ASSUME TypeInv, NEW c \in Conns, NEW content \in Docs, Install(c, content),
         redis' = redis
  PROVE  TypeInv'
<1> USE DEF TypeInv
<1>1. TypeOK'
  BY DEF Install, Attach, TypeOK, Docs, Stored, Rooms, PCs
<1>2. HasRoom' /\ RowRead'
  BY DEF Install, Attach, TypeOK, HasRoom, RowRead
<1> QED
  BY <1>1, <1>2

\* Every step of onConnection, setupConnection and getOrCreateRoom keeps the types.
LEMMA TypeJoin ==
  ASSUME TypeInv, NEW c \in Conns, Join(c)
  PROVE  TypeInv'
<1> USE DEF TypeInv, procVars, connVars, clientVars, storeVars
<1>1. CASE Connect(c)
  BY <1>1 DEF Connect, TypeOK, HasRoom, RowRead, PCs
<1>2. CASE Reject(c)
  BY <1>2 DEF Reject, TypeOK, HasRoom, RowRead, PCs
<1>3. CASE FindRoom(c)
  BY <1>3 DEF FindRoom, TypeOK, HasRoom, RowRead, PCs, Rooms
<1>4. CASE MissRoom(c)
  BY <1>4 DEF MissRoom, TypeOK, HasRoom, RowRead, PCs, Stored
<1>5. CASE JoinRoom(c)
  <2>1. room[c] \in Conns /\ doc[room[c]] \in Docs
    BY <1>5 DEF JoinRoom, TypeOK, HasRoom
  <2>2. TypeOK'
    BY <1>5, <2>1 DEF JoinRoom, Attach, TypeOK, PCs, Rooms, Docs
  <2>3. HasRoom' /\ RowRead'
    BY <1>5, <2>1 DEF JoinRoom, Attach, TypeOK, HasRoom, RowRead
  <2> QED
    BY <2>2, <2>3
<1>6. CASE RedisHit(c)
  BY <1>6, TypeInstall DEF RedisHit, TypeOK, Stored
<1>7. CASE RedisMiss(c)
  BY <1>7 DEF RedisMiss, TypeOK, HasRoom, RowRead, PCs
<1>8. CASE MongoFind(c)
  BY <1>8 DEF MongoFind, TypeOK, HasRoom, RowRead, PCs
<1>9. CASE NoRow(c)
  BY <1>9, TypeInstall DEF NoRow, Docs
<1>10. CASE SeedRedis(c)
  BY <1>10 DEF SeedRedis, TypeOK, HasRoom, RowRead, PCs, Stored
<1>11. CASE Seeded(c)
  BY <1>11, TypeInstall DEF Seeded, TypeOK, RowRead, Stored
<1>12. CASE HydrateFail(c)
  BY <1>12, TypeInstall DEF HydrateFail, Docs
<1> QED
  BY <1>1, <1>2, <1>3, <1>4, <1>5, <1>6, <1>7, <1>8, <1>9, <1>10, <1>11, <1>12 DEF Join

\* Every frame sent, handled, relayed or dropped, and every close, keeps the types.
LEMMA TypeTalk ==
  ASSUME TypeInv, NEW c \in Conns, Talk(c)
  PROVE  TypeInv'
<1> USE DEF TypeInv, procVars, connVars, storeVars
<1>1. ASSUME NEW u \in Updates, Edit(c, u) PROVE TypeInv'
  BY <1>1, AppendProperties DEF Edit, TypeOK, HasRoom, RowRead, Docs
<1>2. CASE FrameDropped(c)
  BY <1>2, HeadTailProperties DEF FrameDropped, TypeOK, HasRoom, RowRead
<1>3. CASE FramePending(c)
  BY <1>3, HeadTailProperties DEF FramePending, TypeOK, HasRoom, RowRead
<1>4. CASE HandleFrame(c)
  <2>1. Head(outbox[c]) \in Updates /\ Tail(outbox[c]) \in Seq(Updates)
    BY <1>4, HeadTailProperties DEF HandleFrame, TypeOK
  <2>2. room[c] \in Conns
    BY <1>4 DEF HandleFrame, Attached, HasRoom
  <2>3. TypeOK'
    BY <1>4, <2>1, <2>2 DEF HandleFrame, Broadcast, SchedulePersist, TypeOK, Docs
  <2>4. HasRoom' /\ RowRead'
    BY <1>4 DEF HandleFrame, HasRoom, RowRead
  <2> QED
    BY <2>3, <2>4
<1>5. CASE Deliver(c)
  BY <1>5 DEF Deliver, TypeOK, HasRoom, RowRead, Docs
<1>6. CASE SockClose(c)
  BY <1>6, EmptySeq DEF SockClose, Attached, TypeOK, HasRoom, RowRead, Docs, PCs
<1> QED
  BY <1>1, <1>2, <1>3, <1>4, <1>5, <1>6 DEF Talk

\* The two debounce timers, the Mongo upserts and a Redis loss keep the types.
LEMMA TypePersist ==
  ASSUME TypeInv, Persist
  PROVE  TypeInv'
<1> USE DEF TypeInv, procVars, connVars, clientVars
<1>1. ASSUME NEW r \in Conns, RedisPersist(r) PROVE TypeInv'
  BY <1>1 DEF RedisPersist, TypeOK, HasRoom, RowRead, Stored
<1>2. ASSUME NEW r \in Conns, MongoPersist(r) PROVE TypeInv'
  <2>1. [state |-> doc[r], flush |-> FALSE] \in [state : Docs, flush : BOOLEAN]
    BY DEF TypeOK
  <2>2. mongoQ' \in Seq([state : Docs, flush : BOOLEAN])
    BY <1>2, <2>1, AppendProperties DEF MongoPersist, TypeOK
  <2>3. /\ mongoTimer' \in SUBSET Conns
        /\ UNCHANGED <<up, rooms, doc, redisTimer, connVars, clientVars, redis, mongo>>
    BY <1>2 DEF MongoPersist, TypeOK
  <2> QED
    BY <2>2, <2>3 DEF TypeOK, HasRoom, RowRead
<1>3. ASSUME NEW i \in DOMAIN mongoQ, MongoWrite(i) PROVE TypeInv'
  <2>1. RemoveAt(mongoQ, i) \in Seq([state : Docs, flush : BOOLEAN])
    BY RemoveAtType DEF TypeOK
  <2>2. mongoQ[i] \in [state : Docs, flush : BOOLEAN]
    BY ElementOfSeq, LenProperties DEF TypeOK
  <2> QED
    BY <1>3, <2>1, <2>2 DEF MongoWrite, TypeOK, HasRoom, RowRead, Stored
<1>4. ASSUME NEW i \in DOMAIN mongoQ, MongoWriteFail(i) PROVE TypeInv'
  <2>1. RemoveAt(mongoQ, i) \in Seq([state : Docs, flush : BOOLEAN])
    BY RemoveAtType DEF TypeOK
  <2> QED
    BY <1>4, <2>1 DEF MongoWriteFail, TypeOK, HasRoom, RowRead
<1>5. CASE RedisLoss
  BY <1>5 DEF RedisLoss, TypeOK, HasRoom, RowRead, Stored
<1> QED
  BY <1>1, <1>2, <1>3, <1>4, <1>5 DEF Persist

\* A process end, onApplicationShutdown and a restart keep the types.
LEMMA TypeStop ==
  ASSUME TypeInv, Stop \/ Restart
  PROVE  TypeInv'
<1> USE DEF TypeInv, procVars, connVars, clientVars, storeVars
<1>1. CASE ProcessEnds
  <2>1. <<>> \in Seq(Updates) /\ <<>> \in Seq([state : Docs, flush : BOOLEAN])
    BY EmptySeq
  <2> QED
    BY <1>1, <2>1 DEF ProcessEnds, TypeOK, HasRoom, RowRead, Docs, Stored, Rooms, PCs
<1>2. CASE BeginClose
  <2>1. CASE rooms = None
    BY <1>2, <2>1 DEF BeginClose, TypeOK, HasRoom, RowRead
  <2>2. CASE rooms # None
    <3>1. doc[rooms] \in Docs
      BY <2>2 DEF TypeOK, Rooms
    <3>2. mongoQ' \in Seq([state : Docs, flush : BOOLEAN])
      <4>1. mongoQ' = Append(mongoQ, [state |-> doc[rooms], flush |-> TRUE])
        BY <1>2, <2>2 DEF BeginClose
      <4>2. [state |-> doc[rooms], flush |-> TRUE] \in [state : Docs, flush : BOOLEAN]
        BY <3>1
      <4> QED
        BY <4>1, <4>2, AppendProperties DEF TypeOK
    <3>3. /\ up' = "closing"
          /\ redisTimer' \in SUBSET Conns /\ mongoTimer' \in SUBSET Conns
          /\ UNCHANGED <<rooms, doc, connVars, clientVars, redis, mongo>>
      BY <1>2, <2>2 DEF BeginClose, TypeOK
    <3> QED
      BY <3>2, <3>3 DEF TypeOK, HasRoom, RowRead
  <2> QED
    BY <2>1, <2>2
<1>3. CASE Restart
  BY <1>3 DEF Restart, TypeOK, HasRoom, RowRead
<1> QED
  BY <1>1, <1>2, <1>3 DEF Stop, Kill, FinishClose

\* The type invariant is inductive.
LEMMA TypeStep == TypeInv /\ [Next]_vars => TypeInv'
<1> SUFFICES ASSUME TypeInv, [Next]_vars PROVE TypeInv'
  OBVIOUS
<1>1. CASE UNCHANGED vars
  BY <1>1 DEF vars, procVars, connVars, clientVars, storeVars, TypeInv, TypeOK, HasRoom, RowRead
<1>2. CASE Next
  BY <1>2, TypeJoin, TypeTalk, TypePersist, TypeStop DEF Next
<1> QED
  BY <1>1, <1>2

\* Every variable keeps its type, whatever Env allows.
THEOREM TypeCorrect == Spec => []TypeOK
<1>1. Spec => []TypeInv
  BY TypeInit, TypeStep, PTL DEF Spec
<1>2. TypeInv => TypeOK
  BY DEF TypeInv
<1> QED
  BY <1>1, <1>2, PTL

-----------------------------------------------------------------------------
(* NoGap: SyncInv is inductive.                                            *)

\* A frame put in a channel is the only one added to it.
LEMMA FramesAppend ==
  ASSUME NEW S, NEW s \in Seq(S), NEW e \in S
  PROVE  Frames(Append(s, e)) = Frames(s) \cup {e}
  BY AppendProperties, LenProperties DEF Frames

\* Taking the first frame out of a channel leaves exactly the other frames.
LEMMA FramesTail ==
  ASSUME NEW S, NEW s \in Seq(S), s # <<>>
  PROVE  /\ Head(s) \in Frames(s)
         /\ Frames(Tail(s)) \subseteq Frames(s)
         /\ Frames(s) \subseteq Frames(Tail(s)) \cup {Head(s)}
<1>1. Len(s) \in Nat /\ Len(s) > 0 /\ DOMAIN s = 1 .. Len(s)
  BY EmptySeq, LenProperties
<1>2. /\ Tail(s) \in Seq(S) /\ Len(Tail(s)) = Len(s) - 1
      /\ \A i \in 1 .. Len(s) - 1 : Tail(s)[i] = s[i + 1]
  BY HeadTailProperties
<1>3. Head(s) = s[1]
  BY <1>1
<1>4. DOMAIN Tail(s) = 1 .. Len(s) - 1
  BY <1>1, <1>2, LenProperties
<1>5. Frames(s) \subseteq Frames(Tail(s)) \cup {Head(s)}
  <2>1. SUFFICES ASSUME NEW i \in DOMAIN s, i # 1 PROVE s[i] \in Frames(Tail(s))
    BY <1>3 DEF Frames
  <2>2. i - 1 \in DOMAIN Tail(s) /\ Tail(s)[i - 1] = s[i]
    BY <1>1, <1>2, <1>4, <2>1
  <2> QED
    BY <2>2 DEF Frames
<1>6. Head(s) \in Frames(s)
  BY <1>1, <1>3 DEF Frames
<1>7. Frames(Tail(s)) \subseteq Frames(s)
  BY <1>1, <1>2, <1>4 DEF Frames
<1> QED
  BY <1>5, <1>6, <1>7

\* No connection and no room exists at start, so nobody can have missed anything.
LEMMA SyncInit == Init => SyncInv
<1> SUFFICES ASSUME Init PROVE SyncInv
  OBVIOUS
<1>1. TypeOK /\ HasRoom /\ RowRead
  BY TypeInit DEF TypeInv
<1>2. NotYetBuilt /\ FramesShown /\ NoGap
  BY NoneAssumption DEF Init, NotYetBuilt, FramesShown, NoGap, Frames
<1> QED
  BY <1>1, <1>2 DEF SyncInv

\* A finished hydration adds one room, with its builder as the only member.
LEMMA SyncInstall ==
  ASSUME SyncInv, NEW c \in Conns, NEW content \in Docs, Install(c, content),
         pc[c] \in Hydrating
  PROVE  NotYetBuilt' /\ FramesShown' /\ NoGap'
<1>1. NotYetBuilt'
  BY DEF Install, Attach, SyncInv, TypeOK, NotYetBuilt, Hydrating
<1>2. FramesShown'
  BY DEF Install, Attach, SyncInv, FramesShown
<1>3. NoGap'
  <2> SUFFICES ASSUME NEW d \in open', Attached(d)'
               PROVE  (doc[room[d]] \subseteq clientDoc[d] \cup inbox[d])'
    BY DEF NoGap
  <2>1. CASE d = c
    BY <2>1 DEF Install, Attach, SyncInv, TypeOK
  <2>2. CASE d # c
    <3>1. d \in open /\ Attached(d) /\ room[d] # c /\ room'[d] = room[d]
          /\ clientDoc'[d] = clientDoc[d] /\ inbox'[d] = inbox[d]
      BY <2>2 DEF Install, Attach, Attached, SyncInv, TypeOK, NotYetBuilt, Hydrating
    <3>2. doc'[room[d]] = doc[room[d]]
      BY <3>1 DEF Install, SyncInv, TypeOK, HasRoom, Attached
    <3> QED
      BY <3>1, <3>2 DEF SyncInv, NoGap
  <2> QED
    BY <2>1, <2>2
<1> QED
  BY <1>1, <1>2, <1>3

\* A joining connection enters a room with the room's state in its inbox.
LEMMA SyncJoin ==
  ASSUME SyncInv, NEW c \in Conns, Join(c)
  PROVE  NotYetBuilt' /\ FramesShown' /\ NoGap'
<1> USE DEF procVars, connVars, clientVars, storeVars, SyncInv
<1>1. CASE Connect(c)
  BY <1>1 DEF Connect, TypeOK, NotYetBuilt, FramesShown, NoGap, Attached
<1>2. CASE Reject(c)
  BY <1>2 DEF Reject, TypeOK, NotYetBuilt, FramesShown, NoGap, Attached
<1>3. CASE FindRoom(c)
  BY <1>3 DEF FindRoom, TypeOK, NotYetBuilt, FramesShown, NoGap, Attached
<1>4. CASE MissRoom(c)
  BY <1>4 DEF MissRoom, TypeOK, NotYetBuilt, FramesShown, NoGap, Attached
<1>5. CASE JoinRoom(c)
  <2>1. NotYetBuilt' /\ FramesShown'
    BY <1>5 DEF JoinRoom, Attach, TypeOK, HasRoom, NotYetBuilt, FramesShown
  <2>2. NoGap'
    BY <1>5 DEF JoinRoom, Attach, TypeOK, HasRoom, NoGap, Attached
  <2> QED
    BY <2>1, <2>2
<1>6. CASE RedisHit(c)
  BY <1>6, SyncInstall DEF RedisHit, TypeOK, Stored, Hydrating
<1>7. CASE RedisMiss(c)
  BY <1>7 DEF RedisMiss, TypeOK, NotYetBuilt, FramesShown, NoGap, Attached
<1>8. CASE MongoFind(c)
  BY <1>8 DEF MongoFind, TypeOK, NotYetBuilt, FramesShown, NoGap, Attached
<1>9. CASE NoRow(c)
  BY <1>9, SyncInstall DEF NoRow, Docs, Hydrating
<1>10. CASE SeedRedis(c)
  BY <1>10 DEF SeedRedis, TypeOK, NotYetBuilt, FramesShown, NoGap, Attached
<1>11. CASE Seeded(c)
  BY <1>11, SyncInstall DEF Seeded, TypeOK, RowRead, Stored, Hydrating
<1>12. CASE HydrateFail(c)
  <2>1. {} \in Docs /\ pc[c] \in Hydrating /\ Install(c, {})
    BY <1>12 DEF HydrateFail, Docs, Hydrating
  <2> QED
    BY <2>1, SyncInstall
<1> QED
  BY <1>1, <1>2, <1>3, <1>4, <1>5, <1>6, <1>7, <1>8, <1>9, <1>10, <1>11, <1>12 DEF Join

\* What a frame adds to a room is broadcast to every other member in the same step.
LEMMA SyncTalk ==
  ASSUME SyncInv, NEW c \in Conns, Talk(c)
  PROVE  NotYetBuilt' /\ FramesShown' /\ NoGap'
<1> USE DEF procVars, connVars, storeVars, SyncInv
<1>1. ASSUME NEW u \in Updates, Edit(c, u)
      PROVE  NotYetBuilt' /\ FramesShown' /\ NoGap'
  <2>1. Frames(outbox'[c]) = Frames(outbox[c]) \cup {u}
    BY <1>1, FramesAppend DEF Edit, TypeOK
  <2>2. FramesShown'
    BY <1>1, <2>1 DEF Edit, TypeOK, FramesShown
  <2>3. NotYetBuilt' /\ NoGap'
    BY <1>1 DEF Edit, TypeOK, NotYetBuilt, NoGap, Attached
  <2> QED
    BY <2>2, <2>3
<1>2. CASE FrameDropped(c) \/ FramePending(c)
  <2>1. Frames(outbox'[c]) \subseteq Frames(outbox[c])
    <3>1. outbox[c] \in Seq(Updates) /\ outbox[c] # <<>> /\ outbox'[c] = Tail(outbox[c])
      BY <1>2 DEF FrameDropped, FramePending, TypeOK
    <3> QED
      BY <3>1, FramesTail
  <2>2. FramesShown'
    BY <1>2, <2>1 DEF FrameDropped, FramePending, TypeOK, FramesShown
  <2>3. NotYetBuilt' /\ NoGap'
    BY <1>2 DEF FrameDropped, FramePending, NotYetBuilt, NoGap, Attached
  <2> QED
    BY <2>2, <2>3
<1>3. CASE HandleFrame(c)
  <2> DEFINE u == Head(outbox[c])
             r == room[c]
  <2>1. u \in Frames(outbox[c]) /\ Frames(outbox'[c]) \subseteq Frames(outbox[c])
    BY <1>3, FramesTail DEF HandleFrame, TypeOK
  <2>2. FramesShown'
    BY <1>3, <2>1 DEF HandleFrame, TypeOK, FramesShown
  <2>3. NotYetBuilt'
    BY <1>3 DEF HandleFrame, NotYetBuilt
  <2>4. NoGap'
    <3> SUFFICES ASSUME NEW d \in open', Attached(d)'
                 PROVE  (doc[room[d]] \subseteq clientDoc[d] \cup inbox[d])'
      BY DEF NoGap
    <3>1. d \in open /\ d \in Conns /\ Attached(d) /\ room'[d] = room[d]
          /\ clientDoc'[d] = clientDoc[d]
      BY <1>3 DEF HandleFrame, Attached, TypeOK
    <3>2. room[d] \in Conns /\ r \in Conns
      BY <1>3, <3>1 DEF HandleFrame, Attached, HasRoom
    <3>3. doc[room[d]] \subseteq clientDoc[d] \cup inbox[d]
      BY <3>1 DEF NoGap
    <3>4. doc'[room[d]] \subseteq doc[room[d]] \cup (IF room[d] = r THEN {u} ELSE {})
      BY <1>3, <3>2 DEF HandleFrame, TypeOK
    <3>5. inbox[d] \subseteq inbox'[d]
      BY <1>3, <3>1 DEF HandleFrame, Broadcast
    <3>6. CASE d = c
      BY <2>1, <3>1, <3>3, <3>4, <3>5, <3>6 DEF FramesShown
    <3>7. CASE d # c /\ room[d] = r
      <4>1. u \in inbox'[d]
        BY <1>3, <3>1, <3>7 DEF HandleFrame, Broadcast, Listeners
      <4> QED
        BY <3>1, <3>3, <3>4, <3>5, <4>1
    <3>8. CASE d # c /\ room[d] # r
      BY <3>1, <3>3, <3>4, <3>5, <3>8
    <3> QED
      BY <3>6, <3>7, <3>8
  <2> QED
    BY <2>2, <2>3, <2>4
<1>4. CASE Deliver(c)
  BY <1>4 DEF Deliver, TypeOK, NotYetBuilt, FramesShown, NoGap, Attached
<1>5. CASE SockClose(c)
  <2>1. NotYetBuilt'
    BY <1>5 DEF SockClose, Attached, TypeOK, NotYetBuilt
  <2>2. FramesShown'
    <3>1. Frames(<<>>) = {}
      BY DEF Frames
    <3> QED
      BY <1>5, <3>1 DEF SockClose, TypeOK, FramesShown
  <2>3. NoGap'
    BY <1>5 DEF SockClose, Attached, TypeOK, NoGap
  <2> QED
    BY <2>1, <2>2, <2>3
<1> QED
  BY <1>1, <1>2, <1>3, <1>4, <1>5 DEF Talk

\* Persistence adds nothing to a room, and a stop leaves no open connection behind
\* that a room could be ahead of.
LEMMA SyncRest ==
  ASSUME SyncInv, Persist \/ Stop \/ Restart
  PROVE  NotYetBuilt' /\ FramesShown' /\ NoGap'
<1> USE DEF procVars, connVars, clientVars, storeVars, SyncInv
<1>1. ASSUME UNCHANGED <<rooms, doc, pc, room, open, clientDoc, inbox, outbox>>
      PROVE  NotYetBuilt' /\ FramesShown' /\ NoGap'
  BY <1>1 DEF NotYetBuilt, FramesShown, NoGap, Attached
<1>2. ASSUME Persist \/ BeginClose \/ Restart
      PROVE  UNCHANGED <<rooms, doc, pc, room, open, clientDoc, inbox, outbox>>
  BY <1>2 DEF Persist, RedisPersist, MongoPersist, MongoWrite, MongoWriteFail, RedisLoss,
              BeginClose, Restart
<1>3. CASE ProcessEnds
  BY <1>3, NoneAssumption
     DEF ProcessEnds, TypeOK, NotYetBuilt, FramesShown, Frames, NoGap, Attached
<1> QED
  BY <1>1, <1>2, <1>3 DEF Stop, Kill, FinishClose

\* SyncInv is inductive.
LEMMA SyncStep == SyncInv /\ [Next]_vars => SyncInv'
<1> SUFFICES ASSUME SyncInv, [Next]_vars PROVE SyncInv'
  OBVIOUS
<1>1. TypeInv'
  BY TypeStep DEF SyncInv, TypeInv
<1>2. NotYetBuilt' /\ FramesShown' /\ NoGap'
  <2>1. CASE UNCHANGED vars
    BY <2>1 DEF vars, procVars, connVars, clientVars, storeVars, SyncInv,
                NotYetBuilt, FramesShown, NoGap, Attached
  <2>2. CASE Next
    BY <2>2, SyncJoin, SyncTalk, SyncRest DEF Next
  <2> QED
    BY <2>1, <2>2
<1> QED
  BY <1>1, <1>2 DEF SyncInv, TypeInv

\* A registered client has, or has on the way, every update of its room,
\* through every race, failure and crash Env may allow.
THEOREM NoGapAlways == Spec => []NoGap
<1>1. Spec => []SyncInv
  BY SyncInit, SyncStep, PTL DEF Spec
<1>2. SyncInv => NoGap
  BY DEF SyncInv
<1> QED
  BY <1>1, <1>2, PTL

-----------------------------------------------------------------------------
(* NoEditDropped: EditInv is inductive while clients wait for the document. *)

\* At start no client has anything, on its screen or on its way.
LEMMA EditInit == Init => EditInv
<1> SUFFICES ASSUME Init PROVE EditInv
  OBVIOUS
<1>1. NothingBeforeAttach /\ gap = {} /\ SentIsInRoom /\ NoEditDropped
  BY DEF Init, NothingBeforeAttach, SentIsInRoom, NoEditDropped
<1> QED
  BY <1>1, SyncInit DEF EditInv

\* A connection that is registered is sent the document of its room, and shows
\* nothing yet.  The others, and the documents of their rooms, are as before.
LEMMA EditAttach ==
  ASSUME EditInv, NEW c \in Conns, NEW r \in Conns, NEW content \in Docs,
         Attach(c, r, content), pc[c] \notin {"attached", "closed"},
         doc'[r] = content, \A q \in Conns \ {c} : doc'[q] = doc[q],
         UNCHANGED <<open, clientDoc, outbox, gap>>
  PROVE  NothingBeforeAttach' /\ gap' = {} /\ SentIsInRoom' /\ NoEditDropped'
<1> USE DEF EditInv, SyncInv, TypeOK
<1>1. /\ \A d \in Conns : Attached(d)' <=> d = c \/ Attached(d)
      /\ room'[c] = r /\ \A d \in Conns \ {c} : room'[d] = room[d] /\ inbox'[d] = inbox[d]
      /\ inbox'[c] \subseteq inbox[c] \cup content
  BY DEF Attach, Attached
<1>2. clientDoc[c] = {} /\ inbox[c] = {}
  BY DEF NothingBeforeAttach, Attached
<1>3. \A d \in Conns : d # c /\ Attached(d) => room[d] \in Conns \ {c}
  BY DEF HasRoom, NotYetBuilt, Attached
<1>4. NothingBeforeAttach' /\ gap' = {}
  BY <1>1 DEF NothingBeforeAttach
<1>5. SentIsInRoom'
  BY <1>1, <1>2, <1>3 DEF SentIsInRoom
<1>6. NoEditDropped'
  BY <1>1, <1>2, <1>3 DEF NoEditDropped
<1> QED
  BY <1>4, <1>5, <1>6

\* A connection on its way to its room keeps what EditInv says.
LEMMA EditJoin ==
  ASSUME EditInv, NEW c \in Conns, Join(c)
  PROVE  NothingBeforeAttach' /\ gap' = {} /\ SentIsInRoom' /\ NoEditDropped'
<1> USE DEF procVars, connVars, clientVars, storeVars, EditInv, SyncInv
<1>1. ASSUME NEW p \in PCs, pc' = [pc EXCEPT ![c] = p], p # "attached", ~Attached(c),
             UNCHANGED <<doc, clientDoc, inbox, outbox, gap>>,
             open' \ {c} \subseteq open, \A d \in Conns \ {c} : room'[d] = room[d]
      PROVE  NothingBeforeAttach' /\ gap' = {} /\ SentIsInRoom' /\ NoEditDropped'
  BY <1>1 DEF TypeOK, NothingBeforeAttach, SentIsInRoom, NoEditDropped, Attached
<1>2. ASSUME NEW content \in Docs, Install(c, content), pc[c] \in Hydrating
      PROVE  NothingBeforeAttach' /\ gap' = {} /\ SentIsInRoom' /\ NoEditDropped'
  <2>1. doc'[c] = content /\ \A q \in Conns \ {c} : doc'[q] = doc[q]
    BY <1>2 DEF Install, TypeOK
  <2> QED
    BY <1>2, <2>1, EditAttach DEF Install, Hydrating
<1>3. CASE Connect(c) \/ Reject(c)
  BY <1>1, <1>3 DEF Connect, Reject, Attached, TypeOK, PCs
<1>4. CASE FindRoom(c)
  BY <1>1, <1>4 DEF FindRoom, Attached, TypeOK, PCs
<1>5. CASE MissRoom(c) \/ RedisMiss(c) \/ MongoFind(c) \/ SeedRedis(c)
  BY <1>1, <1>5 DEF MissRoom, RedisMiss, MongoFind, SeedRedis, Attached, TypeOK, PCs
<1>6. CASE JoinRoom(c)
  <2>1. room[c] \in Conns /\ doc[room[c]] \in Docs
    BY <1>6 DEF JoinRoom, HasRoom, TypeOK
  <2> QED
    BY <1>6, <2>1, EditAttach DEF JoinRoom, Attached
<1>7. CASE RedisHit(c)
  BY <1>2, <1>7 DEF RedisHit, TypeOK, Stored, Hydrating
<1>8. CASE NoRow(c)
  BY <1>2, <1>8 DEF NoRow, Docs, Hydrating
<1>9. CASE Seeded(c)
  BY <1>2, <1>9 DEF Seeded, TypeOK, RowRead, Stored, Hydrating
<1>10. CASE HydrateFail(c)
  BY <1>2, <1>10 DEF HydrateFail, Docs, Hydrating
<1> QED
  BY <1>3, <1>4, <1>5, <1>6, <1>7, <1>8, <1>9, <1>10 DEF Join

\* An edit goes into the sender's channel, and out of it into the room: it is
\* never in neither.  What a client receives was in its room before.
LEMMA EditTalk ==
  ASSUME "eagerClient" \notin Env, EditInv, NEW c \in Conns, Talk(c)
  PROVE  NothingBeforeAttach' /\ gap' = {} /\ SentIsInRoom' /\ NoEditDropped'
<1> USE DEF procVars, connVars, storeVars, EditInv, SyncInv
<1>1. ASSUME NEW u \in Updates, Edit(c, u)
      PROVE  NothingBeforeAttach' /\ gap' = {} /\ SentIsInRoom' /\ NoEditDropped'
  <2>1. Attached(c) /\ c \in open
    BY <1>1 DEF Edit
  <2>2. Frames(outbox'[c]) = Frames(outbox[c]) \cup {u}
    BY <1>1, FramesAppend DEF Edit, TypeOK
  <2>3. NothingBeforeAttach' /\ gap' = {} /\ SentIsInRoom'
    BY <1>1, <2>1 DEF Edit, TypeOK, NothingBeforeAttach, SentIsInRoom, Attached
  <2>4. NoEditDropped'
    BY <1>1, <2>1, <2>2 DEF Edit, TypeOK, NoEditDropped, Attached
  <2> QED
    BY <2>3, <2>4
<1>2. ~FrameDropped(c) /\ ~FramePending(c)
  BY DEF FrameDropped, FramePending, NothingBeforeAttach
<1>3. CASE HandleFrame(c)
  <2> DEFINE u == Head(outbox[c])
             r == room[c]
  <2>1. /\ outbox[c] \in Seq(Updates) /\ outbox[c] # <<>> /\ outbox'[c] = Tail(outbox[c])
        /\ \A d \in Conns \ {c} : outbox'[d] = outbox[d]
        /\ Attached(c) /\ r \in Conns
        /\ doc' = [doc EXCEPT ![r] = @ \cup {u}]
        /\ UNCHANGED <<pc, room, open, clientDoc, gap>>
    BY <1>3 DEF HandleFrame, TypeOK, HasRoom, Attached
  <2>2. Frames(outbox[c]) \subseteq Frames(outbox'[c]) \cup {u}
    BY <2>1, FramesTail
  <2>3. \A d \in Conns : inbox'[d] \subseteq inbox[d] \cup (IF d \in Listeners(r) THEN {u} ELSE {})
    BY <1>3 DEF HandleFrame, Broadcast
  <2> HIDE DEF u
  <2>4. \A q \in Conns : doc'[q] = IF q = r THEN doc[q] \cup {u} ELSE doc[q]
    BY <2>1 DEF TypeOK
  <2>5. NothingBeforeAttach' /\ gap' = {}
    BY <2>1, <2>3 DEF NothingBeforeAttach, Listeners, Attached
  <2>6. SentIsInRoom'
    BY <2>1, <2>3, <2>4 DEF SentIsInRoom, Listeners, Attached, HasRoom, TypeOK
  <2>7. NoEditDropped'
    BY <2>1, <2>2, <2>4 DEF NoEditDropped, Attached, HasRoom, TypeOK
  <2> QED
    BY <2>5, <2>6, <2>7
<1>4. CASE Deliver(c)
  BY <1>4 DEF Deliver, TypeOK, NothingBeforeAttach, SentIsInRoom, NoEditDropped, Attached
<1>5. CASE SockClose(c)
  BY <1>5 DEF SockClose, TypeOK, NothingBeforeAttach, SentIsInRoom, NoEditDropped, Attached
<1> QED
  BY <1>1, <1>2, <1>3, <1>4, <1>5 DEF Talk

\* EditInv is inductive: a save touches no client, a stop takes all of them.
LEMMA EditStep == "eagerClient" \notin Env /\ EditInv /\ [Next]_vars => EditInv'
<1> SUFFICES ASSUME "eagerClient" \notin Env, EditInv, [Next]_vars PROVE EditInv'
  OBVIOUS
<1>1. SyncInv'
  BY SyncStep DEF EditInv
<1>2. NothingBeforeAttach' /\ gap' = {} /\ SentIsInRoom' /\ NoEditDropped'
  <2> USE DEF procVars, connVars, clientVars, storeVars, EditInv
  <2>1. ASSUME UNCHANGED <<doc, pc, room, clientVars>>
        PROVE  NothingBeforeAttach' /\ gap' = {} /\ SentIsInRoom' /\ NoEditDropped'
    BY <2>1 DEF NothingBeforeAttach, SentIsInRoom, NoEditDropped, Attached
  <2>2. CASE Persist
    BY <2>1, <2>2 DEF Persist, RedisPersist, MongoPersist, MongoWrite, MongoWriteFail, RedisLoss
  <2>3. CASE BeginClose \/ Restart \/ UNCHANGED vars
    BY <2>1, <2>3 DEF BeginClose, Restart, vars
  <2>4. CASE ProcessEnds
    BY <2>4 DEF ProcessEnds, NothingBeforeAttach, SentIsInRoom, NoEditDropped, Attached
  <2> QED
    BY <2>2, <2>3, <2>4, EditJoin, EditTalk DEF Next, Stop, Kill, FinishClose
<1> QED
  BY <1>1, <1>2 DEF EditInv

\* While clients wait for the document, what a registered client shows is in its
\* room or in a frame on the way, through every race of two hydrations, failed
\* read, reordered upsert, close and crash.
THEOREM NoEditDroppedAlways ==
  ASSUME "eagerClient" \notin Env
  PROVE  Spec => []NoEditDropped
<1>1. EditInv => NoEditDropped
  BY DEF EditInv
<1> QED
  BY <1>1, EditInit, EditStep, PTL DEF Spec
-----------------------------------------------------------------------------
(* The queue of upserts.                                                   *)

\* What is left of a queue from which one upsert was taken, index by index.
LEMMA RemoveAtIndex ==
  ASSUME NEW S, NEW s \in Seq(S), NEW i \in DOMAIN s
  PROVE  /\ DOMAIN RemoveAt(s, i) = 1 .. Len(s) - 1
         /\ DOMAIN s = 1 .. Len(s) /\ Len(s) \in Nat
         /\ \A j \in 1 .. Len(s) - 1 :
              RemoveAt(s, i)[j] = IF j < i THEN s[j] ELSE s[j + 1]
<1> DEFINE l == SubSeq(s, 1, i - 1)
           r == SubSeq(s, i + 1, Len(s))
<1>1. i \in 1 .. Len(s) /\ Len(s) \in Nat /\ DOMAIN s = 1 .. Len(s)
  BY LenProperties
<1>2. l \in Seq(S) /\ Len(l) = i - 1 /\ \A j \in 1 .. i - 1 : l[j] = s[j]
  <2>1. \A j \in 1 .. i - 1 : s[j] \in S
    BY <1>1
  <2>2. /\ SubSeq(s, 1, i - 1) \in Seq(S)
        /\ Len(SubSeq(s, 1, i - 1)) = IF 1 <= i - 1 THEN (i - 1) - 1 + 1 ELSE 0
        /\ \A j \in 1 .. (i - 1) - 1 + 1 : SubSeq(s, 1, i - 1)[j] = s[1 + j - 1]
    BY <1>1, <2>1, SubSeqProperties
  <2> QED
    BY <1>1, <2>2
<1>3. /\ r \in Seq(S) /\ Len(r) = Len(s) - i
      /\ \A j \in 1 .. Len(s) - i : r[j] = s[i + j]
  <2>1. \A j \in i + 1 .. Len(s) : s[j] \in S
    BY <1>1
  <2>2. /\ SubSeq(s, i + 1, Len(s)) \in Seq(S)
        /\ Len(SubSeq(s, i + 1, Len(s))) =
             IF i + 1 <= Len(s) THEN Len(s) - (i + 1) + 1 ELSE 0
        /\ \A j \in 1 .. Len(s) - (i + 1) + 1 :
             SubSeq(s, i + 1, Len(s))[j] = s[(i + 1) + j - 1]
    BY <1>1, <2>1, SubSeqProperties
  <2> QED
    BY <1>1, <2>2
<1> HIDE DEF l, r
<1>4. /\ l \o r \in Seq(S)
      /\ Len(l \o r) = Len(l) + Len(r)
      /\ \A j \in 1 .. Len(l) + Len(r) :
           (l \o r)[j] = IF j <= Len(l) THEN l[j] ELSE r[j - Len(l)]
  BY <1>2, <1>3, ConcatProperties
<1>5. /\ Len(l \o r) = Len(s) - 1
      /\ \A j \in 1 .. Len(s) - 1 : (l \o r)[j] = IF j < i THEN s[j] ELSE s[j + 1]
  <2>1. Len(l) + Len(r) = Len(s) - 1
    BY <1>1, <1>2, <1>3
  <2>2. SUFFICES ASSUME NEW j \in 1 .. Len(s) - 1
                 PROVE  (l \o r)[j] = IF j < i THEN s[j] ELSE s[j + 1]
    BY <1>4, <2>1
  <2>3. (l \o r)[j] = IF j <= i - 1 THEN l[j] ELSE r[j - (i - 1)]
    BY <1>2, <1>4, <2>1
  <2>4. CASE j < i
    <3>1. j \in 1 .. i - 1 /\ j <= i - 1
      BY <1>1, <2>4
    <3> QED
      BY <1>2, <2>3, <2>4, <3>1
  <2>5. CASE ~(j < i)
    <3>1. /\ ~(j <= i - 1) /\ j - (i - 1) \in 1 .. Len(s) - i
          /\ i + (j - (i - 1)) = j + 1
      BY <1>1, <2>5
    <3>2. r[j - (i - 1)] = s[i + (j - (i - 1))]
      BY <1>3, <3>1
    <3> QED
      BY <2>3, <2>5, <3>1, <3>2
  <2> QED
    BY <2>4, <2>5
<1>6. RemoveAt(s, i) = l \o r
  BY DEF RemoveAt, l, r
<1> QED
  BY <1>1, <1>4, <1>5, <1>6, LenProperties

\* An index into a queue with one more upsert is an old index or the new last one.
LEMMA AppendIndex ==
  ASSUME NEW S, NEW s \in Seq(S), NEW e \in S
  PROVE  /\ Len(s) \in Nat /\ DOMAIN s = 1 .. Len(s)
         /\ DOMAIN Append(s, e) = 1 .. Len(s) + 1
         /\ \A i \in 1 .. Len(s) : Append(s, e)[i] = s[i]
         /\ Append(s, e)[Len(s) + 1] = e
  BY AppendProperties, LenProperties

\* Every upsert in the queue carries a state of the document.
LEMMA QueuedState ==
  ASSUME TypeOK, NEW i \in DOMAIN mongoQ
  PROVE  mongoQ[i].state \in Docs /\ Content(mongoQ[i].state) = mongoQ[i].state
<1>1. mongoQ[i] \in [state : Docs, flush : BOOLEAN]
  BY ElementOfSeq, LenProperties DEF TypeOK
<1>2. mongoQ[i].state \in Docs
  BY <1>1
<1> QED
  BY <1>2, NoneAssumption DEF Content, Docs

\* What is left in the queue was in it before.
LEMMA RemoveAtElement ==
  ASSUME NEW S, NEW s \in Seq(S), NEW i \in DOMAIN s
  PROVE  \A j \in DOMAIN RemoveAt(s, i) : \E k \in DOMAIN s : RemoveAt(s, i)[j] = s[k]
<1> SUFFICES ASSUME NEW j \in DOMAIN RemoveAt(s, i)
             PROVE  \E k \in DOMAIN s : RemoveAt(s, i)[j] = s[k]
  OBVIOUS
<1>1. /\ Len(s) \in Nat /\ DOMAIN s = 1 .. Len(s) /\ j \in 1 .. Len(s) - 1
      /\ RemoveAt(s, i)[j] = IF j < i THEN s[j] ELSE s[j + 1]
  BY RemoveAtIndex
<1>2. j \in DOMAIN s /\ j + 1 \in DOMAIN s
  BY <1>1
<1> QED
  BY <1>1, <1>2

-----------------------------------------------------------------------------
(* OneRoomPerSession: MapInv is inductive without overlapping hydrations.   *)

\* At start there is no room and nobody joins.
LEMMA MapInit == Init => MapInv
<1> SUFFICES ASSUME Init PROVE MapInv
  OBVIOUS
<1>1. OneHydration /\ RoomIsMapped /\ SavesAreMapped /\ HydIsFresh
  BY DEF Init, OneHydration, RoomIsMapped, SavesAreMapped, HydIsFresh, Hydrating
<1> QED
  BY <1>1, SyncInit DEF MapInv

\* Where MapInv holds, a hydration is alone: there is no room, so no timer is armed
\* and no upsert is in flight, and nobody else hydrates or was given a room.
LEMMA HydrationAlone ==
  ASSUME MapInv, NEW c \in Conns, pc[c] \in Hydrating
  PROVE  /\ rooms = None /\ mongoQ = <<>> /\ redisTimer = {} /\ mongoTimer = {}
         /\ \A d \in Conns : pc[d] \notin {"refresh", "attached"}
         /\ \A d \in Conns : d # c => pc[d] \notin Hydrating
  BY NoneAssumption
     DEF MapInv, SyncInv, OneHydration, SavesAreMapped, RoomIsMapped, HasRoom, TypeOK

\* The connection that ends its hydration is in the room it puts in the map.
LEMMA MapInstall ==
  ASSUME MapInv, NEW c \in Conns, NEW content \in Docs, Install(c, content),
         pc[c] \in Hydrating
  PROVE  OneHydration' /\ RoomIsMapped' /\ SavesAreMapped' /\ HydIsFresh'
<1> USE DEF MapInv, SyncInv
<1>1. /\ rooms' = c /\ c # None /\ mongoQ' = <<>> /\ redisTimer' = {} /\ mongoTimer' = {}
      /\ pc' = [pc EXCEPT ![c] = "attached"] /\ room' = [room EXCEPT ![c] = c]
      /\ \A d \in Conns : d # c => pc[d] \notin Hydrating \cup {"refresh", "attached"}
  BY HydrationAlone, NoneAssumption DEF Install, Attach
<1>2. OneHydration' /\ RoomIsMapped' /\ SavesAreMapped'
  BY <1>1 DEF OneHydration, RoomIsMapped, SavesAreMapped, TypeOK, Hydrating
<1>3. HydIsFresh'
  BY <1>1 DEF HydIsFresh, TypeOK, Hydrating
<1> QED
  BY <1>2, <1>3

\* Only a connection that finds no room hydrates, and it hydrates alone; the others
\* are given the room in the map.
LEMMA MapJoin ==
  ASSUME "race" \notin Env, MapInv, NEW c \in Conns, Join(c)
  PROVE  OneHydration' /\ RoomIsMapped' /\ SavesAreMapped' /\ HydIsFresh'
<1> USE DEF procVars, connVars, clientVars, storeVars, MapInv, SyncInv
<1>1. CASE Connect(c) \/ Reject(c)
  <2>1. /\ \E v \in {"auth", "closed"} : pc' = [pc EXCEPT ![c] = v]
        /\ UNCHANGED <<procVars, room, hyd, storeVars>>
    BY <1>1 DEF Connect, Reject
  <2> QED
    BY <2>1 DEF OneHydration, RoomIsMapped, SavesAreMapped, HydIsFresh, TypeOK, Hydrating
<1>2. CASE FindRoom(c) \/ JoinRoom(c)
  <2>1. /\ \E v \in {"refresh", "attached"} : pc' = [pc EXCEPT ![c] = v]
        /\ room' = [room EXCEPT ![c] = rooms]
        /\ pc[c] \notin Hydrating
        /\ UNCHANGED <<procVars, hyd, storeVars>>
    BY <1>2 DEF FindRoom, JoinRoom, Attach, RoomIsMapped, TypeOK, Hydrating
  <2> QED
    BY <2>1 DEF OneHydration, RoomIsMapped, SavesAreMapped, HydIsFresh, TypeOK, Hydrating
<1>3. CASE MissRoom(c)
  <2>1. \A d \in Conns : pc[d] \notin Hydrating
    BY <1>3 DEF MissRoom
  <2>2. /\ pc' = [pc EXCEPT ![c] = "redisGet"] /\ hyd' = [hyd EXCEPT ![c] = redis]
        /\ rooms = None /\ UNCHANGED <<procVars, room, storeVars>>
    BY <1>3 DEF MissRoom
  <2>3. OneHydration' /\ RoomIsMapped' /\ SavesAreMapped'
    BY <2>1, <2>2 DEF OneHydration, RoomIsMapped, SavesAreMapped, TypeOK, Hydrating
  <2>4. HydIsFresh'
    BY <2>1, <2>2 DEF HydIsFresh, TypeOK, Hydrating
  <2> QED
    BY <2>3, <2>4
<1>4. CASE RedisMiss(c) \/ MongoFind(c) \/ SeedRedis(c)
  <2>1. /\ pc[c] \in Hydrating /\ \E v \in Hydrating : pc' = [pc EXCEPT ![c] = v]
        /\ UNCHANGED <<procVars, room, mongo, mongoQ>>
    BY <1>4 DEF RedisMiss, MongoFind, SeedRedis, Hydrating
  <2>2. rooms = None /\ \A d \in Conns : d # c => pc[d] \notin Hydrating
    BY <2>1, HydrationAlone
  <2>3. OneHydration' /\ RoomIsMapped' /\ SavesAreMapped'
    BY <2>1, <2>2 DEF OneHydration, RoomIsMapped, SavesAreMapped, TypeOK, Hydrating
  <2>4. HydIsFresh'
    <3>1. CASE RedisMiss(c)
      BY <2>2, <3>1 DEF RedisMiss, HydIsFresh, TypeOK, Hydrating
    <3>2. CASE MongoFind(c)
      BY <2>2, <3>2 DEF MongoFind, HydIsFresh, TypeOK, Hydrating
    <3>3. CASE SeedRedis(c)
      BY <2>2, <3>3 DEF SeedRedis, HydIsFresh, TypeOK, Hydrating
    <3> QED
      BY <1>4, <3>1, <3>2, <3>3
  <2> QED
    BY <2>3, <2>4
<1>5. CASE RedisHit(c)
  BY <1>5, MapInstall DEF RedisHit, TypeOK, Stored, Hydrating
<1>6. CASE NoRow(c)
  BY <1>6, MapInstall DEF NoRow, Docs, Hydrating
<1>7. CASE Seeded(c)
  BY <1>7, MapInstall DEF Seeded, TypeOK, RowRead, Stored, Hydrating
<1>8. CASE HydrateFail(c)
  <2>1. {} \in Docs /\ pc[c] \in Hydrating /\ Install(c, {})
    BY <1>8 DEF HydrateFail, Docs, Hydrating
  <2> QED
    BY <2>1, MapInstall
<1> QED
  BY <1>1, <1>2, <1>3, <1>4, <1>5, <1>6, <1>7, <1>8 DEF Join

\* A frame arms the timers of the room in the map, and a close empties no room.
LEMMA MapTalk ==
  ASSUME MapInv, NEW c \in Conns, Talk(c)
  PROVE  OneHydration' /\ RoomIsMapped' /\ SavesAreMapped' /\ HydIsFresh'
<1> USE DEF procVars, connVars, storeVars, MapInv, SyncInv
<1>1. CASE HandleFrame(c)
  <2>1. room[c] = rooms /\ rooms # None
    BY <1>1, NoneAssumption DEF HandleFrame, Attached, HasRoom, RoomIsMapped
  <2>2. /\ redisTimer' = redisTimer \cup {rooms} /\ mongoTimer' = mongoTimer \cup {rooms}
        /\ UNCHANGED <<rooms, connVars, storeVars>>
    BY <1>1, <2>1 DEF HandleFrame, SchedulePersist
  <2> QED
    BY <2>1, <2>2 DEF OneHydration, RoomIsMapped, SavesAreMapped, HydIsFresh
<1>2. CASE SockClose(c)
  <2>1. /\ pc' = pc \/ (Attached(c) /\ pc' = [pc EXCEPT ![c] = "closed"])
        /\ UNCHANGED <<procVars, room, hyd, storeVars>>
    BY <1>2 DEF SockClose
  <2> QED
    BY <2>1 DEF OneHydration, RoomIsMapped, SavesAreMapped, HydIsFresh, TypeOK, Hydrating
<1>3. ASSUME UNCHANGED <<procVars, connVars, storeVars>>
      PROVE  OneHydration' /\ RoomIsMapped' /\ SavesAreMapped' /\ HydIsFresh'
  BY <1>3 DEF OneHydration, RoomIsMapped, SavesAreMapped, HydIsFresh
<1> QED
  BY <1>1, <1>2, <1>3 DEF Talk, Edit, FrameDropped, FramePending, Deliver

\* Only the room in the map is saved, and no save changes a store during a hydration.
LEMMA MapPersist ==
  ASSUME MapInv, Persist
  PROVE  OneHydration' /\ RoomIsMapped' /\ SavesAreMapped' /\ HydIsFresh'
<1> USE DEF procVars, connVars, clientVars, MapInv, SyncInv
<1>1. /\ UNCHANGED <<rooms, connVars>>
      /\ redisTimer' \subseteq redisTimer /\ mongoTimer' \subseteq mongoTimer
  BY DEF Persist, RedisPersist, MongoPersist, MongoWrite, MongoWriteFail, RedisLoss
<1>2. rooms = None => UNCHANGED <<mongo, mongoQ>> /\ redis' \in {None, redis}
  <2> SUFFICES ASSUME rooms = None PROVE UNCHANGED <<mongo, mongoQ>> /\ redis' \in {None, redis}
    OBVIOUS
  <2>1. DOMAIN mongoQ = {} /\ redisTimer = {} /\ mongoTimer = {}
    BY NoneAssumption DEF SavesAreMapped, TypeOK
  <2>2. RedisLoss
    BY <2>1 DEF Persist, RedisPersist, MongoPersist
  <2> QED
    BY <2>2 DEF RedisLoss
<1>3. OneHydration' /\ RoomIsMapped' /\ SavesAreMapped'
  BY <1>1, <1>2 DEF OneHydration, RoomIsMapped, SavesAreMapped
<1>4. HydIsFresh'
  BY <1>1, <1>2 DEF HydIsFresh, OneHydration, Hydrating
<1> QED
  BY <1>3, <1>4

\* A close takes the timers of the room in the map, a process end everything.
LEMMA MapStop ==
  ASSUME MapInv, Stop \/ Restart
  PROVE  OneHydration' /\ RoomIsMapped' /\ SavesAreMapped' /\ HydIsFresh'
<1> USE DEF procVars, connVars, storeVars, MapInv, SyncInv
<1>1. CASE ProcessEnds
  BY <1>1 DEF ProcessEnds, OneHydration, RoomIsMapped, SavesAreMapped, HydIsFresh, Hydrating
<1>2. CASE BeginClose
  <2>1. /\ UNCHANGED <<rooms, connVars, redis, mongo>>
        /\ redisTimer' \subseteq redisTimer /\ mongoTimer' \subseteq mongoTimer
        /\ rooms = None => mongoQ' = mongoQ
    BY <1>2 DEF BeginClose
  <2> QED
    BY <2>1 DEF OneHydration, RoomIsMapped, SavesAreMapped, HydIsFresh
<1>3. CASE Restart
  BY <1>3 DEF Restart, OneHydration, RoomIsMapped, SavesAreMapped, HydIsFresh
<1> QED
  BY <1>1, <1>2, <1>3 DEF Stop, Kill, FinishClose

\* MapInv is inductive without overlapping hydrations.
LEMMA MapStep == "race" \notin Env /\ MapInv /\ [Next]_vars => MapInv'
<1> SUFFICES ASSUME "race" \notin Env, MapInv, [Next]_vars PROVE MapInv'
  OBVIOUS
<1>1. SyncInv'
  BY SyncStep DEF MapInv
<1>2. OneHydration' /\ RoomIsMapped' /\ SavesAreMapped' /\ HydIsFresh'
  <2>1. CASE UNCHANGED vars
    BY <2>1 DEF vars, procVars, connVars, storeVars, MapInv, OneHydration, RoomIsMapped,
                SavesAreMapped, HydIsFresh
  <2>2. CASE Next
    BY <2>2, MapJoin, MapTalk, MapPersist, MapStop DEF Next
  <2> QED
    BY <2>1, <2>2
<1> QED
  BY <1>1, <1>2 DEF MapInv

\* Unless two hydrations overlap, every registered client of the session edits one
\* document, through failed reads and writes, reordered upserts, closes and crashes.
THEOREM OneRoomAlways == ASSUME "race" \notin Env PROVE Spec => []OneRoomPerSession
<1>1. MapInv => OneRoomPerSession
  BY DEF MapInv, RoomIsMapped, OneRoomPerSession, Attached
<1> QED
  BY <1>1, MapInit, MapStep, PTL DEF Spec

-----------------------------------------------------------------------------
(* RoomCoversMongo: CoverInv is inductive in a CoverEnv.                   *)

\* At start both stores are empty.
LEMMA CoverInit == Init => CoverInv
<1> SUFFICES ASSUME Init PROVE CoverInv
  OBVIOUS
<1>1. SavesInRoom /\ RedisIsAhead /\ ClosingIsOrderly
  BY DEF Init, SavesInRoom, RedisIsAhead, ClosingIsOrderly
<1> QED
  BY <1>1, MapInit DEF CoverInv

\* A hydration ends with a room that has all that Mongo has.
LEMMA CoverInstall ==
  ASSUME CoverInv, NEW c \in Conns, NEW content \in Docs, Install(c, content),
         redis' = redis, pc[c] \in Hydrating,
         Content(mongo) \subseteq content, redis \in {None, content}
  PROVE  SavesInRoom' /\ RedisIsAhead'
<1> USE DEF CoverInv, MapInv, SyncInv
<1>1. /\ rooms' = c /\ doc'[c] = content /\ mongoQ' = <<>> /\ mongo' = mongo /\ hyd' = hyd
      /\ pc' = [pc EXCEPT ![c] = "attached"]
  BY HydrationAlone DEF Install, Attach, TypeOK
<1>2. \A d \in Conns : pc'[d] = "redisGet" => pc[d] = "redisGet"
  BY <1>1 DEF TypeOK
<1>3. SavesInRoom' /\ RedisIsAhead'
  BY <1>1, <1>2 DEF SavesInRoom, RedisIsAhead
<1> QED
  BY <1>3

\* What a hydration finds, in Redis or in Mongo, is all that Mongo has.
LEMMA CoverJoin ==
  ASSUME CoverEnv, CoverInv, NEW c \in Conns, Join(c)
  PROVE  SavesInRoom' /\ RedisIsAhead'
<1> USE DEF procVars, connVars, clientVars, storeVars, CoverInv, MapInv, SyncInv
<1>1. CASE Connect(c) \/ Reject(c) \/ FindRoom(c) \/ JoinRoom(c) \/ RedisMiss(c)
  <2>1. /\ \E v \in PCs \ {"redisGet"} : pc' = [pc EXCEPT ![c] = v]
        /\ UNCHANGED <<rooms, doc, redisTimer, hyd, storeVars>>
    BY <1>1 DEF Connect, Reject, FindRoom, JoinRoom, Attach, RedisMiss, PCs
  <2> QED
    BY <2>1 DEF SavesInRoom, RedisIsAhead, TypeOK
<1>2. CASE MissRoom(c)
  BY <1>2 DEF MissRoom, SavesInRoom, RedisIsAhead, TypeOK
<1>3. CASE MongoFind(c)
  BY <1>3 DEF MongoFind, SavesInRoom, RedisIsAhead, TypeOK
<1>4. CASE SeedRedis(c)
  <2>1. rooms = None /\ mongoQ = <<>> /\ hyd[c] = mongo /\ mongo # None
    BY <1>4, HydrationAlone DEF SeedRedis, HydIsFresh, Hydrating
  <2> QED
    BY <1>4, <2>1 DEF SeedRedis, SavesInRoom, RedisIsAhead, TypeOK, Content
<1>5. CASE RedisHit(c)
  BY <1>5, CoverInstall DEF RedisHit, HydIsFresh, RedisIsAhead, TypeOK, Stored, Hydrating
<1>6. CASE NoRow(c)
  <2>1. mongo = None /\ redis = None
    BY <1>6 DEF NoRow, HydIsFresh
  <2> QED
    BY <1>6, <2>1, CoverInstall DEF NoRow, Docs, Content, Hydrating
<1>7. CASE Seeded(c)
  <2>1. hyd[c] = mongo /\ mongo # None /\ redis \in {None, mongo}
    BY <1>7 DEF Seeded, HydIsFresh, RowRead
  <2> QED
    BY <1>7, <2>1, CoverInstall DEF Seeded, TypeOK, Stored, Content, Hydrating
<1>8. ~HydrateFail(c)
  BY DEF HydrateFail, CoverEnv
<1> QED
  BY <1>1, <1>2, <1>3, <1>4, <1>5, <1>6, <1>7, <1>8 DEF Join

\* A room's document only grows, and each growth arms its Redis timer.
LEMMA CoverTalk ==
  ASSUME CoverInv, NEW c \in Conns, Talk(c)
  PROVE  SavesInRoom' /\ RedisIsAhead'
<1> USE DEF procVars, connVars, storeVars, CoverInv, MapInv, SyncInv
<1>1. CASE HandleFrame(c)
  <2>1. room[c] = rooms /\ rooms \in Conns /\ rooms # None
    BY <1>1, NoneAssumption DEF HandleFrame, Attached, HasRoom, RoomIsMapped
  <2>2. /\ doc[rooms] \subseteq doc'[rooms] /\ redisTimer' = redisTimer \cup {rooms}
        /\ UNCHANGED <<rooms, connVars, storeVars>>
    BY <1>1, <2>1 DEF HandleFrame, SchedulePersist, TypeOK
  <2> QED
    BY <2>1, <2>2 DEF SavesInRoom, RedisIsAhead
<1>2. CASE SockClose(c)
  <2>1. /\ pc' = pc \/ pc' = [pc EXCEPT ![c] = "closed"]
        /\ UNCHANGED <<rooms, doc, redisTimer, hyd, storeVars>>
    BY <1>2 DEF SockClose
  <2> QED
    BY <2>1 DEF SavesInRoom, RedisIsAhead, TypeOK
<1>3. ASSUME UNCHANGED <<procVars, connVars, storeVars>> PROVE SavesInRoom' /\ RedisIsAhead'
  BY <1>3 DEF SavesInRoom, RedisIsAhead
<1> QED
  BY <1>1, <1>2, <1>3 DEF Talk, Edit, FrameDropped, FramePending, Deliver

\* An upsert of the room's document carries no more than the room, nor more than a
\* Redis that outlives the process and has no timer.
LEMMA CoverAppend ==
  ASSUME CoverInv, rooms # None, NEW e \in [state : Docs, flush : BOOLEAN],
         e.state = doc[rooms], mongoQ' = Append(mongoQ, e),
         "externalRedis" \in Env => rooms \notin redisTimer /\ redisTimer' = redisTimer,
         UNCHANGED <<rooms, doc, redis, mongo, pc, hyd>>
  PROVE  SavesInRoom' /\ RedisIsAhead'
<1> DEFINE n == Len(mongoQ)
<1>1. /\ n \in Nat /\ DOMAIN mongoQ = 1 .. n /\ DOMAIN mongoQ' = 1 .. n + 1
      /\ \A i \in 1 .. n : mongoQ'[i] = mongoQ[i]
      /\ mongoQ'[n + 1] = e
  BY AppendIndex DEF CoverInv, MapInv, SyncInv, TypeOK
<1> HIDE DEF n
<1>2. \A i \in 1 .. n + 1 : i \in 1 .. n \/ i = n + 1
  BY <1>1
<1>3. SavesInRoom'
  BY <1>1, <1>2 DEF CoverInv, SavesInRoom
<1>4. RedisIsAhead'
  BY <1>1, <1>2 DEF CoverInv, RedisIsAhead
<1> QED
  BY <1>3, <1>4

\* Taking an upsert out of the queue, and perhaps writing it, brings in nothing new.
LEMMA CoverRemove ==
  ASSUME CoverInv, rooms # None, NEW i \in DOMAIN mongoQ, mongoQ' = RemoveAt(mongoQ, i),
         Content(mongo') \in {Content(mongo), mongoQ[i].state},
         UNCHANGED <<rooms, doc, redis, redisTimer, pc, hyd>>
  PROVE  SavesInRoom' /\ RedisIsAhead'
<1>1. \A j \in DOMAIN mongoQ' : \E k \in DOMAIN mongoQ : mongoQ'[j] = mongoQ[k]
  BY RemoveAtElement DEF CoverInv, MapInv, SyncInv, TypeOK
<1>2. \A c \in Conns : pc[c] # "redisGet"
  BY DEF CoverInv, MapInv, OneHydration, Hydrating
<1>3. SavesInRoom'
  BY <1>1 DEF CoverInv, SavesInRoom
<1>4. RedisIsAhead'
  BY <1>1, <1>2 DEF CoverInv, RedisIsAhead
<1> QED
  BY <1>3, <1>4

\* The debounced saves write the room's own document.
LEMMA CoverPersist ==
  ASSUME CoverEnv, CoverInv, Persist
  PROVE  SavesInRoom' /\ RedisIsAhead'
<1> USE DEF procVars, connVars, clientVars, CoverInv, MapInv, SyncInv
<1>1. ASSUME NEW r \in Conns, RedisPersist(r) PROVE SavesInRoom' /\ RedisIsAhead'
  <2>1. r = rooms /\ rooms # None
    BY <1>1, NoneAssumption DEF RedisPersist, SavesAreMapped
  <2>2. /\ redis' = doc[rooms] \/ ("externalRedis" \notin Env /\ redis' = redis)
        /\ UNCHANGED <<rooms, doc, connVars, mongo, mongoQ>>
    BY <1>1, <2>1 DEF RedisPersist, CoverEnv, ClosingIsOrderly
  <2> QED
    BY <2>1, <2>2 DEF SavesInRoom, RedisIsAhead
<1>2. ASSUME NEW r \in Conns, MongoPersist(r) PROVE SavesInRoom' /\ RedisIsAhead'
  <2> DEFINE e == [state |-> doc[rooms], flush |-> FALSE]
  <2>1. r = rooms /\ rooms # None /\ rooms \notin redisTimer
    BY <1>2, NoneAssumption DEF MongoPersist, SavesAreMapped
  <2>2. /\ mongoQ' = Append(mongoQ, e)
        /\ UNCHANGED <<rooms, doc, redisTimer, connVars, redis, mongo>>
    BY <1>2, <2>1 DEF MongoPersist
  <2>3. e \in [state : Docs, flush : BOOLEAN] /\ e.state = doc[rooms]
    BY <2>1 DEF TypeOK, Rooms
  <2> QED
    BY <2>1, <2>2, <2>3, CoverAppend
<1>3. ASSUME NEW i \in DOMAIN mongoQ, MongoWrite(i) \/ MongoWriteFail(i)
      PROVE  SavesInRoom' /\ RedisIsAhead'
  <2>1. /\ mongo' \in {mongo, mongoQ[i].state} /\ mongoQ' = RemoveAt(mongoQ, i)
        /\ UNCHANGED <<rooms, doc, redisTimer, connVars, redis>>
    BY <1>3 DEF MongoWrite, MongoWriteFail
  <2>2. rooms # None
    BY DEF SavesAreMapped
  <2>3. Content(mongo') \in {Content(mongo), mongoQ[i].state}
    BY <2>1, QueuedState
  <2> QED
    BY <2>1, <2>2, <2>3, CoverRemove
<1>4. CASE RedisLoss
  BY <1>4 DEF RedisLoss, SavesInRoom, RedisIsAhead
<1> QED
  BY <1>1, <1>2, <1>3, <1>4 DEF Persist

\* An orderly close upserts the room's document, an end leaves no room.
LEMMA CoverStop ==
  ASSUME CoverEnv, CoverInv, Stop \/ Restart
  PROVE  SavesInRoom' /\ RedisIsAhead'
<1> USE DEF procVars, connVars, storeVars, CoverInv, MapInv, SyncInv
<1>1. CASE ProcessEnds
  BY <1>1 DEF ProcessEnds, SavesInRoom, RedisIsAhead
<1>2. CASE BeginClose
  <2>1. "externalRedis" \notin Env /\ UNCHANGED <<rooms, doc, connVars, redis, mongo>>
    BY <1>2 DEF BeginClose, CoverEnv
  <2>2. CASE rooms = None
    BY <1>2, <2>1, <2>2 DEF BeginClose, SavesInRoom, RedisIsAhead
  <2>3. CASE rooms # None
    <3> DEFINE e == [state |-> doc[rooms], flush |-> TRUE]
    <3>1. mongoQ' = Append(mongoQ, e)
      BY <1>2, <2>3 DEF BeginClose
    <3>2. e \in [state : Docs, flush : BOOLEAN] /\ e.state = doc[rooms]
      BY <2>3 DEF TypeOK, Rooms
    <3> QED
      BY <2>1, <2>3, <3>1, <3>2, CoverAppend
  <2> QED
    BY <2>2, <2>3
<1>3. CASE Restart
  BY <1>3 DEF Restart, SavesInRoom, RedisIsAhead
<1> QED
  BY <1>1, <1>2, <1>3 DEF Stop, Kill, FinishClose

\* The process is "closing" only after onApplicationShutdown began.
LEMMA ClosingStep ==
  ASSUME ClosingIsOrderly, [Next]_vars
  PROVE  ClosingIsOrderly'
<1> USE DEF ClosingIsOrderly
<1>1. ASSUME NEW c \in Conns, Join(c) \/ Talk(c) PROVE up' = up
  BY <1>1 DEF Join, Connect, Reject, FindRoom, MissRoom, JoinRoom, RedisHit, RedisMiss,
              MongoFind, NoRow, SeedRedis, Seeded, HydrateFail, Install,
              Talk, Edit, FrameDropped, FramePending, HandleFrame, Deliver, SockClose
<1>2. CASE Persist
  BY <1>2 DEF Persist, RedisPersist, MongoPersist, MongoWrite, MongoWriteFail, RedisLoss
<1>3. CASE Stop \/ Restart
  BY <1>3 DEF Stop, Kill, BeginClose, FinishClose, ProcessEnds, Restart
<1> QED
  BY <1>1, <1>2, <1>3 DEF Next, vars

\* CoverInv is inductive in a CoverEnv.
LEMMA CoverStep == CoverEnv /\ CoverInv /\ [Next]_vars => CoverInv'
<1> SUFFICES ASSUME CoverEnv, CoverInv, [Next]_vars PROVE CoverInv'
  OBVIOUS
<1>1. MapInv' /\ ClosingIsOrderly'
  BY MapStep, ClosingStep DEF CoverInv, CoverEnv
<1>2. SavesInRoom' /\ RedisIsAhead'
  <2>1. CASE UNCHANGED vars
    BY <2>1 DEF vars, procVars, connVars, storeVars, CoverInv, SavesInRoom, RedisIsAhead
  <2>2. CASE Next
    BY <2>2, CoverJoin, CoverTalk, CoverPersist, CoverStop DEF Next
  <2> QED
    BY <2>1, <2>2
<1> QED
  BY <1>1, <1>2 DEF CoverInv

\* In a CoverEnv the room in the map holds all the durable state, in whatever order
\* the upserts land.
THEOREM RoomCoversMongoAlways == ASSUME CoverEnv PROVE Spec => []RoomCoversMongo
<1>1. CoverInv => RoomCoversMongo
  BY DEF CoverInv, SavesInRoom, RoomCoversMongo
<1> QED
  BY <1>1, CoverInit, CoverStep, PTL DEF Spec

-----------------------------------------------------------------------------
(* MongoNeverLoses: SaveInv is inductive in a SafeEnv.                     *)

\* At start nothing is in flight.
LEMMA SaveInit == Init => SaveInv
<1> SUFFICES ASSUME Init PROVE SaveInv
  OBVIOUS
<1>1. SavesGrow
  BY DEF Init, SavesGrow
<1> QED
  BY <1>1, CoverInit DEF SaveInv

\* An upsert of the room's document carries all that those before it carry.
LEMMA GrowAppend ==
  ASSUME SaveInv, rooms # None, NEW e \in [state : Docs, flush : BOOLEAN],
         e.state = doc[rooms], mongoQ' = Append(mongoQ, e), UNCHANGED mongo
  PROVE  SavesGrow'
<1> DEFINE n == Len(mongoQ)
<1>1. /\ n \in Nat /\ DOMAIN mongoQ = 1 .. n /\ DOMAIN mongoQ' = 1 .. n + 1
      /\ \A i \in 1 .. n : mongoQ'[i] = mongoQ[i]
      /\ mongoQ'[n + 1] = e
  BY AppendIndex DEF SaveInv, CoverInv, MapInv, SyncInv, TypeOK
<1> HIDE DEF n
<1>2. \A i, j \in 1 .. n + 1 : /\ i \in 1 .. n \/ i = n + 1
                               /\ i < j => i \in 1 .. n
  BY <1>1
<1>3. /\ Content(mongo) \subseteq doc[rooms]
      /\ \A i \in 1 .. n : mongoQ[i].state \subseteq doc[rooms]
  BY <1>1 DEF SaveInv, CoverInv, SavesInRoom
<1> QED
  BY <1>1, <1>2, <1>3 DEF SaveInv, SavesGrow

\* Completing the oldest upsert, or losing any, keeps the others in order.
LEMMA GrowRemove ==
  ASSUME SaveInv, NEW i \in DOMAIN mongoQ, mongoQ' = RemoveAt(mongoQ, i),
         Content(mongo') = Content(mongo) \/ (i = 1 /\ Content(mongo') = mongoQ[1].state)
  PROVE  SavesGrow'
<1> DEFINE n == Len(mongoQ)
           old(j) == IF j < i THEN j ELSE j + 1
<1>1. /\ n \in Nat /\ DOMAIN mongoQ = 1 .. n /\ DOMAIN mongoQ' = 1 .. n - 1
      /\ \A j \in 1 .. n - 1 : mongoQ'[j] = mongoQ[old(j)]
  <2>1. \A j \in 1 .. n - 1 : RemoveAt(mongoQ, i)[j] = IF j < i THEN mongoQ[j] ELSE mongoQ[j + 1]
    BY RemoveAtIndex DEF SaveInv, CoverInv, MapInv, SyncInv, TypeOK
  <2> QED
    BY <2>1, RemoveAtIndex DEF SaveInv, CoverInv, MapInv, SyncInv, TypeOK
<1> HIDE DEF n
<1>2. \A j \in 1 .. n - 1 : old(j) \in 1 .. n /\ (i = 1 => 1 < old(j))
  BY <1>1
<1>3. \A j, k \in 1 .. n - 1 : j < k => old(j) < old(k)
  BY <1>1
<1> HIDE DEF old
<1>4. \A j \in 1 .. n - 1 : Content(mongo') \subseteq mongoQ'[j].state
  BY <1>1, <1>2 DEF SaveInv, SavesGrow
<1>5. \A j, k \in 1 .. n - 1 : j < k => mongoQ'[j].state \subseteq mongoQ'[k].state
  BY <1>1, <1>2, <1>3 DEF SaveInv, SavesGrow
<1> QED
  BY <1>1, <1>4, <1>5 DEF SavesGrow

\* SaveInv is inductive in a SafeEnv: the queue is only appended to, with the room's
\* document, and only its oldest upsert is written.
LEMMA SaveStep == SafeEnv /\ SaveInv /\ [Next]_vars => SaveInv'
<1> SUFFICES ASSUME SafeEnv, SaveInv, [Next]_vars PROVE SavesGrow'
  BY CoverStep DEF SaveInv, SafeEnv
<1> USE DEF procVars, connVars, clientVars, storeVars
<1>1. ASSUME UNCHANGED <<mongo, mongoQ>> PROVE SavesGrow'
  BY <1>1 DEF SaveInv, SavesGrow
<1>2. ASSUME NEW c \in Conns, Join(c) PROVE UNCHANGED <<mongo, mongoQ>>
  BY <1>2 DEF Join, Connect, Reject, FindRoom, MissRoom, JoinRoom, RedisHit, RedisMiss,
              MongoFind, NoRow, SeedRedis, Seeded, HydrateFail, Install
<1>3. ASSUME NEW c \in Conns, Talk(c) PROVE UNCHANGED <<mongo, mongoQ>>
  BY <1>3 DEF Talk, Edit, FrameDropped, FramePending, HandleFrame, Deliver, SockClose
<1>4. CASE Persist
  <2>1. ASSUME NEW r \in Conns, MongoPersist(r) PROVE SavesGrow'
    <3> DEFINE e == [state |-> doc[rooms], flush |-> FALSE]
    <3>1. r = rooms /\ rooms # None
      BY <2>1, NoneAssumption
         DEF MongoPersist, SaveInv, CoverInv, MapInv, SavesAreMapped
    <3>2. mongoQ' = Append(mongoQ, e) /\ UNCHANGED mongo
      BY <2>1, <3>1 DEF MongoPersist
    <3>3. e \in [state : Docs, flush : BOOLEAN] /\ e.state = doc[rooms]
      BY <3>1 DEF SaveInv, CoverInv, MapInv, SyncInv, TypeOK
    <3> QED
      BY <3>1, <3>2, <3>3, GrowAppend
  <2>2. ASSUME NEW i \in DOMAIN mongoQ, MongoWrite(i) \/ MongoWriteFail(i) PROVE SavesGrow'
    <3>1. /\ mongo' = mongo \/ (i = 1 /\ mongo' = mongoQ[1].state)
          /\ mongoQ' = RemoveAt(mongoQ, i)
      BY <2>2 DEF MongoWrite, MongoWriteFail, SafeEnv
    <3>2. Content(mongoQ[i].state) = mongoQ[i].state
      BY QueuedState DEF SaveInv, CoverInv, MapInv, SyncInv
    <3> QED
      BY <3>1, <3>2, GrowRemove
  <2>3. ASSUME (\E r \in Conns : RedisPersist(r)) \/ RedisLoss PROVE UNCHANGED <<mongo, mongoQ>>
    BY <2>3 DEF RedisPersist, RedisLoss
  <2> QED
    BY <1>1, <1>4, <2>1, <2>2, <2>3 DEF Persist
<1>5. CASE BeginClose
  <2>1. CASE rooms = None
    BY <1>1, <1>5, <2>1 DEF BeginClose
  <2>2. CASE rooms # None
    <3> DEFINE e == [state |-> doc[rooms], flush |-> TRUE]
    <3>1. mongoQ' = Append(mongoQ, e) /\ UNCHANGED mongo
      BY <1>5, <2>2 DEF BeginClose
    <3>2. e \in [state : Docs, flush : BOOLEAN] /\ e.state = doc[rooms]
      BY <2>2 DEF SaveInv, CoverInv, MapInv, SyncInv, TypeOK, Rooms
    <3> QED
      BY <2>2, <3>1, <3>2, GrowAppend
  <2> QED
    BY <2>1, <2>2
<1>6. CASE ProcessEnds
  BY <1>6 DEF ProcessEnds, SavesGrow
<1>7. CASE Restart \/ UNCHANGED vars
  BY <1>1, <1>7 DEF Restart, vars
<1> QED
  BY <1>1, <1>2, <1>3, <1>4, <1>5, <1>6, <1>7
     DEF Next, Stop, Kill, FinishClose

\* Nothing but an upsert touches the row.
LEMMA MongoOnlyWritten ==
  Next => UNCHANGED mongo \/ \E i \in DOMAIN mongoQ : MongoWrite(i)
<1> USE DEF storeVars
<1>1. ASSUME NEW c \in Conns, Join(c) PROVE UNCHANGED mongo
  BY <1>1 DEF Join, Connect, Reject, FindRoom, MissRoom, JoinRoom, RedisHit, RedisMiss,
              MongoFind, NoRow, SeedRedis, Seeded, HydrateFail, Install
<1>2. ASSUME NEW c \in Conns, Talk(c) PROVE UNCHANGED mongo
  BY <1>2 DEF Talk, Edit, FrameDropped, FramePending, HandleFrame, Deliver, SockClose
<1>3. ASSUME Stop \/ Restart PROVE UNCHANGED mongo
  BY <1>3 DEF Stop, Kill, BeginClose, FinishClose, ProcessEnds, Restart
<1>4. ASSUME Persist PROVE UNCHANGED mongo \/ \E i \in DOMAIN mongoQ : MongoWrite(i)
  BY <1>4 DEF Persist, RedisPersist, MongoPersist, MongoWriteFail, RedisLoss
<1> QED
  BY <1>1, <1>2, <1>3, <1>4 DEF Next

\* In a SafeEnv no upsert takes an update out of the row, though each
\* replaces it, through crashes, restarts, orderly closes, lost Redis keys and
\* (with an embedded Redis) failed writes.
THEOREM MongoNeverLosesAlways == ASSUME SafeEnv PROVE Spec => MongoNeverLoses
<1>1. SaveInv /\ [Next]_vars => [Content(mongo) \subseteq Content(mongo')]_vars
  <2> SUFFICES ASSUME SaveInv, Next PROVE Content(mongo) \subseteq Content(mongo')
    OBVIOUS
  <2>1. CASE UNCHANGED mongo
    BY <2>1
  <2>2. ASSUME NEW i \in DOMAIN mongoQ, MongoWrite(i)
        PROVE  Content(mongo) \subseteq Content(mongo')
    <3>1. i = 1 /\ mongo' = mongoQ[1].state
      BY <2>2 DEF MongoWrite, SafeEnv
    <3>2. Content(mongo) \subseteq mongoQ[1].state
      BY <3>1 DEF SaveInv, SavesGrow
    <3>3. Content(mongoQ[1].state) = mongoQ[1].state
      BY <3>1, QueuedState DEF SaveInv, CoverInv, MapInv, SyncInv
    <3> QED
      BY <3>1, <3>2, <3>3
  <2>3. (\E i \in DOMAIN mongoQ : MongoWrite(i)) \/ UNCHANGED mongo
    BY MongoOnlyWritten
  <2> QED
    BY <2>1, <2>2, <2>3
<1> QED
  BY <1>1, SaveInit, SaveStep, PTL DEF Spec, MongoNeverLoses

-----------------------------------------------------------------------------
(* An embedded Redis agrees with the row when there is no room.            *)

\* An embedded Redis that a hydration finds holds what the row holds, step by step.
LEMMA RowStep ==
  ASSUME "race" \notin Env, MapInv, RedisIsRow, [Next]_vars
  PROVE  RedisIsRow'
<1> SUFFICES ASSUME "externalRedis" \notin Env PROVE RedisIsRow'
  BY DEF RedisIsRow
<1> USE DEF procVars, connVars, storeVars, MapInv, SyncInv
<1>1. /\ rooms = None /\ redis # None => redis = mongo
      /\ \A c \in Conns : pc[c] = "redisGet" /\ hyd[c] # None => hyd[c] = mongo
      /\ rooms = None => mongoQ = <<>> /\ redisTimer = {} /\ mongoTimer = {}
      /\ \A c \in Conns : pc[c] = "redisGet" => rooms = None
  BY NoneAssumption DEF RedisIsRow, SavesAreMapped, OneHydration, Hydrating, TypeOK
<1>2. ASSUME NEW c \in Conns, Join(c) PROVE RedisIsRow'
  <2>1. CASE \E content \in Docs : Install(c, content)
    <3>1. rooms' = c /\ rooms' # None /\ hyd' = hyd /\ mongo' = mongo
          /\ pc' = [pc EXCEPT ![c] = "attached"]
      BY <2>1, NoneAssumption DEF Install, Attach
    <3>2. \A d \in Conns : pc'[d] = "redisGet" => pc[d] = "redisGet"
      BY <3>1 DEF TypeOK
    <3> QED
      BY <1>1, <3>1, <3>2 DEF RedisIsRow
  <2>2. CASE MissRoom(c)
    BY <1>1, <2>2 DEF MissRoom, RedisIsRow, TypeOK
  <2>3. CASE SeedRedis(c)
    BY <1>1, <2>3 DEF SeedRedis, RedisIsRow, TypeOK, HydIsFresh
  <2>4. CASE Connect(c) \/ Reject(c) \/ FindRoom(c) \/ JoinRoom(c) \/ RedisMiss(c)
    BY <1>1, <2>4 DEF Connect, Reject, FindRoom, JoinRoom, Attach, RedisMiss, RedisIsRow, TypeOK
  <2>5. CASE MongoFind(c)
    BY <1>1, <2>5 DEF MongoFind, RedisIsRow, TypeOK
  <2> QED
    BY <1>2, <2>1, <2>2, <2>3, <2>4, <2>5
       DEF Join, RedisHit, NoRow, Seeded, HydrateFail, RowRead, TypeOK, Stored, Docs
<1>3. ASSUME NEW c \in Conns, Talk(c) PROVE RedisIsRow'
  <2>1. UNCHANGED <<rooms, redis, mongo, hyd>>
        /\ \A d \in Conns : pc'[d] = "redisGet" => pc[d] = "redisGet"
    <3>1. /\ UNCHANGED <<rooms, redis, mongo, hyd>>
          /\ pc' = pc \/ (pc' = [pc EXCEPT ![c] = "closed"])
      BY <1>3 DEF Talk, Edit, FrameDropped, FramePending, HandleFrame, Deliver, SockClose
    <3> QED
      BY <3>1 DEF TypeOK
  <2> QED
    BY <1>1, <2>1 DEF RedisIsRow
<1>4. CASE Persist
  <2>1. rooms = None => UNCHANGED mongo /\ redis' \in {None, redis}
    <3> SUFFICES ASSUME rooms = None PROVE UNCHANGED mongo /\ redis' \in {None, redis}
      OBVIOUS
    <3>1. DOMAIN mongoQ = {} /\ redisTimer = {} /\ mongoTimer = {}
      BY <1>1
    <3>2. RedisLoss
      BY <1>4, <3>1 DEF Persist, RedisPersist, MongoPersist
    <3> QED
      BY <3>2 DEF RedisLoss
  <2>2. UNCHANGED <<rooms, connVars>>
    BY <1>4 DEF Persist, RedisPersist, MongoPersist, MongoWrite, MongoWriteFail, RedisLoss
  <2> QED
    BY <1>1, <2>1, <2>2 DEF RedisIsRow
<1>5. CASE Stop \/ Restart
  BY <1>1, <1>5 DEF Stop, Kill, BeginClose, FinishClose, ProcessEnds, Restart, RedisIsRow
<1>6. CASE UNCHANGED vars
  BY <1>1, <1>6 DEF vars, RedisIsRow
<1> QED
  BY <1>2, <1>3, <1>4, <1>5, <1>6 DEF Next

-----------------------------------------------------------------------------
(* The room implements the abstract document (embedded Redis).             *)

\* The end of the process is a Stop of SharedDoc.
LEMMA SharedStop ==
  ASSUME ProcessEnds
  PROVE  Shared!Stop
  BY DEF ProcessEnds, Shared!Stop, Live, Durable

\* A hydration that ends shows nothing new.
LEMMA SharedJoin ==
  ASSUME SafeEnv, SaveInv, RedisIsRow, "externalRedis" \notin Env, NEW c \in Conns, Join(c)
  PROVE  UNCHANGED <<Live, Durable>>
<1> USE DEF procVars, storeVars, SaveInv, CoverInv, MapInv, SyncInv
<1>1. ASSUME NEW content \in Docs, Install(c, content), pc[c] \in Hydrating,
             content = Content(mongo)
      PROVE  UNCHANGED <<Live, Durable>>
  BY <1>1, NoneAssumption DEF Install, OneHydration, TypeOK, Live, Durable
<1>2. CASE RedisHit(c)
  <2>1. hyd[c] = mongo /\ hyd[c] # None /\ hyd[c] \in Docs
    BY <1>2 DEF RedisHit, RedisIsRow, TypeOK, Stored
  <2> QED
    BY <1>1, <1>2, <2>1 DEF RedisHit, Hydrating, Content
<1>3. CASE NoRow(c)
  <2>1. Content(mongo) = {}
    BY <1>3 DEF NoRow, HydIsFresh, Content
  <2> QED
    BY <1>1, <1>3, <2>1 DEF NoRow, Hydrating, Docs
<1>4. CASE Seeded(c)
  <2>1. hyd[c] = mongo /\ hyd[c] # None /\ hyd[c] \in Docs
    BY <1>4 DEF Seeded, HydIsFresh, RowRead, TypeOK, Stored
  <2> QED
    BY <1>1, <1>4, <2>1 DEF Seeded, Hydrating, Content
<1>5. ASSUME UNCHANGED <<rooms, doc, mongo>> PROVE UNCHANGED <<Live, Durable>>
  BY <1>5 DEF Live, Durable
<1> QED
  BY <1>2, <1>3, <1>4, <1>5
     DEF Join, Connect, Reject, FindRoom, MissRoom, JoinRoom, RedisMiss, MongoFind,
         SeedRedis, HydrateFail, SafeEnv, CoverEnv

\* A handled frame is an Accept of SharedDoc or shows nothing new.
LEMMA SharedTalk ==
  ASSUME SaveInv, NEW c \in Conns, Talk(c)
  PROVE  (\E u \in Updates : Shared!Accept(u)) \/ UNCHANGED <<Live, Durable>>
<1> USE DEF procVars, storeVars, SaveInv, CoverInv, MapInv, SyncInv
<1>1. CASE HandleFrame(c)
  <2> DEFINE u == Head(outbox[c])
  <2>1. room[c] = rooms /\ rooms # None /\ rooms \in Conns
    BY <1>1, NoneAssumption DEF HandleFrame, Attached, HasRoom, RoomIsMapped
  <2>2. u \in Updates
    BY <1>1, HeadTailProperties DEF HandleFrame, TypeOK
  <2>3. rooms' = rooms /\ mongo' = mongo /\ doc'[rooms] = doc[rooms] \cup {u}
    BY <1>1, <2>1 DEF HandleFrame, TypeOK
  <2>4. Live = doc[rooms] /\ Live' = doc[rooms] \cup {u} /\ Durable' = Durable
    BY <2>1, <2>3 DEF Live, Durable
  <2> HIDE DEF u
  <2>5. CASE u \in Live
    BY <2>4, <2>5
  <2>6. CASE u \notin Live
    BY <2>2, <2>4, <2>6 DEF Shared!Accept
  <2> QED
    BY <2>5, <2>6
<1>2. ASSUME UNCHANGED <<rooms, doc, mongo>> PROVE UNCHANGED <<Live, Durable>>
  BY <1>2 DEF Live, Durable
<1> QED
  BY <1>1, <1>2 DEF Talk, Edit, FrameDropped, FramePending, Deliver, SockClose

\* A completed upsert is a Save of SharedDoc; the other saves show nothing.
LEMMA SharedPersist ==
  ASSUME SafeEnv, SaveInv, Persist
  PROVE  (\E S \in SUBSET Live : Shared!Save(S)) \/ UNCHANGED <<Live, Durable>>
<1> USE DEF procVars, SaveInv, CoverInv, MapInv, SyncInv
<1>1. ASSUME NEW i \in DOMAIN mongoQ, MongoWrite(i)
      PROVE  \E S \in SUBSET Live : Shared!Save(S)
  <2> DEFINE S == mongoQ[1].state
  <2>1. i = 1 /\ mongo' = S /\ rooms # None /\ UNCHANGED <<rooms, doc>>
    BY <1>1 DEF MongoWrite, SafeEnv, SavesAreMapped
  <2>2. Content(S) = S
    BY <2>1, QueuedState
  <2>3. Content(mongo) \subseteq S /\ S \subseteq doc[rooms]
    BY <2>1 DEF SavesGrow, SavesInRoom
  <2>4. Durable \subseteq S /\ S \subseteq Live /\ Durable' = S /\ Live' = Live
    BY <2>1, <2>2, <2>3 DEF Live, Durable
  <2> QED
    BY <2>4 DEF Shared!Save
<1>2. ASSUME UNCHANGED <<rooms, doc, mongo>> PROVE UNCHANGED <<Live, Durable>>
  BY <1>2 DEF Live, Durable
<1> QED
  BY <1>1, <1>2 DEF Persist, RedisPersist, MongoPersist, MongoWriteFail, RedisLoss

\* In a SafeEnv with an embedded Redis, all that users can tell of rooms,
\* connections, timers and stores is a document whose durable part only grows
\* and that falls back to it when the process ends.
THEOREM Refinement ==
  ASSUME SafeEnv, "externalRedis" \notin Env
  PROVE  Spec => ImplementsSharedDoc
<1>1. Init => Shared!Init /\ RedisIsRow
  BY DEF Init, Shared!Init, Live, Durable, Content, RedisIsRow
<1>2. ASSUME SaveInv, RedisIsRow, [Next]_vars
      PROVE  [Shared!Next]_<<Live, Durable>>
  <2>1. ASSUME NEW c \in Conns, Join(c) PROVE UNCHANGED <<Live, Durable>>
    BY <1>2, <2>1, SharedJoin
  <2>2. ASSUME NEW c \in Conns, Talk(c) PROVE [Shared!Next]_<<Live, Durable>>
    BY <1>2, <2>2, SharedTalk DEF Shared!Next
  <2>3. ASSUME Persist PROVE [Shared!Next]_<<Live, Durable>>
    BY <1>2, <2>3, SharedPersist DEF Shared!Next
  <2>4. ASSUME Stop PROVE [Shared!Next]_<<Live, Durable>>
    <3>1. CASE ProcessEnds
      BY <3>1, SharedStop DEF Shared!Next
    <3>2. CASE BeginClose
      BY <3>2 DEF BeginClose, Live, Durable
    <3> QED
      BY <2>4, <3>1, <3>2 DEF Stop, Kill, FinishClose
  <2>5. ASSUME Restart \/ UNCHANGED vars PROVE UNCHANGED <<Live, Durable>>
    BY <2>5 DEF Restart, vars, procVars, storeVars, Live, Durable
  <2> QED
    BY <1>2, <2>1, <2>2, <2>3, <2>4, <2>5 DEF Next
<1>3. SaveInv /\ RedisIsRow /\ [Next]_vars => RedisIsRow'
  BY RowStep DEF SaveInv, CoverInv, SafeEnv, CoverEnv
<1> QED
  BY <1>1, <1>2, <1>3, SaveInit, SaveStep, PTL DEF Spec, ImplementsSharedDoc, Shared!Spec, Shared!vars
-----------------------------------------------------------------------------
(* UnsavedIsScheduled: ScheduleInv is inductive with an embedded Redis,    *)
(* without overlapping hydrations, failed writes and reordered upserts.    *)

\* At start there is no room.
LEMMA ScheduleInit == Init => ScheduleInv
<1> SUFFICES ASSUME Init PROVE ScheduleInv
  OBVIOUS
<1>1. RedisIsRow /\ LastSaved
  BY DEF Init, RedisIsRow, LastSaved
<1> QED
  BY <1>1, MapInit DEF ScheduleInv

\* A hydrated room has what the row has, or nothing if a read failed.
LEMMA ScheduleJoin ==
  ASSUME "externalRedis" \notin Env, ScheduleInv, NEW c \in Conns, Join(c)
  PROVE  LastSaved'
<1> USE DEF procVars, storeVars, ScheduleInv, MapInv, SyncInv
<1>1. ASSUME NEW content \in Docs, Install(c, content), pc[c] \in Hydrating,
             content \subseteq Content(mongo)
      PROVE  LastSaved'
  BY <1>1, HydrationAlone DEF Install, TypeOK, LastSaved
<1>2. CASE RedisHit(c)
  <2>1. hyd[c] = mongo /\ hyd[c] # None /\ hyd[c] \in Docs
    BY <1>2 DEF RedisHit, RedisIsRow, TypeOK, Stored
  <2> QED
    BY <1>1, <1>2, <2>1 DEF RedisHit, Content, Hydrating
<1>3. CASE NoRow(c)
  BY <1>1, <1>3 DEF NoRow, Docs, Hydrating
<1>4. CASE Seeded(c)
  <2>1. hyd[c] = mongo /\ hyd[c] # None /\ hyd[c] \in Docs
    BY <1>4 DEF Seeded, HydIsFresh, RowRead, TypeOK, Stored
  <2> QED
    BY <1>1, <1>4, <2>1 DEF Seeded, Content, Hydrating
<1>5. CASE HydrateFail(c)
  <2>1. {} \in Docs /\ pc[c] \in Hydrating /\ Install(c, {})
    BY <1>5 DEF HydrateFail, Docs, Hydrating
  <2> QED
    BY <1>1, <2>1
<1>6. ASSUME UNCHANGED <<procVars, mongo, mongoQ>> PROVE LastSaved'
  BY <1>6 DEF LastSaved
<1> QED
  BY <1>2, <1>3, <1>4, <1>5, <1>6
     DEF Join, Connect, Reject, FindRoom, MissRoom, JoinRoom, RedisMiss, MongoFind, SeedRedis

\* An update that is merged arms the Mongo timer.
LEMMA ScheduleTalk ==
  ASSUME ScheduleInv, NEW c \in Conns, Talk(c)
  PROVE  LastSaved'
<1> USE DEF procVars, storeVars, ScheduleInv, MapInv, SyncInv
<1>1. CASE HandleFrame(c)
  <2>1. room[c] = rooms
    BY <1>1 DEF HandleFrame, Attached, RoomIsMapped
  <2> QED
    BY <1>1, <2>1 DEF HandleFrame, SchedulePersist, LastSaved
<1>2. ASSUME UNCHANGED <<procVars, mongo, mongoQ>> PROVE LastSaved'
  BY <1>2 DEF LastSaved
<1> QED
  BY <1>1, <1>2 DEF Talk, Edit, FrameDropped, FramePending, Deliver, SockClose

\* The upsert that was put in flight last is the youngest.
LEMMA LastAppend ==
  ASSUME TypeOK, NEW e \in [state : Docs, flush : BOOLEAN], e.state = doc[rooms],
         mongoQ' = Append(mongoQ, e), UNCHANGED <<rooms, doc>>
  PROVE  LastSaved'
<1>1. /\ Len(mongoQ) \in Nat /\ DOMAIN mongoQ' = 1 .. Len(mongoQ) + 1
      /\ mongoQ'[Len(mongoQ) + 1] = e
      /\ mongoQ' \in Seq([state : Docs, flush : BOOLEAN])
  BY AppendIndex, AppendProperties DEF TypeOK
<1>2. Len(mongoQ') = Len(mongoQ) + 1
  BY <1>1, AppendProperties DEF TypeOK
<1>3. mongoQ' # <<>>
  BY <1>1
<1> QED
  BY <1>1, <1>2, <1>3 DEF LastSaved, Last

\* The youngest upsert stays the youngest until it lands itself.
LEMMA LastWritten ==
  ASSUME TypeOK, LastSaved, NEW i \in DOMAIN mongoQ, i = 1,
         mongo' = mongoQ[1].state, mongoQ' = RemoveAt(mongoQ, 1),
         UNCHANGED <<rooms, doc, mongoTimer>>
  PROVE  LastSaved'
<1> DEFINE n == Len(mongoQ)
<1>1. /\ n \in Nat /\ DOMAIN mongoQ = 1 .. n /\ DOMAIN mongoQ' = 1 .. n - 1
      /\ \A j \in 1 .. n - 1 : mongoQ'[j] = mongoQ[j + 1]
      /\ mongoQ' \in Seq([state : Docs, flush : BOOLEAN])
  <2>1. \A j \in 1 .. n - 1 : RemoveAt(mongoQ, i)[j] = IF j < i THEN mongoQ[j] ELSE mongoQ[j + 1]
    BY RemoveAtIndex DEF TypeOK
  <2> QED
    BY <2>1, RemoveAtIndex, RemoveAtType DEF TypeOK
<1> HIDE DEF n
<1>2. n > 0 /\ mongoQ # <<>> /\ Len(mongoQ') = n - 1
  <2>1. 1 \in 1 .. n
    BY <1>1
  <2>2. Len(mongoQ') \in Nat /\ DOMAIN mongoQ' = 1 .. Len(mongoQ')
    BY <1>1, LenProperties
  <2>3. mongoQ # <<>>
    BY <1>1, <2>1
  <2>4. Len(mongoQ') = n - 1
    <3>1. n > 1 => n - 1 \in 1 .. Len(mongoQ')
      BY <1>1, <2>2
    <3>2. Len(mongoQ') > 0 => Len(mongoQ') \in 1 .. n - 1
      BY <1>1, <2>2
    <3> QED
      BY <1>1, <2>1, <2>2, <3>1, <3>2
  <2> QED
    BY <1>1, <2>1, <2>3, <2>4
<1>3. Content(mongo') = mongoQ[1].state
  BY QueuedState
<1>4. CASE n = 1
  <2>1. mongoQ' = <<>>
    BY <1>1, <1>2, <1>4, EmptySeq
  <2>2. rooms # None /\ rooms \notin mongoTimer => mongoQ[1].state = doc[rooms]
    BY <1>2, <1>4 DEF LastSaved, Last, n
  <2> QED
    BY <1>3, <2>1, <2>2 DEF LastSaved
<1>5. CASE n # 1
  <2>1. n - 1 \in 1 .. n - 1 /\ (n - 1) + 1 = n
    BY <1>1, <1>2, <1>5
  <2>2. Last(mongoQ') = Last(mongoQ)
    BY <1>1, <1>2, <2>1 DEF Last, n
  <2>3. mongoQ' # <<>>
    BY <1>1, <2>1
  <2> QED
    BY <1>2, <2>2, <2>3 DEF LastSaved
<1> QED
  BY <1>4, <1>5

\* A timer that fires puts the room's document in flight, and it is written last.
LEMMA SchedulePersisted ==
  ASSUME Env \cap {"writeFail", "reorder"} = {}, ScheduleInv, Persist
  PROVE  LastSaved'
<1> USE DEF procVars, ScheduleInv, MapInv, SyncInv
<1>1. ASSUME NEW r \in Conns, MongoPersist(r) PROVE LastSaved'
  <2> DEFINE e == [state |-> doc[r], flush |-> FALSE]
  <2>1. r = rooms /\ mongoQ' = Append(mongoQ, e) /\ UNCHANGED <<rooms, doc>>
    BY <1>1 DEF MongoPersist, SavesAreMapped
  <2>2. e \in [state : Docs, flush : BOOLEAN] /\ e.state = doc[rooms]
    BY <2>1 DEF TypeOK
  <2> QED
    BY <2>1, <2>2, LastAppend
<1>2. ASSUME NEW i \in DOMAIN mongoQ, MongoWrite(i) PROVE LastSaved'
  <2>1. i = 1 /\ mongo' = mongoQ[1].state /\ mongoQ' = RemoveAt(mongoQ, 1)
        /\ UNCHANGED <<rooms, doc, mongoTimer>>
    BY <1>2 DEF MongoWrite
  <2> QED
    BY <2>1, LastWritten
<1>3. ASSUME NEW i \in DOMAIN mongoQ PROVE ~MongoWriteFail(i)
  BY DEF MongoWriteFail
<1>4. ASSUME UNCHANGED <<rooms, doc, mongoTimer, mongo, mongoQ>> PROVE LastSaved'
  BY <1>4 DEF LastSaved
<1> QED
  BY <1>1, <1>2, <1>3, <1>4 DEF Persist, RedisPersist, RedisLoss

\* A close puts in flight what it takes from the timer.
LEMMA ScheduleStop ==
  ASSUME ScheduleInv, Stop \/ Restart
  PROVE  LastSaved'
<1> USE DEF procVars, storeVars, ScheduleInv, MapInv, SyncInv
<1>1. CASE ProcessEnds
  BY <1>1 DEF ProcessEnds, LastSaved
<1>2. CASE BeginClose
  <2>1. CASE rooms = None
    BY <1>2, <2>1 DEF BeginClose, LastSaved
  <2>2. CASE rooms # None
    <3> DEFINE e == [state |-> doc[rooms], flush |-> TRUE]
    <3>1. mongoQ' = Append(mongoQ, e) /\ UNCHANGED <<rooms, doc>>
      BY <1>2, <2>2 DEF BeginClose
    <3>2. e \in [state : Docs, flush : BOOLEAN] /\ e.state = doc[rooms]
      BY <2>2 DEF TypeOK, Rooms
    <3> QED
      BY <3>1, <3>2, LastAppend
  <2> QED
    BY <2>1, <2>2
<1>3. CASE Restart
  BY <1>3 DEF Restart, LastSaved
<1> QED
  BY <1>1, <1>2, <1>3 DEF Stop, Kill, FinishClose

\* ScheduleInv is inductive.
LEMMA ScheduleStep ==
  ASSUME Env \cap {"race", "reorder", "externalRedis", "writeFail"} = {}
  PROVE  ScheduleInv /\ [Next]_vars => ScheduleInv'
<1> SUFFICES ASSUME ScheduleInv, [Next]_vars PROVE ScheduleInv'
  OBVIOUS
<1>1. MapInv' /\ RedisIsRow'
  BY MapStep, RowStep DEF ScheduleInv
<1>2. LastSaved'
  <2>1. CASE UNCHANGED vars
    BY <2>1 DEF vars, procVars, storeVars, ScheduleInv, LastSaved
  <2>2. CASE Next
    BY <2>2, ScheduleJoin, ScheduleTalk, SchedulePersisted, ScheduleStop DEF Next
  <2> QED
    BY <2>1, <2>2
<1> QED
  BY <1>1, <1>2 DEF ScheduleInv

\* With an embedded Redis, and unless two hydrations overlap, a write fails or the
\* upserts land out of order, an update that Mongo lacks has a timer armed or an
\* upsert in flight: even in a room whose hydration failed.
THEOREM UnsavedIsScheduledAlways ==
  ASSUME Env \cap {"race", "reorder", "externalRedis", "writeFail"} = {}
  PROVE  Spec => []UnsavedIsScheduled
<1>1. ScheduleInv => UnsavedIsScheduled
  <2> SUFFICES ASSUME ScheduleInv, rooms # None, rooms \notin mongoTimer, mongoQ # <<>>
               PROVE  doc[rooms] \subseteq UNION {mongoQ[i].state : i \in DOMAIN mongoQ}
    BY DEF UnsavedIsScheduled, ScheduleInv, LastSaved
  <2>1. Len(mongoQ) \in DOMAIN mongoQ /\ mongoQ[Len(mongoQ)].state = doc[rooms]
    BY EmptySeq, LenProperties DEF ScheduleInv, MapInv, SyncInv, TypeOK, LastSaved, Last
  <2> QED
    BY <2>1
<1> QED
  BY <1>1, ScheduleInit, ScheduleStep, PTL DEF Spec

-----------------------------------------------------------------------------
(* CodeIsCurrent: CodeInv is inductive in a SafeEnv with an embedded Redis *)
(* and writes that do not fail.                                            *)

\* At start there is no room.
LEMMA CodeInit == Init => CodeInv
<1> SUFFICES ASSUME Init PROVE CodeInv
  OBVIOUS
<1>1. RedisIsRoom
  BY DEF Init, RedisIsRoom
<1> QED
  BY <1>1, CoverInit, ScheduleInit DEF CodeInv

\* A hydrated room is what Redis holds, if it holds anything.
LEMMA KeyOfJoin ==
  ASSUME CoverEnv, CoverInv, RedisIsRoom, NEW c \in Conns, Join(c)
  PROVE  RedisIsRoom'
<1> USE DEF procVars, storeVars, CoverInv, MapInv, SyncInv
<1>1. ASSUME NEW content \in Docs, Install(c, content), redis \in {None, content}, redis' = redis
      PROVE  RedisIsRoom'
  BY <1>1 DEF Install, TypeOK, RedisIsRoom
<1>2. CASE RedisHit(c)
  BY <1>1, <1>2 DEF RedisHit, HydIsFresh, TypeOK, Stored
<1>3. CASE NoRow(c)
  BY <1>1, <1>3 DEF NoRow, HydIsFresh, Docs
<1>4. CASE Seeded(c)
  BY <1>1, <1>4 DEF Seeded, HydIsFresh, RowRead, TypeOK, Stored
<1>5. CASE SeedRedis(c)
  <2>1. rooms = None
    BY <1>5, HydrationAlone DEF SeedRedis, Hydrating
  <2> QED
    BY <1>5, <2>1 DEF SeedRedis, RedisIsRoom
<1>6. ASSUME UNCHANGED <<up, procVars, storeVars>> PROVE RedisIsRoom'
  BY <1>6 DEF RedisIsRoom
<1> QED
  BY <1>2, <1>3, <1>4, <1>5, <1>6
     DEF Join, Connect, Reject, FindRoom, MissRoom, JoinRoom, RedisMiss, MongoFind,
         HydrateFail, CoverEnv

\* RedisIsRoom is inductive on top of CoverInv: a growth of the room arms its Redis
\* timer and a timer that fires writes the room.
LEMMA KeyOfRoomStep ==
  ASSUME CoverEnv, "writeFail" \notin Env
  PROVE  CoverInv /\ RedisIsRoom /\ [Next]_vars => RedisIsRoom'
<1> SUFFICES ASSUME CoverInv, RedisIsRoom, [Next]_vars PROVE RedisIsRoom'
  OBVIOUS
<1> USE DEF procVars, connVars, clientVars, storeVars
<1>1. ASSUME NEW c \in Conns, Join(c) PROVE RedisIsRoom'
  BY <1>1, KeyOfJoin
<1>2. ASSUME UNCHANGED <<up, procVars, redis>> PROVE RedisIsRoom'
  BY <1>2 DEF RedisIsRoom
<1>3. ASSUME NEW c \in Conns, Talk(c) PROVE RedisIsRoom'
  <2>1. CASE HandleFrame(c)
    <3>1. room[c] = rooms
      BY <2>1 DEF HandleFrame, Attached, CoverInv, MapInv, RoomIsMapped
    <3> QED
      BY <2>1, <3>1 DEF HandleFrame, SchedulePersist, RedisIsRoom
  <2> QED
    BY <1>2, <1>3, <2>1 DEF Talk, Edit, FrameDropped, FramePending, Deliver, SockClose
<1>4. CASE Persist
  <2>1. ASSUME NEW r \in Conns, RedisPersist(r) PROVE RedisIsRoom'
    <3>1. r = rooms
      BY <2>1 DEF RedisPersist, CoverInv, MapInv, SavesAreMapped
    <3> QED
      BY <2>1, <3>1 DEF RedisPersist, RedisIsRoom
  <2>2. ASSUME UNCHANGED <<up, rooms, doc, redisTimer>>, redis' \in {None, redis}
        PROVE  RedisIsRoom'
    BY <2>2 DEF RedisIsRoom
  <2> QED
    BY <1>4, <2>1, <2>2 DEF Persist, MongoPersist, MongoWrite, MongoWriteFail, RedisLoss
<1>5. CASE Stop
  BY <1>5 DEF Stop, Kill, BeginClose, FinishClose, ProcessEnds, RedisIsRoom
<1>6. CASE Restart
  <2>1. up # "closing"
    BY <1>6 DEF Restart
  <2> QED
    BY <1>6, <2>1 DEF Restart, RedisIsRoom
<1>7. CASE UNCHANGED vars
  BY <1>2, <1>7 DEF vars
<1> QED
  BY <1>1, <1>3, <1>4, <1>5, <1>6, <1>7 DEF Next

\* CodeInv is inductive: each of its parts is.
LEMMA CodeStep ==
  ASSUME SafeEnv, Env \cap {"externalRedis", "writeFail"} = {}
  PROVE  CodeInv /\ [Next]_vars => CodeInv'
<1>1. CoverEnv /\ "writeFail" \notin Env
  BY DEF SafeEnv
<1> QED
  BY <1>1, CoverStep, ScheduleStep, KeyOfRoomStep DEF CodeInv, SafeEnv, CoverEnv

\* In a SafeEnv with an embedded Redis, and while no write fails, the code endpoint
\* answers with the room's document when nothing is left to save, be it from Redis
\* or, the key evicted, from the row; and 404 only if there never was an edit.
THEOREM CodeIsCurrentAlways ==
  ASSUME SafeEnv, Env \cap {"externalRedis", "writeFail"} = {}
  PROVE  Spec => []CodeIsCurrent
<1>1. CodeInv => CodeIsCurrent
  <2> SUFFICES ASSUME CodeInv, up = "up", rooms # None,
                      rooms \notin redisTimer \cup mongoTimer, mongoQ = <<>>
               PROVE  IF SessionCode = None THEN doc[rooms] = {} ELSE SessionCode = doc[rooms]
    BY DEF CodeIsCurrent
  <2>1. CASE redis # None
    BY <2>1 DEF CodeInv, RedisIsRoom, SessionCode
  <2>2. CASE redis = None
    <3>1. doc[rooms] \subseteq Content(mongo)
      BY DEF CodeInv, ScheduleInv, LastSaved
    <3>2. Content(mongo) \subseteq doc[rooms]
      BY DEF CodeInv, CoverInv, SavesInRoom
    <3>3. Content(mongo) = doc[rooms]
      BY <3>1, <3>2
    <3> QED
      BY <2>2, <3>3 DEF SessionCode, Content
  <2> QED
    BY <2>1, <2>2
<1> QED
  BY <1>1, CodeInit, CodeStep, PTL DEF Spec

-----------------------------------------------------------------------------
(* CodeNotBehindRow: KeyInv is inductive in a CoverEnv whose writes do not *)
(* fail, in whatever order the upserts land.                               *)

\* A room is seeded with what the row holds, and with no upsert in flight.
LEMMA KeyJoin ==
  ASSUME KeyInv, NEW c \in Conns, Join(c)
  PROVE  KeyIsAhead'
<1> USE DEF procVars, storeVars, KeyInv, CoverInv, MapInv, SyncInv
<1>1. CASE SeedRedis(c)
  <2>1. rooms = None
    BY <1>1, HydrationAlone DEF SeedRedis, Hydrating
  <2>2. mongoQ = <<>> /\ hyd[c] = mongo
    BY <1>1, <2>1 DEF SeedRedis, SavesAreMapped, HydIsFresh
  <2>3. UNCHANGED <<up, mongo, mongoQ>> /\ redis' \in {redis, mongo}
    BY <1>1, <2>2 DEF SeedRedis
  <2> QED
    BY <2>2, <2>3 DEF KeyIsAhead, Content
<1>2. ASSUME UNCHANGED <<up, redis, mongo, mongoQ>> PROVE KeyIsAhead'
  BY <1>2 DEF KeyIsAhead
<1> QED
  BY <1>1, <1>2
     DEF Join, Connect, Reject, FindRoom, MissRoom, JoinRoom, RedisHit, RedisMiss, MongoFind,
         NoRow, Seeded, HydrateFail, Install

\* The Redis timer writes the room, which is ahead of all; the Mongo timer fires
\* only when the key is the room's document already.
LEMMA KeyPersist ==
  ASSUME "writeFail" \notin Env, KeyInv, Persist
  PROVE  KeyIsAhead'
<1> USE DEF procVars, connVars, clientVars, KeyInv, CoverInv, MapInv, SyncInv
<1>1. ASSUME NEW r \in Conns, RedisPersist(r) PROVE KeyIsAhead'
  <2>1. r = rooms /\ rooms # None
    BY <1>1, NoneAssumption DEF RedisPersist, SavesAreMapped
  <2>2. UNCHANGED <<up, mongo, mongoQ>> /\ (up = "closing" \/ redis' = doc[rooms])
    BY <1>1, <2>1 DEF RedisPersist
  <2> QED
    BY <2>1, <2>2 DEF KeyIsAhead, SavesInRoom
<1>2. ASSUME NEW r \in Conns, MongoPersist(r) PROVE KeyIsAhead'
  <2> DEFINE e == [state |-> doc[rooms], flush |-> FALSE]
  <2>1. r = rooms /\ rooms # None /\ rooms \notin redisTimer
    BY <1>2, NoneAssumption DEF MongoPersist, SavesAreMapped
  <2>2. mongoQ' = Append(mongoQ, e) /\ UNCHANGED <<up, redis, mongo>>
    BY <1>2, <2>1 DEF MongoPersist
  <2>3. e \in [state : Docs, flush : BOOLEAN] /\ e.state = doc[rooms]
    BY <2>1 DEF TypeOK, Rooms
  <2>4. \A i \in DOMAIN mongoQ' : mongoQ'[i] = e \/ \E k \in DOMAIN mongoQ : mongoQ'[i] = mongoQ[k]
    BY <2>2, <2>3, AppendIndex DEF TypeOK
  <2>5. up # "closing" /\ redis # None => redis = doc[rooms]
    BY <2>1 DEF RedisIsRoom
  <2> HIDE DEF e
  <2> QED
    BY <2>2, <2>3, <2>4, <2>5 DEF KeyIsAhead
<1>3. ASSUME NEW i \in DOMAIN mongoQ, MongoWrite(i) \/ MongoWriteFail(i) PROVE KeyIsAhead'
  <2>1. /\ mongo' \in {mongo, mongoQ[i].state} /\ mongoQ' = RemoveAt(mongoQ, i)
        /\ UNCHANGED <<up, redis>>
    BY <1>3 DEF MongoWrite, MongoWriteFail
  <2>2. Content(mongo') \in {Content(mongo), mongoQ[i].state}
    BY <2>1, QueuedState
  <2>3. \A j \in DOMAIN mongoQ' : \E k \in DOMAIN mongoQ : mongoQ'[j] = mongoQ[k]
    BY <2>1, RemoveAtElement DEF TypeOK
  <2> QED
    BY <2>1, <2>2, <2>3 DEF KeyIsAhead
<1>4. CASE RedisLoss
  BY <1>4 DEF RedisLoss, KeyIsAhead
<1> QED
  BY <1>1, <1>2, <1>3, <1>4 DEF Persist

\* KeyInv is inductive: an end of the process takes an embedded Redis with it, and an
\* external one, which no close outruns, is ahead of the row as it was.
LEMMA KeyStep ==
  ASSUME CoverEnv, "writeFail" \notin Env
  PROVE  KeyInv /\ [Next]_vars => KeyInv'
<1> SUFFICES ASSUME KeyInv, [Next]_vars PROVE KeyIsAhead'
  BY CoverStep, KeyOfRoomStep DEF KeyInv
<1> USE DEF procVars, connVars, clientVars, storeVars
<1>1. ASSUME UNCHANGED <<up, storeVars>> PROVE KeyIsAhead'
  BY <1>1 DEF KeyInv, KeyIsAhead
<1>2. ASSUME NEW c \in Conns, Join(c) PROVE KeyIsAhead'
  BY <1>2, KeyJoin
<1>3. ASSUME NEW c \in Conns, Talk(c) PROVE UNCHANGED <<up, storeVars>>
  BY <1>3 DEF Talk, Edit, FrameDropped, FramePending, HandleFrame, Deliver, SockClose
<1>4. CASE Persist
  BY <1>4, KeyPersist
<1>5. CASE Stop
  <2>1. CASE ProcessEnds
    <3>1. "externalRedis" \in Env => up # "closing"
      BY DEF CoverEnv, KeyInv, CoverInv, ClosingIsOrderly
    <3> QED
      BY <2>1, <3>1 DEF ProcessEnds, KeyInv, KeyIsAhead
  <2>2. CASE BeginClose
    BY <2>2 DEF BeginClose, KeyIsAhead
  <2> QED
    BY <1>5, <2>1, <2>2 DEF Stop, Kill, FinishClose
<1>6. CASE Restart
  BY <1>6 DEF Restart, KeyInv, KeyIsAhead
<1>7. CASE UNCHANGED vars
  BY <1>1, <1>7 DEF vars
<1> QED
  BY <1>1, <1>2, <1>3, <1>4, <1>5, <1>6, <1>7 DEF Next

\* With hydrations that neither overlap nor fail and writes that succeed, and an
\* embedded Redis or an external one with no orderly close, the code endpoint, asked
\* at any time, answers with no less than the row holds.
THEOREM CodeNotBehindRowAlways ==
  ASSUME CoverEnv, "writeFail" \notin Env
  PROVE  Spec => []CodeNotBehindRow
<1>1. Init => KeyInv
  BY CodeInit DEF CodeInv, KeyInv, KeyIsAhead, Init
<1>2. KeyInv => CodeNotBehindRow
  BY DEF KeyInv, KeyIsAhead, CodeNotBehindRow, SessionCode, Content
<1> QED
  BY <1>1, <1>2, KeyStep, PTL DEF Spec
=============================================================================
