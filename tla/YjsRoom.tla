------------------------------ MODULE YjsRoom ------------------------------
(***************************************************************************)
(* The Yjs room of ONE session: YjsService (src/modules/yjs/yjs.service.ts) *)
(* with its two stores, the Redis key of the document and its Mongo row.   *)
(*                                                                         *)
(* A Yjs document is the set of the updates merged into it: applyUpdate is *)
(* set union, encodeStateAsUpdate is the set.  A SessionRoom object is     *)
(* named by the connection whose getOrCreateRoom built it.  Everything     *)
(* between two awaits of the single-threaded process is one action.        *)
(*                                                                         *)
(* Env says which behaviours of the surroundings are considered, so that a *)
(* theorem or a run can name the ones it relies on being absent:           *)
(*   "race"          two joins may hydrate the session at the same time    *)
(*   "hydrateFail"   a read of Redis or Mongo may reject during hydration  *)
(*   "reorder"       two upserts in flight may complete in either order    *)
(*   "externalRedis" Redis outlives the process (REDIS_URL); the embedded  *)
(*                   one is killed with it                                 *)
(*   "writeFail"     a write to Redis or Mongo may reject                  *)
(*   "eagerClient"   a client may send before it got the document          *)
(*   "close"         Nest runs the shutdown hooks before the process ends  *)
(* A crash or SIGTERM and the loss of the Redis key (TTL, LRU eviction,    *)
(* Redis restart) are always possible.                                     *)
(***************************************************************************)
EXTENDS Naturals, Sequences, SequencesExt

CONSTANTS Conns,    \* WebSocket connections, each used once
          Updates,  \* Yjs updates clients may produce
          Env,      \* see above
          None      \* no room, no stored state

EnvChoices == {"race", "hydrateFail", "reorder", "externalRedis", "writeFail",
               "eagerClient", "close"}

ASSUME EnvAssumption == Env \subseteq EnvChoices
ASSUME NoneAssumption == None \notin Conns /\ \A S \in SUBSET Updates : None # S

VARIABLES
  up,          \* "up", "closing" (onApplicationShutdown is flushing) or "down"
  rooms,       \* this.rooms.get(sessionId): a room or None
  doc,         \* [room -> the updates its Y.Doc holds]
  redisTimer,  \* rooms whose redisTimer is armed
  mongoTimer,  \* rooms whose mongoTimer is armed
  pc,          \* [conn -> the await its onConnection is at, or its outcome]
  room,        \* [conn -> the room it was given, or None]
  hyd,         \* [conn -> what its hydration read last]
  open,        \* connections whose socket is open
  clientDoc,   \* [conn -> the updates the client's own document holds]
  inbox,       \* [conn -> updates sent to the client and not yet received]
  outbox,      \* [conn -> frames sent by the client and not yet received]
  gap,         \* connections an update of which was dropped
  issued,      \* updates some client has produced
  redis,       \* the document's key in Redis, or None
  mongo,       \* the SessionYjsState row, or None
  mongoQ       \* upserts in flight, oldest first

procVars   == <<rooms, doc, redisTimer, mongoTimer>>
connVars   == <<pc, room, hyd>>
clientVars == <<open, clientDoc, inbox, outbox, gap, issued>>
storeVars  == <<redis, mongo, mongoQ>>
vars == <<up, procVars, connVars, clientVars, storeVars>>

-----------------------------------------------------------------------------
Docs   == SUBSET Updates
Stored == {None} \cup Docs
Rooms  == {None} \cup Conns
PCs    == {"idle", "auth", "refresh", "redisGet", "mongoFind", "mongoReply",
           "seed", "attached", "closed"}

\* A connection inside the cache-miss part of getOrCreateRoom.
Hydrating == {"redisGet", "mongoFind", "mongoReply", "seed"}

Content(stored) == IF stored = None THEN {} ELSE stored

Frames(s) == {s[i] : i \in DOMAIN s}

\* GET /sessions/:id/code of a session that is not deleted: Redis first, then
\* Mongo.  None is the NotFoundException when neither has a state.
SessionCode == IF redis # None THEN redis ELSE mongo

Attached(c) == pc[c] = "attached"

\* The connections broadcastFrame really sends to.
Listeners(r) == {d \in open : Attached(d) /\ room[d] = r}

TypeOK == /\ up \in {"up", "closing", "down"}
          /\ rooms \in Rooms
          /\ doc \in [Conns -> Docs]
          /\ redisTimer \in SUBSET Conns
          /\ mongoTimer \in SUBSET Conns
          /\ pc \in [Conns -> PCs]
          /\ room \in [Conns -> Rooms]
          /\ hyd \in [Conns -> Stored]
          /\ open \in SUBSET Conns
          /\ clientDoc \in [Conns -> Docs]
          /\ inbox \in [Conns -> Docs]
          /\ outbox \in [Conns -> Seq(Updates)]
          /\ gap \in SUBSET Conns
          /\ issued \in SUBSET Updates
          /\ redis \in Stored
          /\ mongo \in Stored
          /\ mongoQ \in Seq([state : Docs, flush : BOOLEAN])

Init == /\ up = "up"
        /\ rooms = None
        /\ doc = [r \in Conns |-> {}]
        /\ redisTimer = {}
        /\ mongoTimer = {}
        /\ pc = [c \in Conns |-> "idle"]
        /\ room = [c \in Conns |-> None]
        /\ hyd = [c \in Conns |-> None]
        /\ open = {}
        /\ clientDoc = [c \in Conns |-> {}]
        /\ inbox = [c \in Conns |-> {}]
        /\ outbox = [c \in Conns |-> <<>>]
        /\ gap = {}
        /\ issued = {}
        /\ redis = None
        /\ mongo = None
        /\ mongoQ = <<>>

-----------------------------------------------------------------------------
(* Joining: onConnection, setupConnection, getOrCreateRoom.                *)

\* The HTTP upgrade: the socket is open before the server authenticates.
Connect(c) ==
  /\ up = "up"
  /\ pc[c] = "idle"
  /\ pc' = [pc EXCEPT ![c] = "auth"]
  /\ open' = open \cup {c}
  /\ UNCHANGED <<up, procVars, room, hyd, clientDoc, inbox, outbox, gap, issued,
                 storeVars>>

\* Bad path or token, no email, not a participant: conn.close(1008).
Reject(c) ==
  /\ up # "down"
  /\ pc[c] = "auth"
  /\ pc' = [pc EXCEPT ![c] = "closed"]
  /\ open' = open \ {c}
  /\ UNCHANGED <<up, procVars, room, hyd, clientDoc, inbox, outbox, gap, issued,
                 storeVars>>

\* getOrCreateRoom finds the room: the object is kept across an await that
\* renews the TTL of the Redis key.
FindRoom(c) ==
  /\ up = "up"
  /\ pc[c] = "auth"
  /\ rooms # None
  /\ pc' = [pc EXCEPT ![c] = "refresh"]
  /\ room' = [room EXCEPT ![c] = rooms]
  /\ UNCHANGED <<up, procVars, hyd, clientVars, storeVars>>

\* Mutant: the cache is not looked up.
MissRoom_NoCache(c) ==
  /\ up = "up"
  /\ pc[c] = "auth"
  /\ "race" \in Env \/ \A d \in Conns : pc[d] \notin Hydrating
  /\ pc' = [pc EXCEPT ![c] = "redisGet"]
  /\ hyd' = [hyd EXCEPT ![c] = redis]
  /\ UNCHANGED <<up, procVars, room, clientVars, storeVars>>

\* getOrCreateRoom misses.  The one Redis connection serves commands in the
\* order they were issued, so the value the GET returns is fixed here.
MissRoom(c) ==
  /\ up = "up"
  /\ pc[c] = "auth"
  /\ rooms = None
  /\ "race" \in Env \/ \A d \in Conns : pc[d] \notin Hydrating
  /\ pc' = [pc EXCEPT ![c] = "redisGet"]
  /\ hyd' = [hyd EXCEPT ![c] = redis]
  /\ UNCHANGED <<up, procVars, room, clientVars, storeVars>>

\* The registration half of setupConnection: conns.add, the message and close
\* listeners, the SYNC_FULL frame if the socket is still open.
Attach(c, r, content) ==
  /\ pc' = [pc EXCEPT ![c] = "attached"]
  /\ room' = [room EXCEPT ![c] = r]
  /\ inbox' = IF c \in open THEN [inbox EXCEPT ![c] = @ \cup content] ELSE inbox

\* Mutant: the joiner gets the state last saved to Redis.
JoinRoom_Saved(c) ==
  /\ up # "down"
  /\ pc[c] = "refresh"
  /\ Attach(c, room[c], Content(redis))
  /\ UNCHANGED <<up, procVars, hyd, open, clientDoc, outbox, gap, issued, storeVars>>

JoinRoom(c) ==
  /\ up # "down"
  /\ pc[c] = "refresh"
  /\ Attach(c, room[c], doc[room[c]])
  /\ UNCHANGED <<up, procVars, hyd, open, clientDoc, outbox, gap, issued, storeVars>>

\* The end of getOrCreateRoom's miss path and the registration after it:
\* rooms.set overwrites whatever another hydration put there meanwhile.
Install(c, content) ==
  /\ rooms' = c
  /\ doc' = [doc EXCEPT ![c] = content]
  /\ Attach(c, c, content)
  /\ UNCHANGED <<up, redisTimer, mongoTimer, hyd, open, clientDoc, outbox, gap,
                 issued, mongo, mongoQ>>

\* Redis answers: its state is the document, Mongo is not consulted.
RedisHit(c) ==
  /\ up # "down"
  /\ pc[c] = "redisGet"
  /\ hyd[c] # None
  /\ Install(c, hyd[c])
  /\ UNCHANGED redis

RedisMiss(c) ==
  /\ up # "down"
  /\ pc[c] = "redisGet"
  /\ hyd[c] = None
  /\ pc' = [pc EXCEPT ![c] = "mongoFind"]
  /\ UNCHANGED <<up, procVars, room, hyd, clientVars, storeVars>>

\* The database serves the find; its reply is still on the way.
MongoFind(c) ==
  /\ up # "down"
  /\ pc[c] = "mongoFind"
  /\ pc' = [pc EXCEPT ![c] = "mongoReply"]
  /\ hyd' = [hyd EXCEPT ![c] = mongo]
  /\ UNCHANGED <<up, procVars, room, clientVars, storeVars>>

\* Mutant: the room waits for a row to appear.
NoRow_Waits(c) ==
  /\ up # "down"
  /\ pc[c] = "mongoReply"
  /\ hyd[c] = None
  /\ mongo # None
  /\ Install(c, {})
  /\ UNCHANGED redis

NoRow(c) ==
  /\ up # "down"
  /\ pc[c] = "mongoReply"
  /\ hyd[c] = None
  /\ Install(c, {})
  /\ UNCHANGED redis

\* The row seeds Redis; the SET takes effect when it is issued, unless Redis
\* is gone (closing) or refuses it, which the code treats alike: log, go on.
SeedRedis(c) ==
  /\ up # "down"
  /\ pc[c] = "mongoReply"
  /\ hyd[c] # None
  /\ pc' = [pc EXCEPT ![c] = "seed"]
  /\ \/ up = "up" /\ redis' = hyd[c]
     \/ (up = "closing" \/ "writeFail" \in Env) /\ UNCHANGED redis
  /\ UNCHANGED <<up, procVars, room, hyd, clientVars, mongo, mongoQ>>

\* Mutant: the row seeds Redis and is not applied to the document.
Seeded_Empty(c) ==
  /\ up # "down"
  /\ pc[c] = "seed"
  /\ Install(c, {})
  /\ UNCHANGED redis

Seeded(c) ==
  /\ up # "down"
  /\ pc[c] = "seed"
  /\ Install(c, hyd[c])
  /\ UNCHANGED redis

\* A read rejects: the catch logs and the room is created without the state.
HydrateFail(c) ==
  /\ up # "down"
  /\ "hydrateFail" \in Env
  /\ pc[c] \in {"redisGet", "mongoFind"}
  /\ Install(c, {})
  /\ UNCHANGED redis

-----------------------------------------------------------------------------
(* Editing: the client, the network, handleFrame and the 'update' handler. *)

\* A client waits for the document before it edits, unless it is eager.
Edit(c, u) ==
  /\ c \in open
  /\ Attached(c) \/ "eagerClient" \in Env
  /\ u \notin issued
  /\ issued' = issued \cup {u}
  /\ clientDoc' = [clientDoc EXCEPT ![c] = @ \cup {u}]
  /\ outbox' = [outbox EXCEPT ![c] = Append(@, u)]
  /\ UNCHANGED <<up, procVars, connVars, open, inbox, gap, storeVars>>

\* The frame reaches a socket that has no message listener yet.
FrameDropped(c) ==
  /\ up # "down"
  /\ c \in open
  /\ outbox[c] # <<>>
  /\ ~Attached(c)
  /\ outbox' = [outbox EXCEPT ![c] = Tail(@)]
  /\ gap' = gap \cup {c}
  /\ UNCHANGED <<up, procVars, connVars, open, clientDoc, inbox, issued, storeVars>>

\* An update whose predecessor never came stays pending in Yjs: no 'update'
\* event, so nothing is broadcast and nothing is scheduled.
FramePending(c) ==
  /\ up # "down"
  /\ c \in open
  /\ outbox[c] # <<>>
  /\ Attached(c)
  /\ c \in gap
  /\ outbox' = [outbox EXCEPT ![c] = Tail(@)]
  /\ UNCHANGED <<up, procVars, connVars, open, clientDoc, inbox, gap, issued, storeVars>>

\* Mutant: a listener that is still being sent something is skipped.
Broadcast_SkipBusy(r, u, except) ==
  inbox' = [d \in Conns |->
              IF d \in Listeners(r) \ {except} /\ inbox[d] = {} THEN {u} ELSE inbox[d]]

\* broadcastFrame(room, SYNC_UPDATE, update, except)
Broadcast(r, u, except) ==
  inbox' = [d \in Conns |->
              IF d \in Listeners(r) \ {except} THEN inbox[d] \cup {u} ELSE inbox[d]]

\* Mutants: one of the two layers is forgotten.
SchedulePersist_RedisOnly(r) ==
  /\ redisTimer' = redisTimer \cup {r}
  /\ UNCHANGED mongoTimer

SchedulePersist_MongoOnly(r) ==
  /\ mongoTimer' = mongoTimer \cup {r}
  /\ UNCHANGED redisTimer

\* scheduleRedisPersist and scheduleMongoPersist: the timer is armed anew.
SchedulePersist(r) ==
  /\ redisTimer' = redisTimer \cup {r}
  /\ mongoTimer' = mongoTimer \cup {r}

\* Mutant: the frame is relayed and not merged.
HandleFrame_Relay(c) ==
  /\ up # "down"
  /\ c \in open
  /\ outbox[c] # <<>>
  /\ Attached(c)
  /\ c \notin gap
  /\ Broadcast(room[c], Head(outbox[c]), c)
  /\ SchedulePersist(room[c])
  /\ outbox' = [outbox EXCEPT ![c] = Tail(@)]
  /\ UNCHANGED <<up, rooms, doc, connVars, open, clientDoc, gap, issued, storeVars>>

HandleFrame(c) ==
  /\ up # "down"
  /\ c \in open
  /\ outbox[c] # <<>>
  /\ Attached(c)
  /\ c \notin gap
  /\ LET u == Head(outbox[c])
         r == room[c]
     IN  /\ doc' = [doc EXCEPT ![r] = @ \cup {u}]
         /\ Broadcast(r, u, c)
         /\ SchedulePersist(r)
  /\ outbox' = [outbox EXCEPT ![c] = Tail(@)]
  /\ UNCHANGED <<up, rooms, connVars, open, clientDoc, gap, issued, storeVars>>

\* The client receives what the server sent it.
Deliver(c) ==
  /\ c \in open
  /\ inbox[c] # {}
  /\ clientDoc' = [clientDoc EXCEPT ![c] = @ \cup inbox[c]]
  /\ inbox' = [inbox EXCEPT ![c] = {}]
  /\ UNCHANGED <<up, procVars, connVars, open, outbox, gap, issued, storeVars>>

\* Mutant: the last one out removes the room from the map.
SockClose_DropRoom(c) ==
  /\ c \in open
  /\ open' = open \ {c}
  /\ pc' = IF Attached(c) THEN [pc EXCEPT ![c] = "closed"] ELSE pc
  /\ rooms' = IF rooms # None /\ Listeners(rooms) = {c} THEN None ELSE rooms
  /\ clientDoc' = [clientDoc EXCEPT ![c] = {}]
  /\ inbox' = [inbox EXCEPT ![c] = {}]
  /\ outbox' = [outbox EXCEPT ![c] = <<>>]
  /\ UNCHANGED <<up, doc, redisTimer, mongoTimer, room, hyd, gap, issued, storeVars>>

\* The socket closes.  A registered connection leaves its room
\* (onConnectionClose); one still joining has no close listener yet.
SockClose(c) ==
  /\ c \in open
  /\ open' = open \ {c}
  /\ pc' = IF Attached(c) THEN [pc EXCEPT ![c] = "closed"] ELSE pc
  /\ clientDoc' = [clientDoc EXCEPT ![c] = {}]
  /\ inbox' = [inbox EXCEPT ![c] = {}]
  /\ outbox' = [outbox EXCEPT ![c] = <<>>]
  /\ UNCHANGED <<up, procVars, room, hyd, gap, issued, storeVars>>

-----------------------------------------------------------------------------
(* Persistence: the two debounced timers, the stores, the end of process.  *)

\* The 500 ms timer: a SET of the whole document, logged if it rejects.
RedisPersist(r) ==
  /\ up # "down"
  /\ r \in redisTimer
  /\ redisTimer' = redisTimer \ {r}
  /\ \/ up = "up" /\ redis' = doc[r]
     \/ (up = "closing" \/ "writeFail" \in Env) /\ UNCHANGED redis
  /\ UNCHANGED <<up, rooms, doc, mongoTimer, connVars, clientVars, mongo, mongoQ>>

\* Mutant: only what the row lacks is upserted.
MongoPersist_Delta(r) ==
  /\ up # "down"
  /\ r \in mongoTimer \ redisTimer
  /\ mongoTimer' = mongoTimer \ {r}
  /\ mongoQ' = Append(mongoQ, [state |-> doc[r] \ Content(mongo), flush |-> FALSE])
  /\ UNCHANGED <<up, rooms, doc, redisTimer, connVars, clientVars, redis, mongo>>

\* Mutant: the debounces of the two stores are swapped.
MongoPersist_First(r) ==
  /\ up # "down"
  /\ r \in mongoTimer
  /\ mongoTimer' = mongoTimer \ {r}
  /\ mongoQ' = Append(mongoQ, [state |-> doc[r], flush |-> FALSE])
  /\ UNCHANGED <<up, rooms, doc, redisTimer, connVars, clientVars, redis, mongo>>

\* The 5 s timer.  Both timers are armed by the same update and the shorter
\* one fires first.  The upsert is issued and not awaited.
MongoPersist(r) ==
  /\ up # "down"
  /\ r \in mongoTimer \ redisTimer
  /\ mongoTimer' = mongoTimer \ {r}
  /\ mongoQ' = Append(mongoQ, [state |-> doc[r], flush |-> FALSE])
  /\ UNCHANGED <<up, rooms, doc, redisTimer, connVars, clientVars, redis, mongo>>

\* An upsert replaces the row.  Those in flight use different pooled
\* connections; only "reorder" lets a later one overtake.
MongoWrite(i) ==
  /\ i = 1 \/ "reorder" \in Env
  /\ mongo' = mongoQ[i].state
  /\ mongoQ' = RemoveAt(mongoQ, i)
  /\ UNCHANGED <<up, procVars, connVars, clientVars, redis>>

\* The upsert rejects: logged, never retried.
MongoWriteFail(i) ==
  /\ "writeFail" \in Env
  /\ mongoQ' = RemoveAt(mongoQ, i)
  /\ UNCHANGED <<up, procVars, connVars, clientVars, redis, mongo>>

\* TTL, LRU eviction, FLUSHALL or a restart of the Redis server.
RedisLoss ==
  /\ redis # None
  /\ redis' = None
  /\ UNCHANGED <<up, procVars, connVars, clientVars, mongo, mongoQ>>

\* All the process holds is gone and every socket is cut.
ProcessEnds ==
  /\ up' = "down"
  /\ rooms' = None
  /\ doc' = [r \in Conns |-> {}]
  /\ redisTimer' = {}
  /\ mongoTimer' = {}
  /\ pc' = [c \in Conns |-> IF pc[c] = "idle" THEN "idle" ELSE "closed"]
  /\ room' = [c \in Conns |-> None]
  /\ hyd' = [c \in Conns |-> None]
  /\ open' = {}
  /\ clientDoc' = [c \in Conns |-> {}]
  /\ inbox' = [c \in Conns |-> {}]
  /\ outbox' = [c \in Conns |-> <<>>]
  /\ gap' = {}
  /\ redis' = IF "externalRedis" \in Env THEN redis ELSE None
  /\ mongoQ' = <<>>
  /\ UNCHANGED <<issued, mongo>>

\* A crash, or SIGTERM: main.ts enables no shutdown hook, so nothing is
\* flushed.  (A write in flight that still lands is MongoWrite before Kill.)
Kill == up # "down" /\ ProcessEnds

\* Mutant: the timers are cleared and nothing is upserted.
BeginClose_NoFlush ==
  /\ "close" \in Env
  /\ up = "up"
  /\ up' = "closing"
  /\ redisTimer' = redisTimer \ {rooms}
  /\ mongoTimer' = mongoTimer \ {rooms}
  /\ UNCHANGED <<rooms, doc, connVars, clientVars, storeVars>>

\* Mutant: a last save is scheduled, room or no room.
BeginClose_Schedule ==
  /\ "close" \in Env
  /\ up = "up"
  /\ up' = "closing"
  /\ redisTimer' = redisTimer \cup {rooms}
  /\ mongoTimer' = mongoTimer \cup {rooms}
  /\ UNCHANGED <<rooms, doc, connVars, clientVars, storeVars>>

\* onApplicationShutdown up to its await: the timers of the room in the map
\* are cleared and its document is upserted.  Redis has been closed before.
BeginClose ==
  /\ "close" \in Env
  /\ up = "up"
  /\ up' = "closing"
  /\ IF rooms = None
     THEN UNCHANGED <<redisTimer, mongoTimer, mongoQ>>
     ELSE /\ redisTimer' = redisTimer \ {rooms}
          /\ mongoTimer' = mongoTimer \ {rooms}
          /\ mongoQ' = Append(mongoQ, [state |-> doc[rooms], flush |-> TRUE])
  /\ UNCHANGED <<rooms, doc, connVars, clientVars, redis, mongo>>

\* Promise.allSettled(flushes): the hook ends, and with it the process.
FinishClose ==
  /\ up = "closing"
  /\ \A i \in DOMAIN mongoQ : ~mongoQ[i].flush
  /\ ProcessEnds

Restart ==
  /\ up = "down"
  /\ up' = "up"
  /\ UNCHANGED <<procVars, connVars, clientVars, storeVars>>

-----------------------------------------------------------------------------
Join(c) == \/ Connect(c) \/ Reject(c) \/ FindRoom(c) \/ MissRoom(c) \/ JoinRoom(c)
           \/ RedisHit(c) \/ RedisMiss(c) \/ MongoFind(c) \/ NoRow(c)
           \/ SeedRedis(c) \/ Seeded(c) \/ HydrateFail(c)

Talk(c) == \/ \E u \in Updates : Edit(c, u)
           \/ FrameDropped(c) \/ FramePending(c) \/ HandleFrame(c)
           \/ Deliver(c) \/ SockClose(c)

Persist == \/ \E r \in Conns : RedisPersist(r) \/ MongoPersist(r)
           \/ \E i \in DOMAIN mongoQ : MongoWrite(i) \/ MongoWriteFail(i)
           \/ RedisLoss

Stop == Kill \/ BeginClose \/ FinishClose

Next == \/ \E c \in Conns : Join(c) \/ Talk(c)
        \/ Persist
        \/ Stop
        \/ Restart

Spec == Init /\ [][Next]_vars

\* The event loop runs what is ready, timers fire, stores and sockets answer.
\* Nobody is obliged to connect, edit, close or stop.
Fairness ==
  /\ \A c \in Conns :
       /\ WF_vars(JoinRoom(c) \/ RedisHit(c) \/ RedisMiss(c) \/ MongoFind(c)
                  \/ NoRow(c) \/ SeedRedis(c) \/ Seeded(c))
       /\ WF_vars(FrameDropped(c) \/ FramePending(c) \/ HandleFrame(c))
       /\ WF_vars(Deliver(c))
       /\ WF_vars(RedisPersist(c))
       /\ WF_vars(MongoPersist(c))
  /\ WF_vars(mongoQ # <<>> /\ MongoWrite(1))

FairSpec == Spec /\ Fairness

-----------------------------------------------------------------------------
(* What the room must guarantee.                                           *)

\* Synchronisation, server to client, whatever Env allows: a registered
\* client with an open socket has, or has on the way, every update of the
\* room it was given.  It was sent the whole document when it was registered
\* (lines 123-140) and every update merged since (broadcastFrame).
NoGap == \A c \in open : Attached(c) =>
            doc[room[c]] \subseteq clientDoc[c] \cup inbox[c]

\* Synchronisation, client to server: what a registered client shows is in
\* its room or in a frame on the way; no edit falls between the awaits of
\* setupConnection.  (An eager client's edit does.)
NoEditDropped == \A c \in open : Attached(c) =>
                    clientDoc[c] \subseteq doc[room[c]] \cup Frames(outbox[c])

\* Registered clients of the session edit one document: getOrCreateRoom never
\* hands out two rooms for one sessionId.
OneRoomPerSession == \A c, d \in Conns : Attached(c) /\ Attached(d) => room[c] = room[d]

\* The room in the map holds all the durable state: hydration lost none.
RoomCoversMongo == rooms # None => Content(mongo) \subseteq doc[rooms]

\* An update of the room that Mongo lacks is covered by an armed Mongo timer
\* or by an upsert in flight: none is left with nothing scheduled to save it.
UnsavedIsScheduled ==
  rooms # None /\ rooms \notin mongoTimer =>
    doc[rooms] \subseteq Content(mongo) \cup UNION {mongoQ[i].state : i \in DOMAIN mongoQ}

\* GET /sessions/:id/code answers with the room's document once the timers
\* have fired and the upserts have landed, evicted key or not.  It answers 404
\* of an open room only while the document has no edit at all.
CodeIsCurrent ==
  up = "up" /\ rooms # None /\ rooms \notin redisTimer \cup mongoTimer /\ mongoQ = <<>> =>
    IF SessionCode = None THEN doc[rooms] = {} ELSE SessionCode = doc[rooms]

\* At any time, with saves pending or in flight, the code endpoint answers with
\* no less than is durable: the Redis key it prefers is never behind the row,
\* though the two are saved by timers of their own.
CodeNotBehindRow == up = "up" => Content(mongo) \subseteq Content(SessionCode)

\* An upsert replaces the whole row, yet no step takes an update out of it:
\* no room is saved that was not hydrated from the row before.
MongoNeverLoses == [][Content(mongo) \subseteq Content(mongo')]_vars

\* The session's document is the room's, or Mongo's when there is no room.
Live == IF rooms = None THEN Content(mongo) ELSE doc[rooms]
Durable == Content(mongo)

Shared == INSTANCE SharedDoc WITH live <- Live, durable <- Durable

\* The room implements the abstract document.
ImplementsSharedDoc == Shared!Spec

\* Every update of a room reaches every registered client that stays.
EventuallyDelivered ==
  \A c \in Conns, u \in Updates :
    (c \in open /\ Attached(c) /\ u \in doc[room[c]]) ~> (u \in clientDoc[c] \/ c \notin open)

\* Once clients pause, every accepted update becomes durable unless the
\* process ends first: arming the timers anew only delays it.
EventuallyDurable ==
  \A u \in Updates :
    (up = "up" /\ rooms # None /\ u \in doc[rooms]) ~> (u \in Content(mongo) \/ up # "up")

\* A connection that found no room gets one, or the process ends.
EventuallyAttached ==
  \A c \in Conns : pc[c] \in Hydrating \cup {"refresh"} ~> pc[c] \in {"attached", "closed"}

-----------------------------------------------------------------------------
(* What makes the invariants above inductive.                              *)

\* A connection that was given a room holds one.
HasRoom == \A c \in Conns : pc[c] \in {"refresh", "attached"} => room[c] \in Conns

\* Redis is seeded with a row that exists.
RowRead == \A c \in Conns : pc[c] = "seed" => hyd[c] # None

\* The room a hydration will build is not in use before it ends.
NotYetBuilt ==
  \A c \in Conns : pc[c] \notin {"attached", "closed"} =>
    rooms # c /\ \A d \in Conns : pc[d] \in {"refresh", "attached"} => room[d] # c

\* A frame on the way carries an update its sender shows.
FramesShown == \A c \in Conns : Frames(outbox[c]) \subseteq clientDoc[c]

SyncInv == TypeOK /\ HasRoom /\ RowRead /\ NotYetBuilt /\ FramesShown /\ NoGap

\* A client that is not registered has nothing: it waits for the document before
\* it edits, and nobody broadcasts to it.
NothingBeforeAttach == \A c \in Conns :
  ~Attached(c) => clientDoc[c] = {} /\ inbox[c] = {} /\ outbox[c] = <<>>

\* What is on its way to a registered client is in its room.
SentIsInRoom == \A c \in open : Attached(c) => inbox[c] \subseteq doc[room[c]]

EditInv == /\ SyncInv /\ NothingBeforeAttach /\ gap = {}
           /\ SentIsInRoom /\ NoEditDropped

\* The surroundings under which a hydration finds what Mongo has: joins that do
\* not overlap in it, reads that do not fail and, if Redis outlives the process,
\* a Redis that is always written.
CoverEnv ==
  /\ Env \cap {"race", "hydrateFail"} = {}
  /\ "externalRedis" \in Env => Env \cap {"close", "writeFail"} = {}

\* And those under which Mongo keeps what it has: upserts also land in order.
SafeEnv == CoverEnv /\ "reorder" \notin Env

\* At most one connection hydrates, and only while there is no room.
OneHydration == \A c, d \in Conns :
  pc[c] \in Hydrating => rooms = None /\ (pc[d] \in Hydrating => c = d)

\* Every connection that was given a room holds the one in the map.
RoomIsMapped == \A c \in Conns : pc[c] \in {"refresh", "attached"} => room[c] = rooms

\* Only the mapped room has timers and upserts in flight.
SavesAreMapped == /\ redisTimer \cup mongoTimer \subseteq {rooms}
                  /\ rooms = None => mongoQ = <<>>

\* What a hydration read is still what the stores hold.
HydIsFresh == \A c \in Conns :
  /\ pc[c] = "redisGet" => redis \in {None, hyd[c]}
  /\ pc[c] \in {"mongoFind", "mongoReply"} => redis = None
  /\ pc[c] \in {"mongoReply", "seed"} => hyd[c] = mongo
  /\ pc[c] = "seed" => redis \in {None, hyd[c]}

MapInv == SyncInv /\ OneHydration /\ RoomIsMapped /\ SavesAreMapped /\ HydIsFresh

\* What the row holds and what the upserts in flight carry came from the room.
SavesInRoom == rooms # None =>
  /\ Content(mongo) \subseteq doc[rooms]
  /\ \A i \in DOMAIN mongoQ : mongoQ[i].state \subseteq doc[rooms]

\* A Redis state a hydration may find, or has found, is ahead of Mongo.
RedisIsAhead ==
  /\ redis # None /\ ("externalRedis" \in Env \/ rooms = None) =>
       /\ Content(mongo) \subseteq redis
       /\ \A i \in DOMAIN mongoQ : mongoQ[i].state \subseteq redis
  /\ redis # None /\ "externalRedis" \in Env /\ rooms # None /\ rooms \notin redisTimer =>
       redis = doc[rooms]
  /\ \A c \in Conns :
       pc[c] = "redisGet" /\ hyd[c] # None => Content(mongo) \subseteq hyd[c]

\* Only an orderly close is "closing".
ClosingIsOrderly == up = "closing" => "close" \in Env

CoverInv == MapInv /\ SavesInRoom /\ RedisIsAhead /\ ClosingIsOrderly

\* The states from the row through the upserts in flight, oldest first, grow.
SavesGrow == \A i \in DOMAIN mongoQ :
  /\ Content(mongo) \subseteq mongoQ[i].state
  /\ \A j \in DOMAIN mongoQ : i < j => mongoQ[i].state \subseteq mongoQ[j].state

SaveInv == CoverInv /\ SavesGrow

\* An embedded Redis that a hydration finds holds what the row holds.
RedisIsRow ==
  "externalRedis" \notin Env =>
    /\ rooms = None /\ redis # None => redis = mongo
    /\ \A c \in Conns : pc[c] = "redisGet" /\ hyd[c] # None => hyd[c] = mongo

\* A room with no Mongo timer is what the youngest upsert carries or, when none
\* is in flight, no more than the row.
LastSaved == rooms # None /\ rooms \notin mongoTimer =>
  IF mongoQ = <<>> THEN doc[rooms] \subseteq Content(mongo)
                   ELSE Last(mongoQ).state = doc[rooms]

ScheduleInv == MapInv /\ RedisIsRow /\ LastSaved

\* A Redis key with no timer to replace it is the room's document.
RedisIsRoom == up # "closing" /\ redis # None /\ rooms # None /\ rooms \notin redisTimer =>
                 redis = doc[rooms]

CodeInv == CoverInv /\ ScheduleInv /\ RedisIsRoom

\* The key is ahead of the row and of what is about to become the row.
KeyIsAhead == up # "closing" /\ redis # None =>
  /\ Content(mongo) \subseteq redis
  /\ \A i \in DOMAIN mongoQ : mongoQ[i].state \subseteq redis

KeyInv == CoverInv /\ RedisIsRoom /\ KeyIsAhead
=============================================================================
