# NetSessions: a formal model

TLA+ modules, TLC configurations and TLAPS proofs for the NetSessions service:
collaborative documents and awareness over Yjs, the catalogue of sessions, their
roles, colours and presence, and code execution under a lock. Everything is translated from `src/src/` (TypeScript,
NestJS); what the code takes from libraries and services (ws, Yjs, Socket.IO,
Nest's dispatch, Redis, MongoDB through Prisma) is modelled from how the code
uses it.

```
tlc -workers 2 -config YjsRoomSafe.cfg YjsRoom           # one run; see "Runs"
tlc -workers 2 -config SessionRoles.cfg MCSessionRoles   # most runs have an MC module
tlapm YjsRoomProofs.tla                                  # the proofs; see "Proofs"
```

## 1. Inventory of the system

One Node process serves REST under `/v1`, a Socket.IO gateway at `/ws/session`
and a raw WebSocket endpoint at `/ws/yjs/:sessionId`. It owns in-memory Yjs
rooms; everything else lives in Redis (in the same container, without
persistence, unless `REDIS_URL` says otherwise) and MongoDB. Node is
single-threaded: code between two awaits is atomic, and any other handler may
run at each await.

| Component | State it keeps | Operations | What makes it correct |
|---|---|---|---|
| Yjs room server, `modules/yjs/yjs.service.ts` | map session -> room {doc, awareness, conns, two timers} | connect, authenticate, get or create the room (hydrate from Redis, else Mongo), handle a frame, broadcast, save to Redis after 500 ms and to Mongo after 5 s, close, shutdown | one document per session; nobody misses an update; no save loses what was saved; an edit becomes durable |
| Yjs document store, `yjs-doc-state.repository.ts`, `redis.service.ts:124-148` | row `SessionYjsState`, key `yjs:doc:<id>` (24 h TTL) | upsert, find; GET, SET, EXPIRE | the row only grows; an evicted key is recovered from the row |
| Code endpoint, `sessions.service.ts:189-220` | none | read Redis, else Mongo, else 404 | agrees with the room once saved; never behind the row |
| Code execution, `execution.service.ts`, `piston.service.ts` | none | lock, load session, check membership and role, call Piston with an abort timer, store, emit, release | one run at a time; a run ends; no key is left behind |
| Execution lock, `redis.service.ts:101-122` | key `session:<id>:run:lock`, 8 s TTL | SET NX PX; GET then DEL | nobody deletes another's lock; no lock without a holder |
| Permissions, `permissions.ts` | none | five predicates over role, owner, user | see the module |
| Collaboration gateway, `collaboration.gateway.ts` | Socket.IO rooms, `client.data.activeSessionId` | session.join, session.leave, disconnect; emits presence, results, role changes | clients show who is there |
| Presence, `sessions.service.ts:69-110, 258-267, 325-352`, participant repository, `redis.service.ts:46-79` | rows `SessionParticipant.isOnline`, set `session:<id>:members` (120 s TTL) | join, mark online, mark offline | capacity; the two stores agree; online means connected |
| Session catalogue, `sessions.service.ts`, `sessions.repository.ts` | rows `Session` | create, rename, delete, list | one active session per owner and name; unique invite codes |
| Participant roles, `sessions.service.ts`, `sessions.controller.ts` | `SessionParticipant.role` | change a role, create the row at the first join; emitted after | the owner, and nobody else, is OWNER; clients show what is stored |
| Snapshots, `sessions.service.ts:222-246`, `session-snapshots.repository.ts` | rows `SessionSnapshot` | append after `canSave` | written only for who may save |
| Session colours, `redis.service.ts:150-197` | hash `session:<id>:colors` | assign | one colour per user, different while the palette lasts |
| Awareness, in `yjs.service.ts` | awareness states, which connection controls which client | apply, broadcast, remove at close | no ghost of a closed connection |
| Session state hash, events channel | hash `session:<id>:state`; pub/sub | written by many handlers, read to be shown; published, with no subscriber in `src/` | - |
| Guards, controllers, DTOs, health, metrics, error filter, wiring | none of their own | - | - |
| Container, `docker/entrypoint.sh`, `docker/redis.conf` | - | starts Redis and Node, ends both when either ends | - |

**How they interact.** REST and gateway handlers call `SessionsService`, which
awaits the repositories and `RedisService`; `ExecutionService` awaits
`SessionsService`, `PistonService` and `RedisService` and emits through the
gateway; `YjsService` shares with the rest only the participant row it reads at
authentication and the document's key and row, which the code endpoint reads.
All Redis commands of the process go over one connection and take effect in the
order they were issued; Mongo operations use a pool and need not.

**What is hard.** Interleavings at awaits (hydration, the capacity count, the
upsert that is a find and then a create, lock release by GET and DEL);
overlapping handlers of one socket, since Nest queues neither messages nor the
disconnect behind them; a lock whose TTL is shorter than the work it protects;
debounced saves that replace the whole row; caches that disappear (TTL, LRU
eviction, restart); signals that skip the shutdown hook (`main.ts` never calls
`enableShutdownHooks`); failures that are logged and dropped. `PROJECT.json`
lists these hazards, each at its line with the properties about it; section 12
says which of them the code does run into.

## 2. Modules

```
SharedDoc            what one session's document promises
YjsRoom              YjsService for one session   -- implements SharedDoc
  YjsRoomProofs      theorems
YjsAwareness         awareness in one room
  MCYjsAwareness     TLC instance
  YjsAwarenessProofs
Permissions          roles and predicates
ExecutionLock        runCode for one session      -- EXTENDS Permissions
  MCExecutionLock
  ExecutionLockProofs
SessionRoles         roles and snapshots of one session -- EXTENDS Permissions
  MCSessionRoles
  SessionRolesProofs
SessionPresence      gateway + presence for one session
  MCSessionPresence
  SessionPresenceProofs
SessionColors        colours of one session
  MCSessionColors
  SessionColorsProofs
SessionCatalog       the sessions of all users
  MCSessionCatalog
  SessionCatalogProofs
```

`SessionCatalog` is about all sessions. Each other module is about ONE: the room
map, the Redis keys and the rows are all keyed by the session id, and nothing
relates two sessions except `activeSessionId`, which `SessionPresence` keeps.
Where one module's handlers run through state that another module owns, the
state appears in the other module as an action of its own that may happen at any
time: a deletion (`DeleteSession` in `ExecutionLock`, `SessionPresence` and
`SessionRoles`; its checks are in `SessionCatalog`), a role change (`ChangeRole`
in `ExecutionLock`; the handlers are in `SessionRoles`), a restart. A handler of
the gateway is split the same way: `SessionPresence` follows its effect on rows,
members and sockets, `SessionRoles` the roles it creates, reads and emits,
`SessionColors` the call that chooses its colour. No property needs two of these
at once, and their product would be out of TLC's reach.

A definition whose comment starts with "Mutant" is not part of any
specification: it is a plausible mistake in the definition below it, and the
property it is paired with in `PROJECT.json` is violated when it is put in
its place.

## 3. YjsRoom

**State.** A document is the set of updates merged into it: `Y.applyUpdate` is
union, `Y.encodeStateAsUpdate` is the set. This is what a CRDT gives and all
the properties need. Rooms are named by the connection whose `getOrCreateRoom`
made the object, so that a lost race leaves two rooms to tell apart.

| Variable | Code |
|---|---|
| `rooms` | `this.rooms.get(sessionId)` |
| `doc`, `redisTimer`, `mongoTimer` | `room.doc`, `room.redisTimer`, `room.mongoTimer` |
| `pc`, `room`, `hyd` | where each `onConnection` is suspended, its `room` variable, what its last read returned |
| `open`, `inbox`, `outbox` | socket state and what is in transit on it |
| `clientDoc`, `gap`, `issued` | the client's own document; an earlier frame of it was dropped; updates ever made |
| `redis`, `mongo`, `mongoQ` | the key, the row, upserts issued and not completed |
| `up` | process running, in its shutdown hook, or gone |

**Actions** (each is the code from one await to the next).

| Action | Code |
|---|---|
| `Connect`, `Reject` | upgrade; the catch of `onConnection` |
| `FindRoom`, `JoinRoom` | cache hit, and the registration after the TTL refresh |
| `MissRoom`, `RedisHit`, `RedisMiss`, `MongoFind`, `NoRow`, `SeedRedis`, `Seeded`, `HydrateFail` | the hydration branches; those that end it also set the map and register the connection (`Install`, `Attach`) |
| `HandleFrame` | `handleFrame` with the doc's `update` handler: merge, broadcast, arm both timers |
| `FrameDropped`, `FramePending` | a frame before the listener exists; an update Yjs keeps pending for want of it |
| `Edit`, `Deliver`, `SockClose` | the client; `onConnectionClose` |
| `RedisPersist`, `MongoPersist`, `MongoWrite`, `MongoWriteFail` | the timers; the upsert completing or rejecting |
| `RedisLoss` | TTL, LRU eviction, Redis restart |
| `BeginClose`, `FinishClose`, `Kill`, `Restart` | `onApplicationShutdown` around its await; a crash or a signal; a new process |

`MissRoom` fixes what the GET will return because commands on the one Redis
connection are served in order; `MongoFind` and its reply are two steps because
the database is not. `MongoPersist` waits for `redisTimer` because one update
arms both timers and 500 ms come before 5 s. During a close Redis is already
disconnected (`RedisService.onModuleDestroy` runs in an earlier phase of Nest's
shutdown), so writes to it fail then.

**Env** names the behaviours of the surroundings that a run or theorem
considers: `race`, `hydrateFail`, `reorder`, `externalRedis`, `writeFail`,
`eagerClient`, `close`. Crash and loss of the Redis key are always possible.
`CoverEnv` excludes `race` and `hydrateFail`, and for an external Redis also `close`
and `writeFail`; `SafeEnv` excludes `reorder` as well. These are the places where
the code gives up durability or the single room; section 12 says how.

**Properties.** `NoGap`, `NoEditDropped` (synchronisation in both directions),
`OneRoomPerSession`, `RoomCoversMongo`, `UnsavedIsScheduled`, `CodeIsCurrent`,
`CodeNotBehindRow`, `MongoNeverLoses`, `ImplementsSharedDoc`; `EventuallyDelivered`,
`EventuallyDurable`, `EventuallyAttached`.

`SessionCode` is what `GET /sessions/:id/code` answers, `None` being the 404 of a
session with a state in neither store (a stored document without an edit is two
bytes, which is a state). `CodeIsCurrent` says that the answer is the room's document
once all is saved, and that 404 then means a document with no edit at all.
`CodeNotBehindRow` says, of any moment, that the key preferred to the row has all the
row has. The check before it, that the session is not deleted, is
`SessionCatalog`'s `GetSession`; the connections never look at it.

**Refinement.** `SharedDoc` has only `live` and `durable` edits: Accept, Save,
Stop. `YjsRoom` maps `live` to the room's document (Mongo's row when there is
no room) and `durable` to the row. It says that joins, hydrations, closes,
evictions and timers show nothing to the users; in particular that a room
discarded and rebuilt between two edits would still serve every edit, and that
a stop falls back to exactly what was durable.

**Simplifications.** A client starts with an empty document, so a client that
reconnects with offline edits is a new connection whose edits are new updates.
Awareness frames are `YjsAwareness`'s; unknown frame types and malformed updates
change nothing and are left out. Authentication is one step that may fail.

## 4. YjsAwareness

The other state of a room: for each client (a page, named by the `clientID` of
its Y.Doc) what the others show of it, and for each connection the clients whose
state goes with it.

| Variable | Code |
|---|---|
| `present`, `clk` | `room.awareness.states` and `.meta`: who has a state, and the last clock of each |
| `reg`, `ctl`, `pending` | `room.conns`, `room.connAwareness`, connections still in the awaits before `setupConnection` |
| `sock`, `up`, `down` | the sockets; awareness frames on their way |
| `view`, `clock`, `here` | the client's side: what it shows of others, its own clock and state |
| `again` | history: clients that had a second connection, or set null |

| Action | Code |
|---|---|
| `Attach` | the end of `setupConnection`: registration and the first awareness frame |
| `HandleAwareness` | `handleFrame` with an awareness frame, the awareness `update` listener and `broadcastFrame` |
| `FrameDropped` | a frame before the message listener exists |
| `SockClose` | `onConnectionClose`: what the connection controls is removed and broadcast |
| `Outdate` | the 30 s timeout of y-protocols, with the listener called for no connection |
| `Connect`, `SetLocal`, `Show`, `Cut` | the clients, external |

y-protocols decides by clocks: a newer clock wins, and at equal clocks null wins.
The listener adds a client to the connection's controlled set only when it is
`added`, that is, when the server has never seen a clock of it (`meta` survives
the removal of a state). A client that reconnects, or returns from null, is
`updated` and nobody controls it.

**Properties.** `NoGhost`: a client with one connection and no null leaves nothing
behind. `ViewsAgree`: who has read his frames shows what the room has. `GhostGoes`:
nobody shows for ever who has left, the uncontrolled included. `Env` has
`throttle`: a client with an open socket that is silent for 30 s.

## 5. ExecutionLock

`pc` is the await a run is at; `lock` and `ttl` the Redis key; `tok[r]` names
the lock value, which the code builds from the email and `Date.now()`, so two
requests of one user that arrive in one tick may have the same one; `active`
and `role` are what the checks under the lock read; `age` counts the wait for
Piston. `lost`, `stale` and `orphans` are history variables that only the
properties read: runs whose key vanished while they were in the critical
section, those to whom it happened between GET and DEL, and lock values that a
fault left without a run to delete them.

| Action | Code |
|---|---|
| `Request`, `CheckSession` | `runCode` up to the lock value; `getSessionOrThrow` in `acquireRunLock` |
| `Acquire`, `Refuse`, `AcquireFail`, `AcquireLostReply` | `SET NX PX`; 409; the command rejects; ioredis resends it (`maxRetriesPerRequest: null`) |
| `LoadSession`, `LoadMembers` | the two reads of `getSessionById` and the checks on them |
| `PistonReply`, `PistonAbort`, `Store` | `PistonService.execute`; `setSessionState` and the emission |
| `ReleaseGet`, `ReleaseDel`, `ReleaseFail` | the finally block |
| `Tick`, `LockLoss`, `Crash`, `DeleteSession`, `ChangeRole` | time, Redis, the process, the owner |

`LockTtl = 1 < PistonTimeout = 2` in the runs keeps the order of 8 s and 15 s;
the theorems hold for any positive values.

**Properties.** `LockExcludes` (of the runs that have not lost their key, at
most one is in its critical section, and it owns the key), `LockHasHolder`;
`RunEnds`, `LockIsFreed`. `MutualExclusion` is what the
README of the service promises and the code does not do.

## 6. SessionPresence

`rows`, `online` are the participant rows and their `isOnline`; `members` the
Redis set; `open`, `inRoom`, `act` the sockets, the Socket.IO room and
`activeSessionId`; `h[t]` a handler under way
with the await it is at; `byRest` a history variable: users whom REST put
online, who have no socket to take them offline.

| Action | Code |
|---|---|
| `Connect`, `OnSessionJoin`, `OnSessionLeave`, `HandleDisconnect`, `JoinSession` | a handler starts; `handleDisconnect` reads `activeSessionId` and continues only when there is one |
| `GetSession`, `FindParticipant`, `CountOnline` | `getSessionOrThrow`, `markParticipantOnline` |
| `UpsertFind`, `UpsertUpdate`, `UpsertCreate`, `UpsertClash` | `upsertOnlineParticipant`; the unique index |
| `AddMember`, `JoinRoom`, `ReadMembers`, `EmitPresence` | the rest of a join |
| `SetOffline`, `RemoveMember`, `LeaveRoom` | `markParticipantOffline`, and the rest of a leave |
| `JoinElsewhere`, `DeleteSession`, `MembersExpire`, `Fail`, `Crash` | another session, the owner, Redis, errors, the process |

**Properties.** `CapacityHolds`, `StoresAgree`, `OnlineIsConnected`,
`ConnectedIsOnline`, `EventuallyOffline`. They are about users with no handler
under way (`Busy`): between `setOffline` and `removeSessionMember` the stores do
differ.

## 7. SessionRoles

`role` is the role column of the participant rows; `shown` what the clients in
the Socket.IO room show; `snaps` the snapshots; `req[r]` a request with the await
it is at. Histories: `crossed` (an event told of a row that another handler had
changed since it was read), `untold` (a row changed and no event was to come),
and in a request `could` (its user was allowed to save at some time since it
came) and `old`.

| Action | Code |
|---|---|
| `Arrive`, `GetSession` | a request; `getSessionOrThrow` and what follows it up to the next await: `MayAssign` is the three checks of `updateParticipantRole` |
| `FindTarget`, `UpdateRole`, `EmitRole` | the rest of `updateParticipantRole`, and the controller's `emitRoleUpdated` |
| `UpsertFind`, `UpsertCreate` | `upsertOnlineParticipant` as far as it makes rows, with the unique index |
| `ReadRoles`, `EmitPresence` | `getRolesMap`, and the `session.presence` event emitted with what it returned |
| `CheckSave`, `AppendSnapshot` | `createSnapshot` |
| `Fail`, `DeleteSession` | an await that rejects before or after its effect; the owner |

**Properties.** `OneOwner`, `RoleKept`, `SnapshotsAllowed` (the check and the
write are two awaits: allowed at SOME time of the request is what the code gives),
`RolesShown` (clients show the roles as they are, unless two events crossed or none
was emitted: a join by REST, a failed await).

## 8. SessionColors

`colors` is the hash `session:<id>:colors`; `call[c]` a call of
`assignSessionColor` with the command it awaits; `late` the users whose colour
was chosen from a read that a write had outdated (history).

`ReadExisting`, `ReadTaken`, `SetFree`, `ReadConcurrent` are the HGET, the HVALS,
the HSETNX and the second HGET of the loop; `SetFallback`, `SetExpiry`,
`ReadFinal` the hashed colour after it. `KeyLoss` is the TTL, the eviction or a
Redis restart; `Fail` a rejected command. `hashEmail` is the constant `HashOf`:
any function into the palette.

**Properties.** `AnswerIsStored`: all tabs of a user get one colour.
`ColoursDiffer`: two users share one only after an overtaken read or when none is
free.

## 9. SessionCatalog

`session[i]` is the row of id `i`; `req[r]` a create, rename or delete with its
await; `stale` the sessions whose name was written on an outdated lookup
(history).

| Action | Code |
|---|---|
| `Request` | POST, PATCH, DELETE |
| `GetSession` | `getSessionOrThrow`, `assertOwner`, and the return of a rename that changes nothing |
| `FindName` | `assertNameAvailableForOwner`: a `findFirst`, so any of the matches |
| `DrawCode` | one iteration of `generateUniqueInviteCode` |
| `Insert` | `sessionsRepository.create`, with the unique index on `inviteCode` |
| `Enrol` | the owner's row and the two Redis commands after it |
| `UpdateName`, `Remove` | `updateName`, `softDelete`, of a session that may be deleted by now |
| `Fail` | an await that rejects before or after its effect |

**Properties.** `NamesUnique` (no unique index: only an overtaken lookup makes two
equal names), `ClashIsRace` (codes of deleted sessions are taken), `OwnerDecides`.

## 10. Runs

| Run | What it asks | Instance | States |
|---|---|---|---|
| `YjsRoomSafe` | safety, durability and refinement in the intended surroundings | 3 connections, 2 updates, `close`; fairness | 393 thousand |
| `YjsRoomAll` | what survives every misbehaviour; delivery, joining | 2 connections, 2 updates, all of Env; fairness | 103 thousand |
| `YjsAwareness` | views, ghosts | 2 clients, one connects twice, clocks 2 and 1, `throttle`; fairness | 241 thousand |
| `ExecutionLockSafe` | the lock under all faults | 3 runs, 2 users, TTL 1, timeout 2 | 1.2 million |
| `ExecutionLockLive` | runs end, keys go | 2 runs of 2 users; all faults; fairness | 13 thousand |
| `SessionPresenceCalm` | stores, sockets and rows agree | 3 users, 3 sockets, 2 handlers at once, capacity 2; fairness | 229 thousand |
| `SessionPresenceFull` | capacity and types under every failure | 3 users, 1 socket, 3 handlers at once, capacity 2; symmetry | 443 thousand |
| `SessionRoles` | roles, what is shown of them, snapshots | 2 users, 2 requests, 4 roles to ask for; all of Env; symmetry | 3.6 million |
| `SessionColors` | colours of users and tabs | 4 calls of 2 users and a third who may have come before, palette of 2; all of Env | 465 thousand |
| `SessionCatalog` | names, codes, ownership | 3 ids, 2 users, 2 names, 3 codes, 2 requests, 2 attempts; `fail`; symmetry | 154 thousand |
| `ExecutionLockMutex` | violation of `MutualExclusion` | no fault | - |
| `SessionPresenceCapacity` | violation of `CapacityHolds` | `concurrent` | - |

**Why the bounds are enough.** In `YjsRoom` an interesting case needs the
connection that builds the room, one that joins it, and one that comes after a
restart or watches the other two: three connections, each used once. Two
updates are the fewest where a save can hold one and miss the other, and where
two upserts in flight differ. In `YjsAwareness` a ghost takes a client that
connects twice and one that watches; `MaxClock` bounds how often a client sets its
state, and two are enough for null and return. What a client answers when it is
told that it is gone does not count; that these answers are bounded too (`Clocks`)
is a theorem. In `ExecutionLock` a
stale release takes the run that lost the key, its successor, and a third that
could slip in; two of them belong to one user so that their values may coincide.
In `SessionPresence` the capacity is 2 instead of 5: an owner who is online from
the start, one free place, and a third user to compete for it; one user's
overlapping handlers need two tasks for each pair of steps, three with one to
spare for another user. In `SessionRoles` every race is between two requests, and
the roles asked for include the one that may not be, one that saves, and one on
each side of it. In `SessionColors` two tabs of each of two users and a palette
that is one colour short when the third has come first reach every branch of the
loop and its end. In `SessionCatalog` two creates and a session from before them,
with a code for each, show both races; three codes with two attempts exhaust the
draw.

Symmetry is used only where the permuted values are interchangeable names that
no definition tells apart, and no liveness is checked. Deadlock is checked in
every run but `YjsAwareness`, where each connection is used once and all may be
over.

**Fairness, and why the code justifies it.** `YjsRoom`: the event loop runs
every ready continuation, timer and socket event, and the stores answer, so
weak fairness on hydration steps, on the handling of a connection's frames, on
delivery, on the two timers and on the oldest upsert. Nobody is obliged to
connect, edit, close, stop or restart; the properties make room for a stop.
`ExecutionLock`: time passes (`Tick`) and each request goes on, but Piston need
not ever answer (`PistonReply` has no fairness), so that `RunEnds` rests on the
abort timer. `SessionPresence`: each handler goes on; nobody need join or leave.
`YjsAwareness`: frames are read, closes are noticed, and the 30 s pass for a client
with no open socket; a client that is merely silent need not be timed out. The
other runs check no liveness.

## 11. Proofs

The theorems hold for every number of connections, updates, runs, users,
sockets, handlers, requests, sessions, names, codes and colours, and every TTL,
timeout, capacity and number of attempts.

| Theorem | States | Assumes |
|---|---|---|
| `YjsRoomProofs!TypeCorrect` | `[]TypeOK` | any Env |
| `YjsRoomProofs!NoGapAlways` | `[]NoGap` | any Env |
| `YjsRoomProofs!OneRoomAlways` | `[]OneRoomPerSession` | no `race` |
| `YjsRoomProofs!RoomCoversMongoAlways` | `[]RoomCoversMongo` | `CoverEnv` |
| `YjsRoomProofs!MongoNeverLosesAlways` | `MongoNeverLoses` | `SafeEnv` |
| `YjsRoomProofs!Refinement` | `ImplementsSharedDoc` | `SafeEnv`, embedded Redis |
| `YjsRoomProofs!NoEditDroppedAlways` | `[]NoEditDropped` | no `eagerClient` |
| `YjsRoomProofs!UnsavedIsScheduledAlways` | `[]UnsavedIsScheduled` | embedded Redis, no `race`, `reorder`, `writeFail` |
| `YjsRoomProofs!CodeIsCurrentAlways` | `[]CodeIsCurrent` | `SafeEnv`, embedded Redis, no `writeFail` |
| `YjsRoomProofs!CodeNotBehindRowAlways` | `[]CodeNotBehindRow` | `CoverEnv`, no `writeFail` |
| `ExecutionLockProofs!TypeCorrect`, `LockExcludesAlways`, `LockHasHolderAlways` | `[]TypeOK`, `[]LockExcludes`, `[]LockHasHolder` | any Faults |
| `ExecutionLockProofs!OneRunWhileLocked` | `[](TokensDiffer /\ stale = {} /\ Running \cap lost = {} => MutualExclusion)` | any Faults |
| `SessionPresenceProofs!TypeCorrect` | `[]TypeOK` | any Env |
| `SessionPresenceProofs!CapacityAlways` | `[]CapacityHolds` | joins of different users do not overlap |
| `SessionPresenceProofs!StoresAgreeAlways` | `[]StoresAgree` | no `overlap`, `expiry`, `fail`, `crash` |
| `SessionPresenceProofs!OnlineIsConnectedAlways` | `[]OnlineIsConnected` | no `overlap`, `elsewhere`, `delete`, `fail`, `crash` |
| `SessionPresenceProofs!ConnectedIsOnlineAlways` | `[]ConnectedIsOnline` | no `overlap`, `multiTab`, `fail` |
| `YjsAwarenessProofs!TypeCorrect`, `NoGhostAlways`, `ViewsAgreeAlways` | `[]TypeOK`, `[]NoGhost`, `[]ViewsAgree` | any Env |
| `SessionCatalogProofs!TypeCorrect`, `NamesUniqueAlways`, `ClashIsRaceAlways`, `OwnerDecidesAlways` | `[]TypeOK`, `[]NamesUnique`, `[]ClashIsRace`, `OwnerDecides` | any Env |
| `SessionRolesProofs!TypeCorrect`, `OneOwnerAlways`, `RoleKeptAlways`, `SnapshotsAllowedAlways`, `RolesShownAlways` | `[]TypeOK`, `[]OneOwner`, `RoleKept`, `[]SnapshotsAllowed`, `[]RolesShown` | any Env |
| `SessionColorsProofs!TypeCorrect`, `AnswerIsStoredAlways`, `ColoursDifferAlways` | `[]TypeOK`, `[]AnswerIsStored`, `[]ColoursDiffer` | any Env |

Every invariant and action property of a passing run is thus a theorem. Where a
theorem assumes less than its run (those of the room and of presence, each of which
leaves in what its property survives), it says more than the run checked. The
assumptions are tight: allowing any flag that a theorem excludes, and no other, TLC
finds the property violated on two connections and two or three updates, or on the
presence run's instance (with two sockets of the guest for `multiTab`); section 12
says how.
The other assumptions are those of the modules' ASSUMEs: finite sets of users and
of awareness connections, `None` different from the values it stands beside.

**The inductive invariants.**

- `SyncInv` (for `NoGap`): `NoGap` alone is not inductive, since a room object
  might be built under a name already in use (`NotYetBuilt`) and a frame might
  bring the room something its sender does not show (`FramesShown`; the sender
  is left out of the broadcast).
- The room's stores take a chain of invariants, each with the one before and each
  assuming only what it needs. `MapInv` (for `OneRoomPerSession`): at most one
  connection hydrates and only while there is no room (`OneHydration`); every
  connection that was given a room holds the mapped one (`RoomIsMapped`); only that
  room has timers and upserts (`SavesAreMapped`); what a hydration read is still what
  the stores hold (`HydIsFresh`). `CoverInv` (for `RoomCoversMongo`): the row and the
  upserts in flight carry no more than the room (`SavesInRoom`), and a Redis state
  that a hydration may find is ahead of them (`RedisIsAhead`). `SaveInv` (for
  `MongoNeverLoses`): in their order they form a chain (`SavesGrow`). `RedisIsRow`
  adds for the refinement that an embedded Redis found by a hydration was seeded from
  the row, so that building a room shows nothing new.
- `EditInv` (for `NoEditDropped`): a client that is not registered has, was sent
  and sends nothing (`NothingBeforeAttach`), and what is on its way to a registered
  one is already in its room (`SentIsInRoom`), so that reading a frame adds nothing
  the room lacks.
- `ScheduleInv` (for `UnsavedIsScheduled`): on top of `MapInv` and `RedisIsRow`, the
  youngest upsert carries the document of a room whose Mongo timer is not armed
  (`LastSaved`). `UnsavedIsScheduled` itself is not inductive: it admits an upsert
  in flight that lacks what the row has and the room too, and takes it away when it
  lands.
- `CodeInv` (for `CodeIsCurrent`): a Redis key that no timer will replace is the
  room's document (`RedisIsRoom`). An evicted key is read from the row, which
  `LastSaved` and `SavesInRoom` make equal to the room once nothing is scheduled.
- `KeyInv` (for `CodeNotBehindRow`): the key is ahead also of the upserts in flight
  (`KeyIsAhead`), which will become the row. A Mongo timer that fires keeps it so
  because the Redis timer has fired before and `RedisIsRoom` holds.
- `LockInv` (for `LockExcludes`): a lock value never returns to the key once it
  has vanished (`LostForGood`, which needs `SET NX` to be issued at most once
  per run), and a run about to DEL still owns the key unless it vanished after
  the GET (`DeletesOwn`). `LockHasHolder` is inductive with `TypeOK`.
  `OneRunWhileLocked` follows from `LockExcludes`: it says that the violation of
  `MutualExclusion` has no other cause than a lock that ran out under its run, or a
  DEL that came after its key was gone.
- `CapacityInv`: a join past the count still fits (`AdmittedFits`), which is
  true because the joins in progress are of one user (`OneUserBusy`). It is
  exactly what `concurrent` takes away.
- `HandlerInv` (for the other three of presence): a user has one handler
  (`OneHandlerEach`), its socket is open and his (`HoldsSocket`), each await belongs
  to its kind of handler (`KindAwaits`), and what a handler wrote to the row holds
  until it ends (`RowWritten`). On top of it `StoresStep`: the stores differ only
  between the two writes of a handler; `OnlineStep`: who is online without a
  socket that counts has a join about to make it count or a disconnect about to
  take him offline (`WillCount`); `ConnectedStep`: a user has one socket, it is
  gone before its disconnect runs (`DisconnectIsLast`), and where the row is
  already offline a leave is about to take it out (`LeaveTakesIt`).
- `GhostInv` (for `NoGhost`): a client of one connection sends no null, and once
  the server knows its clock either the connection controls it or is closed and
  the state gone.
- `ViewsInv` (for `ViewsAgree`): for every connection and every client, what it
  shows, then what the frames on their way tell of that client, then what the room
  has, are in the order of the changes, and the last of them that says anything is
  what the room has (`Follows`). It is stated by quantifiers over positions of the
  queue, not by a fold, so that no induction over data is needed. A connection not
  registered or not open shows nothing and is told nothing (`OnlyRegistered`):
  that is why one that joins gets all it needs from `Attach`.
- `ClockInv` (for `YjsAwareness`'s `TypeOK`): no state anywhere is ahead of its
  client's own clock; who is denied at his last clock may still set one, because
  a timeout came while he could, or because the close of one more of his
  connections did it (`Bound`); and a null at the last clock is of a client that
  has no state to defend (`SentIsOwn`). So clients answer what the server tells
  them, but no exchange of denials and answers goes on by itself.
- `RequestsKnown` (for `OwnerDecides`, and with it for the types): past
  `assertOwner` a request is the owner's and its session exists. `LookupIsTrue`
  (for `NamesUnique`): what a lookup found holds until a name is written.
- `RoleRequests` (for `OneOwner`, `RoleKept`): past its checks a role request is
  the owner's, of somebody else, and not to OWNER. `SaveRequests` (for
  `SnapshotsAllowed`): a request that may save now could at some time.
- `EventsTrue` and `ShownOrPending` (for `RolesShown`): an event about to go out
  tells the rows as they are, but for what others have changed since it read them
  (`old`); and a role the clients do not show is one a request under way will tell.
- `ReadIsTrue` (for `ColoursDiffer`): the colour a call picked is free while no
  write has outdated its read. `AnswerIsStored` is inductive with the types.

Each of these was checked by TLC as an invariant of the run's instance before it
was proved.

**Only model-checked.** All liveness (`EventuallyDelivered`, `EventuallyDurable`,
`EventuallyAttached`, `RunEnds`, `LockIsFreed`, `EventuallyOffline`, `GhostGoes`):
liveness under fairness and ENABLED are outside the prover's reach.

## 12. Where code and documents disagree

| Run | The code | The document |
|---|---|---|
| `ExecutionLockMutex` | 8 s lock, 15 s call | `README.md:296` |
| `SessionPresenceCapacity` | count, await, upsert | `sessions.controller.ts:77`, `sessions.service.ts:343` |

Behaviours of the code with no run of their own, which the Env flags admit or the
properties except:

- `race` (`yjs.service.ts:152`): `getOrCreateRoom` reads the map, awaits, then sets
  it, so two first connections build two rooms, against `README.md:71`.
- `hydrateFail` (`yjs.service.ts:178`): a failed read yields an empty room that is
  saved over the row, against `README.md:297`. An orderly close is one way there:
  `RedisService.onModuleDestroy` quits the Redis client (`redis.service.ts:239`) in an
  earlier phase of Nest's shutdown than the flush, so a join between the two has its
  GET rejected, puts an empty room in the map, and `onApplicationShutdown`
  (`yjs.service.ts:371`) writes that room over the row. In `YjsRoom` the close begins with the
  flush, so that this join is a `HydrateFail` before it, which the runs and theorems
  without `hydrateFail` exclude.
- `GET /sessions/:id/code` answers 404 while neither store has a state
  (`sessions.service.ts:194`): for a document that is open and has no edit, and for an
  edit made less than a debounce ago. `sessions.controller.ts:128` names only a document
  that "has never been opened". `SessionCode` is `None` then, and `CodeIsCurrent` leaves
  out the second case, with a timer armed, and allows the first.
- The Yjs socket checks that its user is a participant and not the role, so that a
  `VIEW` member, `Solo lectura` in `README.md:203`, edits as the others do. The Yjs
  modules have no roles: every connection may edit.
- An external Redis (`externalRedis`) keeps what the row does not: a crash between
  the two timers leaves it ahead, and the next room holds an edit that no timer will
  bring to Mongo before the next edit. A flush (`close`) or a failed write (`writeFail`) leaves it behind,
  and the next room, built from it (`yjs.service.ts:165`), saves the older state.
- An eager client loses its early frames (`eagerClient`), awareness frames too; a
  rejected save is not retried (`writeFail`); upserts completing out of order set
  the row back (`reorder`).
- A socket that disconnects under its own join leaves its user online (`overlap`);
  closing one of two tabs takes the user offline (`multiTab`); the members set
  expires while people are online (`expiry`); a second session's join makes the
  first forget the socket (`elsewhere`); a crash leaves users online (`crash`).
- The presence event carries maps read up to four awaits before it is emitted
  (`collaboration.gateway.ts:135`), so that it may be older than the one before,
  against the `lista actualizada` of `README.md:247` (`crossed` in `SessionRoles`).
- Two requests that interleave give an owner two active sessions of one name
  (`stale` in `SessionCatalog`), against `sessions.controller.ts:138`. A create that
  fails after its insert leaves an active session whose name is taken.
- Two users who call together get the same colour (`late` in `SessionColors`).
- A client that reconnects, or returns from null, is controlled by no connection:
  when it leaves, the others show it until the 30 s timeout. The close of its old
  socket removes its state although the new one is open; it comes back when the
  client is told and answers (`again` in `YjsAwareness`).

Also noticed: the README names a client event `session.language.changed`
(`README.md:243`) that no handler subscribes to, and says state is synchronised
between instances through Redis (`README.md:62`), while nothing subscribes to
the events channel and rooms live in one process. The hazards in `PROJECT.json`
name the line of each.

## 13. Not modelled

- The session state hash and the events channel: written by several handlers,
  read only to be shown, no subscriber. No property depends on them.
- `listSessionsForUser`, `getSessionById` outside `runCode`: they only read. The page of a list may be older than the rows, as any answer.
- JWT verification, DTO validation, routing, metrics, health, the error filter,
  wiring: stateless or library code.
- Several server processes: rooms and Socket.IO rooms are per process, and the
  deployment is one container.

## 14. Plan

Done: `SharedDoc` and `YjsRoom` with the refinement; `ExecutionLock`;
`SessionPresence`; `YjsAwareness`; `SessionCatalog`; `SessionRoles` with the
snapshots; `SessionColors`; the proofs of section 11. Left, in order of importance:

1. An abstract specification of presence (a set of users who are there) with
   `SessionPresence` shown to implement it in the calm surroundings, and one of
   the lock.
2. `YjsRoom` and `YjsAwareness` over one set of connections: today the second has
   the room's life as given and begins after a restart with the clients as they are.
