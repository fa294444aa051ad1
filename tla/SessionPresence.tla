-------------------------- MODULE SessionPresence --------------------------
(***************************************************************************)
(* Who is online in ONE session: the Socket.IO handlers of                 *)
(* CollaborationGateway (session.join, session.leave, disconnect), the     *)
(* REST join, and the SessionsService methods they await, over the         *)
(* participant rows in Mongo and the members set in Redis.                 *)
(*                                                                         *)
(* Handlers run concurrently: Nest does not queue the messages of a socket *)
(* nor the disconnect behind them.  A handler is a record h[t] with the    *)
(* await it is at.  What it does to another session matters here only      *)
(* through client.data.activeSessionId.  Colours are in SessionColors,      *)
(* roles and what the presence event tells in SessionRoles; the state hash *)
(* and the published event are left out: no property is about them.        *)
(*                                                                         *)
(* Env says which behaviours are considered:                               *)
(*   "concurrent" handlers of different users may overlap                  *)
(*   "overlap"    handlers of one user may overlap; a socket may close     *)
(*                under a handler                                          *)
(*   "multiTab"   a user may have several sockets open                     *)
(*   "rest"       users also join by POST /sessions/join, with no socket   *)
(*   "elsewhere"  a socket also joins and leaves another session           *)
(*   "expiry"     the members key expires (120 s with no join or leave)    *)
(*   "delete"     the owner deletes the session                            *)
(*   "fail"       a query or a command may reject                          *)
(*   "crash"      the process ends and is restarted                        *)
(***************************************************************************)
EXTENDS Naturals, FiniteSets

CONSTANTS Users, Owner, Sockets, UserOf, Tasks, MaxCollaborators, Env, None

EnvChoices == {"concurrent", "overlap", "multiTab", "rest", "elsewhere", "expiry",
               "delete", "fail", "crash"}

ASSUME UsersAssumption == IsFiniteSet(Users) /\ Owner \in Users
ASSUME SocketsAssumption == UserOf \in [Sockets -> Users]
                            /\ None \notin Sockets \cup {"here", "elsewhere"}
ASSUME CapacityAssumption == MaxCollaborators \in Nat \ {0}
ASSUME PresenceEnvAssumption == Env \subseteq EnvChoices

VARIABLES
  active,   \* the session is not deleted
  rows,     \* users with a participant row
  online,   \* users whose row says isOnline
  members,  \* the members set in Redis
  open,     \* sockets connected
  inRoom,   \* sockets in the Socket.IO room of the session
  act,      \* [socket -> its activeSessionId: "here", "elsewhere" or None]
  h,        \* [task -> a handler under way, or Free]
  byRest    \* history: users put online by REST, with no socket of theirs since

sockVars == <<open, inRoom, act>>
vars == <<active, rows, online, members, sockVars, h, byRest>>

-----------------------------------------------------------------------------
Kinds  == {"join", "rest", "leave", "disconnect"}
Awaits == {"idle", "session", "find", "count", "exists", "update", "create", "sadd",
           "room", "offline", "srem", "unroom", "read", "emit"}

Free == [at |-> "idle", kind |-> "join", user |-> Owner, sock |-> None]

\* Users with a handler under way.
Busy == {h[t].user : t \in {t \in Tasks : h[t] # Free}}

TypeOK ==
  /\ active \in BOOLEAN
  /\ rows \in SUBSET Users /\ online \in SUBSET rows /\ members \in SUBSET Users
  /\ open \in SUBSET Sockets /\ inRoom \in SUBSET open
  /\ act \in [Sockets -> {"here", "elsewhere", None}]
  /\ h \in [Tasks -> [at : Awaits, kind : Kinds, user : Users, sock : Sockets \cup {None}]]
  /\ byRest \in SUBSET Users

\* The session as createSession leaves it: its owner is online.
Init == /\ active = TRUE
        /\ rows = {Owner} /\ online = {Owner} /\ members = {Owner}
        /\ open = {} /\ inRoom = {}
        /\ act = [s \in Sockets |-> None]
        /\ h = [t \in Tasks |-> Free]
        /\ byRest = {Owner}

-----------------------------------------------------------------------------
(* Sockets and the start of handlers.                                      *)

MayStart(u) == /\ "overlap" \in Env \/ u \notin Busy
               /\ "concurrent" \in Env \/ Busy \subseteq {u}

Begin(t, k, u, s) ==
  /\ h[t] = Free
  /\ MayStart(u)
  /\ h' = [h EXCEPT ![t] = [at |-> "session", kind |-> k, user |-> u, sock |-> s]]

\* A new socket object; no handler holds it.
Connect(s) ==
  /\ s \notin open
  /\ \A t \in Tasks : h[t].sock # s
  /\ "multiTab" \in Env \/ \A r \in open : UserOf[r] # UserOf[s]
  /\ open' = open \cup {s}
  /\ UNCHANGED <<active, rows, online, members, inRoom, act, h, byRest>>

\* session.join
OnSessionJoin(t, s) ==
  /\ s \in open
  /\ Begin(t, "join", UserOf[s], s)
  /\ UNCHANGED <<active, rows, online, members, sockVars, byRest>>

\* session.leave; WsSessionLeaveDto lets a client leave what it never joined.
OnSessionLeave(t, s) ==
  /\ s \in open
  /\ Begin(t, "leave", UserOf[s], s)
  /\ UNCHANGED <<active, rows, online, members, sockVars, byRest>>

\* POST /sessions/join: joinSession finds the session by its invite code.
JoinSession(t, u) ==
  /\ "rest" \in Env
  /\ Begin(t, "rest", u, None)
  /\ UNCHANGED <<active, rows, online, members, sockVars, byRest>>

\* Socket.IO takes the socket out of its rooms.
Cut(s) == /\ open' = open \ {s}
          /\ inRoom' = inRoom \ {s}
          /\ act' = [act EXCEPT ![s] = None]

\* Mutant: the handler reads activeSessionId after it was cleared.
HandleDisconnect_Late(t, s) ==
  /\ s \in open
  /\ MayStart(UserOf[s])
  /\ Cut(s)
  /\ UNCHANGED <<active, rows, online, members, h, byRest>>

\* handleDisconnect: only the session the socket has as its active one counts.
HandleDisconnect(t, s) ==
  /\ s \in open
  /\ IF act[s] = "here"
     THEN Begin(t, "disconnect", UserOf[s], s)
     ELSE MayStart(UserOf[s]) /\ UNCHANGED h
  /\ Cut(s)
  /\ UNCHANGED <<active, rows, online, members, byRest>>

\* The whole handler of a join or a leave of another session, as far as this
\* one sees it.
JoinElsewhere(s) ==
  /\ "elsewhere" \in Env
  /\ s \in open
  /\ \E a \in {"elsewhere", None} : act' = [act EXCEPT ![s] = a]
  /\ UNCHANGED <<active, rows, online, members, open, inRoom, h, byRest>>

-----------------------------------------------------------------------------
(* The awaits of a handler.                                                *)

Go(t, p) == h' = [h EXCEPT ![t].at = p]
Done(t)  == h' = [h EXCEPT ![t] = Free]

\* getSessionOrThrow
GetSession(t) ==
  /\ h[t].at = "session"
  /\ \/ active /\ Go(t, IF h[t].kind \in {"join", "rest"} THEN "find" ELSE "offline")
     \/ ~active /\ Done(t)
  /\ UNCHANGED <<active, rows, online, members, sockVars, byRest>>

\* markParticipantOnline: a user who is online already is not counted again.
FindParticipant(t) ==
  /\ h[t].at = "find"
  /\ Go(t, IF h[t].user \in online THEN "exists" ELSE "count")
  /\ UNCHANGED <<active, rows, online, members, sockVars, byRest>>

\* Mutant: off by one.
CountOnline_OffByOne(t) ==
  /\ h[t].at = "count"
  /\ \/ Cardinality(online) <= MaxCollaborators /\ Go(t, "exists")
     \/ Cardinality(online) > MaxCollaborators /\ Done(t)
  /\ UNCHANGED <<active, rows, online, members, sockVars, byRest>>

\* MAX_COLLABORATORS, or ConflictException.
CountOnline(t) ==
  /\ h[t].at = "count"
  /\ \/ Cardinality(online) < MaxCollaborators /\ Go(t, "exists")
     \/ Cardinality(online) >= MaxCollaborators /\ Done(t)
  /\ UNCHANGED <<active, rows, online, members, sockVars, byRest>>

\* Mutant: the row is taken to exist.
UpsertFind_Update(t) ==
  /\ h[t].at = "exists"
  /\ Go(t, "update")
  /\ UNCHANGED <<active, rows, online, members, sockVars, byRest>>

\* upsertOnlineParticipant is a read and then an update or a create.
UpsertFind(t) ==
  /\ h[t].at = "exists"
  /\ Go(t, IF h[t].user \in rows THEN "update" ELSE "create")
  /\ UNCHANGED <<active, rows, online, members, sockVars, byRest>>

\* Mutant: the row that exists is returned as it is.
UpsertUpdate_KeepsRow(t) ==
  /\ h[t].at = "update"
  /\ Go(t, "sadd")
  /\ byRest' = IF h[t].kind = "rest" THEN byRest ELSE byRest \ {h[t].user}
  /\ UNCHANGED <<active, rows, online, members, sockVars>>

\* The row is marked online.  (byRest is what the history variable sees of it.)
SetOnline(t) ==
  /\ online' = online \cup {h[t].user}
  /\ byRest' = IF h[t].kind = "join" THEN byRest \ {h[t].user}
               ELSE IF h[t].user \in online THEN byRest ELSE byRest \cup {h[t].user}
  /\ Go(t, "sadd")

UpsertUpdate(t) ==
  /\ h[t].at = "update"
  /\ SetOnline(t)
  /\ UNCHANGED <<active, rows, members, sockVars>>

UpsertCreate(t) ==
  /\ h[t].at = "create"
  /\ h[t].user \notin rows
  /\ rows' = rows \cup {h[t].user}
  /\ SetOnline(t)
  /\ UNCHANGED <<active, members, sockVars>>

\* Another handler has created the row: @@unique([sessionId, userEmail]).
UpsertClash(t) ==
  /\ h[t].at = "create"
  /\ h[t].user \in rows
  /\ Done(t)
  /\ UNCHANGED <<active, rows, online, members, sockVars, byRest>>

\* addSessionMember; the REST join has nothing left that changes state.
AddMember(t) ==
  /\ h[t].at = "sadd"
  /\ members' = members \cup {h[t].user}
  /\ IF h[t].kind = "rest" THEN Done(t) ELSE Go(t, "room")
  /\ UNCHANGED <<active, rows, online, sockVars, byRest>>

\* client.join and activeSessionId, which nobody reads once the socket is cut.
JoinRoom(t) ==
  /\ h[t].at = "room"
  /\ IF h[t].sock \in open
     THEN inRoom' = inRoom \cup {h[t].sock} /\ act' = [act EXCEPT ![h[t].sock] = "here"]
     ELSE UNCHANGED <<inRoom, act>>
  /\ Go(t, "read")
  /\ UNCHANGED <<active, rows, online, members, open, byRest>>

\* setOffline updates the row, which must exist.
SetOffline(t) ==
  /\ h[t].at = "offline"
  /\ \/ /\ h[t].user \in rows
        /\ online' = online \ {h[t].user}
        /\ byRest' = byRest \ {h[t].user}
        /\ Go(t, "srem")
     \/ /\ h[t].user \notin rows
        /\ Done(t)
        /\ UNCHANGED <<online, byRest>>
  /\ UNCHANGED <<active, rows, members, sockVars>>

\* Mutant: the members set is left to its TTL.
RemoveMember_Skip(t) ==
  /\ h[t].at = "srem"
  /\ Go(t, IF h[t].kind = "leave" THEN "unroom" ELSE "emit")
  /\ UNCHANGED <<active, rows, online, members, sockVars, byRest>>

RemoveMember(t) ==
  /\ h[t].at = "srem"
  /\ members' = members \ {h[t].user}
  /\ Go(t, IF h[t].kind = "leave" THEN "unroom" ELSE "emit")
  /\ UNCHANGED <<active, rows, online, sockVars, byRest>>

\* client.leave, and activeSessionId = undefined, whatever it was.
LeaveRoom(t) ==
  /\ h[t].at = "unroom"
  /\ inRoom' = inRoom \ {h[t].sock}
  /\ act' = [act EXCEPT ![h[t].sock] = None]
  /\ Go(t, "read")
  /\ UNCHANGED <<active, rows, online, members, open, byRest>>

\* getSessionMembers
ReadMembers(t) ==
  /\ h[t].at = "read"
  /\ Go(t, "emit")
  /\ UNCHANGED <<active, rows, online, members, sockVars, byRest>>

\* getRolesMap throws if the session is gone; else the event goes to the room.
\* Either way the handler is done; what the clients show is SessionRoles'.
EmitPresence(t) ==
  /\ h[t].at = "emit"
  /\ Done(t)
  /\ UNCHANGED <<active, rows, online, members, sockVars, byRest>>

\* An await rejects and the handler ends there.
Fail(t) ==
  /\ "fail" \in Env
  /\ h[t] # Free
  /\ Done(t)
  /\ UNCHANGED <<active, rows, online, members, sockVars, byRest>>

-----------------------------------------------------------------------------
\* The TTL of the members key, which nothing but a join or a leave renews.
MembersExpire ==
  /\ "expiry" \in Env
  /\ members # {}
  /\ members' = {}
  /\ UNCHANGED <<active, rows, online, sockVars, h, byRest>>

\* DELETE /sessions/:id by the owner: softDelete and nothing else.
DeleteSession ==
  /\ "delete" \in Env
  /\ active
  /\ active' = FALSE
  /\ UNCHANGED <<rows, online, members, sockVars, h, byRest>>

\* Handlers and sockets end with the process; an embedded Redis too.
Crash ==
  /\ "crash" \in Env
  /\ open' = {} /\ inRoom' = {}
  /\ act' = [s \in Sockets |-> None]
  /\ h' = [t \in Tasks |-> Free]
  /\ members' \in {members, {}}
  /\ UNCHANGED <<active, rows, online, byRest>>

Progress(t) ==
  \/ GetSession(t) \/ FindParticipant(t) \/ CountOnline(t) \/ UpsertFind(t)
  \/ UpsertUpdate(t) \/ UpsertCreate(t) \/ UpsertClash(t) \/ AddMember(t)
  \/ JoinRoom(t) \/ SetOffline(t) \/ RemoveMember(t) \/ LeaveRoom(t)
  \/ ReadMembers(t) \/ EmitPresence(t)

Arrive(t) == \/ \E s \in Sockets : \/ OnSessionJoin(t, s) \/ OnSessionLeave(t, s)
                                   \/ HandleDisconnect(t, s)
             \/ \E u \in Users : JoinSession(t, u)

Next == \/ \E t \in Tasks : Arrive(t) \/ Progress(t) \/ Fail(t)
        \/ \E s \in Sockets : Connect(s) \/ JoinElsewhere(s)
        \/ MembersExpire \/ DeleteSession \/ Crash

Spec == Init /\ [][Next]_vars

\* The event loop, Mongo and Redis go on with every handler.
FairSpec == Spec /\ \A t \in Tasks : WF_vars(Progress(t))

-----------------------------------------------------------------------------
(* What presence must guarantee.                                           *)

Connected(u) == \E s \in open : UserOf[s] = u /\ act[s] = "here"

\* At most MAX_COLLABORATORS users of a session are online, although the check
\* is a count and the upsert comes two awaits later.
CapacityHolds == Cardinality(online) <= MaxCollaborators

\* The two stores agree on every user no handler is working on: a member in
\* Redis is an online row in Mongo, through joins, leaves and disconnects.
StoresAgree == \A u \in Users \ Busy : u \in members <=> u \in online

\* Nobody stays online for nothing: a user put online by a socket, and whom no
\* handler is working on, has a socket that will take him offline again.
OnlineIsConnected == \A u \in online \ (Busy \cup byRest) : Connected(u)

\* A user with a socket in the session is online.
ConnectedIsOnline == \A u \in Users \ Busy : Connected(u) => u \in online

\* A user who has lost his last socket goes offline, unless he comes back.
EventuallyOffline ==
  \A u \in Users :
    (u \in online /\ u \notin byRest /\ \A s \in open : UserOf[s] # u)
      ~> (u \notin online \/ \E s \in open : UserOf[s] = u)

-----------------------------------------------------------------------------
(* What makes TypeOK and CapacityHolds inductive.                          *)

\* An update is issued only for a row that was found.
UpdatesRow == \A t \in Tasks : h[t].at = "update" => h[t].user \in rows

\* Without "concurrent" the handlers under way are one user's.
OneUserBusy == \A t, r \in Tasks : h[t] # Free /\ h[r] # Free => h[t].user = h[r].user

\* A join past the check still fits.
AdmittedFits == \A t \in Tasks : h[t].at \in {"exists", "update", "create"} =>
                  Cardinality(online \cup {h[t].user}) <= MaxCollaborators

CapacityInv == TypeOK /\ UpdatesRow /\ OneUserBusy /\ AdmittedFits /\ CapacityHolds

\* Without "overlap" a user has one handler at a time, and the socket of a join or
\* a leave is open and his.
OneHandlerEach == \A t, r \in Tasks :
  h[t] # Free /\ h[r] # Free /\ h[t].user = h[r].user => t = r

HoldsSocket == \A t \in Tasks : h[t] # Free /\ h[t].kind \in {"join", "leave"} =>
                 h[t].sock \in open /\ UserOf[h[t].sock] = h[t].user

\* The awaits of each kind of handler.
KindAwaits == \A t \in Tasks :
  /\ h[t].at \in {"find", "count", "exists", "update", "create", "sadd"} =>
       h[t].kind \in {"join", "rest"}
  /\ h[t].at = "room" => h[t].kind = "join"
  /\ h[t].at \in {"offline", "srem"} => h[t].kind \in {"leave", "disconnect"}
  /\ h[t].at = "unroom" => h[t].kind = "leave"

\* What a handler has written to the row stays until it is done with the user.
RowWritten == \A t \in Tasks :
  /\ h[t].at \in {"sadd", "room"} => h[t].user \in online
  /\ h[t].at \in {"srem", "unroom"} => h[t].user \notin online

HandlerInv == TypeOK /\ UpdatesRow /\ OneHandlerEach /\ HoldsSocket /\ KindAwaits /\ RowWritten

At(u, awaits) == \E t \in Tasks : h[t] # Free /\ h[t].user = u /\ h[t].at \in awaits

\* For StoresAgree: the stores differ only between the two writes of a handler.
StoresStep == \A u \in Users : At(u, {"sadd", "srem"}) \/ (u \in members <=> u \in online)

\* For OnlineIsConnected: a join is about to make its socket count, or a
\* disconnect is about to take the user offline.
WillCount(u) == \E t \in Tasks :
  /\ h[t] # Free /\ h[t].user = u
  /\ \/ h[t].kind = "join" /\ h[t].at \in {"sadd", "room"}
     \/ h[t].kind = "disconnect" /\ h[t].at \in {"session", "offline"}

OnlineStep == active /\ \A u \in online \ byRest : Connected(u) \/ WillCount(u)

\* For ConnectedIsOnline: without "multiTab" a user has one socket, it is the one
\* a leave is about to take out of the session, and a disconnect finds none.
SingleTab == \A r, s \in open : UserOf[r] = UserOf[s] => r = s

ActiveIsOpen == \A s \in Sockets : act[s] = "here" => s \in open

LeaveTakesIt == \A s \in open : act[s] = "here" /\ UserOf[s] \notin online =>
  \E t \in Tasks : h[t].kind = "leave" /\ h[t].sock = s /\ h[t].at \in {"srem", "unroom"}

DisconnectIsLast == \A t \in Tasks :
  h[t] # Free /\ h[t].kind = "disconnect" => ~Connected(h[t].user)

ConnectedStep == SingleTab /\ ActiveIsOpen /\ LeaveTakesIt /\ DisconnectIsLast
=============================================================================
