----------------------- MODULE SessionPresenceProofs -----------------------
(***************************************************************************)
(* Theorems about SessionPresence for any users, sockets, handlers and     *)
(* MAX_COLLABORATORS.                                                      *)
(***************************************************************************)
EXTENDS SessionPresence, FiniteSetTheorems, TLAPS

\* The initial states have the types.
LEMMA InitType == Init => TypeOK /\ UpdatesRow
<1> SUFFICES ASSUME Init PROVE TypeOK /\ UpdatesRow
  OBVIOUS
<1> USE UsersAssumption DEF Init, TypeOK, UpdatesRow, Free, Awaits, Kinds
<1>1. h \in [Tasks -> [at : Awaits, kind : Kinds, user : Users, sock : Sockets \cup {None}]]
  OBVIOUS
<1>2. \A t \in Tasks : h[t].at # "update"
  OBVIOUS
<1> QED
  BY <1>1, <1>2

\* A handler that goes on or ends keeps its record's type.
LEMMA GoType ==
  ASSUME TypeOK, NEW t \in Tasks, NEW p \in Awaits, Go(t, p) \/ Done(t)
  PROVE  h' \in [Tasks -> [at : Awaits, kind : Kinds, user : Users, sock : Sockets \cup {None}]]
<1>1. Free \in [at : Awaits, kind : Kinds, user : Users, sock : Sockets \cup {None}]
  BY UsersAssumption DEF Free, Awaits, Kinds
<1> QED
  BY <1>1 DEF TypeOK, Go, Done

\* A handler that begins keeps its record's type.
LEMMA BeginType ==
  ASSUME TypeOK, NEW t \in Tasks, NEW k \in Kinds, NEW u \in Users,
         NEW s \in Sockets \cup {None}, Begin(t, k, u, s)
  PROVE  h' \in [Tasks -> [at : Awaits, kind : Kinds, user : Users, sock : Sockets \cup {None}]]
  BY DEF TypeOK, Begin, Awaits

\* Every step keeps the types, and an update keeps its row.
LEMMA StepType == TypeOK /\ UpdatesRow /\ [Next]_vars => TypeOK' /\ UpdatesRow'
<1> SUFFICES ASSUME TypeOK, UpdatesRow, [Next]_vars PROVE TypeOK' /\ UpdatesRow'
  OBVIOUS
<1> DEFINE HType == [Tasks -> [at : Awaits, kind : Kinds, user : Users,
                               sock : Sockets \cup {None}]]
<1> USE DEF TypeOK, UpdatesRow, sockVars
<1>1. ASSUME NEW t \in Tasks, Arrive(t) PROVE TypeOK' /\ UpdatesRow'
  <2>1. ASSUME NEW s \in Sockets, OnSessionJoin(t, s) \/ OnSessionLeave(t, s)
        PROVE  TypeOK' /\ UpdatesRow'
    <3>1. h' \in HType
      BY <2>1, BeginType, SocketsAssumption DEF OnSessionJoin, OnSessionLeave, Kinds
    <3> QED
      BY <2>1, <3>1 DEF OnSessionJoin, OnSessionLeave, Begin
  <2>2. ASSUME NEW s \in Sockets, HandleDisconnect(t, s) PROVE TypeOK' /\ UpdatesRow'
    <3>1. h' \in HType
      BY <2>2, BeginType, SocketsAssumption DEF HandleDisconnect, Kinds
    <3> QED
      BY <2>2, <3>1 DEF HandleDisconnect, Begin, Cut
  <2>3. ASSUME NEW u \in Users, JoinSession(t, u) PROVE TypeOK' /\ UpdatesRow'
    <3>1. h' \in HType
      BY <2>3, BeginType DEF JoinSession, Kinds
    <3> QED
      BY <2>3, <3>1 DEF JoinSession, Begin
  <2> QED
    BY <1>1, <2>1, <2>2, <2>3 DEF Arrive
<1>2. ASSUME NEW t \in Tasks, Progress(t) \/ Fail(t) PROVE TypeOK' /\ UpdatesRow'
  <2>1. h' \in HType
    <3>1. \E p \in Awaits : Go(t, p) \/ Done(t)
      BY <1>2 DEF Progress, GetSession, FindParticipant, CountOnline, UpsertFind,
            UpsertUpdate, UpsertCreate, UpsertClash, SetOnline, AddMember, JoinRoom, SetOffline,
            RemoveMember, LeaveRoom, ReadMembers, EmitPresence, Fail, Awaits
    <3> QED
      BY <3>1, GoType
  <2>2. CASE GetSession(t) \/ FindParticipant(t) \/ CountOnline(t) \/ UpsertFind(t) \/ UpsertClash(t)
             \/ ReadMembers(t) \/ Fail(t)
    BY <2>1, <2>2 DEF GetSession, FindParticipant, CountOnline, UpsertFind, UpsertClash,
                      ReadMembers, Fail, Go, Done, Free
  <2>3. CASE UpsertUpdate(t) \/ UpsertCreate(t)
    BY <2>1, <2>3 DEF UpsertUpdate, UpsertCreate, SetOnline, Go, Done, Free
  <2>4. CASE AddMember(t) \/ RemoveMember(t)
    BY <2>1, <2>4 DEF AddMember, RemoveMember, Go, Done, Free
  <2>5. CASE SetOffline(t)
    BY <2>1, <2>5 DEF SetOffline, Go, Done, Free
  <2>6. CASE JoinRoom(t) \/ LeaveRoom(t)
    BY <2>1, <2>6 DEF JoinRoom, LeaveRoom, Go
  <2>7. CASE EmitPresence(t)
    BY <2>1, <2>7 DEF EmitPresence, Done, Free
  <2> QED
    BY <1>2, <2>2, <2>3, <2>4, <2>5, <2>6, <2>7 DEF Progress
<1>3. ASSUME NEW s \in Sockets, Connect(s) \/ JoinElsewhere(s) PROVE TypeOK' /\ UpdatesRow'
  BY <1>3 DEF Connect, JoinElsewhere
<1>4. CASE MembersExpire \/ DeleteSession
  BY <1>4 DEF MembersExpire, DeleteSession
<1>5. CASE Crash
  <2>1. h' \in HType /\ \A t \in Tasks : h'[t].at # "update"
    BY <1>5, UsersAssumption DEF Crash, Free, Awaits, Kinds
  <2> QED
    BY <1>5, <2>1 DEF Crash
<1>6. CASE UNCHANGED vars
  BY <1>6 DEF vars
<1> QED
  BY <1>1, <1>2, <1>3, <1>4, <1>5, <1>6 DEF Next

\* The participant rows, the members set, the sockets and the handlers keep
\* their types; in particular nobody is online without a row.
THEOREM TypeCorrect == Spec => []TypeOK
<1>1. Init => TypeOK /\ UpdatesRow
  BY InitType
<1>2. TypeOK /\ UpdatesRow /\ [Next]_vars => (TypeOK /\ UpdatesRow)'
  BY StepType
<1> QED
  BY <1>1, <1>2, PTL DEF Spec

-----------------------------------------------------------------------------
\* Adding a user to the online ones costs at most one place.
LEMMA OneMore ==
  ASSUME NEW S \in SUBSET Users, NEW u \in Users
  PROVE  /\ Cardinality(S) \in Nat
         /\ Cardinality(S \cup {u}) \in Nat
         /\ Cardinality(S \cup {u}) <= Cardinality(S) + 1
<1>1. IsFiniteSet(S)
  BY UsersAssumption, FS_Subset
<1>2. Cardinality(S) \in Nat
  BY <1>1, FS_CardinalityType
<1>3. Cardinality(S \cup {u}) = IF u \in S THEN Cardinality(S) ELSE Cardinality(S) + 1
  BY <1>1, FS_AddElement
<1> QED
  BY <1>2, <1>3

\* Fewer users online, fewer places taken.
LEMMA Fewer ==
  ASSUME NEW S \in SUBSET Users, NEW T \in SUBSET S
  PROVE  Cardinality(T) <= Cardinality(S)
<1>1. IsFiniteSet(S)
  BY UsersAssumption, FS_Subset
<1> QED
  BY <1>1, FS_Subset

\* If only one user's handlers may be under way, every step keeps that so.
LEMMA StepOneUser ==
  ASSUME "concurrent" \notin Env
  PROVE  TypeOK /\ OneUserBusy /\ [Next]_vars => OneUserBusy'
<1> SUFFICES ASSUME TypeOK, OneUserBusy, [Next]_vars PROVE OneUserBusy'
  OBVIOUS
<1> USE DEF TypeOK, OneUserBusy
<1>1. ASSUME NEW t \in Tasks, NEW k, NEW u, NEW s, Begin(t, k, u, s) PROVE OneUserBusy'
  <2>1. \A r \in Tasks : h[r] # Free => h[r].user = u
    BY <1>1 DEF Begin, MayStart, Busy
  <2>2. /\ h'[t].user = u
        /\ \A r \in Tasks \ {t} : h'[r] = h[r]
    BY <1>1 DEF Begin
  <2> QED
    BY <2>1, <2>2
<1>2. ASSUME NEW t \in Tasks, Arrive(t) PROVE OneUserBusy'
  BY <1>1, <1>2 DEF Arrive, OnSessionJoin, OnSessionLeave, JoinSession, HandleDisconnect
<1>3. ASSUME NEW t \in Tasks, Progress(t) \/ Fail(t) PROVE OneUserBusy'
  <2>1. h[t] # Free
    BY <1>3 DEF Progress, GetSession, FindParticipant, CountOnline, UpsertFind, UpsertUpdate,
                UpsertCreate, UpsertClash, AddMember, JoinRoom, SetOffline, RemoveMember,
                LeaveRoom, ReadMembers, EmitPresence, Fail, Free
  <2>2. \/ Done(t)
        \/ \E p \in Awaits : Go(t, p)
    BY <1>3 DEF Progress, GetSession, FindParticipant, CountOnline, UpsertFind, UpsertUpdate,
                UpsertCreate, UpsertClash, AddMember, JoinRoom, SetOffline, RemoveMember,
                LeaveRoom, ReadMembers, EmitPresence, Fail, SetOnline, Awaits
  <2>3. \A r \in Tasks : h'[r] # Free => h[r] # Free /\ h'[r].user = h[r].user
    BY <2>1, <2>2 DEF Done, Go
  <2> QED
    BY <2>3
<1>4. ASSUME NEW s \in Sockets, Connect(s) \/ JoinElsewhere(s) PROVE OneUserBusy'
  BY <1>4 DEF Connect, JoinElsewhere
<1>5. CASE MembersExpire \/ DeleteSession \/ Crash \/ UNCHANGED vars
  BY <1>5 DEF MembersExpire, DeleteSession, Crash, vars
<1> QED
  BY <1>2, <1>3, <1>4, <1>5 DEF Next

\* Every step keeps the limit and the room of the joins past the check.
LEMMA StepCapacity ==
  CapacityInv /\ [Next]_vars => AdmittedFits' /\ CapacityHolds'
<1> SUFFICES ASSUME CapacityInv, [Next]_vars PROVE AdmittedFits' /\ CapacityHolds'
  OBVIOUS
<1> USE DEF CapacityInv, TypeOK, AdmittedFits, CapacityHolds, sockVars
<1>1. ASSUME online' = online,
             \A t \in Tasks : h'[t].at \in {"exists", "update", "create"} =>
               Cardinality(online \cup {h'[t].user}) <= MaxCollaborators
      PROVE  AdmittedFits' /\ CapacityHolds'
  BY <1>1
<1>2. ASSUME NEW t \in Tasks, NEW k, NEW u, NEW s, Begin(t, k, u, s), online' = online
      PROVE  AdmittedFits' /\ CapacityHolds'
  BY <1>2 DEF Begin
<1>3. ASSUME NEW t \in Tasks, Arrive(t) PROVE AdmittedFits' /\ CapacityHolds'
  BY <1>2, <1>3 DEF Arrive, OnSessionJoin, OnSessionLeave, JoinSession, HandleDisconnect
<1>4. ASSUME NEW t \in Tasks, Progress(t) \/ Fail(t) PROVE AdmittedFits' /\ CapacityHolds'
  <2>1. h[t].user \in Users
    OBVIOUS
  <2>2. CASE GetSession(t) \/ UpsertClash(t) \/ AddMember(t) \/ JoinRoom(t) \/ RemoveMember(t)
             \/ LeaveRoom(t) \/ ReadMembers(t) \/ EmitPresence(t) \/ Fail(t)
    BY <1>1, <2>2 DEF GetSession, UpsertClash, AddMember, JoinRoom, RemoveMember, LeaveRoom,
                      ReadMembers, EmitPresence, Fail, Go, Done, Free
  <2>3. CASE FindParticipant(t)
    <3>1. h[t].user \in online => online \cup {h[t].user} = online
      OBVIOUS
    <3> QED
      BY <1>1, <2>3, <3>1 DEF FindParticipant, Go
  <2>4. CASE CountOnline(t)
    <3>1. Cardinality(online) < MaxCollaborators =>
            Cardinality(online \cup {h[t].user}) <= MaxCollaborators
      BY <2>1, OneMore, CapacityAssumption
    <3>2. CASE Cardinality(online) < MaxCollaborators /\ Go(t, "exists")
      BY <1>1, <2>4, <3>1, <3>2 DEF CountOnline, Go
    <3>3. CASE Done(t)
      BY <1>1, <2>4, <3>3 DEF CountOnline, Done, Free
    <3> QED
      BY <2>4, <3>2, <3>3 DEF CountOnline
  <2>5. CASE UpsertFind(t)
    BY <1>1, <2>5 DEF UpsertFind, Go
  <2>6. CASE UpsertUpdate(t) \/ UpsertCreate(t)
    <3>1. /\ h[t].at \in {"update", "create"}
          /\ online' = online \cup {h[t].user}
          /\ h' = [h EXCEPT ![t].at = "sadd"]
      BY <2>6 DEF UpsertUpdate, UpsertCreate, SetOnline, Go
    <3>2. Cardinality(online') <= MaxCollaborators
      BY <3>1
    <3>3. ASSUME NEW r \in Tasks, h'[r].at \in {"exists", "update", "create"}
          PROVE  Cardinality(online' \cup {h'[r].user}) <= MaxCollaborators
      <4>1. r # t /\ h'[r] = h[r] /\ h[r] # Free /\ h[t] # Free
        BY <3>1, <3>3 DEF Free
      <4>2. h[r].user = h[t].user
        BY <4>1 DEF OneUserBusy
      <4>3. online' \cup {h'[r].user} = online'
        BY <3>1, <4>1, <4>2
      <4> QED
        BY <3>2, <4>3
    <3> QED
      BY <3>2, <3>3
  <2>7. CASE SetOffline(t)
    <3>1. /\ online' \in SUBSET online
          /\ \A r \in Tasks : h'[r].at \in {"exists", "update", "create"} =>
               h[r].at = h'[r].at /\ h[r].user = h'[r].user
      BY <2>7 DEF SetOffline, Go, Done, Free
    <3>2. Cardinality(online') <= MaxCollaborators
      <4>1. Cardinality(online') <= Cardinality(online)
        BY <3>1, Fewer
      <4>2. Cardinality(online') \in Nat /\ Cardinality(online) \in Nat
        BY <2>1, <3>1, OneMore
      <4> QED
        BY <4>1, <4>2, CapacityAssumption
    <3>3. ASSUME NEW r \in Tasks, h'[r].at \in {"exists", "update", "create"}
          PROVE  Cardinality(online' \cup {h'[r].user}) <= MaxCollaborators
      <4>1. h[r].user \in Users /\ h'[r].user = h[r].user
        BY <3>1, <3>3
      <4>2. Cardinality(online \cup {h[r].user}) <= MaxCollaborators
        BY <3>1, <3>3
      <4>3. Cardinality(online' \cup {h[r].user}) <= Cardinality(online \cup {h[r].user})
        BY <3>1, <4>1, Fewer
      <4>4. /\ Cardinality(online' \cup {h[r].user}) \in Nat
            /\ Cardinality(online \cup {h[r].user}) \in Nat
        BY <3>1, <4>1, OneMore
      <4> QED
        BY <4>1, <4>2, <4>3, <4>4, CapacityAssumption
    <3> QED
      BY <3>2, <3>3
  <2> QED
    BY <1>4, <2>2, <2>3, <2>4, <2>5, <2>6, <2>7 DEF Progress
<1>5. ASSUME NEW s \in Sockets, Connect(s) \/ JoinElsewhere(s)
      PROVE  AdmittedFits' /\ CapacityHolds'
  BY <1>5 DEF Connect, JoinElsewhere
<1>6. CASE MembersExpire \/ DeleteSession \/ UNCHANGED vars
  BY <1>6 DEF MembersExpire, DeleteSession, vars
<1>7. CASE Crash
  BY <1>1, <1>7 DEF Crash, Free
<1> QED
  BY <1>3, <1>4, <1>5, <1>6, <1>7 DEF Next

\* While joins of different users do not overlap, at most MAX_COLLABORATORS
\* users are online, whatever else happens: several handlers of one user,
\* sockets that close under them, failed queries, crashes, an expired key.
THEOREM CapacityAlways ==
  ASSUME "concurrent" \notin Env
  PROVE  Spec => []CapacityHolds
<1>1. Init => CapacityInv
  <2> SUFFICES ASSUME Init PROVE CapacityInv
    OBVIOUS
  <2>1. Cardinality({Owner}) = 1
    BY FS_Singleton
  <2>2. OneUserBusy /\ AdmittedFits
    BY DEF Init, OneUserBusy, AdmittedFits, Free
  <2>3. CapacityHolds
    BY <2>1, CapacityAssumption DEF Init, CapacityHolds
  <2> QED
    BY InitType, <2>2, <2>3 DEF CapacityInv
<1>2. CapacityInv /\ [Next]_vars => CapacityInv'
  BY StepType, StepOneUser, StepCapacity DEF CapacityInv
<1>3. CapacityInv => CapacityHolds
  BY DEF CapacityInv
<1> QED
  BY <1>1, <1>2, <1>3, PTL DEF Spec
-----------------------------------------------------------------------------
(* Handlers of one user that do not overlap.                               *)

\* An await of a handler moves that handler alone, and no socket but in and out
\* of the session.
LEMMA ProgressIs ==
  ASSUME TypeOK, NEW t \in Tasks, Progress(t) \/ Fail(t)
  PROVE  /\ h[t] # Free
         /\ \A r \in Tasks \ {t} : h'[r] = h[r]
         /\ \/ h'[t] = Free
            \/ \E p \in Awaits \ {"idle"} : h'[t] = [h[t] EXCEPT !.at = p]
         /\ UNCHANGED <<active, open>>
<1>1. h[t] # Free /\ UNCHANGED <<active, open>>
  BY DEF Progress, GetSession, FindParticipant, CountOnline, UpsertFind, UpsertUpdate,
         UpsertCreate, UpsertClash, AddMember, JoinRoom, SetOffline, RemoveMember,
         LeaveRoom, ReadMembers, EmitPresence, Fail, Free, sockVars
<1>2. Done(t) \/ \E p \in Awaits \ {"idle"} : Go(t, p)
  BY DEF Progress, GetSession, FindParticipant, CountOnline, UpsertFind, UpsertUpdate,
         UpsertCreate, UpsertClash, AddMember, JoinRoom, SetOffline, RemoveMember,
         LeaveRoom, ReadMembers, EmitPresence, Fail, SetOnline, Awaits
<1> QED
  BY <1>1, <1>2 DEF Done, Go, TypeOK

\* A handler writes of its own user and its own socket only.
LEMMA OwnUser ==
  ASSUME TypeOK, NEW t \in Tasks, Progress(t) \/ Fail(t)
  PROVE  /\ \A u \in Users \ {h[t].user} :
              (u \in online' <=> u \in online) /\ (u \in members' <=> u \in members)
              /\ (u \in byRest' <=> u \in byRest)
         /\ \A s \in Sockets \ {h[t].sock} : act'[s] = act[s]
<1>1. \/ UNCHANGED online
      \/ online' = online \cup {h[t].user}
      \/ online' = online \ {h[t].user}
  BY DEF Progress, GetSession, FindParticipant, CountOnline, UpsertFind, UpsertUpdate,
         UpsertCreate, UpsertClash, AddMember, JoinRoom, SetOffline, RemoveMember,
         LeaveRoom, ReadMembers, EmitPresence, Fail, SetOnline
<1>2. \/ UNCHANGED members
      \/ members' = members \cup {h[t].user}
      \/ members' = members \ {h[t].user}
  BY DEF Progress, GetSession, FindParticipant, CountOnline, UpsertFind, UpsertUpdate,
         UpsertCreate, UpsertClash, AddMember, JoinRoom, SetOffline, RemoveMember,
         LeaveRoom, ReadMembers, EmitPresence, Fail, SetOnline
<1>3. \/ UNCHANGED byRest
      \/ byRest' = byRest \cup {h[t].user}
      \/ byRest' = byRest \ {h[t].user}
  BY DEF Progress, GetSession, FindParticipant, CountOnline, UpsertFind, UpsertUpdate,
         UpsertCreate, UpsertClash, AddMember, JoinRoom, SetOffline, RemoveMember,
         LeaveRoom, ReadMembers, EmitPresence, Fail, SetOnline
<1>4. UNCHANGED act \/ \E a : act' = [act EXCEPT ![h[t].sock] = a]
  BY DEF Progress, GetSession, FindParticipant, CountOnline, UpsertFind, UpsertUpdate,
         UpsertCreate, UpsertClash, AddMember, JoinRoom, SetOffline, RemoveMember,
         LeaveRoom, ReadMembers, EmitPresence, Fail, sockVars
<1> QED
  BY <1>1, <1>2, <1>3, <1>4 DEF TypeOK

\* Without "overlap" a handler begins for a user who has none.
LEMMA BeginIs ==
  ASSUME TypeOK, "overlap" \notin Env, NEW t \in Tasks, NEW k \in Kinds, NEW u \in Users,
         NEW s \in Sockets \cup {None}, Begin(t, k, u, s)
  PROVE  /\ h[t] = Free
         /\ h'[t].at = "session" /\ h'[t].kind = k /\ h'[t].user = u /\ h'[t].sock = s
         /\ h'[t] # Free
         /\ \A r \in Tasks \ {t} : h'[r] = h[r]
         /\ \A r \in Tasks : h[r] # Free => h[r].user # u
  BY DEF Begin, MayStart, Busy, TypeOK, Free

\* The ways in which a handler arrives.
LEMMA ArriveIs ==
  ASSUME TypeOK, NEW t \in Tasks, Arrive(t)
  PROVE  /\ UNCHANGED <<active, rows, online, members, byRest>>
         /\ \/ /\ \E s \in open, k \in {"join", "leave"} : Begin(t, k, UserOf[s], s)
               /\ UNCHANGED sockVars
            \/ \E s \in open : HandleDisconnect(t, s)
            \/ /\ \E u \in Users : Begin(t, "rest", u, None)
               /\ UNCHANGED sockVars
  BY DEF Arrive, OnSessionJoin, OnSessionLeave, HandleDisconnect, JoinSession

\* A handler that arrives takes a free task, unless there is nothing to do.
LEMMA ArriveBegins ==
  ASSUME TypeOK, NEW t \in Tasks, Arrive(t)
  PROVE  \/ h' = h
         \/ \E k \in Kinds, u \in Users, s \in Sockets \cup {None} : Begin(t, k, u, s)
<1>1. \A s \in Sockets : UserOf[s] \in Users
  BY SocketsAssumption
<1> QED
  BY <1>1 DEF Arrive, OnSessionJoin, OnSessionLeave, HandleDisconnect, JoinSession, Kinds

\* HandlerInv is inductive while handlers of one user do not overlap.
LEMMA StepHandler ==
  ASSUME "overlap" \notin Env
  PROVE  HandlerInv /\ [Next]_vars => HandlerInv'
<1> SUFFICES ASSUME HandlerInv, [Next]_vars PROVE HandlerInv'
  OBVIOUS
<1> USE DEF HandlerInv
<1>0. TypeOK' /\ UpdatesRow'
  BY StepType
<1>1. OneHandlerEach'
  <2>1. ASSUME NEW t \in Tasks, Arrive(t) PROVE OneHandlerEach'
    <3>1. \/ h' = h
          \/ \E k \in Kinds, u \in Users, s \in Sockets \cup {None} : Begin(t, k, u, s)
      BY <2>1, ArriveBegins
    <3>2. ASSUME NEW k \in Kinds, NEW u \in Users, NEW s \in Sockets \cup {None},
                 Begin(t, k, u, s)
          PROVE  OneHandlerEach'
      <4>1. /\ h'[t].user = u
            /\ \A r \in Tasks \ {t} : h'[r] = h[r]
            /\ \A r \in Tasks : h[r] # Free => h[r].user # u
        BY <3>2, BeginIs
      <4> QED
        BY <4>1 DEF OneHandlerEach
    <3> QED
      BY <3>1, <3>2 DEF OneHandlerEach
  <2>2. ASSUME NEW t \in Tasks, Progress(t) \/ Fail(t) PROVE OneHandlerEach'
    <3>1. \A r \in Tasks : h'[r] # Free => h[r] # Free /\ h'[r].user = h[r].user
      BY <2>2, ProgressIs DEF TypeOK
    <3> QED
      BY <3>1 DEF OneHandlerEach
  <2>3. CASE Crash
    BY <2>3 DEF Crash, OneHandlerEach
  <2> QED
    BY <2>1, <2>2, <2>3 DEF Next, Connect, JoinElsewhere, MembersExpire, DeleteSession, vars,
                            OneHandlerEach
<1>2. HoldsSocket'
  <2>1. ASSUME NEW t \in Tasks, Arrive(t) PROVE HoldsSocket'
    <3>1. ASSUME NEW s \in open, HandleDisconnect(t, s) PROVE HoldsSocket'
      <4>1. open' = open \ {s} /\ MayStart(UserOf[s])
        BY <3>1 DEF HandleDisconnect, Cut, Begin
      <4>2. \A r \in Tasks : h[r] # Free => h[r].user # UserOf[s]
        BY <4>1 DEF MayStart, Busy
      <4>3. \A r \in Tasks : h'[r] = h[r] \/ h'[r].kind = "disconnect"
        BY <3>1 DEF HandleDisconnect, Begin, TypeOK
      <4> QED
        BY <4>1, <4>2, <4>3 DEF HoldsSocket
    <3>2. ASSUME NEW s \in open, NEW k \in {"join", "leave"}, Begin(t, k, UserOf[s], s),
                 UNCHANGED sockVars
          PROVE  HoldsSocket'
      <4>1. /\ h'[t].user = UserOf[s] /\ h'[t].sock = s
            /\ \A r \in Tasks \ {t} : h'[r] = h[r]
        BY <3>2 DEF Begin, TypeOK
      <4> QED
        BY <3>2, <4>1 DEF HoldsSocket, sockVars
    <3>3. ASSUME NEW u \in Users, Begin(t, "rest", u, None), UNCHANGED sockVars
          PROVE  HoldsSocket'
      <4>1. /\ h'[t].kind = "rest"
            /\ \A r \in Tasks \ {t} : h'[r] = h[r]
        BY <3>3 DEF Begin, TypeOK
      <4> QED
        BY <3>3, <4>1 DEF HoldsSocket, sockVars
    <3> QED
      BY <2>1, <3>1, <3>2, <3>3, ArriveIs
  <2>2. ASSUME NEW t \in Tasks, Progress(t) \/ Fail(t) PROVE HoldsSocket'
    <3>1. /\ \A r \in Tasks : h'[r] # Free =>
               h[r] # Free /\ h'[r].user = h[r].user /\ h'[r].kind = h[r].kind
               /\ h'[r].sock = h[r].sock
          /\ open' = open
      BY <2>2, ProgressIs DEF TypeOK
    <3> QED
      BY <3>1 DEF HoldsSocket
  <2>3. CASE Crash
    BY <2>3 DEF Crash, HoldsSocket
  <2> QED
    BY <2>1, <2>2, <2>3 DEF Next, Connect, JoinElsewhere, MembersExpire, DeleteSession, vars,
                            sockVars, HoldsSocket
<1>3. KindAwaits' /\ RowWritten'
  <2>1. ASSUME NEW t \in Tasks, Arrive(t) PROVE KindAwaits' /\ RowWritten'
    <3>1. /\ \A r \in Tasks : h'[r] = h[r] \/ h'[r].at = "session"
          /\ online' = online
      BY <2>1, ArriveIs, ArriveBegins DEF Begin, TypeOK
    <3> QED
      BY <3>1 DEF KindAwaits, RowWritten
  <2>2. ASSUME NEW t \in Tasks, Progress(t) \/ Fail(t) PROVE KindAwaits' /\ RowWritten'
    <3>1. /\ h[t] # Free /\ \A r \in Tasks \ {t} : h'[r] = h[r]
          /\ \A r \in Tasks \ {t} : h[r] # Free => h[r].user # h[t].user
      BY <2>2, ProgressIs DEF OneHandlerEach
    <3>2. ASSUME NEW r \in Tasks \ {t}
          PROVE  /\ h[r].at \in {"sadd", "room"} => h[r].user \in online'
                 /\ h[r].at \in {"srem", "unroom"} => h[r].user \notin online'
      <4>1. h[r].at # "idle" => h[r].user \in Users \ {h[t].user}
        BY <3>1 DEF Free, TypeOK
      <4> QED
        BY <2>2, <4>1, OwnUser DEF RowWritten
    <3>3. /\ h'[t].at \in {"find", "count", "exists", "update", "create", "sadd"} =>
               h'[t].kind \in {"join", "rest"}
          /\ h'[t].at = "room" => h'[t].kind = "join"
          /\ h'[t].at \in {"offline", "srem"} => h'[t].kind \in {"leave", "disconnect"}
          /\ h'[t].at = "unroom" => h'[t].kind = "leave"
          /\ h'[t].at \in {"sadd", "room"} => h'[t].user \in online'
          /\ h'[t].at \in {"srem", "unroom"} => h'[t].user \notin online'
      <4>1. h[t] \in [at : Awaits, kind : Kinds, user : Users, sock : Sockets \cup {None}]
        BY DEF TypeOK
      <4>2. CASE Done(t)
        BY <4>2 DEF Done, Free, TypeOK
      <4>3. CASE GetSession(t) \/ FindParticipant(t) \/ CountOnline(t) \/ UpsertFind(t)
        BY <4>1, <4>2, <4>3 DEF GetSession, FindParticipant, CountOnline, UpsertFind, Go, TypeOK,
                           Kinds, KindAwaits
      <4>4. CASE UpsertUpdate(t) \/ UpsertCreate(t)
        BY <4>1, <4>4 DEF UpsertUpdate, UpsertCreate, SetOnline, Go, TypeOK, KindAwaits
      <4>5. CASE AddMember(t) \/ JoinRoom(t)
        BY <4>1, <4>2, <4>5 DEF AddMember, JoinRoom, Go, TypeOK, KindAwaits, RowWritten
      <4>6. CASE SetOffline(t)
        BY <4>1, <4>2, <4>6 DEF SetOffline, Go, TypeOK, KindAwaits
      <4>7. CASE RemoveMember(t) \/ LeaveRoom(t) \/ ReadMembers(t)
        BY <4>1, <4>7 DEF RemoveMember, LeaveRoom, ReadMembers, Go, TypeOK, KindAwaits, RowWritten
      <4> QED
        BY <2>2, <4>2, <4>3, <4>4, <4>5, <4>6, <4>7
           DEF Progress, Fail, UpsertClash, EmitPresence
    <3> QED
      BY <3>1, <3>2, <3>3 DEF KindAwaits, RowWritten
  <2>3. CASE Crash
    BY <2>3 DEF Crash, KindAwaits, RowWritten, Free
  <2> QED
    BY <2>1, <2>2, <2>3 DEF Next, Connect, JoinElsewhere, MembersExpire, DeleteSession, vars,
                            KindAwaits, RowWritten
<1> QED
  BY <1>0, <1>1, <1>2, <1>3

\* At start no handler is under way.
LEMMA InitHandler == Init => HandlerInv
<1> SUFFICES ASSUME Init PROVE HandlerInv
  OBVIOUS
<1>1. OneHandlerEach /\ HoldsSocket /\ KindAwaits /\ RowWritten
  BY DEF Init, OneHandlerEach, HoldsSocket, KindAwaits, RowWritten, Free
<1> QED
  BY <1>1, InitType DEF HandlerInv

-----------------------------------------------------------------------------
(* The two stores.                                                         *)

\* A handler that others of its user do not overlap is his only one, and what it
\* does to sockets it does to his.
LEMMA AloneIs ==
  ASSUME HandlerInv, NEW t \in Tasks, Progress(t) \/ Fail(t)
  PROVE  /\ h[t].user \in Users
         /\ \A r \in Tasks : h[r] # Free /\ h[r].user = h[t].user => r = t
         /\ \A s \in Sockets : UserOf[s] # h[t].user => act'[s] = act[s]
<1>1. h[t] # Free
  BY ProgressIs DEF HandlerInv
<1>2. h[t].user \in Users
  BY DEF HandlerInv, TypeOK
<1>3. \A r \in Tasks : h[r] # Free /\ h[r].user = h[t].user => r = t
  BY <1>1 DEF HandlerInv, OneHandlerEach
<1>4. act' = act \/ (h[t].kind \in {"join", "leave"} /\ \A s \in Sockets \ {h[t].sock} : act'[s] = act[s])
  <2>1. CASE JoinRoom(t)
    BY <2>1, OwnUser DEF HandlerInv, KindAwaits, JoinRoom
  <2>2. CASE LeaveRoom(t)
    BY <2>2, OwnUser DEF HandlerInv, KindAwaits, LeaveRoom
  <2> QED
    BY <2>1, <2>2 DEF Progress, GetSession, FindParticipant, CountOnline, UpsertFind,
         UpsertUpdate, UpsertCreate, UpsertClash, AddMember, SetOffline, RemoveMember,
         ReadMembers, EmitPresence, Fail, sockVars
<1>5. h[t].kind \in {"join", "leave"} => UserOf[h[t].sock] = h[t].user
  BY <1>1 DEF HandlerInv, HoldsSocket
<1> QED
  BY <1>2, <1>3, <1>4, <1>5

\* An await leaves the handlers of the other users where they were.
LEMMA OthersStay ==
  ASSUME TypeOK, NEW t \in Tasks, Progress(t) \/ Fail(t), NEW u, NEW awaits,
         u # h[t].user, At(u, awaits)
  PROVE  At(u, awaits)'
BY ProgressIs DEF At

\* An arrival leaves the handlers under way where they were.
LEMMA ArriveStay ==
  ASSUME TypeOK, NEW t \in Tasks, Arrive(t), NEW u, NEW awaits, At(u, awaits)
  PROVE  At(u, awaits)'
<1>1. \A r \in Tasks : h[r] # Free => h'[r] = h[r]
  BY ArriveBegins DEF Begin, TypeOK
<1> QED
  BY <1>1 DEF At

\* The stores differ only while a handler is between its two writes.
LEMMA StoresPreserved ==
  ASSUME Env \cap {"overlap", "expiry", "fail", "crash"} = {}
  PROVE  HandlerInv /\ StoresStep /\ [Next]_vars => StoresStep'
<1> SUFFICES ASSUME HandlerInv, StoresStep, [Next]_vars PROVE StoresStep'
  OBVIOUS
<1>0. TypeOK
  BY DEF HandlerInv
<1>1. ASSUME NEW t \in Tasks, Arrive(t) PROVE StoresStep'
  BY <1>0, <1>1, ArriveIs, ArriveStay DEF StoresStep
<1>2. ASSUME NEW t \in Tasks, Progress(t) PROVE StoresStep'
  <2>0. PICK me \in Users : me = h[t].user
    BY <1>2, AloneIs
  <2>1. /\ h[t] # Free /\ me \in Users
        /\ \A r \in Tasks : h[r] # Free /\ h[r].user = me => r = t
    BY <1>0, <1>2, <2>0, ProgressIs, AloneIs
  <2>2. h[t].at \notin {"sadd", "srem"} => (me \in members <=> me \in online)
    BY <2>0, <2>1 DEF StoresStep, At
  <2>3. At(me, {"sadd", "srem"})' \/ (me \in members' <=> me \in online')
    <3>1. CASE GetSession(t) \/ FindParticipant(t) \/ CountOnline(t) \/ UpsertFind(t)
               \/ UpsertClash(t) \/ JoinRoom(t) \/ LeaveRoom(t) \/ ReadMembers(t)
               \/ EmitPresence(t)
      BY <2>2, <3>1 DEF GetSession, FindParticipant, CountOnline, UpsertFind, UpsertClash,
                        JoinRoom, LeaveRoom, ReadMembers, EmitPresence
    <3>2. CASE UpsertUpdate(t) \/ UpsertCreate(t)
      <4>1. h'[t].at = "sadd" /\ h'[t].user = me
        BY <2>0, <1>0, <3>2 DEF UpsertUpdate, UpsertCreate, SetOnline, Go, TypeOK
      <4> QED
        BY <4>1 DEF At, Free
    <3>3. CASE AddMember(t)
      BY <2>0, <2>1, <3>3 DEF AddMember, HandlerInv, RowWritten
    <3>4. CASE SetOffline(t)
      <4>1. CASE h[t].user \in rows
        <5>1. h'[t].at = "srem" /\ h'[t].user = me
          BY <2>0, <1>0, <3>4, <4>1 DEF SetOffline, Go, TypeOK
        <5> QED
          BY <5>1 DEF At, Free
      <4>2. CASE h[t].user \notin rows
        BY <2>0, <2>2, <3>4, <4>2 DEF SetOffline
      <4> QED
        BY <4>1, <4>2
    <3>5. CASE RemoveMember(t)
      BY <2>0, <2>1, <3>5 DEF RemoveMember, HandlerInv, RowWritten
    <3> QED
      BY <1>2, <3>1, <3>2, <3>3, <3>4, <3>5 DEF Progress
  <2>4. ASSUME NEW u \in Users \ {me}
        PROVE  At(u, {"sadd", "srem"})' \/ (u \in members' <=> u \in online')
    BY <2>0, <1>0, <1>2, OwnUser, OthersStay DEF StoresStep
  <2>5. \A u \in Users : At(u, {"sadd", "srem"})' \/ (u \in members' <=> u \in online')
    BY <2>3, <2>4
  <2> QED
    BY <2>5 DEF StoresStep
<1>3. CASE (\E s \in Sockets : Connect(s) \/ JoinElsewhere(s)) \/ DeleteSession \/ UNCHANGED vars
  BY <1>3 DEF Connect, JoinElsewhere, DeleteSession, vars, StoresStep, At
<1> QED
  BY <1>1, <1>2, <1>3 DEF Next, Fail, MembersExpire, Crash

\* Mongo and Redis agree on everybody no handler is working on, in any overlap of
\* the joins, leaves and disconnects of different users, with any number of tabs.
THEOREM StoresAgreeAlways ==
  ASSUME Env \cap {"overlap", "expiry", "fail", "crash"} = {}
  PROVE  Spec => []StoresAgree
<1>1. Init => HandlerInv /\ StoresStep
  BY InitHandler DEF Init, StoresStep
<1>2. HandlerInv /\ StoresStep /\ [Next]_vars => (HandlerInv /\ StoresStep)'
  BY StepHandler, StoresPreserved
<1>3. StoresStep => StoresAgree
  BY DEF StoresStep, StoresAgree, At, Busy
<1> QED
  BY <1>1, <1>2, <1>3, PTL DEF Spec

-----------------------------------------------------------------------------
(* Who is online for what.                                                 *)

\* An await leaves the users of other handlers connected as they were.
LEMMA OthersConnected ==
  ASSUME HandlerInv, NEW t \in Tasks, Progress(t) \/ Fail(t), NEW u \in Users, u # h[t].user
  PROVE  Connected(u)' <=> Connected(u)
<1>1. open' = open /\ open \in SUBSET Sockets
  BY ProgressIs DEF HandlerInv, TypeOK
<1>2. \A s \in Sockets : UserOf[s] = u => act'[s] = act[s]
  BY AloneIs
<1> QED
  BY <1>1, <1>2 DEF Connected

\* OnlineStep is inductive from HandlerInv.
LEMMA OnlinePreserved ==
  ASSUME Env \cap {"overlap", "elsewhere", "delete", "fail", "crash"} = {}
  PROVE  HandlerInv /\ OnlineStep /\ [Next]_vars => OnlineStep'
<1> SUFFICES ASSUME HandlerInv, OnlineStep, [Next]_vars PROVE OnlineStep'
  OBVIOUS
<1> DEFINE Fine(u) == Connected(u) \/ WillCount(u)
<1>0. /\ TypeOK /\ active /\ \A u \in online \ byRest : Fine(u)
      /\ (active' /\ \A u \in (online \ byRest)' : Connected(u)' \/ WillCount(u)') => OnlineStep'
  BY DEF HandlerInv, OnlineStep
<1>1. ASSUME NEW t \in Tasks, Arrive(t) PROVE OnlineStep'
  <2>1. /\ UNCHANGED <<active, online, byRest>>
        /\ \A r \in Tasks : h[r] # Free => h'[r] = h[r]
    BY <1>0, <1>1, ArriveIs, ArriveBegins DEF Begin, TypeOK
  <2>2. \A u \in Users : WillCount(u) => WillCount(u)'
    BY <2>1 DEF WillCount
  <2>3. CASE UNCHANGED sockVars
    BY <1>0, <2>1, <2>2, <2>3 DEF sockVars, Connected, TypeOK
  <2>4. ASSUME NEW s \in open, HandleDisconnect(t, s) PROVE OnlineStep'
    <3>1. /\ open' = open \ {s} /\ s \in Sockets /\ UserOf[s] \in Users
          /\ \A r \in Sockets \ {s} : act'[r] = act[r]
      BY <1>0, <2>4, SocketsAssumption DEF HandleDisconnect, Cut, TypeOK
    <3>2. ASSUME NEW u \in Users, Connected(u), ~Connected(u)' PROVE WillCount(u)'
      <4>1. UserOf[s] = u /\ act[s] = "here"
        BY <1>0, <3>1, <3>2 DEF Connected, TypeOK
      <4>2. h'[t].at = "session" /\ h'[t].kind = "disconnect" /\ h'[t].user = u
        BY <1>0, <2>4, <4>1 DEF HandleDisconnect, Begin, TypeOK
      <4> QED
        BY <4>2 DEF WillCount, Free
    <3> QED
      BY <1>0, <2>1, <2>2, <3>2 DEF TypeOK
  <2> QED
    BY <1>0, <1>1, <2>3, <2>4, ArriveIs
<1>2. ASSUME NEW t \in Tasks, Progress(t) PROVE OnlineStep'
  <2>0. PICK me \in Users : me = h[t].user
    BY <1>2, AloneIs
  <2>1. /\ h[t] # Free /\ active'
        /\ \A r \in Tasks \ {t} : h'[r] = h[r]
        /\ \A r \in Tasks : h[r] # Free /\ h[r].user = me => r = t
    BY <1>0, <1>2, <2>0, ProgressIs, AloneIs
  <2>2. me \in online \ byRest =>
          \/ Connected(me)
          \/ h[t].kind = "join" /\ h[t].at \in {"sadd", "room"}
          \/ h[t].kind = "disconnect" /\ h[t].at \in {"session", "offline"}
    BY <1>0, <2>1 DEF WillCount
  <2>3. /\ h'[t].user = me
        /\ \/ h'[t].kind = "join" /\ h'[t].at \in {"sadd", "room"}
           \/ h'[t].kind = "disconnect" /\ h'[t].at \in {"session", "offline"}
        => WillCount(me)'
    BY DEF WillCount, Free
  <2>4. ASSUME UNCHANGED sockVars, Connected(me) PROVE Connected(me)'
    BY <2>4 DEF sockVars, Connected
  <2>5. me \in (online \ byRest)' => Connected(me)' \/ WillCount(me)'
    <3>1. CASE GetSession(t)
      <4>1. CASE h[t].kind = "disconnect"
        <5>1. h'[t].kind = "disconnect" /\ h'[t].at = "offline" /\ h'[t].user = me
          BY <1>0, <2>0, <3>1, <4>1 DEF GetSession, Go, TypeOK
        <5> QED
          BY <2>3, <5>1
      <4>2. CASE h[t].kind # "disconnect"
        BY <2>2, <2>4, <3>1, <4>2 DEF GetSession
      <4> QED
        BY <4>1, <4>2
    <3>2. CASE FindParticipant(t) \/ CountOnline(t) \/ UpsertFind(t) \/ UpsertClash(t)
               \/ ReadMembers(t) \/ EmitPresence(t)
      BY <2>2, <2>4, <3>2 DEF FindParticipant, CountOnline, UpsertFind, UpsertClash,
                              ReadMembers, EmitPresence
    <3>3. CASE UpsertUpdate(t) \/ UpsertCreate(t)
      <4>1. CASE h[t].kind = "join"
        <5>1. h'[t].kind = "join" /\ h'[t].at = "sadd" /\ h'[t].user = me
          BY <1>0, <2>0, <3>3, <4>1 DEF UpsertUpdate, UpsertCreate, SetOnline, Go, TypeOK
        <5> QED
          BY <2>3, <5>1
      <4>2. CASE h[t].kind # "join"
        <5>1. me \in (online \ byRest)' => me \in online \ byRest
          BY <2>0, <3>3, <4>2 DEF UpsertUpdate, UpsertCreate, SetOnline
        <5> QED
          BY <2>2, <2>4, <3>3, <4>2, <5>1 DEF UpsertUpdate, UpsertCreate
      <4> QED
        BY <4>1, <4>2
    <3>4. CASE AddMember(t)
      <4>1. CASE h[t].kind = "join"
        <5>1. h'[t].kind = "join" /\ h'[t].at = "room" /\ h'[t].user = me
          BY <1>0, <2>0, <3>4, <4>1 DEF AddMember, Go, TypeOK
        <5> QED
          BY <2>3, <5>1
      <4>2. CASE h[t].kind # "join"
        BY <2>2, <2>4, <3>4, <4>2 DEF AddMember
      <4> QED
        BY <4>1, <4>2
    <3>5. CASE JoinRoom(t)
      <4>1. h[t].sock \in open /\ UserOf[h[t].sock] = me /\ open' = open
        BY <2>0, <2>1, <3>5 DEF JoinRoom, HandlerInv, KindAwaits, HoldsSocket
      <4>2. act'[h[t].sock] = "here"
        BY <1>0, <3>5, <4>1 DEF JoinRoom, TypeOK
      <4> QED
        BY <4>1, <4>2 DEF Connected
    <3>6. CASE SetOffline(t)
      BY <1>0, <2>0, <3>6 DEF SetOffline, TypeOK
    <3>7. CASE RemoveMember(t) \/ LeaveRoom(t)
      BY <2>0, <3>7 DEF RemoveMember, LeaveRoom, HandlerInv, RowWritten
    <3> QED
      BY <1>2, <3>1, <3>2, <3>3, <3>4, <3>5, <3>6, <3>7 DEF Progress
  <2>6. ASSUME NEW u \in Users \ {me}, u \in (online \ byRest)'
        PROVE  Connected(u)' \/ WillCount(u)'
    <3>1. u \in online \ byRest
      BY <1>0, <1>2, <2>0, <2>6, OwnUser
    <3>2. WillCount(u) => WillCount(u)'
      BY <2>0, <2>1 DEF WillCount
    <3> QED
      BY <1>0, <1>2, <2>0, <3>1, <3>2, OthersConnected
  <2>7. \A u \in (online \ byRest)' : u \in Users
    BY StepType DEF HandlerInv, TypeOK
  <2>8. \A u \in (online \ byRest)' : Connected(u)' \/ WillCount(u)'
    BY <2>5, <2>6, <2>7
  <2> QED
    BY <1>0, <2>1, <2>8
<1>3. ASSUME NEW s \in Sockets, Connect(s) PROVE OnlineStep'
  BY <1>3 DEF Connect, OnlineStep, Connected, WillCount
<1>4. CASE MembersExpire \/ UNCHANGED vars
  <2>1. UNCHANGED <<active, online, open, act, h, byRest>>
    BY <1>4 DEF MembersExpire, vars, sockVars
  <2> QED
    BY <2>1 DEF OnlineStep, Connected, WillCount
<1> QED
  BY <1>1, <1>2, <1>3, <1>4 DEF Next, Fail, JoinElsewhere, DeleteSession, Crash

\* A user whom a socket has put online, and whom no handler is working on, has a
\* socket in the session: nobody stays online for nothing, whichever way the joins,
\* leaves and disconnects of different users interleave.
THEOREM OnlineIsConnectedAlways ==
  ASSUME Env \cap {"overlap", "elsewhere", "delete", "fail", "crash"} = {}
  PROVE  Spec => []OnlineIsConnected
<1>1. Init => HandlerInv /\ OnlineStep
  BY InitHandler DEF Init, OnlineStep
<1>2. HandlerInv /\ OnlineStep /\ [Next]_vars => (HandlerInv /\ OnlineStep)'
  BY StepHandler, OnlinePreserved
<1>3. OnlineStep => OnlineIsConnected
  BY DEF OnlineStep, OnlineIsConnected, WillCount, Busy
<1> QED
  BY <1>1, <1>2, <1>3, PTL DEF Spec

-----------------------------------------------------------------------------
(* Who is connected is online.                                             *)

\* Without "multiTab" every step keeps a user's sockets apart, and the sockets
\* that count open.
LEMMA SocketsPreserved ==
  ASSUME Env \cap {"overlap", "multiTab", "fail"} = {}
  PROVE  HandlerInv /\ SingleTab /\ ActiveIsOpen /\ [Next]_vars => SingleTab' /\ ActiveIsOpen'
<1> SUFFICES ASSUME HandlerInv, SingleTab, ActiveIsOpen, [Next]_vars
             PROVE  SingleTab' /\ ActiveIsOpen'
  OBVIOUS
<1> USE SocketsAssumption DEF HandlerInv, SingleTab, ActiveIsOpen
<1>1. ASSUME NEW t \in Tasks, Arrive(t) PROVE SingleTab' /\ ActiveIsOpen'
  <2>1. UNCHANGED sockVars \/ \E s \in open : Cut(s)
    BY <1>1, ArriveIs DEF HandleDisconnect
  <2> QED
    BY <2>1 DEF Cut, sockVars, TypeOK
<1>2. ASSUME NEW t \in Tasks, Progress(t) PROVE SingleTab' /\ ActiveIsOpen'
  <2>1. open' = open
    BY <1>2, ProgressIs
  <2>2. CASE JoinRoom(t)
    BY <2>1, <2>2 DEF JoinRoom, TypeOK
  <2>3. CASE LeaveRoom(t)
    BY <2>1, <2>3 DEF LeaveRoom, TypeOK
  <2>4. CASE UNCHANGED sockVars
    BY <2>4 DEF sockVars
  <2> QED
    BY <1>2, <2>2, <2>3, <2>4
       DEF Progress, GetSession, FindParticipant, CountOnline, UpsertFind, UpsertUpdate,
           UpsertCreate, UpsertClash, AddMember, SetOffline, RemoveMember, ReadMembers,
           EmitPresence
<1>3. ASSUME NEW s \in Sockets, Connect(s) PROVE SingleTab' /\ ActiveIsOpen'
  BY <1>3 DEF Connect
<1>4. ASSUME NEW s \in Sockets, JoinElsewhere(s) PROVE SingleTab' /\ ActiveIsOpen'
  BY <1>4 DEF JoinElsewhere, TypeOK
<1>5. CASE Crash
  BY <1>5 DEF Crash
<1>6. CASE MembersExpire \/ DeleteSession \/ UNCHANGED vars
  <2>1. UNCHANGED <<open, act>>
    BY <1>6 DEF MembersExpire, DeleteSession, vars, sockVars
  <2> QED
    BY <2>1
<1> QED
  BY <1>1, <1>2, <1>3, <1>4, <1>5, <1>6 DEF Next, Fail

\* LeaveTakesIt and DisconnectIsLast survive a step that puts no socket in the
\* session, takes nobody offline and moves no handler but to begin one.
LEMMA ConnectedFramed ==
  ASSUME LeaveTakesIt, DisconnectIsLast, TypeOK, TypeOK',
         \A s \in open' : act'[s] = "here" => s \in open /\ act[s] = "here",
         online \subseteq online',
         \A r \in Tasks : h[r] # Free => h'[r] = h[r],
         \A r \in Tasks : h'[r] # h[r] /\ h'[r].kind = "disconnect" => ~Connected(h[r].user)'
  PROVE  LeaveTakesIt' /\ DisconnectIsLast'
<1>1. LeaveTakesIt'
  <2> SUFFICES ASSUME NEW s \in open', act'[s] = "here", UserOf[s] \notin online'
               PROVE  \E r \in Tasks : /\ h'[r].kind = "leave" /\ h'[r].sock = s
                                       /\ h'[r].at \in {"srem", "unroom"}
    BY DEF LeaveTakesIt
  <2>1. PICK r \in Tasks : h[r].kind = "leave" /\ h[r].sock = s /\ h[r].at \in {"srem", "unroom"}
    BY DEF LeaveTakesIt
  <2> QED
    BY <2>1 DEF Free
<1>2. DisconnectIsLast'
  <2> SUFFICES ASSUME NEW r \in Tasks, h'[r] # Free, h'[r].kind = "disconnect"
               PROVE  ~Connected(h[r].user)'
    BY DEF DisconnectIsLast, Connected
  <2> QED
    BY DEF DisconnectIsLast, Connected
<1> QED
  BY <1>1, <1>2

\* The socket of a user who is not online, while it still counts, is the one a
\* leave is about to take out; a disconnect leaves its user no socket.
LEMMA ConnectedPreserved ==
  ASSUME Env \cap {"overlap", "multiTab", "fail"} = {}
  PROVE  HandlerInv /\ ConnectedStep /\ [Next]_vars => LeaveTakesIt' /\ DisconnectIsLast'
<1> SUFFICES ASSUME HandlerInv, ConnectedStep, [Next]_vars
             PROVE  LeaveTakesIt' /\ DisconnectIsLast'
  OBVIOUS
<1>0. /\ TypeOK /\ TypeOK' /\ \A s \in Sockets : UserOf[s] \in Users
      /\ SingleTab /\ ActiveIsOpen /\ LeaveTakesIt /\ DisconnectIsLast
  BY StepType, SocketsAssumption DEF HandlerInv, ConnectedStep
<1>1. ASSUME NEW t \in Tasks, Arrive(t) PROVE LeaveTakesIt' /\ DisconnectIsLast'
  <2>1. /\ online' = online
        /\ \A r \in Tasks : h[r] # Free => h'[r] = h[r]
    BY <1>0, <1>1, ArriveIs, ArriveBegins DEF Begin, TypeOK
  <2>2. \A s \in open' : act'[s] = "here" => s \in open /\ act[s] = "here"
    <3>1. UNCHANGED sockVars \/ \E s \in open : Cut(s)
      BY <1>0, <1>1, ArriveIs DEF HandleDisconnect
    <3> QED
      BY <1>0, <3>1, SocketsAssumption DEF Cut, sockVars, TypeOK
  <2>3. ASSUME NEW r \in Tasks, h'[r] # h[r], h'[r].kind = "disconnect"
        PROVE  ~Connected(h[r].user)'
    <3>1. PICK s \in open : HandleDisconnect(t, s)
      BY <1>0, <1>1, <2>3, ArriveIs DEF Begin, TypeOK
    <3>2. h'[r].user = UserOf[s] /\ open' = open \ {s}
      BY <1>0, <2>3, <3>1 DEF HandleDisconnect, Begin, Cut, TypeOK
    <3>3. \A x \in open' : UserOf[x] # UserOf[s]
      BY <1>0, <3>2 DEF SingleTab
    <3> QED
      BY <3>2, <3>3 DEF Connected
  <2> QED
    BY <1>0, <2>1, <2>2, <2>3, ConnectedFramed
<1>2. ASSUME NEW t \in Tasks, Progress(t) PROVE LeaveTakesIt' /\ DisconnectIsLast'
  <2>0. PICK me \in Users : me = h[t].user
    BY <1>2, AloneIs
  <2>1. /\ h[t] # Free /\ open' = open /\ open \in SUBSET Sockets
        /\ \A r \in Tasks \ {t} : h'[r] = h[r]
        /\ \A r \in Tasks : h[r] # Free /\ h[r].user = me => r = t
        /\ \A s \in Sockets : UserOf[s] # me => act'[s] = act[s]
    BY <1>0, <1>2, <2>0, ProgressIs, AloneIs DEF TypeOK
  <2>2. h'[t] = Free \/ (h'[t].kind = h[t].kind /\ h'[t].sock = h[t].sock /\ h'[t].user = me)
    BY <1>0, <1>2, <2>0, ProgressIs DEF TypeOK
  <2>3. \A s \in open : act[s] = "here" /\ UserOf[s] = me /\ me \notin online =>
          h[t].kind = "leave" /\ h[t].sock = s /\ h[t].at \in {"srem", "unroom"}
    BY <1>0, <2>1 DEF LeaveTakesIt, HandlerInv, HoldsSocket, Free
  <2>4. ASSUME NEW s \in open, act'[s] = "here", UserOf[s] \notin online'
        PROVE  \E r \in Tasks : /\ h'[r].kind = "leave" /\ h'[r].sock = s
                                /\ h'[r].at \in {"srem", "unroom"}
    <3>1. CASE UserOf[s] # me
      <4>1. act[s] = "here" /\ UserOf[s] \notin online
        BY <1>0, <1>2, <2>0, <2>1, <2>4, <3>1, OwnUser
      <4>2. PICK r \in Tasks : /\ h[r].kind = "leave" /\ h[r].sock = s
                               /\ h[r].at \in {"srem", "unroom"}
        BY <1>0, <4>1 DEF LeaveTakesIt
      <4>3. r # t
        BY <2>0, <2>1, <3>1, <4>2 DEF HandlerInv, HoldsSocket
      <4> QED
        BY <2>1, <4>2, <4>3
    <3>2. CASE UserOf[s] = me
      <4>1. CASE GetSession(t) \/ FindParticipant(t) \/ CountOnline(t) \/ UpsertFind(t)
                 \/ UpsertClash(t) \/ ReadMembers(t) \/ EmitPresence(t)
        <5>1. UNCHANGED <<online, act>> /\ h[t].at \notin {"srem", "unroom"}
          BY <4>1 DEF GetSession, FindParticipant, CountOnline, UpsertFind, UpsertClash,
                      ReadMembers, EmitPresence, sockVars
        <5> QED
          BY <2>3, <2>4, <3>2, <5>1
      <4>2. CASE UpsertUpdate(t) \/ UpsertCreate(t)
        BY <2>0, <2>4, <3>2, <4>2 DEF UpsertUpdate, UpsertCreate, SetOnline
      <4>3. CASE AddMember(t) \/ JoinRoom(t)
        BY <2>0, <2>4, <3>2, <4>3 DEF AddMember, JoinRoom, HandlerInv, RowWritten
      <4>4. CASE SetOffline(t)
        <5>1. act[s] = "here"
          BY <2>4, <4>4 DEF SetOffline, sockVars
        <5>2. h[t].kind = "leave" /\ h[t].sock = s
          <6>1. h[t].kind \in {"leave", "disconnect"}
            BY <4>4 DEF SetOffline, HandlerInv, KindAwaits
          <6>2. h[t].kind # "disconnect"
            BY <1>0, <2>0, <2>1, <3>2, <5>1 DEF DisconnectIsLast, Connected
          <6>3. h[t].kind = "leave" => h[t].sock \in open /\ UserOf[h[t].sock] = me
            BY <2>0, <2>1 DEF HandlerInv, HoldsSocket
          <6> QED
            BY <1>0, <3>2, <6>1, <6>2, <6>3 DEF SingleTab
        <5>3. h'[t].at = "srem" /\ h'[t].kind = "leave" /\ h'[t].sock = s
          <6>1. me \in rows
            BY <2>0, <2>3, <2>4, <3>2, <4>4, <5>1 DEF SetOffline
          <6> QED
            BY <1>0, <2>0, <4>4, <5>2, <6>1 DEF SetOffline, Go, TypeOK
        <5> QED
          BY <5>3
      <4>5. CASE RemoveMember(t)
        <5>1. h[t].kind = "leave" /\ h[t].sock = s
          BY <2>3, <2>4, <3>2, <4>5 DEF RemoveMember, sockVars
        <5>2. h'[t].at = "unroom" /\ h'[t].kind = "leave" /\ h'[t].sock = s
          BY <1>0, <4>5, <5>1 DEF RemoveMember, Go, TypeOK
        <5> QED
          BY <5>2
      <4>6. CASE LeaveRoom(t)
        <5>1. h[t].sock = s
          <6>1. h[t].kind = "leave" /\ h[t].sock \in open /\ UserOf[h[t].sock] = me
            BY <2>0, <2>1, <4>6 DEF LeaveRoom, HandlerInv, KindAwaits, HoldsSocket
          <6> QED
            BY <1>0, <3>2, <6>1 DEF SingleTab
        <5> QED
          BY <1>0, <2>1, <2>4, <4>6, <5>1, SocketsAssumption DEF LeaveRoom, TypeOK
      <4> QED
        BY <1>2, <4>1, <4>2, <4>3, <4>4, <4>5, <4>6 DEF Progress
    <3> QED
      BY <3>1, <3>2
  <2>5. ASSUME NEW r \in Tasks, h'[r] # Free, h'[r].kind = "disconnect"
        PROVE  ~Connected(h[r].user)'
    <3>1. h[r] # Free /\ h[r].kind = "disconnect" /\ h'[r].user = h[r].user
      BY <2>0, <2>1, <2>2, <2>5
    <3>2. \A s \in open : act[s] = "here" => UserOf[s] # h[r].user
      BY <1>0, <3>1 DEF DisconnectIsLast, Connected
    <3>3. CASE JoinRoom(t)
      <4>1. h[r].user # me
        BY <2>0, <2>1, <3>1, <3>3 DEF JoinRoom, HandlerInv, KindAwaits
      <4> QED
        BY <2>1, <3>1, <3>2, <4>1 DEF Connected
    <3>4. CASE ~JoinRoom(t)
      <4>1. \A s \in Sockets : act'[s] = "here" => act[s] = "here"
        <5>1. CASE LeaveRoom(t)
          BY <1>0, <5>1, SocketsAssumption DEF LeaveRoom, TypeOK
        <5>2. CASE ~LeaveRoom(t)
          BY <1>2, <3>4, <5>2
             DEF Progress, GetSession, FindParticipant, CountOnline, UpsertFind, UpsertUpdate,
                 UpsertCreate, UpsertClash, AddMember, SetOffline, RemoveMember, ReadMembers,
                 EmitPresence, sockVars
        <5> QED
          BY <5>1, <5>2
      <4> QED
        BY <2>1, <3>1, <3>2, <4>1 DEF Connected
    <3> QED
      BY <3>3, <3>4
  <2>6. LeaveTakesIt'
    BY <2>1, <2>4 DEF LeaveTakesIt
  <2>7. DisconnectIsLast'
    BY <2>5 DEF DisconnectIsLast, Connected
  <2> QED
    BY <2>6, <2>7
<1>3. ASSUME NEW s \in Sockets, Connect(s) \/ JoinElsewhere(s)
      PROVE  LeaveTakesIt' /\ DisconnectIsLast'
  <2>1. h' = h /\ online' = online
    BY <1>3 DEF Connect, JoinElsewhere
  <2>2. \A r \in open' : act'[r] = "here" => r \in open /\ act[r] = "here"
    BY <1>0, <1>3, SocketsAssumption DEF Connect, JoinElsewhere, ActiveIsOpen, TypeOK
  <2> QED
    BY <1>0, <2>1, <2>2, ConnectedFramed
<1>4. CASE Crash
  BY <1>4 DEF Crash, LeaveTakesIt, DisconnectIsLast, Free
<1>5. CASE MembersExpire \/ DeleteSession \/ UNCHANGED vars
  <2>1. UNCHANGED <<open, act, online, h>>
    BY <1>5 DEF MembersExpire, DeleteSession, vars, sockVars
  <2> QED
    BY <1>0, <2>1, ConnectedFramed
<1> QED
  BY <1>1, <1>2, <1>3, <1>4, <1>5 DEF Next, Fail

\* A user with a socket in the session, and whom no handler is working on, is
\* online: through crashes, an expired key, a deleted session and the same socket
\* joining others.
THEOREM ConnectedIsOnlineAlways ==
  ASSUME Env \cap {"overlap", "multiTab", "fail"} = {}
  PROVE  Spec => []ConnectedIsOnline
<1>1. Init => HandlerInv /\ ConnectedStep
  <2> SUFFICES ASSUME Init PROVE ConnectedStep
    BY InitHandler
  <2> QED
    BY SocketsAssumption DEF Init, ConnectedStep, SingleTab, ActiveIsOpen, LeaveTakesIt,
                             DisconnectIsLast, Free
<1>2. HandlerInv /\ ConnectedStep /\ [Next]_vars => (HandlerInv /\ ConnectedStep)'
  BY StepHandler, SocketsPreserved, ConnectedPreserved DEF ConnectedStep
<1>3. HandlerInv /\ ConnectedStep => ConnectedIsOnline
  <2> SUFFICES ASSUME HandlerInv, ConnectedStep, NEW s \in open, act[s] = "here",
                      UserOf[s] \in Users \ Busy
               PROVE  UserOf[s] \in online
    BY DEF ConnectedIsOnline, Connected
  <2>1. ASSUME NEW t \in Tasks, h[t].kind = "leave", h[t].sock = s, h[t].at \in {"srem", "unroom"}
        PROVE  UserOf[s] \in Busy
    BY <2>1 DEF HandlerInv, HoldsSocket, Busy, Free
  <2> QED
    BY <2>1 DEF ConnectedStep, LeaveTakesIt
<1> QED
  BY <1>1, <1>2, <1>3, PTL DEF Spec
=============================================================================
