------------------------- MODULE SessionRolesProofs -------------------------
(***************************************************************************)
(* Theorems about SessionRoles for any users and any number of requests,   *)
(* with failing queries, joins by REST and deletion.                       *)
(***************************************************************************)
EXTENDS SessionRoles, TLAPS

\* A request that is over has its type.
LEMMA IdleType == Idle \in ReqType /\ Nobody \in [Users -> AnyRole]
<1>1. Nobody \in [Users -> AnyRole]
  BY DEF Nobody, AnyRole
<1> QED
  BY <1>1, RolesOwnerAssumption DEF Idle, ReqType, Awaits, Kinds, Roles

\* Where a step leaves the requests: one of them goes on, and the others stay as
\* they are but for what WriteRole notes in their histories.
LEMMA OnlyOne ==
  ASSUME TypeOK, NEW r \in Reqs, NEW q \in ReqType, req' = [req EXCEPT ![r] = q]
  PROVE  req' \in [Reqs -> ReqType] /\ req'[r] = q /\ \A s \in Reqs \ {r} : req'[s] = req[s]
  BY DEF TypeOK

\* The same for Goto and Done.
LEMMA GotoIs ==
  ASSUME TypeOK, NEW r \in Reqs, NEW p \in Awaits, Goto(r, p)
  PROVE  /\ [req[r] EXCEPT !.at = p] \in ReqType
         /\ req' = [req EXCEPT ![r] = [req[r] EXCEPT !.at = p]]
<1>1. req[r] \in ReqType
  BY DEF TypeOK
<1>2. [req[r] EXCEPT !.at = p] \in ReqType
  BY <1>1 DEF ReqType
<1> QED
  BY <1>1, <1>2 DEF Goto, TypeOK

\* What WriteRole does to the rows and the requests.
LEMMA WriteIs ==
  ASSUME TypeOK, NEW r \in Reqs, NEW u \in Users, NEW to \in Roles, NEW q \in ReqType,
         WriteRole(r, u, to, q)
  PROVE  /\ role' \in [Users -> AnyRole] /\ req' \in [Reqs -> ReqType]
         /\ role'[u] = to /\ \A v \in Users \ {u} : role'[v] = role[v]
         /\ req'[r] = q
         /\ \A s \in Reqs \ {r} :
              /\ req'[s].at = req[s].at /\ req'[s].kind = req[s].kind
              /\ req'[s].user = req[s].user /\ req'[s].target = req[s].target
              /\ req'[s].to = req[s].to
              /\ req'[s].could = (req[s].could \/ (req[s].kind = "snapshot" /\ req[s].user = u
                                                   /\ CanSave(to, Owner, u)))
<1> DEFINE old(s) == IF req[s].at \in {"emit", "present"} THEN req[s].old \cup {u} ELSE req[s].old
           could(s) == req[s].could \/ (req[s].kind = "snapshot" /\ req[s].user = u
                                        /\ CanSave(to, Owner, u))
<1>1. \A s \in Reqs : req[s] \in ReqType
  BY DEF TypeOK
<1>2. \A s \in Reqs : req'[s] = IF s = r THEN q ELSE [req[s] EXCEPT !.old = old(s), !.could = could(s)]
  BY <1>1 DEF WriteRole, ReqType
<1>3. \A s \in Reqs : old(s) \in SUBSET Users /\ could(s) \in BOOLEAN
  BY <1>1 DEF ReqType, CanSave, IsOwner
<1> HIDE DEF old, could
<1>4. \A s \in Reqs : [req[s] EXCEPT !.old = old(s), !.could = could(s)] \in ReqType
  BY <1>1, <1>3 DEF ReqType
<1>5. req' \in [Reqs -> ReqType]
  BY <1>2, <1>4 DEF WriteRole
<1>6. role' \in [Users -> AnyRole] /\ role'[u] = to /\ \A v \in Users \ {u} : role'[v] = role[v]
  BY DEF WriteRole, TypeOK, AnyRole
<1>7. \A s \in Reqs \ {r} :
        /\ req'[s].at = req[s].at /\ req'[s].kind = req[s].kind
        /\ req'[s].user = req[s].user /\ req'[s].target = req[s].target
        /\ req'[s].to = req[s].to /\ req'[s].could = could(s)
  BY <1>1, <1>2 DEF ReqType
<1> QED
  BY <1>2, <1>5, <1>6, <1>7 DEF could

-----------------------------------------------------------------------------
\* The initial states have the types.
LEMMA InitType == Init => TypeOK
  BY IdleType, RolesOwnerAssumption DEF Init, TypeOK, Idle

\* A new request has its type.
LEMMA ArriveIs ==
  ASSUME TypeOK, NEW r \in Reqs, Arrive(r)
  PROVE  \E q \in ReqType :
           /\ req' = [req EXCEPT ![r] = q] /\ UNCHANGED <<active, role, shown, snaps, crossed, untold>>
           /\ q.at = "session"
           /\ q.could = (q.kind = "snapshot" /\ CanSave(role[q.user], Owner, q.user))
<1>1. PICK k \in Kinds, u \in Users, v \in Users, to \in Roles : Begin(r, k, u, v, to)
  BY RoleInputsAssumption DEF Arrive, Roles, Kinds
<1> DEFINE could == k = "snapshot" /\ CanSave(role[u], Owner, u)
           q == [Idle EXCEPT !.at = "session", !.kind = k, !.user = u,
                             !.target = v, !.to = to, !.could = could]
<1>2. could \in BOOLEAN
  BY DEF CanSave, IsOwner
<1>3. q \in ReqType /\ q.at = "session" /\ q.kind = k /\ q.user = u /\ q.could = could
  BY <1>2, IdleType DEF ReqType, Awaits
<1>4. req' = [req EXCEPT ![r] = q] /\ UNCHANGED <<active, role, shown, snaps, crossed, untold>>
  BY <1>1 DEF Begin
<1>5. q.could = (q.kind = "snapshot" /\ CanSave(role[q.user], Owner, q.user))
  BY <1>3
<1> HIDE DEF q
<1> QED
  BY <1>3, <1>4, <1>5

\* Where a join goes on after its upsert.
LEMMA AfterUpsertIs ==
  ASSUME NEW q \in ReqType
  PROVE  /\ AfterUpsert(q) \in ReqType
         /\ AfterUpsert(q).at \in {"idle", "roles"}
         /\ AfterUpsert(q).at = "idle" => AfterUpsert(q) = Idle
  BY IdleType DEF AfterUpsert, ReqType, Awaits, Idle

\* The check of createSnapshot, passed.
SaveChecked(r) ==
  req[r].at = "participant" /\ CanSave(role[req[r].user], Owner, req[r].user)

\* Every step other than the two that write a row moves one request, and leaves
\* the rows alone.
LEMMA StepIs ==
  ASSUME TypeOK, NEW r \in Reqs, Step(r) \/ Fail(r)
  PROVE  \/ /\ UNCHANGED role
            /\ \E q \in ReqType :
                 /\ req' = [req EXCEPT ![r] = q]
                 /\ q # Idle => /\ q.kind = req[r].kind /\ q.user = req[r].user
                                /\ q.target = req[r].target /\ q.to = req[r].to
                                /\ q.could = req[r].could
                 /\ \/ q = Idle
                    \/ q.at \in {"exists", "create", "roles", "present"}
                    \/ q.at = "target" /\ q.kind = "role" /\ MayAssign(req[r])
                    \/ q.at = "update" /\ req[r].at = "target"
                    \/ q.at = "participant" /\ req[r].at = "session" /\ q.kind = "snapshot"
                    \/ q.at = "append" /\ SaveChecked(r)
         \/ UpdateRole(r)
         \/ /\ UpsertCreate(r) /\ req[r].user \in Users /\ role[req[r].user] = None
            /\ WriteRole(r, req[r].user, IF IsOwner(Owner, req[r].user) THEN "OWNER" ELSE "VIEW",
                         AfterUpsert(req[r]))
<1> DEFINE Moves(q) ==
      /\ req' = [req EXCEPT ![r] = q]
      /\ q # Idle => /\ q.kind = req[r].kind /\ q.user = req[r].user
                     /\ q.target = req[r].target /\ q.to = req[r].to
                     /\ q.could = req[r].could
      /\ \/ q = Idle
         \/ q.at \in {"exists", "create", "roles", "present"}
         \/ q.at = "target" /\ q.kind = "role" /\ MayAssign(req[r])
         \/ q.at = "update" /\ req[r].at = "target"
         \/ q.at = "participant" /\ req[r].at = "session" /\ q.kind = "snapshot"
         \/ q.at = "append" /\ SaveChecked(r)
<1> SUFFICES ASSUME ~UpdateRole(r), ~(UpsertCreate(r) /\ role[req[r].user] = None)
             PROVE  UNCHANGED role /\ \E q \in ReqType : Moves(q)
  BY DEF UpsertCreate, TypeOK, ReqType
<1>0. req[r] \in ReqType
  BY DEF TypeOK
<1>1. ASSUME Done(r) PROVE \E q \in ReqType : Moves(q)
  BY <1>1, IdleType DEF Done
<1>2. ASSUME NEW p \in Awaits, Goto(r, p),
             \/ p \in {"exists", "create", "roles", "present"}
             \/ p = "target" /\ req[r].kind = "role" /\ MayAssign(req[r])
             \/ p = "update" /\ req[r].at = "target"
             \/ p = "participant" /\ req[r].at = "session" /\ req[r].kind = "snapshot"
             \/ p = "append" /\ SaveChecked(r)
      PROVE  \E q \in ReqType : Moves(q)
  <2> DEFINE q == [req[r] EXCEPT !.at = p]
  <2>1. q \in ReqType /\ req' = [req EXCEPT ![r] = q]
    BY <1>2, GotoIs
  <2>2. /\ q.at = p /\ q.kind = req[r].kind /\ q.user = req[r].user
        /\ q.target = req[r].target /\ q.to = req[r].to /\ q.could = req[r].could
    BY <1>0 DEF ReqType
  <2> HIDE DEF q
  <2> QED
    BY <1>2, <2>1, <2>2
<1>3. CASE GetSession(r)
  <2>1. \/ Done(r)
        \/ Goto(r, "target") /\ req[r].kind = "role" /\ MayAssign(req[r])
        \/ Goto(r, "exists") \/ Goto(r, "roles")
        \/ Goto(r, "participant") /\ req[r].at = "session" /\ req[r].kind = "snapshot"
    BY <1>0, <1>3 DEF GetSession, ReqType, Kinds, TypeOK
  <2> QED
    BY <1>1, <1>2, <1>3, <2>1 DEF GetSession, Awaits
<1>4. CASE FindTarget(r)
  BY <1>1, <1>2, <1>4 DEF FindTarget, Awaits
<1>5. CASE EmitRole(r) \/ EmitPresence(r) \/ AppendSnapshot(r) \/ Fail(r)
  BY <1>1, <1>5 DEF EmitRole, EmitPresence, AppendSnapshot, Fail
<1>6. CASE UpsertFind(r)
  <2>1. CASE role[req[r].user] # None
    <3>1. req' = [req EXCEPT ![r] = AfterUpsert(req[r])] /\ UNCHANGED role
      BY <1>6, <2>1, <1>0 DEF UpsertFind, TypeOK
    <3>2. AfterUpsert(req[r]) = Idle \/ AfterUpsert(req[r]) = [req[r] EXCEPT !.at = "roles"]
      BY DEF AfterUpsert
    <3>3. Done(r) \/ Goto(r, "roles")
      BY <3>1, <3>2, <1>0 DEF Done, Goto, TypeOK
    <3> QED
      BY <3>1, <3>3, <1>1, <1>2 DEF Awaits
  <2>2. CASE role[req[r].user] = None
    <3>1. Goto(r, "create") /\ UNCHANGED role
      BY <1>6, <2>2, <1>0 DEF UpsertFind, TypeOK, Goto
    <3> QED
      BY <3>1, <1>2 DEF Awaits
  <2> QED
    BY <2>1, <2>2
<1>7. CASE UpsertCreate(r)
  BY <1>1, <1>7 DEF UpsertCreate
<1>8. CASE ReadRoles(r)
  <2>1. CASE active
    <3> DEFINE q == [req[r] EXCEPT !.at = "present", !.map = RolesMap]
    <3>1. RolesMap \in [Users -> AnyRole]
      BY DEF RolesMap, TypeOK, AnyRole, Roles
    <3>2. q \in ReqType /\ q.at = "present" /\ q.kind = req[r].kind /\ q.user = req[r].user
          /\ q.target = req[r].target /\ q.to = req[r].to /\ q.could = req[r].could
      BY <1>0, <3>1 DEF ReqType, Awaits
    <3>3. req' = [req EXCEPT ![r] = q] /\ UNCHANGED role
      BY <1>8, <2>1, <1>0 DEF ReadRoles, TypeOK
    <3> HIDE DEF q
    <3> QED
      BY <3>2, <3>3
  <2>2. CASE ~active
    BY <1>1, <1>8, <2>2 DEF ReadRoles
  <2> QED
    BY <2>1, <2>2
<1>9. CASE CheckSave(r)
  BY <1>1, <1>2, <1>9 DEF CheckSave, SaveChecked, Awaits
<1> QED
  BY <1>3, <1>4, <1>5, <1>6, <1>7, <1>8, <1>9 DEF Step

-----------------------------------------------------------------------------
\* Every step keeps the types.
LEMMA StepType == TypeOK /\ [Next]_vars => TypeOK'
<1> SUFFICES ASSUME TypeOK, [Next]_vars PROVE TypeOK'
  OBVIOUS
<1> DEFINE Aim(q) == q.at \in {"target", "update", "emit"} => q.target # Owner
           Rest == /\ active' \in BOOLEAN /\ shown' \in [Users -> AnyRole]
                   /\ snaps' \in SUBSET [by : Users, could : BOOLEAN]
                   /\ crossed' \in SUBSET Users /\ untold' \in SUBSET Users
<1>0. \A r \in Reqs : req[r] \in ReqType /\ Aim(req[r])
  BY DEF TypeOK
<1>1. ASSUME NEW r \in Reqs, NEW q \in ReqType, req' = [req EXCEPT ![r] = q], Aim(q),
             UNCHANGED role, Rest
      PROVE  TypeOK'
  <2>1. \A s \in Reqs : Aim(req'[s])
    BY <1>0, <1>1, OnlyOne
  <2> QED
    BY <1>1, <2>1, OnlyOne DEF TypeOK
<1>2. ASSUME NEW r \in Reqs, NEW u \in Users, NEW to \in Roles, NEW q \in ReqType,
             WriteRole(r, u, to, q), Aim(q), Rest
      PROVE  TypeOK'
  <2>1. \A s \in Reqs : Aim(req'[s])
    BY <1>0, <1>2, WriteIs
  <2> QED
    BY <1>2, <2>1, WriteIs DEF TypeOK
<1>3. ASSUME NEW r \in Reqs, Step(r) \/ Fail(r) PROVE Rest
  <2>1. CASE GetSession(r) \/ FindTarget(r) \/ UpdateRole(r) \/ UpsertFind(r) \/ ReadRoles(r)
             \/ CheckSave(r)
    BY <2>1 DEF GetSession, FindTarget, UpdateRole, UpsertFind, ReadRoles, CheckSave, TypeOK
  <2>2. CASE UpsertCreate(r)
    BY <2>2, <1>0 DEF UpsertCreate, TypeOK, ReqType
  <2>3. CASE EmitRole(r)
    <3>1. req[r].target \in Users /\ req[r].to \in AnyRole /\ req[r].old \in SUBSET Users
      BY <1>0 DEF ReqType, AnyRole
    <3> QED
      BY <2>3, <3>1 DEF EmitRole, Told, TypeOK
  <2>4. CASE EmitPresence(r)
    <3>1. req[r].map \in [Users -> AnyRole] /\ req[r].old \in SUBSET Users
      BY <1>0 DEF ReqType
    <3> QED
      BY <2>4, <3>1 DEF EmitPresence, Told, TypeOK
  <2>5. CASE AppendSnapshot(r)
    <3>1. [by |-> req[r].user, could |-> req[r].could] \in [by : Users, could : BOOLEAN]
      BY <1>0 DEF ReqType
    <3> QED
      BY <2>5, <3>1 DEF AppendSnapshot, TypeOK
  <2>6. CASE Fail(r)
    <3>1. req[r].target \in Users /\ req[r].user \in Users
      BY <1>0 DEF ReqType
    <3> QED
      BY <2>6, <3>1 DEF Fail, TypeOK
  <2> QED
    BY <1>3, <2>1, <2>2, <2>3, <2>4, <2>5, <2>6 DEF Step
<1>4. ASSUME NEW r \in Reqs, Step(r) \/ Fail(r) PROVE TypeOK'
  <2>1. CASE UpdateRole(r)
    <3> DEFINE q == [req[r] EXCEPT !.at = "emit"]
    <3>1. q \in ReqType /\ Aim(q) /\ req[r].target \in Users /\ req[r].to \in Roles
      BY <1>0, <2>1 DEF UpdateRole, ReqType, Awaits
    <3> HIDE DEF Rest
    <3> QED
      BY <1>2, <1>3, <1>4, <2>1, <3>1 DEF UpdateRole
  <2>2. CASE UpsertCreate(r) /\ req[r].user \in Users
             /\ WriteRole(r, req[r].user, IF IsOwner(Owner, req[r].user) THEN "OWNER" ELSE "VIEW",
                          AfterUpsert(req[r]))
    <3>1. (IF IsOwner(Owner, req[r].user) THEN "OWNER" ELSE "VIEW") \in Roles
      BY DEF Roles
    <3>2. AfterUpsert(req[r]) \in ReqType /\ Aim(AfterUpsert(req[r]))
      BY <1>0, AfterUpsertIs
    <3> HIDE DEF Rest
    <3> QED
      BY <1>2, <1>3, <1>4, <2>2, <3>1, <3>2
  <2>3. CASE /\ UNCHANGED role
             /\ \E q \in ReqType :
                  /\ req' = [req EXCEPT ![r] = q]
                  /\ q # Idle => q.target = req[r].target
                  /\ \/ q = Idle
                     \/ q.at \in {"exists", "create", "roles", "present"}
                     \/ q.at = "target" /\ q.kind = "role" /\ MayAssign(req[r])
                     \/ q.at = "update" /\ req[r].at = "target"
                     \/ q.at = "participant" /\ req[r].at = "session" /\ q.kind = "snapshot"
                     \/ q.at = "append" /\ SaveChecked(r)
    <3>1. PICK q \in ReqType :
                  /\ req' = [req EXCEPT ![r] = q]
                  /\ q # Idle => q.target = req[r].target
                  /\ \/ q = Idle
                     \/ q.at \in {"exists", "create", "roles", "present"}
                     \/ q.at = "target" /\ q.kind = "role" /\ MayAssign(req[r])
                     \/ q.at = "update" /\ req[r].at = "target"
                     \/ q.at = "participant" /\ req[r].at = "session" /\ q.kind = "snapshot"
                     \/ q.at = "append" /\ SaveChecked(r)
      BY <2>3
    <3>2. Idle.at = "idle"
      BY DEF Idle
    <3>3. Aim(q)
      BY <1>0, <3>1, <3>2 DEF MayAssign
    <3> HIDE DEF Rest
    <3> QED
      BY <1>1, <1>3, <1>4, <2>3, <3>1, <3>3
  <2> QED
    BY <1>4, <2>1, <2>2, <2>3, StepIs
<1>5. ASSUME NEW r \in Reqs, Arrive(r) PROVE TypeOK'
  <2>1. Rest
    BY <1>5, ArriveIs DEF TypeOK
  <2> HIDE DEF Rest
  <2> QED
    BY <1>1, <1>5, <2>1, ArriveIs
<1>6. CASE DeleteSession \/ UNCHANGED vars
  BY <1>6 DEF DeleteSession, vars, TypeOK
<1> QED
  BY <1>4, <1>5, <1>6 DEF Next

\* The rows, requests and snapshots keep their types, and no role request that
\* passed its checks is about the owner.
THEOREM TypeCorrect == Spec => []TypeOK
<1>1. Init => TypeOK
  BY InitType
<1>2. TypeOK /\ [Next]_vars => TypeOK'
  BY StepType
<1> QED
  BY <1>1, <1>2, PTL DEF Spec

-----------------------------------------------------------------------------
\* Every step keeps the role requests past their checks as the checks left them.
LEMMA StepRequests == TypeOK /\ RoleRequests /\ [Next]_vars => RoleRequests'
<1> SUFFICES ASSUME TypeOK, RoleRequests, [Next]_vars PROVE RoleRequests'
  OBVIOUS
<1> DEFINE Checked(q) == q.at \in {"target", "update", "emit"} =>
             /\ q.kind = "role" /\ q.user = Owner /\ q.target # Owner /\ q.to # "OWNER"
<1>0. \A r \in Reqs : req[r] \in ReqType /\ Checked(req[r])
  BY DEF RoleRequests, TypeOK
<1>1. ASSUME NEW r \in Reqs, NEW q \in ReqType, req' = [req EXCEPT ![r] = q], Checked(q)
      PROVE  RoleRequests'
  BY <1>0, <1>1, OnlyOne DEF RoleRequests
<1>2. ASSUME NEW r \in Reqs, NEW u \in Users, NEW to \in Roles, NEW q \in ReqType,
             WriteRole(r, u, to, q), Checked(q)
      PROVE  RoleRequests'
  BY <1>0, <1>2, WriteIs DEF RoleRequests
<1>3. ASSUME NEW r \in Reqs, UpdateRole(r) PROVE RoleRequests'
  <2> DEFINE q == [req[r] EXCEPT !.at = "emit"]
  <2>1. q \in ReqType /\ Checked(q) /\ req[r].target \in Users /\ req[r].to \in Roles
    BY <1>0, <1>3 DEF UpdateRole, ReqType, Awaits
  <2> QED
    BY <1>2, <1>3, <2>1 DEF UpdateRole
<1>4. ASSUME NEW r \in Reqs, Step(r) \/ Fail(r), ~UpdateRole(r) PROVE RoleRequests'
  <2>1. CASE req[r].user \in Users
             /\ WriteRole(r, req[r].user, IF IsOwner(Owner, req[r].user) THEN "OWNER" ELSE "VIEW",
                          AfterUpsert(req[r]))
    <3>1. (IF IsOwner(Owner, req[r].user) THEN "OWNER" ELSE "VIEW") \in Roles
      BY DEF Roles
    <3>2. AfterUpsert(req[r]) \in ReqType /\ Checked(AfterUpsert(req[r]))
      BY <1>0, AfterUpsertIs
    <3> QED
      BY <1>2, <2>1, <3>1, <3>2
  <2>2. CASE \E q \in ReqType : req' = [req EXCEPT ![r] = q] /\ Checked(q)
    BY <1>1, <2>2
  <2>3. \/ req[r].user \in Users
             /\ WriteRole(r, req[r].user, IF IsOwner(Owner, req[r].user) THEN "OWNER" ELSE "VIEW",
                          AfterUpsert(req[r]))
        \/ \E q \in ReqType :
             /\ req' = [req EXCEPT ![r] = q]
             /\ q # Idle => /\ q.kind = req[r].kind /\ q.user = req[r].user
                            /\ q.target = req[r].target /\ q.to = req[r].to
             /\ \/ q = Idle
                \/ q.at \notin {"target", "update", "emit"}
                \/ q.at = "target" /\ q.kind = "role" /\ MayAssign(req[r])
                \/ q.at = "update" /\ req[r].at = "target"
    BY <1>4, StepIs
  <2>4. Idle.at = "idle"
    BY DEF Idle
  <2> QED
    BY <1>0, <2>1, <2>2, <2>3, <2>4 DEF MayAssign, CanChangeRoles, IsOwner
<1>5. ASSUME NEW r \in Reqs, Arrive(r) PROVE RoleRequests'
  BY <1>1, <1>5, ArriveIs
<1>6. CASE DeleteSession \/ UNCHANGED vars
  BY <1>6 DEF DeleteSession, vars, RoleRequests
<1> QED
  BY <1>3, <1>4, <1>5, <1>6 DEF Next

\* Which steps change a row, and how: the owner's request, of another's row and
\* not to OWNER; or the first join, which makes the owner OWNER and others VIEW.
LEMMA RowStep ==
  ASSUME TypeOK, RoleRequests, [Next]_vars, NEW u \in Users, role'[u] # role[u]
  PROVE  \/ /\ u # Owner /\ role'[u] # "OWNER" /\ role'[u] # None
            /\ \E r \in Reqs : req[r].kind = "role" /\ req[r].user = Owner /\ req[r].target = u
         \/ role[u] = None /\ role'[u] = IF u = Owner THEN "OWNER" ELSE "VIEW"
<1>1. PICK r \in Reqs : Step(r) \/ Fail(r)
  BY DEF Next, Arrive, Begin, DeleteSession, vars
<1>0. req[r] \in ReqType
  BY DEF TypeOK
<1>2. CASE UpdateRole(r)
  <2> DEFINE q == [req[r] EXCEPT !.at = "emit"]
  <2>1. q \in ReqType /\ req[r].target \in Users /\ req[r].to \in Roles
    BY <1>0 DEF ReqType, Awaits
  <2>2. u = req[r].target /\ role'[u] = req[r].to
    BY <1>2, <2>1, WriteIs DEF UpdateRole
  <2>3. /\ req[r].kind = "role" /\ req[r].user = Owner
        /\ req[r].target # Owner /\ req[r].to # "OWNER"
    BY <1>2 DEF UpdateRole, RoleRequests
  <2> QED
    BY <2>1, <2>2, <2>3, RoleNoneAssumption
<1>3. CASE /\ req[r].user \in Users /\ role[req[r].user] = None
           /\ WriteRole(r, req[r].user, IF IsOwner(Owner, req[r].user) THEN "OWNER" ELSE "VIEW",
                        AfterUpsert(req[r]))
  <2>1. (IF IsOwner(Owner, req[r].user) THEN "OWNER" ELSE "VIEW") \in Roles
    BY DEF Roles
  <2>2. AfterUpsert(req[r]) \in ReqType
    BY <1>0, AfterUpsertIs
  <2>3. /\ u = req[r].user
        /\ role'[u] = IF IsOwner(Owner, req[r].user) THEN "OWNER" ELSE "VIEW"
    BY <1>3, <2>1, <2>2, WriteIs
  <2> QED
    BY <1>3, <2>3 DEF IsOwner
<1> QED
  BY <1>1, <1>2, <1>3, StepIs

\* The owner and nobody else has the role OWNER, for any number of users and of
\* requests that interleave and fail.
THEOREM OneOwnerAlways == Spec => []OneOwner
<1>1. Init => RoleRequests /\ OneOwner
  BY RoleNoneAssumption DEF Init, RoleRequests, OneOwner, Idle, Roles
<1>2. TypeOK /\ RoleRequests /\ OneOwner /\ [Next]_vars => OneOwner'
  <2> SUFFICES ASSUME TypeOK, RoleRequests, OneOwner, [Next]_vars, NEW u \in Users
               PROVE  role'[u] = "OWNER" <=> (u = Owner /\ role'[u] # None)
    BY DEF OneOwner
  <2>1. CASE role'[u] = role[u]
    BY <2>1 DEF OneOwner
  <2>2. CASE role'[u] # role[u]
    BY <2>2, RowStep, RoleNoneAssumption DEF Roles
  <2> QED
    BY <2>1, <2>2
<1> QED
  BY <1>1, <1>2, StepRequests, TypeCorrect, PTL DEF Spec

\* Only the owner's requests change a role that somebody has.
THEOREM RoleKeptAlways == Spec => RoleKept
<1>1. Init => RoleRequests
  BY DEF Init, RoleRequests, Idle
<1>2. TypeOK /\ RoleRequests /\ [Next]_vars =>
        [\A u \in Users : role[u] # None /\ role'[u] # role[u] =>
           \E r \in Reqs : req[r].kind = "role" /\ req[r].user = Owner /\ req[r].target = u]_vars
  BY RowStep
<1> QED
  BY <1>1, <1>2, StepRequests, TypeCorrect, PTL DEF Spec, RoleKept

-----------------------------------------------------------------------------
\* Every step keeps the history of the snapshot requests and of the snapshots.
LEMMA StepSnapshots ==
  TypeOK /\ SaveRequests /\ SnapshotsAllowed /\ [Next]_vars => SaveRequests' /\ SnapshotsAllowed'
<1> SUFFICES ASSUME TypeOK, SaveRequests, SnapshotsAllowed, [Next]_vars
             PROVE  SaveRequests' /\ SnapshotsAllowed'
  OBVIOUS
<1> DEFINE Fits(q, rl) == /\ /\ q.kind = "snapshot" /\ q.at \in {"session", "participant"}
                             /\ CanSave(rl, Owner, q.user)
                             => q.could
                          /\ q.at = "participant" => q.kind = "snapshot"
                          /\ q.at = "append" => q.could
<1>0. \A r \in Reqs : req[r] \in ReqType /\ Fits(req[r], role[req[r].user])
  BY DEF SaveRequests, TypeOK
<1>00. Idle.at = "idle"
  BY DEF Idle
<1>1. ASSUME NEW r \in Reqs, NEW q \in ReqType, req' = [req EXCEPT ![r] = q],
             UNCHANGED role, Fits(q, role[q.user])
      PROVE  SaveRequests'
  BY <1>0, <1>1, OnlyOne DEF SaveRequests
<1>2. ASSUME NEW r \in Reqs, NEW u \in Users, NEW to \in Roles, NEW q \in ReqType,
             WriteRole(r, u, to, q), q.at \in {"idle", "roles", "emit"}
      PROVE  SaveRequests'
  <2>1. SUFFICES ASSUME NEW s \in Reqs PROVE Fits(req'[s], role'[req'[s].user])
    BY DEF SaveRequests
  <2>2. CASE s = r
    BY <1>2, <2>2, WriteIs
  <2>3. CASE s # r
    <3>1. /\ req'[s].at = req[s].at /\ req'[s].kind = req[s].kind /\ req'[s].user = req[s].user
          /\ req'[s].could = (req[s].could \/ (req[s].kind = "snapshot" /\ req[s].user = u
                                               /\ CanSave(to, Owner, u)))
          /\ req[s].user \in Users
      BY <1>0, <1>2, <2>3, WriteIs DEF ReqType
    <3>2. CASE req[s].user = u
      <4>1. role'[req'[s].user] = to
        BY <1>2, <3>1, <3>2, WriteIs
      <4> QED
        BY <1>0, <3>1, <3>2, <4>1
    <3>3. CASE req[s].user # u
      <4>1. role'[req'[s].user] = role[req[s].user]
        BY <1>2, <3>1, <3>3, WriteIs
      <4> QED
        BY <1>0, <3>1, <3>3, <4>1
    <3> QED
      BY <3>2, <3>3
  <2> QED
    BY <2>2, <2>3
<1>3. ASSUME NEW r \in Reqs, UpdateRole(r) PROVE SaveRequests'
  <2> DEFINE q == [req[r] EXCEPT !.at = "emit"]
  <2>1. q \in ReqType /\ q.at = "emit" /\ req[r].target \in Users /\ req[r].to \in Roles
    BY <1>0 DEF ReqType, Awaits
  <2> QED
    BY <1>2, <1>3, <2>1 DEF UpdateRole
<1>4. ASSUME NEW r \in Reqs, Step(r) \/ Fail(r), ~UpdateRole(r) PROVE SaveRequests'
  <2>1. CASE req[r].user \in Users
             /\ WriteRole(r, req[r].user, IF IsOwner(Owner, req[r].user) THEN "OWNER" ELSE "VIEW",
                          AfterUpsert(req[r]))
    <3>1. (IF IsOwner(Owner, req[r].user) THEN "OWNER" ELSE "VIEW") \in Roles
      BY DEF Roles
    <3>2. AfterUpsert(req[r]) \in ReqType /\ AfterUpsert(req[r]).at \in {"idle", "roles"}
      BY <1>0, AfterUpsertIs
    <3> QED
      BY <1>2, <2>1, <3>1, <3>2
  <2>2. CASE UNCHANGED role /\ \E q \in ReqType : req' = [req EXCEPT ![r] = q] /\ Fits(q, role[q.user])
    BY <1>1, <2>2
  <2>3. \/ req[r].user \in Users
             /\ WriteRole(r, req[r].user, IF IsOwner(Owner, req[r].user) THEN "OWNER" ELSE "VIEW",
                          AfterUpsert(req[r]))
        \/ /\ UNCHANGED role
           /\ \E q \in ReqType :
                /\ req' = [req EXCEPT ![r] = q]
                /\ q # Idle => /\ q.kind = req[r].kind /\ q.user = req[r].user
                               /\ q.could = req[r].could
                /\ \/ q = Idle
                   \/ q.at \notin {"session", "participant", "append"}
                   \/ q.at = "participant" /\ req[r].at = "session" /\ q.kind = "snapshot"
                   \/ q.at = "append" /\ SaveChecked(r)
    BY <1>4, StepIs
  <2>4. SaveChecked(r) => req[r].could
    BY <1>0 DEF SaveChecked
  <2> QED
    BY <1>0, <1>00, <2>1, <2>2, <2>3, <2>4
<1>5. ASSUME NEW r \in Reqs, Arrive(r) PROVE SaveRequests'
  BY <1>1, <1>5, ArriveIs
<1>6. ASSUME DeleteSession \/ UNCHANGED vars PROVE SaveRequests'
  BY <1>6 DEF DeleteSession, vars, SaveRequests
<1>7. SaveRequests'
  BY <1>3, <1>4, <1>5, <1>6 DEF Next
<1>8. SnapshotsAllowed'
  <2>1. ASSUME NEW r \in Reqs, AppendSnapshot(r) PROVE SnapshotsAllowed'
    BY <1>0, <2>1 DEF AppendSnapshot, SnapshotsAllowed
  <2>2. CASE UNCHANGED snaps
    BY <2>2 DEF SnapshotsAllowed
  <2> QED
    BY <2>1, <2>2
       DEF Next, Step, Arrive, Begin, GetSession, FindTarget, UpdateRole, EmitRole, UpsertFind,
           UpsertCreate, ReadRoles, EmitPresence, CheckSave, Fail, DeleteSession, vars
<1> QED
  BY <1>7, <1>8

\* No snapshot is of a user who was at no time allowed to save it.
THEOREM SnapshotsAllowedAlways == Spec => []SnapshotsAllowed
<1>1. Init => SaveRequests /\ SnapshotsAllowed
  BY DEF Init, SaveRequests, SnapshotsAllowed, Idle
<1> QED
  BY <1>1, StepSnapshots, TypeCorrect, PTL DEF Spec

-----------------------------------------------------------------------------
(* What the clients show.                                                  *)

\* A step that writes no row, tells nothing and moves one request: its event, if it
\* has one now, must be true, and what it was to tell must be told later, or be
\* noted as untold.
LEMMA MoveShown ==
  ASSUME TypeOK, EventsTrue, ShownOrPending, NEW r \in Reqs, NEW q \in ReqType,
         req' = [req EXCEPT ![r] = q], UNCHANGED <<active, role, shown, crossed>>,
         untold \subseteq untold', EventTrue(q),
         active => \A u \in Users \ untold' : Pending(req[r], u) => Pending(q, u)
  PROVE  EventsTrue' /\ ShownOrPending'
<1>1. req'[r] = q /\ \A s \in Reqs \ {r} : req'[s] = req[s]
  BY OnlyOne
<1>2. EventsTrue'
  <2> SUFFICES ASSUME NEW s \in Reqs PROVE EventTrue(req'[s])
    BY DEF EventsTrue, EventTrue
  <2> QED
    BY <1>1 DEF EventsTrue
<1>3. ShownOrPending'
  <2> SUFFICES ASSUME active, NEW u \in Users \ (crossed \cup untold')
               PROVE  shown[u] = role[u] \/ \E s \in Reqs : Pending(req'[s], u)
    BY DEF ShownOrPending, Pending
  <2>1. shown[u] = role[u] \/ \E s \in Reqs : Pending(req[s], u)
    BY DEF ShownOrPending
  <2> QED
    BY <1>1, <2>1
<1> QED
  BY <1>2, <1>3

\* What WriteRole notes in the requests that have an event to tell.
LEMMA WriteOld ==
  ASSUME TypeOK, NEW r \in Reqs, NEW u \in Users, NEW to \in Roles, NEW q \in ReqType,
         WriteRole(r, u, to, q)
  PROVE  \A s \in Reqs \ {r} :
           /\ req'[s].map = req[s].map
           /\ req'[s].old = IF req[s].at \in {"emit", "present"} THEN req[s].old \cup {u}
                                                                 ELSE req[s].old
  BY DEF WriteRole, TypeOK, ReqType

\* A step that writes the row of u is followed by an event about u, or u is noted as
\* untold; the events others are about to emit are no longer held to be true of u.
LEMMA WriteShown ==
  ASSUME TypeOK, EventsTrue, ShownOrPending, NEW r \in Reqs, NEW u \in Users,
         NEW to \in Roles, NEW q \in ReqType, WriteRole(r, u, to, q),
         UNCHANGED <<active, shown, crossed>>, untold \subseteq untold',
         req[r].at \in {"update", "create"},
         (q.at = "emit" /\ q.target = u /\ q.to = to) \/ q.at \in {"idle", "roles"},
         Pending(q, u) \/ u \in untold'
  PROVE  EventsTrue' /\ ShownOrPending'
<1>1. /\ req'[r] = q /\ role'[u] = to /\ \A v \in Users \ {u} : role'[v] = role[v]
      /\ \A s \in Reqs \ {r} : /\ req'[s].at = req[s].at /\ req'[s].user = req[s].user
                               /\ req'[s].target = req[s].target /\ req'[s].to = req[s].to
                               /\ req'[s].map = req[s].map
                               /\ req'[s].at \in {"emit", "present"} =>
                                    req'[s].old = req[s].old \cup {u}
  <2>1. /\ req'[r] = q /\ role'[u] = to /\ \A v \in Users \ {u} : role'[v] = role[v]
        /\ \A s \in Reqs \ {r} : /\ req'[s].at = req[s].at /\ req'[s].user = req[s].user
                                 /\ req'[s].target = req[s].target /\ req'[s].to = req[s].to
    BY WriteIs
  <2>2. \A s \in Reqs \ {r} :
          /\ req'[s].map = req[s].map
          /\ req'[s].old = IF req[s].at \in {"emit", "present"} THEN req[s].old \cup {u}
                                                                ELSE req[s].old
    BY WriteOld
  <2> QED
    BY <2>1, <2>2
<1>2. EventsTrue'
  <2> SUFFICES ASSUME NEW s \in Reqs PROVE EventTrue(req[s])'
    BY DEF EventsTrue
  <2>1. CASE s = r
    BY <1>1, <2>1 DEF EventTrue
  <2>2. CASE s # r
    <3>1. EventTrue(req[s]) /\ req[s].target \in Users
      BY DEF EventsTrue, TypeOK, ReqType
    <3> QED
      BY <1>1, <2>2, <3>1 DEF EventTrue
  <2> QED
    BY <2>1, <2>2
<1>3. ShownOrPending'
  <2> SUFFICES ASSUME active, NEW v \in Users \ (crossed \cup untold')
               PROVE  shown[v] = role'[v] \/ \E s \in Reqs : Pending(req[s], v)'
    BY DEF ShownOrPending
  <2>1. CASE v = u
    BY <1>1, <2>1 DEF Pending
  <2>2. CASE v # u
    <3>1. shown[v] = role[v] \/ \E s \in Reqs \ {r} : Pending(req[s], v)
      BY DEF ShownOrPending, Pending
    <3> QED
      BY <1>1, <2>2, <3>1 DEF Pending
  <2> QED
    BY <2>1, <2>2
<1> QED
  BY <1>2, <1>3

\* An event tells of the users in S what was true of them when it was read or
\* written, and the history notes of whom that is old.
LEMMA TellShown ==
  ASSUME TypeOK, EventsTrue, ShownOrPending, NEW r \in Reqs, NEW S \in SUBSET Users,
         Done(r), Told(r, S), UNCHANGED <<active, role>>,
         \A u \in Users : Pending(req[r], u) => u \in S,
         \A u \in Users \ S : shown'[u] = shown[u],
         \A u \in S : u \notin req[r].old => shown'[u] = role[u]
  PROVE  EventsTrue' /\ ShownOrPending'
<1>1. req'[r] = Idle /\ \A s \in Reqs \ {r} : req'[s] = req[s]
  BY IdleType, OnlyOne DEF Done
<1>2. EventsTrue'
  <2> SUFFICES ASSUME NEW s \in Reqs PROVE EventTrue(req[s])'
    BY DEF EventsTrue
  <2> QED
    BY <1>1 DEF EventsTrue, EventTrue, Idle
<1>3. ShownOrPending'
  <2> SUFFICES ASSUME active, NEW u \in Users, u \notin crossed', u \notin untold'
               PROVE  shown'[u] = role[u] \/ \E s \in Reqs : Pending(req[s], u)'
    BY DEF ShownOrPending
  <2>1. CASE u \in S
    BY <2>1 DEF Told
  <2>2. CASE u \notin S
    <3>1. u \notin crossed /\ u \notin untold
      BY <2>2 DEF Told
    <3>2. shown[u] = role[u] \/ \E s \in Reqs \ {r} : Pending(req[s], u)
      BY <2>2, <3>1 DEF ShownOrPending
    <3> QED
      BY <1>1, <2>2, <3>2 DEF Pending
  <2> QED
    BY <2>1, <2>2
<1> QED
  BY <1>2, <1>3

\* EventsTrue and ShownOrPending are inductive from the types and OneOwner.
LEMMA StepShown ==
  TypeOK /\ OneOwner /\ EventsTrue /\ ShownOrPending /\ [Next]_vars =>
    EventsTrue' /\ ShownOrPending'
<1> SUFFICES ASSUME TypeOK, OneOwner, EventsTrue, ShownOrPending, [Next]_vars
             PROVE  EventsTrue' /\ ShownOrPending'
  OBVIOUS
<1>0. \A r \in Reqs : req[r] \in ReqType
  BY DEF TypeOK
<1>1. ASSUME NEW r \in Reqs, Done(r), UNCHANGED <<active, role, shown, crossed>>,
             untold \subseteq untold',
             active => \A u \in Users \ untold' : ~Pending(req[r], u)
      PROVE  EventsTrue' /\ ShownOrPending'
  <2>1. EventTrue(Idle)
    BY DEF EventTrue, Idle
  <2> QED
    BY <1>1, <2>1, IdleType, MoveShown DEF Done
<1>2. ASSUME NEW r \in Reqs, NEW p \in Awaits \ {"emit", "present"}, Goto(r, p),
             UNCHANGED <<active, role, shown, crossed, untold>>,
             req[r].at \notin {"emit", "roles", "present"}
      PROVE  EventsTrue' /\ ShownOrPending'
  <2> DEFINE q == [req[r] EXCEPT !.at = p]
  <2>1. q \in ReqType /\ req' = [req EXCEPT ![r] = q] /\ q.at = p
    BY <1>0, <1>2, GotoIs DEF ReqType
  <2>2. EventTrue(q) /\ \A u \in Users : ~Pending(req[r], u)
    BY <1>2, <2>1 DEF EventTrue, Pending
  <2> HIDE DEF q
  <2> QED
    BY <1>2, <2>1, <2>2, MoveShown
<1>3. ASSUME NEW r \in Reqs, Arrive(r) PROVE EventsTrue' /\ ShownOrPending'
  <2>1. PICK q \in ReqType :
           /\ req' = [req EXCEPT ![r] = q] /\ q.at = "session"
           /\ UNCHANGED <<active, role, shown, snaps, crossed, untold>>
    BY <1>3, ArriveIs
  <2>2. req[r].at = "idle"
    <3>1. req[r] = Idle
      BY <1>3 DEF Arrive, Begin
    <3> QED
      BY <3>1 DEF Idle
  <2>3. EventTrue(q) /\ \A u \in Users : ~Pending(req[r], u)
    BY <2>1, <2>2 DEF EventTrue, Pending
  <2> QED
    BY <2>1, <2>3, MoveShown
<1>4. ASSUME NEW r \in Reqs, Step(r) PROVE EventsTrue' /\ ShownOrPending'
  <2>1. CASE GetSession(r)
    <3>1. /\ Done(r) \/ \E p \in {"target", "exists", "roles", "participant"} : Goto(r, p)
          /\ req[r].at = "session" /\ UNCHANGED <<active, role, shown, crossed, untold>>
      BY <1>0, <2>1 DEF GetSession, ReqType, Kinds, TypeOK
    <3> QED
      BY <1>1, <1>2, <3>1 DEF Pending, Awaits
  <2>2. CASE FindTarget(r) \/ CheckSave(r) \/ AppendSnapshot(r)
    <3>1. /\ Done(r) \/ \E p \in {"update", "append"} : Goto(r, p)
          /\ req[r].at \in {"target", "participant", "append"}
          /\ UNCHANGED <<active, role, shown, crossed, untold>>
      BY <2>2 DEF FindTarget, CheckSave, AppendSnapshot
    <3> QED
      BY <1>1, <1>2, <3>1 DEF Pending, Awaits
  <2>3. CASE UpdateRole(r)
    <3> DEFINE q == [req[r] EXCEPT !.at = "emit"]
    <3>1. /\ q \in ReqType /\ req[r].target \in Users /\ req[r].to \in Roles
          /\ q.at = "emit" /\ q.target = req[r].target /\ q.to = req[r].to
      BY <1>0 DEF ReqType, Awaits
    <3>2. /\ WriteRole(r, req[r].target, req[r].to, q) /\ req[r].at = "update"
          /\ UNCHANGED <<active, shown, crossed, untold>>
      BY <2>3 DEF UpdateRole
    <3> HIDE DEF q
    <3> QED
      BY <3>1, <3>2, WriteShown DEF Pending
  <2>4. CASE EmitRole(r)
    <3> DEFINE S == {req[r].target}
    <3>1. /\ S \in SUBSET Users /\ Done(r) /\ Told(r, S) /\ UNCHANGED <<active, role>>
          /\ req[r].at = "emit"
      BY <1>0, <2>4 DEF EmitRole, ReqType
    <3>2. /\ \A u \in Users : Pending(req[r], u) => u \in S
          /\ \A u \in Users \ S : shown'[u] = shown[u]
          /\ shown'[req[r].target] = req[r].to
      BY <1>0, <2>4 DEF EmitRole, Pending, ReqType, TypeOK
    <3>3. req[r].target \notin req[r].old => shown'[req[r].target] = role[req[r].target]
      BY <3>1, <3>2 DEF EventsTrue, EventTrue
    <3> QED
      BY <3>1, <3>2, <3>3, TellShown
  <2>5. CASE UpsertFind(r)
    <3>1. /\ \/ req' = [req EXCEPT ![r] = AfterUpsert(req[r])]
             \/ Goto(r, "create")
          /\ req[r].at = "exists" /\ UNCHANGED <<active, role, shown, crossed, untold>>
      BY <1>0, <2>5 DEF UpsertFind, Goto, TypeOK
    <3>2. AfterUpsert(req[r]) = Idle \/ AfterUpsert(req[r]) = [req[r] EXCEPT !.at = "roles"]
      BY DEF AfterUpsert
    <3>3. Done(r) \/ \E p \in {"create", "roles"} : Goto(r, p)
      BY <1>0, <3>1, <3>2 DEF Done, Goto, TypeOK
    <3> QED
      BY <1>1, <1>2, <3>1, <3>3 DEF Pending, Awaits
  <2>6. CASE UpsertCreate(r) /\ role[req[r].user] = None
    <3> DEFINE u == req[r].user
               to == IF IsOwner(Owner, u) THEN "OWNER" ELSE "VIEW"
    <3>1. /\ WriteRole(r, u, to, AfterUpsert(req[r])) /\ req[r].at = "create"
          /\ UNCHANGED <<active, shown, crossed>>
          /\ untold' = untold \cup (IF req[r].kind = "rest" THEN {u} ELSE {})
      BY <2>6 DEF UpsertCreate
    <3>2. /\ u \in Users /\ to \in Roles
          /\ AfterUpsert(req[r]) \in ReqType /\ AfterUpsert(req[r]).at \in {"idle", "roles"}
      BY <1>0, AfterUpsertIs DEF ReqType, Roles
    <3>3. Pending(AfterUpsert(req[r]), u) \/ u \in untold'
      BY <1>0, <3>1 DEF AfterUpsert, Pending, ReqType
    <3> HIDE DEF to
    <3> QED
      BY <3>1, <3>2, <3>3, WriteShown
  <2>7. CASE UpsertCreate(r) /\ role[req[r].user] # None
    BY <1>1, <2>7 DEF UpsertCreate, Pending
  <2>8. CASE ReadRoles(r)
    <3>1. CASE active
      <4> DEFINE q == [req[r] EXCEPT !.at = "present", !.map = RolesMap]
      <4>1. RolesMap \in [Users -> AnyRole] /\ \A u \in Users : RolesMap[u] = role[u]
        BY RoleNoneAssumption DEF RolesMap, TypeOK, AnyRole, Roles, OneOwner
      <4>2. q \in ReqType /\ q.at = "present" /\ q.user = req[r].user /\ q.map = RolesMap
        BY <1>0, <4>1 DEF ReqType, Awaits
      <4>3. /\ req' = [req EXCEPT ![r] = q] /\ req[r].at = "roles"
            /\ UNCHANGED <<active, role, shown, crossed, untold>>
        BY <1>0, <2>8, <3>1 DEF ReadRoles, TypeOK
      <4> HIDE DEF q
      <4>4. EventTrue(q) /\ \A u \in Users : Pending(req[r], u) => Pending(q, u)
        BY <4>1, <4>2, <4>3 DEF EventTrue, Pending
      <4> QED
        BY <4>2, <4>3, <4>4, MoveShown
    <3>2. CASE ~active
      BY <1>1, <2>8, <3>2 DEF ReadRoles
    <3> QED
      BY <3>1, <3>2
  <2>9. CASE EmitPresence(r)
    <3>1. /\ Done(r) /\ Told(r, Users) /\ UNCHANGED <<active, role>>
          /\ shown' = req[r].map /\ req[r].at = "present"
      BY <2>9 DEF EmitPresence
    <3>2. \A u \in Users : u \notin req[r].old => shown'[u] = role[u]
      BY <3>1 DEF EventsTrue, EventTrue
    <3> QED
      BY <3>1, <3>2, TellShown
  <2> QED
    BY <1>4, <2>1, <2>2, <2>3, <2>4, <2>5, <2>6, <2>7, <2>8, <2>9 DEF Step
<1>5. ASSUME NEW r \in Reqs, Fail(r) PROVE EventsTrue' /\ ShownOrPending'
  <2>1. Done(r) /\ UNCHANGED <<active, role, shown, crossed>> /\ untold \subseteq untold'
    BY <1>5 DEF Fail
  <2>2. \A u \in Users : Pending(req[r], u) => u \in untold'
    BY <1>5 DEF Fail, Pending
  <2> QED
    BY <1>1, <2>1, <2>2
<1>6. CASE DeleteSession
  BY <1>6 DEF DeleteSession, EventsTrue, EventTrue, ShownOrPending
<1>7. CASE UNCHANGED vars
  BY <1>7 DEF vars, EventsTrue, EventTrue, ShownOrPending, Pending
<1> QED
  BY <1>3, <1>4, <1>5, <1>6, <1>7 DEF Next

\* With no request under way the clients show everybody's role as it is in the
\* rows, except where two events crossed or no event was to come: for any number of
\* joins, leaves and role changes that interleave and fail.
THEOREM RolesShownAlways == Spec => []RolesShown
<1>1. Init => EventsTrue /\ ShownOrPending
  BY DEF Init, EventsTrue, EventTrue, ShownOrPending, Idle, Nobody
<1>2. ShownOrPending => RolesShown
  BY DEF ShownOrPending, RolesShown, Pending, Idle
<1> QED
  BY <1>1, <1>2, StepShown, TypeCorrect, OneOwnerAlways, PTL DEF Spec
=============================================================================
