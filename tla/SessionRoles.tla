---------------------------- MODULE SessionRoles ----------------------------
(***************************************************************************)
(* Roles in ONE session: the role of each participant row, the handlers    *)
(* that create or change it (joins, PATCH .../participants/:email/role),   *)
(* what the clients in the Socket.IO room are told of it, and the          *)
(* snapshots a role allows to save.                                        *)
(*                                                                         *)
(* A request is a record with the await it is at; requests interleave at   *)
(* awaits.  Presence, capacity and the members set are SessionPresence's,  *)
(* the state hash is left out.                                             *)
(*                                                                         *)
(* Env says which behaviours of the surroundings are considered:           *)
(*   "fail"    a query rejects, before it took effect or after             *)
(*   "rest"    users also join by POST /sessions/join, which emits nothing *)
(*   "delete"  the owner deletes the session                               *)
(***************************************************************************)
EXTENDS Permissions

CONSTANTS Users, Owner, Reqs, RoleInputs, Env

ASSUME RolesOwnerAssumption == Owner \in Users
ASSUME RoleInputsAssumption == RoleInputs \subseteq Roles
ASSUME RoleNoneAssumption == None \notin Roles

VARIABLES
  active,  \* the session is not deleted
  role,    \* [user -> the role in his participant row, or None without a row]
  shown,   \* [user -> the role the clients in the room show for him, or None]
  snaps,   \* snapshots: [by, could]; could is history, see below
  req,     \* [request -> its await and its arguments]
  crossed, \* history: users of whom an event told what another handler had
           \* changed in between
  untold   \* history: users whose row changed with no event to come

vars == <<active, role, shown, snaps, req, crossed, untold>>

-----------------------------------------------------------------------------
Kinds  == {"role", "join", "rest", "leave", "snapshot"}
Awaits == {"idle", "session", "target", "update", "emit", "exists", "create", "roles",
           "present", "participant", "append"}
AnyRole == Roles \cup {None}

\* to: the role asked for; map: the roles that were read, for the event.
\* could (history): since the request came in, its user was once allowed to save.
\* old (history): users whose row another request changed since this one wrote
\* or read it.
ReqType == [at : Awaits, kind : Kinds, user : Users, target : Users, to : Roles,
            map : [Users -> AnyRole], could : BOOLEAN, old : SUBSET Users]

TypeOK == /\ active \in BOOLEAN
          /\ role \in [Users -> AnyRole] /\ shown \in [Users -> AnyRole]
          /\ snaps \in SUBSET [by : Users, could : BOOLEAN]
          /\ req \in [Reqs -> ReqType]
          /\ crossed \in SUBSET Users /\ untold \in SUBSET Users
          /\ \A r \in Reqs : req[r].at \in {"target", "update", "emit"} => req[r].target # Owner

Nobody == [u \in Users |-> None]
Idle == [at |-> "idle", kind |-> "join", user |-> Owner, target |-> Owner, to |-> "VIEW",
         map |-> Nobody, could |-> FALSE, old |-> {}]

\* As createSession leaves it, whole or with the owner's row not created.
Init == /\ active = TRUE
        /\ role \in [Users -> AnyRole]
        /\ \A u \in Users : role[u] # None => u = Owner /\ role[u] = "OWNER"
        /\ shown = Nobody /\ snaps = {}
        /\ req = [r \in Reqs |-> Idle]
        /\ crossed = {} /\ untold = {Owner}

-----------------------------------------------------------------------------
Goto(r, p) == req' = [req EXCEPT ![r].at = p]
Done(r)    == req' = [req EXCEPT ![r] = Idle]

Begin(r, k, u, v, to) ==
  /\ req[r] = Idle
  /\ k = "rest" => "rest" \in Env
  /\ req' = [req EXCEPT ![r] = [Idle EXCEPT !.at = "session", !.kind = k, !.user = u,
               !.target = v, !.to = to, !.could = (k = "snapshot" /\ CanSave(role[u], Owner, u))]]
  /\ UNCHANGED <<active, role, shown, snaps, crossed, untold>>

\* A role request has a target and a role; the others concern their own user.
Arrive(r) == \E u \in Users :
               \/ \E k \in Kinds \ {"role"} : Begin(r, k, u, u, "VIEW")
               \/ \E v \in Users, to \in RoleInputs : Begin(r, "role", u, v, to)

\* Mutant: the owner may change his own role.
MayAssign_Owner(q) == CanChangeRoles(Owner, q.user) /\ q.to # "OWNER"

\* The checks of updateParticipantRole before its first query on participants.
MayAssign(q) == /\ CanChangeRoles(Owner, q.user)
                /\ q.target # Owner
                /\ q.to # "OWNER"

\* getSessionOrThrow and what follows it up to the next await.
GetSession(r) ==
  /\ req[r].at = "session"
  /\ CASE ~active                                           -> Done(r)
       [] active /\ req[r].kind = "role"                    ->
            IF MayAssign(req[r]) THEN Goto(r, "target") ELSE Done(r)
       [] active /\ req[r].kind \in {"join", "rest"}        -> Goto(r, "exists")
       [] active /\ req[r].kind = "leave"                   ->
            IF role[req[r].user] # None THEN Goto(r, "roles") ELSE Done(r)
       [] active /\ req[r].kind = "snapshot"                -> Goto(r, "participant")
  /\ UNCHANGED <<active, role, shown, snaps, crossed, untold>>

\* r writes the row of u and goes on as q: what others read of u is old now, and
\* a snapshot request of u may have become allowed.
WriteRole(r, u, to, q) ==
  /\ role' = [role EXCEPT ![u] = to]
  /\ req' = [s \in Reqs |->
       IF s = r THEN q
       ELSE [req[s] EXCEPT !.old = IF req[s].at \in {"emit", "present"} THEN @ \cup {u} ELSE @,
               !.could = @ \/ (req[s].kind = "snapshot" /\ req[s].user = u /\ CanSave(to, Owner, u))]]

-----------------------------------------------------------------------------
(* updateParticipantRole, and the controller's emission after it.          *)

FindTarget(r) ==
  /\ req[r].at = "target"
  /\ IF role[req[r].target] # None THEN Goto(r, "update") ELSE Done(r)
  /\ UNCHANGED <<active, role, shown, snaps, crossed, untold>>

\* Mutant: the controller returns without the event.
UpdateRole_Silent(r) ==
  /\ req[r].at = "update"
  /\ WriteRole(r, req[r].target, req[r].to, Idle)
  /\ UNCHANGED <<active, shown, snaps, crossed, untold>>

UpdateRole(r) ==
  /\ req[r].at = "update"
  /\ WriteRole(r, req[r].target, req[r].to, [req[r] EXCEPT !.at = "emit"])
  /\ UNCHANGED <<active, shown, snaps, crossed, untold>>

\* What an event told of the users in S, as far as the history is concerned.
Told(r, S) == /\ crossed' = (crossed \ S) \cup (S \cap req[r].old)
              /\ untold' = untold \ S

\* emitRoleUpdated: the clients change one entry.
EmitRole(r) ==
  /\ req[r].at = "emit"
  /\ shown' = [shown EXCEPT ![req[r].target] = req[r].to]
  /\ Told(r, {req[r].target})
  /\ Done(r)
  /\ UNCHANGED <<active, role, snaps>>

-----------------------------------------------------------------------------
(* Joins: upsertOnlineParticipant is a find, then an update that leaves    *)
(* the role alone or a create.                                             *)

AfterUpsert(q) == IF q.kind = "rest" THEN Idle ELSE [q EXCEPT !.at = "roles"]

UpsertFind(r) ==
  /\ req[r].at = "exists"
  /\ req' = [req EXCEPT ![r] = IF role[@.user] # None THEN AfterUpsert(@)
                               ELSE [@ EXCEPT !.at = "create"]]
  /\ UNCHANGED <<active, role, shown, snaps, crossed, untold>>

\* Mutant: create replaces the row another join has created.
UpsertCreate_Replace(r) ==
  /\ req[r].at = "create"
  /\ LET u == req[r].user
     IN  /\ WriteRole(r, u, IF IsOwner(Owner, u) THEN "OWNER" ELSE "VIEW", AfterUpsert(req[r]))
         /\ untold' = untold \cup (IF req[r].kind = "rest" THEN {u} ELSE {})
  /\ UNCHANGED <<active, shown, snaps, crossed>>

\* create with the role of a newcomer; @@unique([sessionId, userEmail]) fails
\* the request when another has created the row since.
UpsertCreate(r) ==
  /\ req[r].at = "create"
  /\ LET u == req[r].user
     IN  \/ /\ role[u] = None
            /\ WriteRole(r, u, IF IsOwner(Owner, u) THEN "OWNER" ELSE "VIEW", AfterUpsert(req[r]))
            /\ untold' = untold \cup (IF req[r].kind = "rest" THEN {u} ELSE {})
         \/ role[u] # None /\ Done(r) /\ UNCHANGED <<role, untold>>
  /\ UNCHANGED <<active, shown, snaps, crossed>>

\* getRolesMap, of a join, a leave or a disconnect.
RolesMap == [u \in Users |-> IF role[u] # None /\ u = Owner THEN "OWNER" ELSE role[u]]

ReadRoles(r) ==
  /\ req[r].at = "roles"
  /\ IF active THEN req' = [req EXCEPT ![r].at = "present", ![r].map = RolesMap] ELSE Done(r)
  /\ UNCHANGED <<active, role, shown, snaps, crossed, untold>>

\* session.presence: the clients take the whole map.
EmitPresence(r) ==
  /\ req[r].at = "present"
  /\ shown' = req[r].map
  /\ Told(r, Users)
  /\ Done(r)
  /\ UNCHANGED <<active, role, snaps>>

-----------------------------------------------------------------------------
(* createSnapshot.                                                         *)

\* Mutant: who may execute may save.
CheckSave_Execute(r) ==
  /\ req[r].at = "participant"
  /\ IF CanExecute(role[req[r].user], Owner, req[r].user) THEN Goto(r, "append") ELSE Done(r)
  /\ UNCHANGED <<active, role, shown, snaps, crossed, untold>>

CheckSave(r) ==
  /\ req[r].at = "participant"
  /\ IF CanSave(role[req[r].user], Owner, req[r].user) THEN Goto(r, "append") ELSE Done(r)
  /\ UNCHANGED <<active, role, shown, snaps, crossed, untold>>

AppendSnapshot(r) ==
  /\ req[r].at = "append"
  /\ snaps' = snaps \cup {[by |-> req[r].user, could |-> req[r].could]}
  /\ Done(r)
  /\ UNCHANGED <<active, role, shown, crossed, untold>>

-----------------------------------------------------------------------------
\* An await rejects.  After a write, it is its reply that was lost, and the
\* event that was to follow is not emitted.
Fail(r) ==
  /\ "fail" \in Env
  /\ req[r] # Idle
  /\ untold' = untold \cup (CASE req[r].at = "emit" -> {req[r].target}
                              [] req[r].at \in {"roles", "present"} -> {req[r].user}
                              [] OTHER -> {})
  /\ Done(r)
  /\ UNCHANGED <<active, role, shown, snaps, crossed>>

DeleteSession ==
  /\ "delete" \in Env
  /\ active
  /\ active' = FALSE
  /\ UNCHANGED <<role, shown, snaps, req, crossed, untold>>

Step(r) == \/ GetSession(r) \/ FindTarget(r) \/ UpdateRole(r) \/ EmitRole(r)
           \/ UpsertFind(r) \/ UpsertCreate(r) \/ ReadRoles(r) \/ EmitPresence(r)
           \/ CheckSave(r) \/ AppendSnapshot(r)

Next == \/ \E r \in Reqs : Arrive(r) \/ Step(r) \/ Fail(r)
        \/ DeleteSession

Spec == Init /\ [][Next]_vars

-----------------------------------------------------------------------------
(* What the roles must guarantee.                                          *)

\* The owner and nobody else has the role OWNER, through any sequence of joins,
\* first joins that race, and role changes.
OneOwner == \A u \in Users : role[u] = "OWNER" <=> (u = Owner /\ role[u] # None)

\* Who has a role keeps it until the owner changes it: a join of a user who is
\* known, or two first joins at once, do not set it back.
RoleKept ==
  [][\A u \in Users : role[u] # None /\ role'[u] # role[u] =>
       \E r \in Reqs : req[r].kind = "role" /\ req[r].user = Owner /\ req[r].target = u]_vars

\* Every snapshot is of a user who was allowed to save at some time between the
\* arrival of his request and its end, whatever happened to his role meanwhile.
SnapshotsAllowed == \A s \in snaps : s.could

\* With no request under way, the clients in the room show everybody's role as
\* it is, except where two events crossed, or no event was to come.
RolesShown ==
  active /\ (\A r \in Reqs : req[r] = Idle) =>
    \A u \in Users \ (crossed \cup untold) : shown[u] = role[u]

-----------------------------------------------------------------------------
\* What makes OneOwner and RoleKept inductive: a request past the checks of
\* updateParticipantRole is one that passes them.
RoleRequests ==
  \A r \in Reqs : req[r].at \in {"target", "update", "emit"} =>
    /\ req[r].kind = "role" /\ req[r].user = Owner
    /\ req[r].target # Owner /\ req[r].to # "OWNER"

\* What makes SnapshotsAllowed inductive: a snapshot request that may save now, or
\* has been found to be allowed to, was allowed since it arrived.
SaveRequests ==
  \A r \in Reqs :
    /\ req[r].kind = "snapshot" /\ req[r].at \in {"session", "participant"}
         /\ CanSave(role[req[r].user], Owner, req[r].user) => req[r].could
    /\ req[r].at = "participant" => req[r].kind = "snapshot"
    /\ req[r].at = "append" => req[r].could

\* What makes RolesShown inductive: an event about to go out tells what is in the
\* rows, but for what others have changed since; and a role the clients do not show
\* is one that a request under way is going to tell of.
EventTrue(q) ==
  /\ q.at = "emit" /\ q.target \notin q.old => role[q.target] = q.to
  /\ q.at = "present" => \A u \in Users \ q.old : q.map[u] = role[u]

EventsTrue == \A r \in Reqs : EventTrue(req[r])

Pending(q, u) == \/ q.at = "emit" /\ q.target = u
                 \/ q.at \in {"roles", "present"} /\ q.user = u

ShownOrPending ==
  active => \A u \in Users \ (crossed \cup untold) :
              shown[u] = role[u] \/ \E r \in Reqs : Pending(req[r], u)
=============================================================================
