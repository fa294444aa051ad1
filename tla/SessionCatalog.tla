--------------------------- MODULE SessionCatalog ---------------------------
(***************************************************************************)
(* The sessions of all users: SessionsService.createSession, renameSession *)
(* and deleteSession with generateUniqueInviteCode and                     *)
(* assertNameAvailableForOwner, over the collection Session, whose only    *)
(* unique index besides the id is on inviteCode.                           *)
(*                                                                         *)
(* A request is a record with the await it is at; requests interleave at   *)
(* awaits.  What happens inside a session once it exists is in             *)
(* SessionPresence, SessionRoles and ExecutionLock.                        *)
(*                                                                         *)
(* Env says which behaviours of the surroundings are considered:           *)
(*   "fail"  a query or command rejects, or the process ends, under a      *)
(*           request: before it took effect or after                       *)
(***************************************************************************)
EXTENDS Naturals, FiniteSets

CONSTANTS Ids, Users, Names, Codes, Reqs, MaxAttempts, None, Env

ASSUME AttemptsAssumption == MaxAttempts \in Nat \ {0}
ASSUME CatalogNoneAssumption ==
  None \notin Ids /\ None \notin Users /\ None \notin Names /\ None \notin Codes

VARIABLES
  session,   \* [id -> the row of the collection, or None]
  req,       \* [request -> its await and its local variables]
  stale      \* history: ids whose name was written on an outdated lookup

vars == <<session, req, stale>>

-----------------------------------------------------------------------------
Rows    == [name : Names, code : Codes, owner : Users, active : BOOLEAN]
ASSUME RowNoneAssumption == None \notin Rows

Stored  == {i \in Ids : session[i] # None}
Active  == {i \in Stored : session[i].active}

Kinds  == {"create", "rename", "delete"}
Awaits == {"idle", "session", "name", "code", "insert", "enrol", "update", "remove"}

\* fresh (history): no name was written since the request looked its name up;
\* codeFresh: no session was created since it looked its code up.
ReqType == [at : Awaits, kind : Kinds, user : Users \cup {None}, name : Names \cup {None}, id : Ids \cup {None},
            code : Codes \cup {None}, attempt : 0..(MaxAttempts - 1),
            fresh : BOOLEAN, codeFresh : BOOLEAN]
Idle == [at |-> "idle", kind |-> "create", user |-> None, name |-> None, id |-> None,
         code |-> None, attempt |-> 0,
         fresh |-> FALSE, codeFresh |-> FALSE]

TypeOK == /\ session \in [Ids -> Rows \cup {None}]
          /\ req \in [Reqs -> ReqType]
          /\ stale \in SUBSET Stored

Init == /\ session = [i \in Ids |-> None]
        /\ stale = {}
        /\ req = [r \in Reqs |-> Idle]

-----------------------------------------------------------------------------
Becomes(r, q) == req' = [req EXCEPT ![r] = q]
Goto(r, p)    == Becomes(r, [req[r] EXCEPT !.at = p])
Done(r)       == Becomes(r, Idle)

\* Bound: an id is left for every create under way.
IdLeft == LET creating == {r \in Reqs : req[r] # Idle /\ req[r].kind = "create" /\ req[r].id = None}
          IN  Cardinality(Stored) + Cardinality(creating) < Cardinality(Ids)

\* POST /sessions, PATCH /sessions/:id/rename, DELETE /sessions/:id
Request(r, u) ==
  /\ req[r] = Idle
  /\ \/ \E n \in Names : IdLeft /\ Becomes(r, [Idle EXCEPT !.at = "name", !.user = u, !.name = n])
     \/ \E n \in Names, i \in Stored :
          Becomes(r, [Idle EXCEPT !.at = "session", !.kind = "rename", !.user = u,
                                  !.name = n, !.id = i])
     \/ \E i \in Stored :
          Becomes(r, [Idle EXCEPT !.at = "session", !.kind = "delete", !.user = u, !.id = i])
  /\ UNCHANGED <<session, stale>>

\* Mutant: assertOwner is forgotten.
GetSession_Anyone(r) ==
  /\ req[r].at = "session"
  /\ LET s == session[req[r].id]
     IN  IF ~s.active \/ (req[r].kind = "rename" /\ s.name = req[r].name)
         THEN Done(r)
         ELSE Goto(r, IF req[r].kind = "rename" THEN "name" ELSE "remove")
  /\ UNCHANGED <<session, stale>>

\* getSessionOrThrow, assertOwner, and the rename to the name it has already.
GetSession(r) ==
  /\ req[r].at = "session"
  /\ LET s == session[req[r].id]
     IN  IF ~s.active \/ s.owner # req[r].user \/ (req[r].kind = "rename" /\ s.name = req[r].name)
         THEN Done(r)
         ELSE Goto(r, IF req[r].kind = "rename" THEN "name" ELSE "remove")
  /\ UNCHANGED <<session, stale>>

\* Mutant: the session that is renamed hides all the others.
FindName_Own(r) ==
  /\ req[r].at = "name"
  /\ LET q == req[r]
         next == [q EXCEPT !.at = IF q.kind = "create" THEN "code" ELSE "update", !.fresh = TRUE]
     IN  Becomes(r, IF q.id # None \/ {i \in Active : session[i].owner = q.user /\ session[i].name = q.name} = {}
                    THEN next ELSE Idle)
  /\ UNCHANGED <<session, stale>>

\* findActiveByOwnerAndName is a findFirst: any of the sessions that match.
Homonyms(u, n) == {i \in Active : session[i].owner = u /\ session[i].name = n}

\* assertNameAvailableForOwner: only the session itself may have the name.
FindName(r) ==
  /\ req[r].at = "name"
  /\ LET q == req[r]
         found == Homonyms(q.user, q.name)
         next == [q EXCEPT !.at = IF q.kind = "create" THEN "code" ELSE "update", !.fresh = TRUE]
     IN  \/ found = {} /\ Becomes(r, next)
         \/ \E i \in found : Becomes(r, IF i = q.id THEN next ELSE Idle)
  /\ UNCHANGED <<session, stale>>

\* Mutant: the codes of deleted sessions count as free.
FindByInviteCode_Active(c) == {i \in Active : session[i].code = c}

\* Deleted sessions are found as well.
FindByInviteCode(c) == {i \in Stored : session[i].code = c}

\* Mutant: one attempt too many.
DrawCode_OneMore(r) ==
  /\ req[r].at = "code"
  /\ \E c \in Codes :
       \/ /\ FindByInviteCode(c) = {}
          /\ Becomes(r, [req[r] EXCEPT !.at = "insert", !.attempt = 0, !.code = c, !.codeFresh = TRUE])
       \/ /\ FindByInviteCode(c) # {}
          /\ Becomes(r, IF req[r].attempt < MaxAttempts
                        THEN [req[r] EXCEPT !.attempt = @ + 1] ELSE Idle)
  /\ UNCHANGED <<session, stale>>

\* generateUniqueInviteCode: random bytes, looked up, at most maxAttempts times.
DrawCode(r) ==
  /\ req[r].at = "code"
  /\ \E c \in Codes :
       \/ /\ FindByInviteCode(c) = {}
          /\ Becomes(r, [req[r] EXCEPT !.at = "insert", !.attempt = 0, !.code = c, !.codeFresh = TRUE])
       \/ /\ FindByInviteCode(c) # {}
          /\ Becomes(r, IF req[r].attempt + 1 < MaxAttempts
                        THEN [req[r] EXCEPT !.attempt = @ + 1] ELSE Idle)
  /\ UNCHANGED <<session, stale>>

\* A name was written: the lookups of the other requests are outdated; so are
\* their codes when it was a new session's.  r goes on as q.
Outdate(r, q, created) ==
  req' = [s \in Reqs |-> IF s = r THEN q
            ELSE [req[s] EXCEPT !.fresh = FALSE, !.codeFresh = @ /\ ~created]]

\* inviteCode String @unique.
CodeTaken(c) == \E i \in Stored : session[i].code = c

\* prisma.session.create, which the unique index on inviteCode may fail.
Insert(r) ==
  /\ req[r].at = "insert"
  /\ LET q == req[r]
     IN  \/ /\ ~CodeTaken(q.code)
            /\ \E i \in Ids \ Stored :
                 /\ session' = [session EXCEPT ![i] =
                      [name |-> q.name, code |-> q.code, owner |-> q.user, active |-> TRUE]]
                 /\ stale' = IF q.fresh THEN stale ELSE stale \cup {i}
                 /\ Outdate(r, [Idle EXCEPT !.at = "enrol", !.user = q.user, !.id = i], TRUE)
         \/ CodeTaken(q.code) /\ Done(r) /\ UNCHANGED <<session, stale>>

\* upsertOnlineParticipant of the owner, addSessionMember and setSessionState;
\* the row and the keys are SessionPresence's and SessionRoles'.
Enrol(r) ==
  /\ req[r].at = "enrol"
  /\ Done(r)
  /\ UNCHANGED <<session, stale>>

\* updateName, of a session that may have been deleted or renamed since.
UpdateName(r) ==
  /\ req[r].at = "update"
  /\ LET q == req[r]
     IN  /\ session' = [session EXCEPT ![q.id].name = q.name]
         /\ stale' = CASE ~q.fresh                                    -> stale \cup {q.id}
                       [] q.fresh /\ session[q.id].name # q.name      -> stale \ {q.id}
                       [] OTHER                                       -> stale
  /\ Outdate(r, Idle, FALSE)

\* softDelete, of a session that may have been deleted since.
Remove(r) ==
  /\ req[r].at = "remove"
  /\ session' = [session EXCEPT ![req[r].id].active = FALSE]
  /\ Done(r)
  /\ UNCHANGED stale

Fail(r) ==
  /\ "fail" \in Env
  /\ req[r] # Idle
  /\ Done(r)
  /\ UNCHANGED <<session, stale>>

Step(r) == \/ GetSession(r) \/ FindName(r) \/ DrawCode(r) \/ Insert(r) \/ Enrol(r)
           \/ UpdateName(r) \/ Remove(r)

Next == \E r \in Reqs : (\E u \in Users : Request(r, u)) \/ Step(r) \/ Fail(r)

Spec == Init /\ [][Next]_vars

-----------------------------------------------------------------------------
(* What the catalogue must guarantee.                                      *)

\* Two active sessions of one owner have one name only when one of the names was
\* written by a request that another had overtaken since its lookup; a sequence
\* of requests never gets there.
NamesUnique ==
  \A i, j \in Active :
    i # j /\ session[i].owner = session[j].owner /\ session[i].name = session[j].name =>
      i \in stale \/ j \in stale

\* The unique index refuses a create only when another session was created
\* since the code was looked up: no code of a deleted session is drawn again.
ClashIsRace ==
  \A r \in Reqs : req[r].at = "insert" /\ CodeTaken(req[r].code) => ~req[r].codeFresh

\* What becomes of a session is its owner's doing: no other's request renames
\* or deletes it, its code and owner never change, and no late write of a
\* request brings a deleted session back.
OwnerDecides ==
  [][\A i \in Stored :
       session'[i] # session[i] =>
         /\ session'[i] # None
         /\ session'[i].code = session[i].code /\ session'[i].owner = session[i].owner
         /\ session'[i].active => session[i].active
         /\ \E r \in Reqs : /\ req[r].id = i /\ req[r].user = session[i].owner
                            /\ req[r].kind \in {"rename", "delete"} /\ req'[r] = Idle]_vars

-----------------------------------------------------------------------------
\* What makes the properties above inductive.

\* A request past its checks has what it needs, and is the owner's.
RequestsKnown ==
  \A r \in Reqs :
    LET q == req[r]
    IN  /\ q.at # "idle" => q.user \in Users
        /\ q.at \in {"name", "code", "insert", "update"} \/ q.kind = "rename" => q.name \in Names
        /\ q.at = "name" => q.kind = "rename" \/ (q.kind = "create" /\ q.id = None)
        /\ q.at \in {"code", "insert"} => q.kind = "create"
        /\ q.at = "insert" => q.code \in Codes
        /\ q.at \in {"session", "remove"} => q.kind \in {"rename", "delete"}
        /\ q.at = "update" => q.kind = "rename"
        /\ q.at # "idle" /\ q.kind # "create" => q.id \in Stored
        /\ q.at \in {"name", "update", "remove"} /\ q.kind # "create" =>
             session[q.id].owner = q.user

\* What a lookup of a name found is true while it is fresh.
LookupIsTrue ==
  \A r \in Reqs : req[r].fresh =>
    /\ req[r].at \in {"code", "insert"} => Homonyms(req[r].user, req[r].name) = {}
    /\ req[r].at = "update" => \/ Homonyms(req[r].user, req[r].name) = {}
                              \/ session[req[r].id].name = req[r].name
=============================================================================
