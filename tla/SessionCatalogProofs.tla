------------------------ MODULE SessionCatalogProofs ------------------------
(***************************************************************************)
(* Theorems about SessionCatalog for any users, names, codes and ids, any  *)
(* number of requests and of attempts, with failures at every await.       *)
(***************************************************************************)
EXTENDS SessionCatalog, TLAPS

\* What one request must satisfy, as RequestsKnown says, when the rows are rows.
Known(q, rows) ==
  /\ q.at # "idle" => q.user \in Users
  /\ q.at \in {"name", "code", "insert", "update"} \/ q.kind = "rename" => q.name \in Names
  /\ q.at = "name" => q.kind = "rename" \/ (q.kind = "create" /\ q.id = None)
  /\ q.at \in {"code", "insert"} => q.kind = "create"
  /\ q.at = "insert" => q.code \in Codes
  /\ q.at \in {"session", "remove"} => q.kind \in {"rename", "delete"}
  /\ q.at = "update" => q.kind = "rename"
  /\ q.at # "idle" /\ q.kind # "create" => q.id \in Ids /\ rows[q.id] # None
  /\ q.at \in {"name", "update", "remove"} /\ q.kind # "create" => rows[q.id].owner = q.user

\* RequestsKnown in these terms.
LEMMA KnownIs == RequestsKnown <=> \A r \in Reqs : Known(req[r], session)
  BY DEF RequestsKnown, Known, Stored

\* A request that is over has its type and needs nothing.
LEMMA IdleType == Idle \in ReqType /\ \A rows : Known(Idle, rows)
<1>1. 0 \in 0..(MaxAttempts - 1)
  BY AttemptsAssumption
<1>2. Idle \in ReqType
  BY <1>1 DEF Idle, ReqType, Awaits, Kinds
<1>3. Idle.at = "idle" /\ Idle.kind = "create"
  BY DEF Idle
<1> QED
  BY <1>2, <1>3 DEF Known

\* What a row is.
LEMMA RowIs ==
  ASSUME TypeOK, NEW i \in Stored
  PROVE  i \in Ids /\ session[i] \in Rows /\ session[i] # None
  BY DEF TypeOK, Stored

\* Where one request goes on and the rows stay.
LEMMA Moves ==
  ASSUME TypeOK, RequestsKnown, NEW r \in Reqs, NEW q \in ReqType, Becomes(r, q),
         Known(q, session), UNCHANGED <<session, stale>>
  PROVE  TypeOK' /\ RequestsKnown'
<1>1. req' \in [Reqs -> ReqType] /\ \A s \in Reqs : req'[s] = IF s = r THEN q ELSE req[s]
  BY DEF Becomes, TypeOK
<1>2. Stored' = Stored
  BY DEF Stored
<1>3. TypeOK'
  BY <1>1, <1>2 DEF TypeOK
<1>4. \A s \in Reqs : Known(req'[s], session')
  BY <1>1, KnownIs
<1> QED
  BY <1>3, <1>4, KnownIs DEF RequestsKnown, Known, Stored

\* Each step other than a new request and a write moves one request to q, with
\* what q then is.
LEMMA ReadStep ==
  ASSUME TypeOK, RequestsKnown, NEW r \in Reqs,
         GetSession(r) \/ FindName(r) \/ DrawCode(r) \/ Enrol(r) \/ Fail(r)
  PROVE  /\ UNCHANGED <<session, stale>>
         /\ \E q \in ReqType :
              /\ Becomes(r, q) /\ Known(q, session)
              /\ \/ q = Idle
                 \/ q.at \in {"name", "remove"}
                 \/ /\ q.at \in {"code", "update"} /\ req[r].at = "name"
                    /\ \/ Homonyms(q.user, q.name) = {}
                       \/ q.at = "update" /\ session[q.id].name = q.name
                 \/ /\ q.at = "code" /\ req[r].at = "code" /\ q.fresh = req[r].fresh
                    /\ q.user = req[r].user /\ q.name = req[r].name
                 \/ /\ q.at = "insert" /\ req[r].at = "code" /\ q.fresh = req[r].fresh
                    /\ q.user = req[r].user /\ q.name = req[r].name
                    /\ FindByInviteCode(q.code) = {}
<1> DEFINE Good(q) ==
              /\ Becomes(r, q) /\ Known(q, session)
              /\ \/ q = Idle
                 \/ q.at \in {"name", "remove"}
                 \/ /\ q.at \in {"code", "update"} /\ req[r].at = "name"
                    /\ \/ Homonyms(q.user, q.name) = {}
                       \/ q.at = "update" /\ session[q.id].name = q.name
                 \/ /\ q.at = "code" /\ req[r].at = "code" /\ q.fresh = req[r].fresh
                    /\ q.user = req[r].user /\ q.name = req[r].name
                 \/ /\ q.at = "insert" /\ req[r].at = "code" /\ q.fresh = req[r].fresh
                    /\ q.user = req[r].user /\ q.name = req[r].name
                    /\ FindByInviteCode(q.code) = {}
<1> SUFFICES \E q \in ReqType : Good(q)
  BY DEF GetSession, FindName, DrawCode, Enrol, Fail
<1>0. req[r] \in ReqType /\ Known(req[r], session)
  BY KnownIs DEF TypeOK
<1>1. ASSUME Becomes(r, Idle) PROVE \E q \in ReqType : Good(q)
  BY <1>1, IdleType
<1>2. CASE GetSession(r)
  <2> DEFINE p == IF req[r].kind = "rename" THEN "name" ELSE "remove"
             q == [req[r] EXCEPT !.at = p]
  <2>1. q \in ReqType /\ q.at = p /\ q.user = req[r].user /\ q.name = req[r].name
        /\ q.kind = req[r].kind /\ q.id = req[r].id /\ p \in {"name", "remove"}
    BY <1>0 DEF ReqType, Awaits
  <2>2. CASE Becomes(r, q) /\ session[req[r].id].owner = req[r].user /\ req[r].at = "session"
    <3>1. q.kind = "rename" => q.name \in Names
      BY <1>0, <2>1, <2>2 DEF Known, ReqType
    <3>2. Known(q, session)
      BY <1>0, <2>1, <2>2, <3>1 DEF Known
    <3> HIDE DEF q
    <3> QED
      BY <2>1, <2>2, <3>2
  <2>3. Becomes(r, Idle) \/ (Becomes(r, q) /\ session[req[r].id].owner = req[r].user /\ req[r].at = "session")
    BY <1>2 DEF GetSession, Goto, Done
  <2> QED
    BY <1>1, <2>2, <2>3
<1>3. CASE FindName(r)
  <2> DEFINE p == IF req[r].kind = "create" THEN "code" ELSE "update"
             q == [req[r] EXCEPT !.at = p, !.fresh = TRUE]
  <2>1. q \in ReqType /\ q.user = req[r].user /\ q.name = req[r].name
        /\ q.kind = req[r].kind /\ q.id = req[r].id /\ q.at = p /\ req[r].at = "name"
    BY <1>0, <1>3 DEF FindName, ReqType, Awaits
  <2>2. p \in {"code", "update"}
    OBVIOUS
  <2>3. \/ Becomes(r, Idle)
        \/ Homonyms(req[r].user, req[r].name) = {} /\ Becomes(r, q)
        \/ req[r].id \in Homonyms(req[r].user, req[r].name) /\ Becomes(r, q)
    BY <1>3 DEF FindName
  <2>4. Known(q, session)
    BY <1>0, <2>1 DEF Known
  <2>5. req[r].kind = "create" => req[r].id \notin Homonyms(req[r].user, req[r].name)
    BY <1>0, <2>1, CatalogNoneAssumption DEF Known, Homonyms, Active, Stored
  <2>6. req[r].id \in Homonyms(req[r].user, req[r].name) => session[q.id].name = q.name
    BY <2>1 DEF Homonyms
  <2> HIDE DEF q
  <2> QED
    BY <1>1, <2>1, <2>2, <2>3, <2>4, <2>5, <2>6
<1>4. CASE DrawCode(r)
  <2>0. req[r].at = "code" /\ req[r].attempt \in 0..(MaxAttempts - 1) /\ 0 \in 0..(MaxAttempts - 1)
    <3>1. req[r].at = "code"
      BY <1>4 DEF DrawCode
    <3>2. req[r].attempt \in 0..(MaxAttempts - 1)
      BY <1>0 DEF ReqType
    <3> QED
      BY <3>1, <3>2, AttemptsAssumption
  <2>1. PICK c \in Codes :
          \/ /\ FindByInviteCode(c) = {}
             /\ Becomes(r, [req[r] EXCEPT !.at = "insert", !.attempt = 0, !.code = c, !.codeFresh = TRUE])
          \/ /\ req[r].attempt + 1 < MaxAttempts
             /\ Becomes(r, [req[r] EXCEPT !.attempt = @ + 1])
          \/ Becomes(r, Idle)
    BY <1>4 DEF DrawCode
  <2>2. CASE /\ FindByInviteCode(c) = {}
             /\ Becomes(r, [req[r] EXCEPT !.at = "insert", !.attempt = 0, !.code = c, !.codeFresh = TRUE])
    <3> DEFINE q == [req[r] EXCEPT !.at = "insert", !.attempt = 0, !.code = c, !.codeFresh = TRUE]
    <3>1. /\ q \in ReqType /\ q.at = "insert" /\ q.fresh = req[r].fresh /\ q.user = req[r].user
          /\ q.name = req[r].name /\ q.kind = req[r].kind /\ q.id = req[r].id /\ q.code = c
      BY <1>0, <2>0 DEF ReqType, Awaits
    <3>2. Known(q, session)
      BY <1>0, <2>0, <3>1 DEF Known
    <3> HIDE DEF q
    <3> QED
      BY <2>0, <2>2, <3>1, <3>2 DEF q
  <2>3. CASE /\ req[r].attempt + 1 < MaxAttempts
             /\ Becomes(r, [req[r] EXCEPT !.attempt = @ + 1])
    <3> DEFINE q == [req[r] EXCEPT !.attempt = @ + 1]
    <3>1. req[r].attempt + 1 \in 0..(MaxAttempts - 1)
      BY <2>0, <2>3, AttemptsAssumption
    <3>2. /\ q \in ReqType /\ q.at = "code" /\ q.fresh = req[r].fresh /\ q.user = req[r].user
          /\ q.name = req[r].name /\ q.kind = req[r].kind /\ q.id = req[r].id
      BY <1>0, <2>0, <3>1 DEF ReqType
    <3>3. Known(q, session)
      BY <1>0, <2>0, <3>2 DEF Known
    <3> HIDE DEF q
    <3> QED
      BY <2>0, <2>3, <3>2, <3>3 DEF q
  <2> QED
    BY <1>1, <2>1, <2>2, <2>3
<1>5. CASE Enrol(r) \/ Fail(r)
  BY <1>1, <1>5 DEF Enrol, Fail, Done
<1> QED
  BY <1>2, <1>3, <1>4, <1>5

\* A new request has its type and what it needs.
LEMMA RequestIs ==
  ASSUME TypeOK, NEW r \in Reqs, NEW u \in Users, Request(r, u)
  PROVE  /\ UNCHANGED <<session, stale>>
         /\ \E q \in ReqType :
              Becomes(r, q) /\ Known(q, session) /\ q.at \in {"name", "session"} /\ ~q.fresh
<1>0. UNCHANGED <<session, stale>>
  BY DEF Request
<1>1. CASE \E n \in Names : Becomes(r, [Idle EXCEPT !.at = "name", !.user = u, !.name = n])
  <2>1. PICK n \in Names : Becomes(r, [Idle EXCEPT !.at = "name", !.user = u, !.name = n])
    BY <1>1
  <2> DEFINE q == [Idle EXCEPT !.at = "name", !.user = u, !.name = n]
  <2>2. /\ q \in ReqType /\ q.at = "name" /\ q.kind = "create" /\ q.user = u /\ q.name = n
        /\ q.id = None /\ q.fresh = FALSE
    BY IdleType DEF Idle, ReqType, Awaits
  <2> HIDE DEF q
  <2>3. Known(q, session)
    BY <2>2 DEF Known
  <2> QED
    BY <1>0, <2>1, <2>2, <2>3 DEF q
<1>2. CASE \E n \in Names, i \in Stored :
             Becomes(r, [Idle EXCEPT !.at = "session", !.kind = "rename", !.user = u,
                                     !.name = n, !.id = i])
  <2>1. PICK n \in Names, i \in Stored :
          Becomes(r, [Idle EXCEPT !.at = "session", !.kind = "rename", !.user = u,
                                  !.name = n, !.id = i])
    BY <1>2
  <2> DEFINE q == [Idle EXCEPT !.at = "session", !.kind = "rename", !.user = u,
                               !.name = n, !.id = i]
  <2>2. /\ q \in ReqType /\ q.at = "session" /\ q.kind = "rename" /\ q.user = u /\ q.name = n
        /\ q.id = i /\ q.fresh = FALSE
    BY IdleType, RowIs DEF Idle, ReqType, Awaits, Kinds
  <2> HIDE DEF q
  <2>3. Known(q, session)
    BY <2>2, RowIs DEF Known
  <2> QED
    BY <1>0, <2>1, <2>2, <2>3 DEF q
<1>3. CASE \E i \in Stored :
             Becomes(r, [Idle EXCEPT !.at = "session", !.kind = "delete", !.user = u, !.id = i])
  <2>1. PICK i \in Stored :
          Becomes(r, [Idle EXCEPT !.at = "session", !.kind = "delete", !.user = u, !.id = i])
    BY <1>3
  <2> DEFINE q == [Idle EXCEPT !.at = "session", !.kind = "delete", !.user = u, !.id = i]
  <2>2. /\ q \in ReqType /\ q.at = "session" /\ q.kind = "delete" /\ q.user = u
        /\ q.id = i /\ q.fresh = FALSE
    BY IdleType, RowIs DEF Idle, ReqType, Awaits, Kinds
  <2> HIDE DEF q
  <2>3. Known(q, session)
    BY <2>2, RowIs DEF Known
  <2> QED
    BY <1>0, <2>1, <2>2, <2>3 DEF q
<1> QED
  BY <1>1, <1>2, <1>3 DEF Request

\* Outdate leaves the other requests as they were, but for the two histories.
LEMMA OutdateIs ==
  ASSUME TypeOK, NEW r \in Reqs, NEW q \in ReqType, NEW created \in BOOLEAN, Outdate(r, q, created)
  PROVE  /\ req' \in [Reqs -> ReqType] /\ req'[r] = q
         /\ \A s \in Reqs \ {r} :
              /\ ~req'[s].fresh /\ req'[s].codeFresh = (req[s].codeFresh /\ ~created)
              /\ req'[s].at = req[s].at /\ req'[s].kind = req[s].kind
              /\ req'[s].user = req[s].user /\ req'[s].name = req[s].name
              /\ req'[s].id = req[s].id /\ req'[s].code = req[s].code
<1> DEFINE cf(s) == req[s].codeFresh /\ ~created
<1>1. \A s \in Reqs : req[s] \in ReqType /\ cf(s) \in BOOLEAN
  BY DEF TypeOK, ReqType
<1>2. \A s \in Reqs : req'[s] = IF s = r THEN q ELSE [req[s] EXCEPT !.fresh = FALSE, !.codeFresh = cf(s)]
  BY <1>1 DEF Outdate, ReqType
<1> HIDE DEF cf
<1>3. \A s \in Reqs : [req[s] EXCEPT !.fresh = FALSE, !.codeFresh = cf(s)] \in ReqType
  BY <1>1 DEF ReqType
<1>4. req' \in [Reqs -> ReqType]
  BY <1>2, <1>3 DEF Outdate
<1>5. \A s \in Reqs \ {r} :
        /\ ~req'[s].fresh /\ req'[s].codeFresh = cf(s)
        /\ req'[s].at = req[s].at /\ req'[s].kind = req[s].kind
        /\ req'[s].user = req[s].user /\ req'[s].name = req[s].name
        /\ req'[s].id = req[s].id /\ req'[s].code = req[s].code
  BY <1>1, <1>2 DEF ReqType
<1> QED
  BY <1>2, <1>4, <1>5 DEF cf

\* What the three writes do to the rows: a new row, a new name, or inactive.
LEMMA WriteIs ==
  ASSUME TypeOK, RequestsKnown, NEW r \in Reqs
  PROVE  /\ Insert(r) =>
              \/ Becomes(r, Idle) /\ UNCHANGED <<session, stale>>
              \/ \E i \in Ids \ Stored :
                   LET row == [name |-> req[r].name, code |-> req[r].code,
                               owner |-> req[r].user, active |-> TRUE]
                       q == [Idle EXCEPT !.at = "enrol", !.user = req[r].user, !.id = i]
                   IN  /\ row \in Rows /\ q \in ReqType /\ q.kind = "create" /\ q.at = "enrol"
                       /\ q.user \in Users
                       /\ ~CodeTaken(req[r].code) /\ Outdate(r, q, TRUE)
                       /\ session'[i] = row /\ \A j \in Ids \ {i} : session'[j] = session[j]
                       /\ stale' = IF req[r].fresh THEN stale ELSE stale \cup {i}
         /\ UpdateName(r) =>
              /\ req[r].id \in Stored /\ req[r].kind = "rename"
              /\ session[req[r].id].owner = req[r].user /\ req[r].name \in Names
              /\ session'[req[r].id] = [session[req[r].id] EXCEPT !.name = req[r].name]
              /\ \A j \in Ids \ {req[r].id} : session'[j] = session[j]
         /\ Remove(r) =>
              /\ req[r].id \in Stored /\ req[r].kind \in {"rename", "delete"}
              /\ session[req[r].id].owner = req[r].user
              /\ session'[req[r].id] = [session[req[r].id] EXCEPT !.active = FALSE]
              /\ \A j \in Ids \ {req[r].id} : session'[j] = session[j]
<1>0. req[r] \in ReqType /\ Known(req[r], session)
  BY KnownIs DEF TypeOK
<1>1. ASSUME Insert(r)
      PROVE  \/ Becomes(r, Idle) /\ UNCHANGED <<session, stale>>
             \/ \E i \in Ids \ Stored :
                   LET row == [name |-> req[r].name, code |-> req[r].code,
                               owner |-> req[r].user, active |-> TRUE]
                       q == [Idle EXCEPT !.at = "enrol", !.user = req[r].user, !.id = i]
                   IN  /\ row \in Rows /\ q \in ReqType /\ q.kind = "create" /\ q.at = "enrol"
                       /\ q.user \in Users
                       /\ ~CodeTaken(req[r].code) /\ Outdate(r, q, TRUE)
                       /\ session'[i] = row /\ \A j \in Ids \ {i} : session'[j] = session[j]
                       /\ stale' = IF req[r].fresh THEN stale ELSE stale \cup {i}
  <2>1. CASE CodeTaken(req[r].code)
    BY <1>1, <2>1 DEF Insert, Done
  <2>2. CASE ~CodeTaken(req[r].code)
    <3> DEFINE row == [name |-> req[r].name, code |-> req[r].code,
                       owner |-> req[r].user, active |-> TRUE]
               q(i) == [Idle EXCEPT !.at = "enrol", !.user = req[r].user, !.id = i]
    <3>1. PICK i \in Ids \ Stored :
            /\ session' = [session EXCEPT ![i] = row]
            /\ stale' = IF req[r].fresh THEN stale ELSE stale \cup {i}
            /\ Outdate(r, q(i), TRUE)
      BY <1>1, <2>2 DEF Insert
    <3>2. req[r].name \in Names /\ req[r].code \in Codes /\ req[r].user \in Users
      BY <1>0, <1>1 DEF Known, Insert
    <3>3. row \in Rows
      BY <3>2 DEF Rows
    <3>4. q(i) \in ReqType
      BY <3>2, IdleType DEF ReqType, Awaits
    <3>5. q(i).kind = "create" /\ q(i).at = "enrol" /\ q(i).user \in Users
      BY <3>2 DEF Idle
    <3>6. session'[i] = row /\ \A j \in Ids \ {i} : session'[j] = session[j]
      BY <3>1 DEF TypeOK
    <3> QED
      BY <2>2, <3>1, <3>3, <3>4, <3>5, <3>6
  <2> QED
    BY <2>1, <2>2
<1>2. ASSUME UpdateName(r)
      PROVE  /\ req[r].id \in Stored /\ req[r].kind = "rename"
             /\ session[req[r].id].owner = req[r].user /\ req[r].name \in Names
             /\ session'[req[r].id] = [session[req[r].id] EXCEPT !.name = req[r].name]
             /\ \A j \in Ids \ {req[r].id} : session'[j] = session[j]
  BY <1>0, <1>2 DEF UpdateName, Known, Stored, TypeOK
<1>3. ASSUME Remove(r)
      PROVE  /\ req[r].id \in Stored /\ req[r].kind \in {"rename", "delete"}
             /\ session[req[r].id].owner = req[r].user
             /\ session'[req[r].id] = [session[req[r].id] EXCEPT !.active = FALSE]
             /\ \A j \in Ids \ {req[r].id} : session'[j] = session[j]
  BY <1>0, <1>3 DEF Remove, Known, Stored, TypeOK
<1> QED
  BY <1>1, <1>2, <1>3

-----------------------------------------------------------------------------
\* The initial states have the types, and no request needs anything.
LEMMA InitType == Init => TypeOK /\ RequestsKnown
<1> SUFFICES ASSUME Init PROVE TypeOK /\ RequestsKnown
  OBVIOUS
<1>1. TypeOK
  BY IdleType DEF Init, TypeOK, Stored
<1>2. \A r \in Reqs : Known(req[r], session)
  BY IdleType DEF Init
<1> QED
  BY <1>1, <1>2, KnownIs

\* A write that keeps the rows, their owners and what q needs keeps the types and
\* what all the requests need.
LEMMA WriteKnown ==
  ASSUME TypeOK, RequestsKnown, NEW r \in Reqs, NEW q \in ReqType,
         session' \in [Ids -> Rows \cup {None}],
         \A i \in Stored : session'[i] # None /\ session'[i].owner = session[i].owner,
         req' \in [Reqs -> ReqType], req'[r] = q, Known(q, session'),
         \A s \in Reqs \ {r} :
           /\ req'[s].at = req[s].at /\ req'[s].kind = req[s].kind
           /\ req'[s].user = req[s].user /\ req'[s].name = req[s].name
           /\ req'[s].id = req[s].id /\ req'[s].code = req[s].code,
         stale' \in SUBSET (Stored')
  PROVE  TypeOK' /\ RequestsKnown'
<1>1. TypeOK'
  BY DEF TypeOK
<1>2. \A s \in Reqs \ {r} : Known(req'[s], session')
  <2> SUFFICES ASSUME NEW s \in Reqs \ {r} PROVE Known(req'[s], session')
    OBVIOUS
  <2>1. Known(req[s], session)
    BY KnownIs
  <2>2. req[s].id \in Stored => session'[req[s].id] # None /\ session'[req[s].id].owner = session[req[s].id].owner
    OBVIOUS
  <2>3. req[s].at # "idle" /\ req[s].kind # "create" => req[s].id \in Stored
    BY <2>1 DEF Known, Stored
  <2>4. req[s].at \in {"name", "update", "remove"} => req[s].at # "idle"
    OBVIOUS
  <2> QED
    BY <2>1, <2>2, <2>3, <2>4 DEF Known
<1>3. \A s \in Reqs : Known(req'[s], session')
  BY <1>2
<1> QED
  BY <1>1, <1>3 DEF RequestsKnown, Known, Stored

\* Every step keeps the types and what the requests need.
LEMMA StepType == TypeOK /\ RequestsKnown /\ [Next]_vars => TypeOK' /\ RequestsKnown'
<1> SUFFICES ASSUME TypeOK, RequestsKnown, [Next]_vars PROVE TypeOK' /\ RequestsKnown'
  OBVIOUS
<1>0. \A i \in Stored : i \in Ids /\ session[i] \in Rows /\ session[i] # None
  BY RowIs
<1>1. ASSUME NEW r \in Reqs, NEW u \in Users, Request(r, u) PROVE TypeOK' /\ RequestsKnown'
  BY <1>1, RequestIs, Moves
<1>2. ASSUME NEW r \in Reqs, GetSession(r) \/ FindName(r) \/ DrawCode(r) \/ Enrol(r) \/ Fail(r)
      PROVE  TypeOK' /\ RequestsKnown'
  <2>1. /\ UNCHANGED <<session, stale>>
        /\ \E q \in ReqType : Becomes(r, q) /\ Known(q, session)
    BY <1>2, ReadStep
  <2> QED
    BY <2>1, Moves
<1>3. ASSUME NEW r \in Reqs, Insert(r) PROVE TypeOK' /\ RequestsKnown'
  <2>1. CASE Becomes(r, Idle) /\ UNCHANGED <<session, stale>>
    BY <2>1, IdleType, Moves
  <2>2. CASE ~(Becomes(r, Idle) /\ UNCHANGED <<session, stale>>)
    <3> DEFINE row == [name |-> req[r].name, code |-> req[r].code,
                       owner |-> req[r].user, active |-> TRUE]
               q(i) == [Idle EXCEPT !.at = "enrol", !.user = req[r].user, !.id = i]
    <3>1. PICK i \in Ids \ Stored :
            /\ row \in Rows /\ q(i) \in ReqType /\ q(i).kind = "create" /\ q(i).at = "enrol"
            /\ q(i).user \in Users
            /\ Outdate(r, q(i), TRUE)
            /\ session'[i] = row /\ \A j \in Ids \ {i} : session'[j] = session[j]
            /\ stale' = IF req[r].fresh THEN stale ELSE stale \cup {i}
      BY <1>3, <2>2, WriteIs
    <3> HIDE DEF row, q
    <3>2. session' \in [Ids -> Rows \cup {None}]
      <4>1. session' = [session EXCEPT ![i] = session'[i]]
        BY <1>3, <2>2, <3>1 DEF Insert, Done, TypeOK
      <4> QED
        BY <3>1, <4>1 DEF TypeOK
    <3>3. \A j \in Stored : session'[j] # None /\ session'[j].owner = session[j].owner
      BY <1>0, <3>1
    <3>4. stale' \in SUBSET (Stored')
      BY <1>0, <3>1, RowNoneAssumption DEF Stored, TypeOK
    <3>5. Known(q(i), session')
      BY <3>1 DEF Known
    <3>6. /\ req' \in [Reqs -> ReqType] /\ req'[r] = q(i)
          /\ \A s \in Reqs \ {r} :
               /\ req'[s].at = req[s].at /\ req'[s].kind = req[s].kind
               /\ req'[s].user = req[s].user /\ req'[s].name = req[s].name
               /\ req'[s].id = req[s].id /\ req'[s].code = req[s].code
      BY <3>1, OutdateIs
    <3> QED
      BY <3>1, <3>2, <3>3, <3>4, <3>5, <3>6, WriteKnown
  <2> QED
    BY <2>1, <2>2
<1>4. ASSUME NEW r \in Reqs, UpdateName(r) PROVE TypeOK' /\ RequestsKnown'
  <2> DEFINE i == req[r].id
             row == [session[i] EXCEPT !.name = req[r].name]
  <2>1. /\ i \in Stored /\ req[r].name \in Names
        /\ session'[i] = row /\ \A j \in Ids \ {i} : session'[j] = session[j]
    BY <1>4, WriteIs
  <2>2. i \in Ids /\ row \in Rows /\ row.owner = session[i].owner
    BY <1>0, <2>1 DEF Rows
  <2>3. session' = [session EXCEPT ![i] = row]
    BY <1>4, <2>1, <2>2 DEF UpdateName, TypeOK
  <2> HIDE DEF row
  <2>4. session' \in [Ids -> Rows \cup {None}]
    BY <2>2, <2>3 DEF TypeOK
  <2>5. \A j \in Stored : session'[j] # None /\ session'[j].owner = session[j].owner
    BY <1>0, <2>1, <2>2, RowNoneAssumption
  <2>6. stale' \in SUBSET (Stored')
    <3>1. stale' \subseteq stale \cup {i}
      BY <1>4 DEF UpdateName
    <3>2. Stored \subseteq Stored'
      BY <1>0, <2>5 DEF Stored
    <3> QED
      BY <2>1, <3>1, <3>2 DEF TypeOK
  <2>7. /\ req' \in [Reqs -> ReqType] /\ req'[r] = Idle
        /\ \A s \in Reqs \ {r} :
             /\ req'[s].at = req[s].at /\ req'[s].kind = req[s].kind
             /\ req'[s].user = req[s].user /\ req'[s].name = req[s].name
             /\ req'[s].id = req[s].id /\ req'[s].code = req[s].code
    BY <1>4, IdleType, OutdateIs DEF UpdateName
  <2> QED
    BY <2>4, <2>5, <2>6, <2>7, IdleType, WriteKnown
<1>5. ASSUME NEW r \in Reqs, Remove(r) PROVE TypeOK' /\ RequestsKnown'
  <2> DEFINE i == req[r].id
             row == [session[i] EXCEPT !.active = FALSE]
  <2>1. /\ i \in Stored
        /\ session'[i] = row /\ \A j \in Ids \ {i} : session'[j] = session[j]
    BY <1>5, WriteIs
  <2>2. i \in Ids /\ row \in Rows /\ row.owner = session[i].owner
    BY <1>0, <2>1 DEF Rows
  <2>3. session' = [session EXCEPT ![i] = row]
    BY <1>5, <2>1, <2>2 DEF Remove, TypeOK
  <2> HIDE DEF row
  <2>4. session' \in [Ids -> Rows \cup {None}]
    BY <2>2, <2>3 DEF TypeOK
  <2>5. \A j \in Stored : session'[j] # None /\ session'[j].owner = session[j].owner
    BY <1>0, <2>1, <2>2, RowNoneAssumption
  <2>6. stale' \in SUBSET (Stored')
    BY <1>0, <1>5, <2>5 DEF Remove, Stored, TypeOK
  <2>7. req' \in [Reqs -> ReqType] /\ req'[r] = Idle /\ \A s \in Reqs \ {r} : req'[s] = req[s]
    BY <1>5, IdleType DEF Remove, Done, Becomes, TypeOK
  <2> QED
    BY <2>4, <2>5, <2>6, <2>7, IdleType, WriteKnown
<1>6. CASE UNCHANGED vars
  BY <1>6 DEF vars, TypeOK, RequestsKnown, Stored
<1> QED
  BY <1>1, <1>2, <1>3, <1>4, <1>5, <1>6 DEF Next, Step

\* The rows and the requests keep their types; the attempts stay below the
\* maximum.
THEOREM TypeCorrect == Spec => []TypeOK
<1>1. TypeOK /\ RequestsKnown /\ [Next]_vars => TypeOK' /\ RequestsKnown'
  BY StepType
<1> QED
  BY <1>1, InitType, PTL DEF Spec

\* A request past its checks is the owner's and has what it needs, at all times.
LEMMA KnownAlways == Spec => [](TypeOK /\ RequestsKnown)
<1>1. TypeOK /\ RequestsKnown /\ [Next]_vars => TypeOK' /\ RequestsKnown'
  BY StepType
<1> QED
  BY <1>1, InitType, PTL DEF Spec

-----------------------------------------------------------------------------
\* What becomes of a session is its owner's doing, and a deleted one stays deleted,
\* however the requests interleave.
THEOREM OwnerDecidesAlways == Spec => OwnerDecides
<1> DEFINE Decided(i) == session'[i] # session[i] =>
             /\ session'[i] # None
             /\ session'[i].code = session[i].code /\ session'[i].owner = session[i].owner
             /\ session'[i].active => session[i].active
             /\ \E r \in Reqs : /\ req[r].id = i /\ req[r].user = session[i].owner
                                /\ req[r].kind \in {"rename", "delete"} /\ req'[r] = Idle
<1>1. TypeOK /\ RequestsKnown /\ [Next]_vars => [\A i \in Stored : Decided(i)]_vars
  <2> SUFFICES ASSUME TypeOK, RequestsKnown, Next, NEW i \in Stored, session'[i] # session[i]
               PROVE  Decided(i)
    BY DEF vars
  <2>0. i \in Ids /\ session[i] \in Rows
    BY RowIs
  <2>1. PICK r \in Reqs : Insert(r) \/ UpdateName(r) \/ Remove(r)
    BY DEF Next, Step, Request, GetSession, FindName, DrawCode, Enrol, Fail
  <2>2. CASE Insert(r)
    BY <2>0, <2>2, WriteIs
  <2>3. CASE UpdateName(r)
    <3>1. /\ req[r].id = i /\ req[r].kind = "rename" /\ session[i].owner = req[r].user
          /\ session'[i] = [session[i] EXCEPT !.name = req[r].name] /\ req[r].name \in Names
      BY <2>0, <2>3, WriteIs
    <3>2. session'[i] \in Rows /\ session'[i].code = session[i].code
          /\ session'[i].owner = session[i].owner /\ session'[i].active = session[i].active
      BY <2>0, <3>1 DEF Rows
    <3>3. req'[r] = Idle
      BY <2>3, IdleType, OutdateIs DEF UpdateName
    <3> QED
      BY <3>1, <3>2, <3>3, RowNoneAssumption
  <2>4. CASE Remove(r)
    <3>1. /\ req[r].id = i /\ req[r].kind \in {"rename", "delete"} /\ session[i].owner = req[r].user
          /\ session'[i] = [session[i] EXCEPT !.active = FALSE]
      BY <2>0, <2>4, WriteIs
    <3>2. session'[i] \in Rows /\ session'[i].code = session[i].code
          /\ session'[i].owner = session[i].owner /\ session'[i].active = FALSE
      BY <2>0, <3>1 DEF Rows
    <3>3. req'[r] = Idle
      BY <2>4, IdleType DEF Remove, Done, Becomes, TypeOK
    <3> QED
      BY <3>1, <3>2, <3>3, RowNoneAssumption
  <2> QED
    BY <2>1, <2>2, <2>3, <2>4
<1> QED
  BY <1>1, KnownAlways, PTL DEF Spec, OwnerDecides

-----------------------------------------------------------------------------
\* Only an insert stores a code, and the code that is stored is the inserted one.
LEMMA CodesStep ==
  ASSUME TypeOK, RequestsKnown, [Next]_vars, ~\E r \in Reqs : Insert(r)
  PROVE  Stored' = Stored /\ \A i \in Stored : session'[i].code = session[i].code
<1>0. \A i \in Stored : i \in Ids /\ session[i] \in Rows
  BY RowIs
<1>1. CASE \E r \in Reqs : UpdateName(r) \/ Remove(r)
  <2>1. PICK r \in Reqs, i \in Stored :
          /\ \A j \in Ids \ {i} : session'[j] = session[j]
          /\ \/ /\ req[r].name \in Names
                /\ session'[i] = [session[i] EXCEPT !.name = req[r].name]
             \/ session'[i] = [session[i] EXCEPT !.active = FALSE]
    BY <1>1, WriteIs
  <2>2. session'[i] \in Rows /\ session'[i].code = session[i].code
    BY <1>0, <2>1 DEF Rows
  <2> QED
    BY <1>0, <2>1, <2>2, RowNoneAssumption DEF Stored
<1>2. CASE UNCHANGED session
  BY <1>2 DEF Stored
<1> QED
  BY <1>1, <1>2
     DEF Next, Step, Request, GetSession, FindName, DrawCode, Enrol, Fail, vars

\* A create is refused by the unique index only after a race.
THEOREM ClashIsRaceAlways == Spec => []ClashIsRace
<1>1. Init => ClashIsRace
  BY DEF Init, ClashIsRace, Idle
<1>2. TypeOK /\ RequestsKnown /\ ClashIsRace /\ [Next]_vars => ClashIsRace'
  <2> SUFFICES ASSUME TypeOK, RequestsKnown, ClashIsRace, [Next]_vars, NEW d \in Reqs,
                      req'[d].at = "insert", (CodeTaken(req[d].code))' , req'[d].codeFresh
               PROVE  FALSE
    BY DEF ClashIsRace
  <2>0. Idle.at = "idle"
    BY DEF Idle
  <2>1. CASE \E r \in Reqs : Insert(r)
    <3>1. PICK r \in Reqs : Insert(r)
      BY <2>1
    <3>2. CASE Becomes(r, Idle) /\ UNCHANGED <<session, stale>>
      <4>1. d # r /\ req'[d] = req[d]
        BY <2>0, <3>2 DEF Becomes, TypeOK
      <4>2. CodeTaken(req[d].code)
        BY <3>2, <4>1 DEF CodeTaken, Stored
      <4> QED
        BY <4>1, <4>2 DEF ClashIsRace
    <3>3. CASE \E q \in ReqType : Outdate(r, q, TRUE) /\ q.at = "enrol"
      <4>1. PICK q \in ReqType : Outdate(r, q, TRUE) /\ q.at = "enrol"
        BY <3>3
      <4>2. req'[r] = q
        BY <4>1 DEF Outdate
      <4>3. d # r
        BY <4>1, <4>2
      <4>4. req'[d] = [req[d] EXCEPT !.fresh = FALSE, !.codeFresh = FALSE]
        BY <4>1, <4>3 DEF Outdate
      <4>5. req[d] \in ReqType
        BY DEF TypeOK
      <4> QED
        BY <4>4, <4>5 DEF ReqType
    <3> QED
      BY <3>1, <3>2, <3>3, WriteIs
  <2>2. CASE ~\E r \in Reqs : Insert(r)
    <3>1. \A c : CodeTaken(c)' <=> CodeTaken(c)
      BY <2>2, CodesStep DEF CodeTaken
    <3>2. ~(req'[d].code = req[d].code /\ req[d].at = "insert" /\ req[d].codeFresh)
      BY <3>1 DEF ClashIsRace, CodeTaken
    <3>3. FindByInviteCode(req'[d].code) # {}
      BY <3>1 DEF FindByInviteCode, CodeTaken
    <3>4. ASSUME NEW r \in Reqs, NEW q \in ReqType, Becomes(r, q),
                 q.at = "insert" => FindByInviteCode(q.code) = {}
          PROVE  FALSE
      BY <3>2, <3>3, <3>4 DEF Becomes, TypeOK
    <3>5. ASSUME NEW r \in Reqs, NEW u \in Users, Request(r, u) PROVE FALSE
      BY <3>4, <3>5, RequestIs
    <3>6. ASSUME NEW r \in Reqs,
                 GetSession(r) \/ FindName(r) \/ DrawCode(r) \/ Enrol(r) \/ Fail(r)
          PROVE  FALSE
      BY <2>0, <3>4, <3>6, ReadStep
    <3>7. ASSUME NEW r \in Reqs, UpdateName(r) PROVE FALSE
      BY <2>0, <3>2, <3>7, IdleType, OutdateIs DEF UpdateName
    <3>8. ASSUME NEW r \in Reqs, Remove(r) PROVE FALSE
      BY <2>0, <3>4, <3>8, IdleType DEF Remove, Done
    <3>9. CASE UNCHANGED vars
      BY <3>2, <3>9 DEF vars
    <3> QED
      BY <2>2, <3>5, <3>6, <3>7, <3>8, <3>9 DEF Next, Step
  <2> QED
    BY <2>1, <2>2
<1> QED
  BY <1>1, <1>2, KnownAlways, PTL DEF Spec

-----------------------------------------------------------------------------
\* What LookupIsTrue says of one request.
LookedUp(q) ==
  q.fresh =>
    /\ q.at \in {"code", "insert"} => Homonyms(q.user, q.name) = {}
    /\ q.at = "update" => \/ Homonyms(q.user, q.name) = {}
                          \/ session[q.id].name = q.name

\* Whoever reads finds what is there; whoever writes a name outdates the others;
\* a deletion only makes names free.
LEMMA StepLookup == TypeOK /\ RequestsKnown /\ LookupIsTrue /\ [Next]_vars => LookupIsTrue'
<1> SUFFICES ASSUME TypeOK, RequestsKnown, LookupIsTrue, [Next]_vars PROVE LookupIsTrue'
  OBVIOUS
<1>0. /\ \A r \in Reqs : LookedUp(req[r])
      /\ LookupIsTrue' <=> \A r \in Reqs : LookedUp(req[r])'
  BY DEF LookupIsTrue, LookedUp
<1>00. Idle.at = "idle" /\ Idle.fresh = FALSE
  BY DEF Idle
<1>1. ASSUME NEW r \in Reqs, NEW q \in ReqType, Becomes(r, q), UNCHANGED session, LookedUp(q)
      PROVE  LookupIsTrue'
  BY <1>1 DEF Becomes, TypeOK, LookupIsTrue, LookedUp, Homonyms, Active, Stored
<1>2. ASSUME NEW r \in Reqs, NEW u \in Users, Request(r, u) PROVE LookupIsTrue'
  <2>1. /\ UNCHANGED <<session, stale>>
        /\ \E q \in ReqType : Becomes(r, q) /\ ~q.fresh
    BY <1>2, RequestIs
  <2> QED
    BY <1>1, <2>1 DEF LookedUp
<1>3. ASSUME NEW r \in Reqs, GetSession(r) \/ FindName(r) \/ DrawCode(r) \/ Enrol(r) \/ Fail(r)
      PROVE  LookupIsTrue'
  <2>1. PICK q \in ReqType :
              /\ Becomes(r, q)
              /\ \/ q = Idle
                 \/ q.at \in {"name", "remove"}
                 \/ /\ q.at \in {"code", "update"} /\ req[r].at = "name"
                    /\ \/ Homonyms(q.user, q.name) = {}
                       \/ q.at = "update" /\ session[q.id].name = q.name
                 \/ /\ q.at \in {"code", "insert"} /\ req[r].at = "code"
                    /\ q.fresh = req[r].fresh
                    /\ q.user = req[r].user /\ q.name = req[r].name
    BY <1>3, ReadStep
  <2>2. UNCHANGED <<session, stale>>
    BY <1>3, ReadStep
  <2>3. LookedUp(q)
    BY <1>0, <1>00, <2>1 DEF LookedUp
  <2> QED
    BY <1>1, <2>1, <2>2, <2>3
<1>4. ASSUME NEW r \in Reqs, NEW q \in ReqType, NEW created \in BOOLEAN, Outdate(r, q, created), ~q.fresh
      PROVE  LookupIsTrue'
  <2>1. \A s \in Reqs : ~req'[s].fresh
    BY <1>4, OutdateIs
  <2> QED
    BY <2>1 DEF LookupIsTrue
<1>5. ASSUME NEW r \in Reqs, Insert(r) PROVE LookupIsTrue'
  <2>1. CASE Becomes(r, Idle) /\ UNCHANGED <<session, stale>>
    BY <1>00, <1>1, <2>1, IdleType DEF LookedUp
  <2>2. ASSUME NEW i \in Ids, [Idle EXCEPT !.at = "enrol", !.user = req[r].user, !.id = i] \in ReqType,
               Outdate(r, [Idle EXCEPT !.at = "enrol", !.user = req[r].user, !.id = i], TRUE)
        PROVE  LookupIsTrue'
    <3>1. [Idle EXCEPT !.at = "enrol", !.user = req[r].user, !.id = i].fresh = FALSE
      BY DEF Idle
    <3> QED
      BY <1>4, <2>2, <3>1
  <2> QED
    BY <1>5, <2>1, <2>2, WriteIs
<1>6. ASSUME NEW r \in Reqs, UpdateName(r) PROVE LookupIsTrue'
  BY <1>00, <1>4, <1>6, IdleType DEF UpdateName
<1>7. ASSUME NEW r \in Reqs, Remove(r) PROVE LookupIsTrue'
  <2> DEFINE i == req[r].id
  <2>1. /\ i \in Stored /\ session'[i] = [session[i] EXCEPT !.active = FALSE]
        /\ \A j \in Ids \ {i} : session'[j] = session[j]
    BY <1>7, WriteIs
  <2>2. \A j \in Stored : j \in Ids /\ session[j] \in Rows
    BY RowIs
  <2>3. session'[i].name = session[i].name /\ session'[i].active = FALSE
        /\ session'[i].owner = session[i].owner
    BY <2>1, <2>2 DEF Rows
  <2>4. Active' \subseteq Active
    BY <2>1, <2>2, <2>3 DEF Active, Stored
  <2>5. \A u, n : Homonyms(u, n)' \subseteq Homonyms(u, n)
    BY <2>1, <2>2, <2>3, <2>4 DEF Homonyms, Active, Stored
  <2>6. req'[r] = Idle /\ \A s \in Reqs \ {r} : req'[s] = req[s]
    BY <1>7, IdleType DEF Remove, Done, Becomes, TypeOK
  <2>7. \A s \in Reqs : req'[s] = req[s] /\ req[s].at = "update" =>
          req[s].id \in Ids /\ session'[req[s].id].name = session[req[s].id].name
    BY <2>1, <2>2, <2>3 DEF RequestsKnown, Stored
  <2>8. \A s \in Reqs : LookedUp(req[s])'
    BY <1>0, <1>00, <2>5, <2>6, <2>7 DEF LookedUp
  <2> QED
    BY <1>0, <2>8
<1>8. CASE UNCHANGED vars
  BY <1>8 DEF vars, LookupIsTrue, Homonyms, Active, Stored
<1> QED
  BY <1>2, <1>3, <1>5, <1>6, <1>7, <1>8 DEF Next, Step

\* A row that takes the name n of owner u: when nobody else's active row of u has
\* it, or the row is stale, the names stay unique.
LEMMA OneRowUnique ==
  ASSUME TypeOK, NamesUnique, NEW i \in Ids,
         \A j \in Ids \ {i} : session'[j] = session[j],
         stale \subseteq stale' \cup {i},
         \/ i \in stale'
         \/ \A j \in Active \ {i} : session[j].owner = session'[i].owner => session[j].name # session'[i].name
  PROVE  NamesUnique'
<1>1. \A j \in Active' \ {i} : j \in Active /\ j \in Ids
  BY DEF Active, Stored
<1> QED
  BY <1>1 DEF NamesUnique

\* Every step keeps the names unique but for the stale ones.
LEMMA StepNames ==
  TypeOK /\ RequestsKnown /\ LookupIsTrue /\ NamesUnique /\ [Next]_vars => NamesUnique'
<1> SUFFICES ASSUME TypeOK, RequestsKnown, LookupIsTrue, NamesUnique, [Next]_vars PROVE NamesUnique'
  OBVIOUS
<1>0. \A j \in Stored : j \in Ids /\ session[j] \in Rows
  BY RowIs
<1>1. CASE UNCHANGED <<session, stale>>
  BY <1>1 DEF NamesUnique, Active, Stored
<1>2. ASSUME NEW r \in Reqs, Insert(r), ~UNCHANGED <<session, stale>> PROVE NamesUnique'
  <2>1. PICK i \in Ids \ Stored :
          /\ session'[i] = [name |-> req[r].name, code |-> req[r].code,
                            owner |-> req[r].user, active |-> TRUE]
          /\ \A j \in Ids \ {i} : session'[j] = session[j]
          /\ stale' = IF req[r].fresh THEN stale ELSE stale \cup {i}
    BY <1>2, WriteIs
  <2>2. session'[i].name = req[r].name /\ session'[i].owner = req[r].user
    BY <2>1
  <2>3. req[r].fresh => Homonyms(req[r].user, req[r].name) = {}
    BY <1>2 DEF Insert, LookupIsTrue
  <2> QED
    BY <2>1, <2>2, <2>3, OneRowUnique DEF Homonyms
<1>3. ASSUME NEW r \in Reqs, UpdateName(r) PROVE NamesUnique'
  <2> DEFINE i == req[r].id
  <2>1. /\ i \in Stored /\ session[i].owner = req[r].user /\ req[r].name \in Names
        /\ session'[i] = [session[i] EXCEPT !.name = req[r].name]
        /\ \A j \in Ids \ {i} : session'[j] = session[j]
    BY <1>3, WriteIs
  <2>2. session'[i].name = req[r].name /\ session'[i].owner = req[r].user
    BY <1>0, <2>1 DEF Rows
  <2>3. CASE ~req[r].fresh
    <3>1. stale' = stale \cup {i}
      BY <1>3, <2>3 DEF UpdateName
    <3> QED
      BY <1>0, <2>1, <3>1, OneRowUnique
  <2>4. CASE req[r].fresh /\ session[i].name = req[r].name
    <3>1. session[i] \in Rows /\ i \in Ids
      BY <1>0, <2>1
    <3>2. [session[i] EXCEPT !.name = req[r].name] = session[i]
      BY <2>4, <3>1 DEF Rows
    <3>3. session' = [session EXCEPT ![i] = [session[i] EXCEPT !.name = req[r].name]]
      BY <1>3, <3>1 DEF UpdateName, TypeOK
    <3>4. session' = session
      BY <3>1, <3>2, <3>3 DEF TypeOK
    <3>5. stale' = stale
      BY <1>3, <2>4 DEF UpdateName
    <3> QED
      BY <1>1, <3>4, <3>5
  <2>5. CASE req[r].fresh /\ session[i].name # req[r].name
    <3>1. stale' = stale \ {i}
      BY <1>3, <2>5 DEF UpdateName
    <3>2. Homonyms(req[r].user, req[r].name) = {}
      BY <1>3, <2>5 DEF UpdateName, LookupIsTrue
    <3>3. \A j \in Active \ {i} :
            session[j].owner = session'[i].owner => session[j].name # session'[i].name
      BY <2>2, <3>2 DEF Homonyms
    <3>4. stale \subseteq stale' \cup {i}
      BY <3>1
    <3> HIDE DEF i
    <3> QED
      BY <1>0, <2>1, <3>3, <3>4, OneRowUnique
  <2> QED
    BY <2>3, <2>4, <2>5
<1>4. ASSUME NEW r \in Reqs, Remove(r) PROVE NamesUnique'
  <2> DEFINE i == req[r].id
  <2>1. /\ i \in Stored /\ session'[i] = [session[i] EXCEPT !.active = FALSE]
        /\ \A j \in Ids \ {i} : session'[j] = session[j]
    BY <1>4, WriteIs
  <2>2. session'[i].active = FALSE
    BY <1>0, <2>1 DEF Rows
  <2>3. Active' \subseteq Active \ {i} /\ stale' = stale
    BY <1>0, <1>4, <2>1, <2>2 DEF Active, Stored, Remove
  <2> QED
    BY <1>0, <2>1, <2>3 DEF NamesUnique, Active
<1> QED
  BY <1>1, <1>2, <1>3, <1>4
     DEF Next, Step, Request, GetSession, FindName, DrawCode, Enrol, Fail, vars

\* Two active sessions of one owner have one name only after a race between a
\* lookup and a write, for any number of requests and sessions.
THEOREM NamesUniqueAlways == Spec => []NamesUnique
<1>1. Init => LookupIsTrue /\ NamesUnique
  BY DEF Init, LookupIsTrue, NamesUnique, Active, Stored, Idle
<1> QED
  BY <1>1, StepLookup, StepNames, KnownAlways, PTL DEF Spec
=============================================================================
