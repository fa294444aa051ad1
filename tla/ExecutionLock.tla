--------------------------- MODULE ExecutionLock ---------------------------
(***************************************************************************)
(* POST /executions/run in ONE session: ExecutionService.runCode with the  *)
(* Redis lock it takes (SET NX PX) and gives back (GET, then DEL), the     *)
(* permission check under the lock, and the call to Piston.                *)
(*                                                                         *)
(* A run is one request.  Its lock value `${email}:${Date.now()}` is the   *)
(* same as that of another request of the same user in the same            *)
(* millisecond, so tok[r] names the first run that computed the value.     *)
(* Time is counted in ticks; LockTtl and PistonTimeout keep the order of   *)
(* the code's 8000 ms and 15000 ms.  Which exception ends a run is told    *)
(* apart only for the 409 of a refused one; every other way out of the try *)
(* block leads to the same finally block.  The output, setSessionState and *)
(* the emission to the room are data no property here needs.               *)
(*                                                                         *)
(* Faults says which failures are considered:                              *)
(*   "redisFail"  a Redis or Mongo command may reject                      *)
(*   "lostReply"  the reply to SET NX is lost and the client resends it    *)
(*   "lockLoss"   Redis may lose the key before its TTL (eviction, restart)*)
(*   "crash"      the process may end, Redis outliving it                  *)
(***************************************************************************)
EXTENDS Naturals, Permissions

CONSTANTS Runs, Users, UserOf, Owner, Faults, LockTtl, PistonTimeout

FaultChoices == {"redisFail", "lostReply", "lockLoss", "crash"}

ASSUME RunsAssumption == UserOf \in [Runs -> Users] /\ Owner \in Users /\ None \notin Runs
ASSUME TimeAssumption == LockTtl \in Nat \ {0} /\ PistonTimeout \in Nat \ {0}
ASSUME FaultsAssumption == Faults \subseteq FaultChoices

VARIABLES
  pc,        \* [run -> the await it is at, or its end]
  tok,       \* [run -> the name of its lock value, or None]
  age,       \* [run -> ticks it has waited for Piston]
  recent,    \* runs that arrived since the last tick
  lock,      \* the value of the Redis lock, or None
  ttl,       \* ticks the lock still has (0: no lock, or one with no expiry)
  active,    \* the session exists (findActiveById)
  role,      \* [user -> the role in the participant row, or None]
  lost,      \* history: runs whose lock vanished while they held it
  stale,     \* history: runs whose lock vanished between their GET and DEL
  orphans    \* history: lock values a fault has left without a run to delete them

runVars     == <<pc, tok, age, recent>>
lockVars    == <<lock, ttl>>
sessionVars == <<active, role>>
historyVars == <<lost, stale, orphans>>
vars == <<runVars, lockVars, sessionVars, historyVars>>

-----------------------------------------------------------------------------
PCs == {"idle", "session", "acquire", "load", "members", "running", "store",
        "relGet", "relDel", "refused", "done"}

\* Between a successful SET NX and the end of the finally block.
Critical == {r \in Runs : pc[r] \in {"load", "members", "running", "store", "relGet", "relDel"}}

Running == {r \in Runs : pc[r] = "running"}

TypeOK == /\ pc \in [Runs -> PCs]
          /\ tok \in [Runs -> Runs \cup {None}]
          /\ age \in [Runs -> 0 .. PistonTimeout]
          /\ recent \in SUBSET Runs
          /\ lock \in Runs \cup {None}
          /\ ttl \in 0 .. LockTtl
          /\ active \in BOOLEAN
          /\ role \in [Users -> Roles \cup {None}]
          /\ lost \in SUBSET Runs
          /\ stale \in SUBSET Runs
          /\ orphans \in SUBSET (Runs \cup {None})

\* The owner and another member have joined; a third user may not have.
Init == /\ pc = [r \in Runs |-> "idle"]
        /\ tok = [r \in Runs |-> None]
        /\ age = [r \in Runs |-> 0]
        /\ recent = {}
        /\ lock = None
        /\ ttl = 0
        /\ active = TRUE
        /\ role \in {f \in [Users -> {"OWNER", "VIEW", None}] :
                      \A u \in Users : f[u] = "OWNER" <=> u = Owner}
        /\ lost = {}
        /\ stale = {}
        /\ orphans = {}

-----------------------------------------------------------------------------
(* runCode                                                                 *)

GoTo(r, p) == pc' = [pc EXCEPT ![r] = p]

\* A request arrives and computes its lock value.
Request(r) ==
  /\ pc[r] = "idle"
  /\ GoTo(r, "session")
  /\ \E s \in {r} \cup {s \in recent : UserOf[s] = UserOf[r]} :
       tok' = [tok EXCEPT ![r] = IF s = r THEN r ELSE tok[s]]
  /\ recent' = recent \cup {r}
  /\ UNCHANGED <<age, lockVars, sessionVars, historyVars>>

\* acquireRunLock: the session must exist before the lock is asked for.
CheckSession(r) ==
  /\ pc[r] = "session"
  /\ \/ active /\ GoTo(r, "acquire")
     \/ ~active /\ GoTo(r, "done")
     \/ "redisFail" \in Faults /\ GoTo(r, "done")
  /\ UNCHANGED <<tok, age, recent, lockVars, sessionVars, historyVars>>

\* Mutants: no PX; EX with the constant in milliseconds.
Acquire_NoPx(r) ==
  /\ pc[r] = "acquire"
  /\ lock = None
  /\ lock' = tok[r]
  /\ UNCHANGED ttl
  /\ GoTo(r, "load")
  /\ UNCHANGED <<tok, age, recent, sessionVars, historyVars>>

Acquire_Ex(r) ==
  /\ pc[r] = "acquire"
  /\ lock = None
  /\ lock' = tok[r]
  /\ ttl' = 1000 * LockTtl
  /\ GoTo(r, "load")
  /\ UNCHANGED <<tok, age, recent, sessionVars, historyVars>>

\* SET key value PX ttl NX.
Acquire(r) ==
  /\ pc[r] = "acquire"
  /\ lock = None
  /\ lock' = tok[r]
  /\ ttl' = LockTtl
  /\ GoTo(r, "load")
  /\ UNCHANGED <<tok, age, recent, sessionVars, historyVars>>

\* The key is there: ConflictException, thrown before the try block.
Refuse(r) ==
  /\ pc[r] = "acquire"
  /\ lock # None
  /\ GoTo(r, "refused")
  /\ UNCHANGED <<tok, age, recent, lockVars, sessionVars, historyVars>>

AcquireFail(r) ==
  /\ "redisFail" \in Faults
  /\ pc[r] = "acquire"
  /\ GoTo(r, "done")
  /\ UNCHANGED <<tok, age, recent, lockVars, sessionVars, historyVars>>

\* The SET NX took effect, its reply was lost, the resent one finds the key.
AcquireLostReply(r) ==
  /\ "lostReply" \in Faults
  /\ pc[r] = "acquire"
  /\ lock = None
  /\ lock' = tok[r]
  /\ ttl' = LockTtl
  /\ orphans' = orphans \cup {tok[r]}
  /\ GoTo(r, "refused")
  /\ UNCHANGED <<tok, age, recent, sessionVars, lost, stale>>

\* getSessionById: the session row, then the participant rows.
LoadSession(r) ==
  /\ pc[r] = "load"
  /\ \/ active /\ GoTo(r, "members")
     \/ ~active /\ GoTo(r, "relGet")
     \/ "redisFail" \in Faults /\ GoTo(r, "relGet")
  /\ UNCHANGED <<tok, age, recent, lockVars, sessionVars, historyVars>>

MayRun(u) == role[u] # None /\ CanExecute(role[u], Owner, u)

\* Mutant: the checks are made before the try block.
LoadMembers_NoFinally(r) ==
  /\ pc[r] = "members"
  /\ \/ ~MayRun(UserOf[r]) /\ GoTo(r, "done")
     \/ MayRun(UserOf[r]) /\ GoTo(r, "running")
  /\ UNCHANGED <<tok, age, recent, lockVars, sessionVars, historyVars>>

\* Membership and permission; then PistonService.execute, which refuses an
\* unknown language or sends the request.
LoadMembers(r) ==
  /\ pc[r] = "members"
  /\ \/ ~MayRun(UserOf[r]) /\ GoTo(r, "relGet")
     \/ MayRun(UserOf[r]) /\ \E p \in {"running", "relGet"} : GoTo(r, p)
     \/ "redisFail" \in Faults /\ GoTo(r, "relGet")
  /\ UNCHANGED <<tok, age, recent, lockVars, sessionVars, historyVars>>

\* Piston answers, or answers badly, or is out of reach.
PistonReply(r) ==
  /\ pc[r] = "running"
  /\ \E p \in {"store", "relGet"} : GoTo(r, p)
  /\ age' = [age EXCEPT ![r] = 0]
  /\ UNCHANGED <<tok, recent, lockVars, sessionVars, historyVars>>

\* Mutant: the abort timer does not end the request.
PistonAbort_Hangs(r) ==
  /\ pc[r] = "running"
  /\ age[r] = PistonTimeout
  /\ age' = [age EXCEPT ![r] = 0]
  /\ UNCHANGED <<pc, tok, recent, lockVars, sessionVars, historyVars>>

\* The abort timer: RequestTimeoutException.
PistonAbort(r) ==
  /\ pc[r] = "running"
  /\ age[r] = PistonTimeout
  /\ GoTo(r, "relGet")
  /\ age' = [age EXCEPT ![r] = 0]
  /\ UNCHANGED <<tok, recent, lockVars, sessionVars, historyVars>>

\* setSessionState has answered or failed; the result is emitted if it answered.
Store(r) ==
  /\ pc[r] = "store"
  /\ GoTo(r, "relGet")
  /\ UNCHANGED <<tok, age, recent, lockVars, sessionVars, historyVars>>

\* Mutant: the key is deleted whatever its value.
ReleaseGet_NoOwner(r) ==
  /\ pc[r] = "relGet"
  /\ GoTo(r, "relDel")
  /\ UNCHANGED <<tok, age, recent, lockVars, sessionVars, historyVars>>

\* releaseExecutionLock: GET, and only if the value is one's own ...
ReleaseGet(r) ==
  /\ pc[r] = "relGet"
  /\ GoTo(r, IF lock = tok[r] THEN "relDel" ELSE "done")
  /\ UNCHANGED <<tok, age, recent, lockVars, sessionVars, historyVars>>

\* ... DEL, of whatever is there by now.
ReleaseDel(r) ==
  /\ pc[r] = "relDel"
  /\ GoTo(r, "done")
  /\ lock' = None
  /\ ttl' = 0
  /\ UNCHANGED <<tok, age, recent, sessionVars, historyVars>>

ReleaseFail(r) ==
  /\ "redisFail" \in Faults
  /\ pc[r] \in {"relGet", "relDel"}
  /\ orphans' = orphans \cup {tok[r]}
  /\ GoTo(r, "done")
  /\ UNCHANGED <<tok, age, recent, lockVars, sessionVars, lost, stale>>

-----------------------------------------------------------------------------
(* Time, failures and the other requests of the session.                   *)

\* The key goes without its owner's doing.
Vanish == /\ lock' = None
          /\ ttl' = 0
          /\ lost' = lost \cup {r \in Critical : tok[r] = lock}
          /\ stale' = stale \cup {r \in Critical : tok[r] = lock /\ pc[r] = "relDel"}
          /\ UNCHANGED orphans

\* A tick passes; the abort timer of a run that is due fires before the next.  A
\* key set without an expiry (ttl = 0) stays.
Tick ==
  /\ \A r \in Running : age[r] < PistonTimeout
  /\ age' = [r \in Runs |-> IF r \in Running THEN age[r] + 1 ELSE age[r]]
  /\ recent' = {}
  /\ \/ (lock = None \/ ttl = 0) /\ UNCHANGED <<lockVars, historyVars>>
     \/ lock # None /\ ttl > 1 /\ ttl' = ttl - 1 /\ UNCHANGED <<lock, historyVars>>
     \/ lock # None /\ ttl = 1 /\ Vanish
  /\ UNCHANGED <<pc, tok, sessionVars>>

LockLoss ==
  /\ "lockLoss" \in Faults
  /\ lock # None
  /\ Vanish
  /\ UNCHANGED <<runVars, sessionVars>>

\* The process ends; requests under way end with it, their lock stays.
Crash ==
  /\ "crash" \in Faults
  /\ pc' = [r \in Runs |-> IF pc[r] \in {"idle", "refused"} THEN pc[r] ELSE "done"]
  /\ age' = [r \in Runs |-> 0]
  /\ recent' = {}
  /\ orphans' = orphans \cup {tok[r] : r \in Critical}
  /\ UNCHANGED <<tok, lockVars, sessionVars, lost, stale>>

\* DELETE /sessions/:id, by SessionsService.
DeleteSession ==
  /\ active
  /\ active' = FALSE
  /\ UNCHANGED <<runVars, lockVars, role, historyVars>>

\* updateParticipantRole, by SessionsService: any member but the owner.
ChangeRole(u) ==
  /\ active
  /\ u # Owner
  /\ role[u] # None
  /\ \E v \in {"VIEW", "VIEW_EDIT_EXECUTE"} : role' = [role EXCEPT ![u] = v]
  /\ UNCHANGED <<runVars, lockVars, active, historyVars>>

-----------------------------------------------------------------------------
Step(r) == \/ CheckSession(r) \/ Acquire(r) \/ Refuse(r) \/ AcquireFail(r)
           \/ AcquireLostReply(r) \/ LoadSession(r) \/ LoadMembers(r)
           \/ PistonReply(r) \/ PistonAbort(r) \/ Store(r)
           \/ ReleaseGet(r) \/ ReleaseDel(r) \/ ReleaseFail(r)

Environment == \/ Tick \/ LockLoss \/ Crash \/ DeleteSession
               \/ \E u \in Users : ChangeRole(u)

Next == (\E r \in Runs : Request(r) \/ Step(r)) \/ Environment

Spec == Init /\ [][Next]_vars

\* The process goes on with each request, and time passes.  Piston need not
\* ever answer: its abort timer is what ends a run.
Fairness ==
  /\ WF_vars(Tick)
  /\ \A r \in Runs :
       WF_vars(\/ CheckSession(r) \/ Acquire(r) \/ Refuse(r) \/ LoadSession(r)
               \/ LoadMembers(r) \/ PistonAbort(r) \/ Store(r)
               \/ ReleaseGet(r) \/ ReleaseDel(r))

FairSpec == Spec /\ Fairness

-----------------------------------------------------------------------------
(* What the lock must guarantee.                                           *)

\* No two requests computed the same lock value.
TokensDiffer == \A r, s \in Runs : tok[r] # None /\ tok[r] = tok[s] => r = s

\* One execution per session, however late some run is: of the runs whose
\* lock has not vanished under them at most one is between SET NX and the end
\* of its finally block, and it owns the key.  A run that comes late to its
\* finally block never takes the key of its successor away (the GET), unless
\* the key went between its GET and its DEL.
LockExcludes ==
  TokensDiffer /\ stale = {} =>
    /\ \A r \in Critical \ lost : lock = tok[r]
    /\ \A r, s \in Critical \ lost : r = s

\* What README.md says of the lock: it prevents concurrent executions.
MutualExclusion == \A r, s \in Running : r = s

\* No orphan lock: whatever exception ends a run, its finally block gives the
\* key back.  Only a failed release, a lost reply or a crash leaves a key that
\* the next run has to wait out.
LockHasHolder ==
  lock # None => lock \in orphans \/ \E r \in Critical : tok[r] = lock

\* Every admitted run ends, whether or not Piston answers.
RunEnds == \A r \in Runs : r \in Critical ~> r \notin Critical

\* A key never outlives its TTL: after a crash, a lost reply or a failed
\* release the session can be run again.
LockIsFreed == \A r \in Runs : lock = r ~> lock # r

-----------------------------------------------------------------------------
(* What makes LockExcludes inductive.                                      *)

\* A run has a lock value from its first step on.
TokensSet == /\ \A r \in Runs : tok[r] = None <=> pc[r] = "idle"
             /\ \A r \in recent : tok[r] # None

\* Only a run that had the lock can lose it.
LostAfterAcquire == \A r \in lost : pc[r] \notin {"idle", "session", "acquire"}

\* A value that has vanished from the key never comes back.
LostForGood == TokensDiffer => \A r \in lost : lock # tok[r]

\* A run about to delete the key still owns it.
DeletesOwn == TokensDiffer /\ stale = {} => \A r \in Runs : pc[r] = "relDel" => r \notin lost

LockInv == TypeOK /\ TokensSet /\ LostAfterAcquire /\ LostForGood /\ DeletesOwn
           /\ LockExcludes
=============================================================================
