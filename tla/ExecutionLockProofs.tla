------------------------ MODULE ExecutionLockProofs ------------------------
(***************************************************************************)
(* Theorems about ExecutionLock for every number of runs and users, every  *)
(* LockTtl and PistonTimeout.                                              *)
(***************************************************************************)
EXTENDS ExecutionLock, TLAPS

\* The initial states have the types.
LEMMA InitType == Init => TypeOK
<1> SUFFICES ASSUME Init PROVE TypeOK
  OBVIOUS
<1>1. role \in [Users -> Roles \cup {None}]
  BY DEF Init, Roles
<1> QED
  BY <1>1, TimeAssumption DEF Init, TypeOK, PCs

\* Every step keeps the types.
LEMMA StepType == TypeOK /\ [Next]_vars => TypeOK'
<1> SUFFICES ASSUME TypeOK, [Next]_vars PROVE TypeOK'
  OBVIOUS
<1> USE DEF TypeOK, runVars, lockVars, sessionVars, historyVars
<1>1. ASSUME NEW r \in Runs, Request(r) PROVE TypeOK'
  <2>1. tok' \in [Runs -> Runs \cup {None}]
    BY <1>1 DEF Request
  <2> QED
    BY <1>1, <2>1 DEF Request, GoTo, PCs
<1>2. ASSUME NEW r \in Runs, Step(r) PROVE TypeOK'
  <2>1. CASE CheckSession(r) \/ Refuse(r) \/ AcquireFail(r) \/ LoadSession(r)
             \/ LoadMembers(r) \/ Store(r) \/ ReleaseGet(r) \/ ReleaseFail(r)
    BY <2>1 DEF CheckSession, Refuse, AcquireFail, LoadSession, LoadMembers, Store,
                ReleaseGet, ReleaseFail, GoTo, PCs
  <2>2. CASE Acquire(r) \/ AcquireLostReply(r)
    BY <2>2, TimeAssumption DEF Acquire, AcquireLostReply, GoTo, PCs
  <2>3. CASE PistonReply(r) \/ PistonAbort(r)
    BY <2>3, TimeAssumption DEF PistonReply, PistonAbort, GoTo, PCs
  <2>4. CASE ReleaseDel(r)
    BY <2>4, TimeAssumption DEF ReleaseDel, GoTo, PCs
  <2> QED
    BY <1>2, <2>1, <2>2, <2>3, <2>4 DEF Step
<1>3. ASSUME Vanish PROVE lock' = None /\ ttl' \in 0 .. LockTtl /\ lost' \in SUBSET Runs
                          /\ stale' \in SUBSET Runs /\ orphans' = orphans
  BY <1>3, TimeAssumption DEF Vanish, Critical
<1>4. CASE Tick
  <2>1. age' \in [Runs -> 0 .. PistonTimeout]
    BY <1>4, TimeAssumption DEF Tick, Running
  <2>2. lock' \in Runs \cup {None} /\ ttl' \in 0 .. LockTtl /\ lost' \in SUBSET Runs
        /\ stale' \in SUBSET Runs /\ orphans' = orphans
    BY <1>3, <1>4, TimeAssumption DEF Tick
  <2> QED
    BY <1>4, <2>1, <2>2 DEF Tick
<1>5. CASE LockLoss
  BY <1>3, <1>5 DEF LockLoss
<1>6. CASE Crash
  BY <1>6, TimeAssumption DEF Crash, PCs, Critical
<1>7. CASE DeleteSession \/ (\E u \in Users : ChangeRole(u))
  BY <1>7 DEF DeleteSession, ChangeRole, Roles
<1>8. CASE UNCHANGED vars
  BY <1>8 DEF vars
<1> QED
  BY <1>1, <1>2, <1>4, <1>5, <1>6, <1>7, <1>8 DEF Next, Environment

\* The types of the lock, its holders and its timers are kept by every run,
\* fault, role change and deletion.
THEOREM TypeCorrect == Spec => []TypeOK
<1>1. Init => TypeOK
  BY InitType
<1>2. TypeOK /\ [Next]_vars => TypeOK'
  BY StepType
<1> QED
  BY <1>1, <1>2, PTL DEF Spec

-----------------------------------------------------------------------------
\* Lock values never change once computed, so two that are equal stay equal.
LEMMA TokensStay == TypeOK /\ TokensSet /\ [Next]_vars /\ TokensDiffer' => TokensDiffer
<1> SUFFICES ASSUME TypeOK, TokensSet, [Next]_vars, TokensDiffer',
                    NEW r \in Runs, NEW s \in Runs, tok[r] # None, tok[r] = tok[s]
             PROVE  r = s
  BY DEF TokensDiffer
<1>1. \A q \in Runs : tok[q] # None => tok'[q] = tok[q]
  <2>1. ASSUME NEW p \in Runs, Request(p) PROVE \A q \in Runs : tok[q] # None => tok'[q] = tok[q]
    BY <2>1 DEF Request, TypeOK, TokensSet
  <2>2. ASSUME NEW p \in Runs, Step(p) PROVE tok' = tok
    BY <2>2 DEF Step, CheckSession, Acquire, Refuse, AcquireFail, AcquireLostReply, LoadSession,
                LoadMembers, PistonReply, PistonAbort, Store, ReleaseGet, ReleaseDel, ReleaseFail
  <2>3. ASSUME Environment \/ UNCHANGED vars PROVE tok' = tok
    BY <2>3 DEF Environment, Tick, LockLoss, Crash, DeleteSession, ChangeRole, vars, runVars
  <2> QED
    BY <2>1, <2>2, <2>3 DEF Next
<1> QED
  BY <1>1 DEF TokensDiffer

\* Every step keeps a run's lock value set exactly from its arrival on.
LEMMA StepTokens == TypeOK /\ TokensSet /\ [Next]_vars => TokensSet'
<1> SUFFICES ASSUME TypeOK, TokensSet, [Next]_vars PROVE TokensSet'
  OBVIOUS
<1> USE DEF TypeOK, TokensSet
<1>1. ASSUME NEW r \in Runs, Request(r) PROVE TokensSet'
  <2>1. PICK s \in {r} \cup {s \in recent : UserOf[s] = UserOf[r]} :
          tok' = [tok EXCEPT ![r] = IF s = r THEN r ELSE tok[s]]
    BY <1>1 DEF Request
  <2>2. tok'[r] # None
    BY <2>1, RunsAssumption
  <2>3. \A q \in Runs \ {r} : tok'[q] = tok[q] /\ pc'[q] = pc[q]
    BY <1>1, <2>1 DEF Request, GoTo
  <2>4. pc'[r] = "session" /\ recent' = recent \cup {r}
    BY <1>1 DEF Request, GoTo
  <2> QED
    BY <2>2, <2>3, <2>4
<1>2. ASSUME NEW r \in Runs, Step(r) PROVE TokensSet'
  <2>1. tok' = tok /\ recent' = recent /\ pc[r] # "idle"
    BY <1>2 DEF Step, CheckSession, Acquire, Refuse, AcquireFail, AcquireLostReply, LoadSession,
                LoadMembers, PistonReply, PistonAbort, Store, ReleaseGet, ReleaseDel, ReleaseFail
  <2>2. \E p \in PCs \ {"idle"} : pc' = [pc EXCEPT ![r] = p]
    BY <1>2 DEF Step, CheckSession, Acquire, Refuse, AcquireFail, AcquireLostReply, LoadSession,
                LoadMembers, PistonReply, PistonAbort, Store, ReleaseGet, ReleaseDel, ReleaseFail,
                GoTo, PCs
  <2> QED
    BY <2>1, <2>2
<1>3. CASE Environment \/ UNCHANGED vars
  BY <1>3 DEF Environment, Tick, LockLoss, Crash, DeleteSession, ChangeRole, vars, runVars
<1> QED
  BY <1>1, <1>2, <1>3 DEF Next

-----------------------------------------------------------------------------
\* Every step keeps the four parts that carry LockExcludes, once the types,
\* the set lock values and TokensStay are known of it.
LEMMA StepLock == LockInv /\ [Next]_vars => LockInv'
<1> SUFFICES ASSUME LockInv, [Next]_vars PROVE LockInv'
  OBVIOUS
<1> DEFINE Parts == LostAfterAcquire /\ LostForGood /\ DeletesOwn /\ LockExcludes
<1>1. TypeOK' /\ TokensSet' /\ (TokensDiffer' => TokensDiffer)
  BY StepType, StepTokens, TokensStay DEF LockInv
<1> USE DEF LockInv, TypeOK, TokensSet, LostAfterAcquire, LostForGood, DeletesOwn, LockExcludes,
            Critical, runVars, lockVars, sessionVars, historyVars
<1>2. ASSUME NEW r \in Runs, Request(r) PROVE Parts'
  <2>1. \A q \in Runs : pc[q] # "idle" => tok'[q] = tok[q]
    BY <1>2 DEF Request
  <2>2. pc' = [pc EXCEPT ![r] = "session"] /\ UNCHANGED <<lockVars, historyVars>>
        /\ pc[r] = "idle"
    BY <1>2 DEF Request, GoTo
  <2>3. r \notin lost
    BY <2>2
  <2> QED
    BY <1>1, <2>1, <2>2, <2>3
<1>3. ASSUME NEW r \in Runs,
             \/ CheckSession(r) \/ Refuse(r) \/ AcquireFail(r) \/ LoadSession(r)
             \/ LoadMembers(r) \/ PistonReply(r) \/ PistonAbort(r) \/ Store(r)
             \/ ReleaseFail(r)
      PROVE  Parts'
  <2>1. UNCHANGED <<tok, lockVars, lost, stale>>
    BY <1>3 DEF CheckSession, Refuse, AcquireFail, LoadSession, LoadMembers, PistonReply,
                PistonAbort, Store, ReleaseFail
  <2>2. PICK p \in PCs \ {"idle", "session", "relDel"} :
          /\ pc' = [pc EXCEPT ![r] = p]
          /\ p = "acquire" => pc[r] = "session"
          /\ r \in Critical \/ p \in {"acquire", "refused", "done"}
    BY <1>3 DEF CheckSession, Refuse, AcquireFail, LoadSession, LoadMembers, PistonReply,
                PistonAbort, Store, ReleaseFail, GoTo, PCs
  <2> QED
    BY <1>1, <2>1, <2>2
<1>4. ASSUME NEW r \in Runs, Acquire(r) \/ AcquireLostReply(r) PROVE Parts'
  <2>1. /\ pc[r] = "acquire" /\ lock = None /\ lock' = tok[r]
        /\ UNCHANGED <<tok, lost, stale>>
        /\ \E p \in {"load", "refused"} : pc' = [pc EXCEPT ![r] = p]
    BY <1>4 DEF Acquire, AcquireLostReply, GoTo
  <2>2. r \notin lost
    BY <2>1
  <2>3. TokensDiffer /\ stale = {} => \A q \in Runs : q \notin Critical \ lost
    BY <2>1
  <2>4. TokensDiffer => \A q \in lost : tok[r] # tok[q]
    BY <2>1, <2>2 DEF TokensDiffer
  <2> QED
    BY <1>1, <2>1, <2>2, <2>3, <2>4
<1>5. ASSUME NEW r \in Runs, ReleaseGet(r) PROVE Parts'
  <2>1. /\ pc[r] = "relGet" /\ UNCHANGED <<tok, lockVars, lost, stale>>
        /\ \/ lock = tok[r] /\ pc' = [pc EXCEPT ![r] = "relDel"]
           \/ lock # tok[r] /\ pc' = [pc EXCEPT ![r] = "done"]
    BY <1>5 DEF ReleaseGet, GoTo
  <2> QED
    BY <1>1, <2>1
<1>6. ASSUME NEW r \in Runs, ReleaseDel(r) PROVE Parts'
  <2>1. /\ pc[r] = "relDel" /\ pc' = [pc EXCEPT ![r] = "done"] /\ lock' = None
        /\ UNCHANGED <<tok, lost, stale>>
    BY <1>6 DEF ReleaseDel, GoTo
  <2>2. TokensDiffer /\ stale = {} => \A q \in Critical \ lost : q = r
    BY <2>1
  <2>3. \A q \in lost : tok[q] # None
    BY <1>1
  <2> QED
    BY <1>1, <2>1, <2>2, <2>3
<1>7. ASSUME Vanish, UNCHANGED <<pc, tok>> PROVE Parts'
  <2>1. \A q \in lost' : tok[q] # None
    BY <1>7 DEF Vanish
  <2>2. LostAfterAcquire' /\ LostForGood'
    BY <1>7, <2>1 DEF Vanish
  <2>3. DeletesOwn'
    BY <1>1, <1>7 DEF Vanish
  <2>4. LockExcludes'
    BY <1>1, <1>7 DEF Vanish
  <2> QED
    BY <2>2, <2>3, <2>4
<1>8. ASSUME UNCHANGED <<pc, tok, lock, lost, stale>> PROVE Parts'
  BY <1>1, <1>8
<1>9. ASSUME Tick PROVE Parts'
  BY <1>7, <1>8, <1>9 DEF Tick
<1>10. ASSUME Crash PROVE Parts'
  BY <1>1, <1>10 DEF Crash
<1>11. ASSUME LockLoss PROVE Parts'
  BY <1>7, <1>11 DEF LockLoss
<1>12. ASSUME DeleteSession \/ (\E u \in Users : ChangeRole(u)) \/ UNCHANGED vars PROVE Parts'
  BY <1>8, <1>12 DEF DeleteSession, ChangeRole, vars
<1>13. Parts'
  BY <1>2, <1>3, <1>4, <1>5, <1>6, <1>9, <1>10, <1>11, <1>12 DEF Next, Step, Environment
<1> QED
  BY <1>1, <1>13

\* The Redis lock lets one run at a time through runCode, and a run that comes
\* late to its finally block takes nobody else's key away, under every fault
\* and for all times: the only exceptions are the ones LockExcludes names.
THEOREM LockExcludesAlways == Spec => []LockExcludes
<1>1. Init => LockInv
  BY InitType DEF Init, LockInv, TokensSet, LostAfterAcquire, LostForGood, DeletesOwn,
                  LockExcludes, Critical, TypeOK
<1>2. LockInv /\ [Next]_vars => LockInv'
  BY StepLock
<1>3. LockInv => LockExcludes
  BY DEF LockInv
<1> QED
  BY <1>1, <1>2, <1>3, PTL DEF Spec

\* What README.md says of the lock does hold while no run waits for Piston longer
\* than its lock lives: two runs are at Piston together only if one of them has
\* lost its lock, or a DEL came too late.  (The 15 s of a call exceed the 8 s.)
THEOREM OneRunWhileLocked ==
  Spec => [](TokensDiffer /\ stale = {} /\ Running \cap lost = {} => MutualExclusion)
<1>1. LockExcludes => (TokensDiffer /\ stale = {} /\ Running \cap lost = {} => MutualExclusion)
  BY DEF LockExcludes, MutualExclusion, Running, Critical
<1> QED
  BY <1>1, LockExcludesAlways, PTL

-----------------------------------------------------------------------------
\* A step that leaves the key in place leaves its owner between SET NX and the
\* end of the finally block, or records the key as an orphan.
LEMMA StepHolder == TypeOK /\ LockHasHolder /\ [Next]_vars => LockHasHolder'
<1> SUFFICES ASSUME TypeOK, LockHasHolder, [Next]_vars, lock' # None, lock' \notin orphans'
             PROVE  \E r \in Critical' : tok'[r] = lock'
  BY DEF LockHasHolder
<1> USE DEF TypeOK, runVars, lockVars, sessionVars, historyVars
<1>1. orphans \subseteq orphans'
  BY DEF Next, Step, Request, CheckSession, Acquire, Refuse, AcquireFail, AcquireLostReply,
         LoadSession, LoadMembers, PistonReply, PistonAbort, Store, ReleaseGet, ReleaseDel,
         ReleaseFail, Environment, Tick, LockLoss, Crash, Vanish, DeleteSession, ChangeRole, vars
<1>2. ASSUME NEW r \in Runs, Acquire(r) PROVE \E q \in Critical' : tok'[q] = lock'
  BY <1>2 DEF Acquire, GoTo, Critical
<1>3. ASSUME NEW r \in Runs, AcquireLostReply(r) PROVE FALSE
  BY <1>3 DEF AcquireLostReply
<1>4. ASSUME NEW q \in Critical, tok[q] = lock, lock' = lock
      PROVE  tok'[q] = tok[q] /\ q \in Critical'
  <2>1. ASSUME NEW r \in Runs, Request(r) PROVE tok'[q] = tok[q] /\ q \in Critical'
    BY <2>1 DEF Request, GoTo, Critical
  <2>2. ASSUME NEW r \in Runs, Step(r) PROVE tok'[q] = tok[q] /\ q \in Critical'
    <3>1. UNCHANGED tok
      BY <2>2 DEF Step, CheckSession, Acquire, Refuse, AcquireFail, AcquireLostReply, LoadSession,
                  LoadMembers, PistonReply, PistonAbort, Store, ReleaseGet, ReleaseDel, ReleaseFail
    <3>2. CASE CheckSession(r) \/ Acquire(r) \/ Refuse(r) \/ AcquireFail(r) \/ AcquireLostReply(r)
               \/ LoadSession(r) \/ LoadMembers(r) \/ PistonReply(r) \/ PistonAbort(r) \/ Store(r)
      BY <3>1, <3>2 DEF CheckSession, Acquire, Refuse, AcquireFail, AcquireLostReply, LoadSession,
                        LoadMembers, PistonReply, PistonAbort, Store, GoTo, Critical
    <3>3. CASE ReleaseGet(r)
      BY <3>1, <3>3, <1>4 DEF ReleaseGet, GoTo, Critical
    <3>4. CASE ReleaseDel(r)
      BY <3>4, <1>4 DEF ReleaseDel
    <3>5. CASE ReleaseFail(r)
      BY <3>1, <3>5, <1>4 DEF ReleaseFail, GoTo, Critical
    <3> QED
      BY <2>2, <3>2, <3>3, <3>4, <3>5 DEF Step
  <2>3. CASE Crash
    BY <2>3, <1>4 DEF Crash
  <2>4. CASE (Environment /\ ~Crash) \/ UNCHANGED vars
    BY <2>4 DEF Environment, Tick, LockLoss, DeleteSession, ChangeRole, vars, Critical
  <2> QED
    BY <2>1, <2>2, <2>3, <2>4 DEF Next
<1>5. CASE lock' = lock
  BY <1>1, <1>4, <1>5 DEF LockHasHolder
<1>6. CASE lock' # lock
  <2>1. \E r \in Runs : Acquire(r) \/ AcquireLostReply(r)
    BY <1>6 DEF Next, Step, Request, CheckSession, Refuse, AcquireFail,
                LoadSession, LoadMembers, PistonReply, PistonAbort, Store, ReleaseGet, ReleaseDel,
                ReleaseFail, Environment, Tick, LockLoss, Crash, Vanish, DeleteSession,
                ChangeRole, vars
  <2> QED
    BY <1>2, <1>3, <2>1
<1> QED
  BY <1>5, <1>6

\* No orphan lock: however runCode leaves its try block, the finally block gives
\* the key back; a key without a holder takes a failed release, a lost reply or
\* a crash.
THEOREM LockHasHolderAlways == Spec => []LockHasHolder
<1>1. Init => TypeOK /\ LockHasHolder
  BY InitType DEF Init, LockHasHolder
<1>2. TypeOK /\ LockHasHolder /\ [Next]_vars => (TypeOK /\ LockHasHolder)'
  BY StepType, StepHolder
<1> QED
  BY <1>1, <1>2, PTL DEF Spec
=============================================================================
