-------------------------- MODULE CollectionProofs --------------------------
(***************************************************************************)
(* The safety of module Collection for every instance: any number of       *)
(* collectors, messages and faults, any lease and stale timeout.           *)
(***************************************************************************)
EXTENDS Collection, TLAPS

LEMMA InitType == Init => TypeOK
<1> SUFFICES ASSUME Init PROVE TypeOK
  OBVIOUS
<1> USE CollectionAssumption DEF Init
<1>1. runs \in [Runs -> [status : {"none", "running"} \cup Ended, age : 0..(StaleTimeout + 1)]]
  OBVIOUS
<1>2. /\ mail \in 0..MaxMail /\ cursor \in 0..mail /\ saved \subseteq 1..mail
      /\ faults \in 0..MaxFaults
  OBVIOUS
<1>3. /\ pc \in [Collectors -> Steps]
      /\ seen \in [Collectors -> 0..mail]
      /\ fetched \in [Collectors -> SUBSET (1..mail)]
      /\ runOf \in [Collectors -> {0} \cup Runs]
      /\ leaseLeft \in [Collectors -> 0..LockTTL]
  BY DEF Steps
<1>4. QED
  BY <1>1, <1>2, <1>3 DEF TypeOK

\* A collector that leaves keeps the types.
LEMMA LeaveType ==
  ASSUME TypeOK, NEW c \in Collectors, Leave(c)
  PROVE  /\ pc' \in [Collectors -> Steps]
         /\ seen' \in [Collectors -> 0..mail]
         /\ fetched' \in [Collectors -> SUBSET (1..mail)]
         /\ runOf' \in [Collectors -> {0} \cup Runs]
         /\ leaseLeft' \in [Collectors -> 0..LockTTL]
<1> USE CollectionAssumption
<1>1. mail \in Nat
  BY DEF TypeOK
<1>2. 0 \in 0..mail /\ 0 \in 0..LockTTL /\ "idle" \in Steps
  BY <1>1 DEF Steps
<1>3. QED
  BY <1>2 DEF TypeOK, Leave, Goto

LEMMA FaultType ==
  ASSUME TypeOK, NoFault \/ \E kind : Fault(kind)
  PROVE  faults' \in 0..MaxFaults
  BY CollectionAssumption DEF TypeOK, NoFault, Fault

LEMMA EndRunType ==
  ASSUME TypeOK, NEW r \in Runs, NEW s \in {"running"} \cup Ended, EndRun(r, s)
  PROVE  runs' \in [Runs -> [status : {"none", "running"} \cup Ended, age : 0..(StaleTimeout + 1)]]
<1>1. [status |-> s, age |-> 0] \in [status : {"none", "running"} \cup Ended, age : 0..(StaleTimeout + 1)]
  BY CollectionAssumption
<1>2. QED
  BY <1>1 DEF TypeOK, EndRun

LEMMA StepType == ASSUME TypeOK, [Next]_vars PROVE TypeOK'
<1> USE CollectionAssumption
<1>1. ASSUME NEW c \in Collectors, Find(c) PROVE TypeOK'
  BY <1>1 DEF TypeOK, Find, row, Goto, Steps
<1>2. ASSUME NEW c \in Collectors, MarkStale(c) PROVE TypeOK'
  <2>1. faults' \in 0..MaxFaults
    BY <1>2, FaultType DEF MarkStale
  <2>2. runs' \in [Runs -> [status : {"none", "running"} \cup Ended, age : 0..(StaleTimeout + 1)]]
    BY <1>2 DEF MarkStale, TypeOK, Ended
  <2>3. pc' \in [Collectors -> Steps] /\ seen' \in [Collectors -> 0..mail]
        /\ fetched' \in [Collectors -> SUBSET (1..mail)]
        /\ runOf' \in [Collectors -> {0} \cup Runs]
        /\ leaseLeft' \in [Collectors -> 0..LockTTL]
    <3>1. CASE Leave(c)
      BY <3>1, LeaveType
    <3>2. CASE Goto(c, "lock") /\ UNCHANGED local
      BY <3>2 DEF TypeOK, Goto, local, Steps
    <3>3. QED
      BY <1>2, <3>1, <3>2 DEF MarkStale
  <2>4. deleted' \in BOOLEAN /\ cursor' \in 0..mail
    BY <1>2 DEF MarkStale, TypeOK, row, Update
  <2>5. QED
    BY <1>2, <2>1, <2>2, <2>3, <2>4 DEF MarkStale, TypeOK
<1>3. ASSUME NEW c \in Collectors, Acquire(c) PROVE TypeOK'
  <2>1. faults' \in 0..MaxFaults
    BY <1>3, FaultType DEF Acquire
  <2>2. pc' \in [Collectors -> Steps] /\ seen' \in [Collectors -> 0..mail]
        /\ fetched' \in [Collectors -> SUBSET (1..mail)]
        /\ runOf' \in [Collectors -> {0} \cup Runs]
        /\ leaseLeft' \in [Collectors -> 0..LockTTL]
    <3>1. CASE Leave(c)
      BY <3>1, LeaveType
    <3>2. CASE /\ Goto(c, "create")
               /\ leaseLeft' = [leaseLeft EXCEPT ![c] = LockTTL]
               /\ UNCHANGED <<seen, fetched, runOf>>
      BY <3>2 DEF TypeOK, Goto, Steps
    <3>3. QED
      BY <1>3, <3>1, <3>2 DEF Acquire
  <2>3. lock' \in {Free} \cup [holder : Collectors, left : 1..LockTTL]
    BY <1>3 DEF Acquire, TypeOK
  <2>4. QED
    BY <1>3, <2>1, <2>2, <2>3 DEF Acquire, TypeOK, row
<1>4. ASSUME NEW c \in Collectors, CreateRun(c) PROVE TypeOK'
  <2>1. faults' \in 0..MaxFaults
    BY <1>4, FaultType DEF CreateRun
  <2>2. pc' \in [Collectors -> Steps]
    BY <1>4 DEF CreateRun, TypeOK, Goto, Steps
  <2>3. runs' \in [Runs -> [status : {"none", "running"} \cup Ended, age : 0..(StaleTimeout + 1)]]
    BY <1>4, EndRunType DEF CreateRun, TypeOK, FreeRuns
  <2>4. runOf' \in [Collectors -> {0} \cup Runs]
    BY <1>4 DEF CreateRun, TypeOK, FreeRuns
  <2>5. QED
    BY <1>4, <2>1, <2>2, <2>3, <2>4 DEF CreateRun, TypeOK, row
<1>5. ASSUME NEW c \in Collectors, Collect(c) PROVE TypeOK'
  <2>1. faults' \in 0..MaxFaults
    BY <1>5, FaultType DEF Collect
  <2>2. pc' \in [Collectors -> Steps]
    BY <1>5 DEF Collect, TypeOK, Goto, Steps
  <2>3. mail \in Nat /\ seen[c] \in 0..mail
    BY DEF TypeOK
  <2> DEFINE new == Found(c) \ Known(c)
  <2>4. new \in SUBSET (1..mail)
    BY <2>3 DEF Found
  <2>5. fetched' \in [Collectors -> SUBSET (1..mail)]
    <3>1. fetched' = fetched \/ fetched' = [fetched EXCEPT ![c] = new]
      BY <1>5 DEF Collect
    <3>2. fetched \in [Collectors -> SUBSET (1..mail)]
      BY DEF TypeOK
    <3> HIDE DEF new
    <3>3. QED
      BY <2>4, <3>1, <3>2
  <2>6. seen' \in [Collectors -> 0..mail]
    <3> DEFINE uid == IF mail > seen[c] THEN mail ELSE seen[c]
    <3>1. uid \in 0..mail
      BY <2>3
    <3>2. seen' = seen \/ seen' = [seen EXCEPT ![c] = uid]
      BY <1>5 DEF Collect
    <3> HIDE DEF uid
    <3>3. QED
      BY <3>1, <3>2 DEF TypeOK
  <2>7. QED
    BY <1>5, <2>1, <2>2, <2>5, <2>6 DEF Collect, TypeOK, row
<1>6. ASSUME NEW c \in Collectors, FinishSuccess(c) PROVE TypeOK'
  <2>1. faults' \in 0..MaxFaults
    BY <1>6, FaultType DEF FinishSuccess, Committed, RolledBack
  <2>2. pc' \in [Collectors -> Steps]
    BY <1>6 DEF FinishSuccess, TypeOK, Goto, Steps
  <2>3. runs' \in [Runs -> [status : {"none", "running"} \cup Ended, age : 0..(StaleTimeout + 1)]]
    BY <1>6 DEF FinishSuccess, TypeOK, EndRun, Ended
  <2>4. deleted' \in BOOLEAN /\ cursor' \in 0..mail
    BY <1>6 DEF FinishSuccess, TypeOK, Update, row
  <2>5. saved' \subseteq 1..mail
    <3>1. fetched[c] \subseteq 1..mail /\ saved \subseteq 1..mail
      BY DEF TypeOK
    <3>2. saved' = saved \/ saved' = saved \cup fetched[c]
      BY <1>6 DEF FinishSuccess, Save
    <3>3. QED
      BY <3>1, <3>2
  <2>6. QED
    BY <1>6, <2>1, <2>2, <2>3, <2>4, <2>5 DEF FinishSuccess, TypeOK, local
<1>7. ASSUME NEW c \in Collectors, FinishFailed(c) PROVE TypeOK'
  <2>1. faults' \in 0..MaxFaults
    BY <1>7, FaultType DEF FinishFailed, Committed, RolledBack
  <2>2. pc' \in [Collectors -> Steps]
    BY <1>7 DEF FinishFailed, TypeOK, Goto, Steps
  <2>3. runs' \in [Runs -> [status : {"none", "running"} \cup Ended, age : 0..(StaleTimeout + 1)]]
    BY <1>7 DEF FinishFailed, TypeOK, EndRun, Ended
  <2>4. deleted' \in BOOLEAN /\ cursor' \in 0..mail
    BY <1>7 DEF FinishFailed, TypeOK, Update, row
  <2>5. QED
    BY <1>7, <2>1, <2>2, <2>3, <2>4 DEF FinishFailed, TypeOK, local
<1>8. ASSUME NEW c \in Collectors, Release(c) \/ Crash(c) PROVE TypeOK'
  <2>1. faults' \in 0..MaxFaults
    BY <1>8, FaultType DEF Release, Crash
  <2>2. Leave(c) /\ lock' \in {lock, Free}
    BY <1>8 DEF Release, Crash
  <2>3. QED
    BY <1>8, <2>1, <2>2, LeaveType DEF Release, Crash, TypeOK, row
<1>9. ASSUME DeleteSource \/ BeginUpdate PROVE TypeOK'
  BY <1>9 DEF DeleteSource, BeginUpdate, TypeOK, row, local
<1>10. ASSUME EndUpdate PROVE TypeOK'
  <2>1. PICK uid \in edit : Update(uid) \/ Update(0) \/ (deleted /\ UNCHANGED row)
    BY <1>10 DEF EndUpdate
  <2>2. uid \in 0..mail /\ 0 \in 0..mail
    BY DEF TypeOK
  <2>3. deleted' \in BOOLEAN /\ cursor' \in 0..mail
    BY <2>1, <2>2 DEF Update, TypeOK, row
  <2>4. QED
    BY <1>10, <2>3 DEF EndUpdate, TypeOK, local
<1>11. ASSUME Arrive PROVE TypeOK'
  <2>1. mail \in Nat /\ mail' = mail + 1 /\ mail' \in 0..MaxMail
    BY <1>11 DEF Arrive, TypeOK
  <2>2. 0..mail \subseteq 0..mail' /\ 1..mail \subseteq 1..mail'
    BY <2>1
  <2>3. /\ cursor' \in 0..mail' /\ saved' \subseteq 1..mail'
        /\ edit' \in {{}} \cup {{uid} : uid \in 0..mail'}
    BY <1>11, <2>2 DEF Arrive, TypeOK, row
  <2>4. /\ seen' \in [Collectors -> 0..mail']
        /\ fetched' \in [Collectors -> SUBSET (1..mail')]
    BY <1>11, <2>2 DEF Arrive, TypeOK, local
  <2>5. QED
    BY <1>11, <2>1, <2>3, <2>4 DEF Arrive, TypeOK, row, local
<1>12. ASSUME Tick PROVE TypeOK'
  <2>1. faults' \in 0..MaxFaults
    BY <1>12, FaultType DEF Tick
  <2>2. lock' \in {Free} \cup [holder : Collectors, left : 1..LockTTL]
    BY <1>12 DEF Tick, TypeOK, Free
  <2>3. leaseLeft' \in [Collectors -> 0..LockTTL]
    BY <1>12 DEF Tick, TypeOK
  <2>4. runs' \in [Runs -> [status : {"none", "running"} \cup Ended, age : 0..(StaleTimeout + 1)]]
    BY <1>12 DEF Tick, TypeOK
  <2>5. QED
    BY <1>12, <2>1, <2>2, <2>3, <2>4 DEF Tick, TypeOK, row
<1>13. CASE UNCHANGED vars
  BY <1>13 DEF TypeOK, vars, row, local
<1>14. QED
  BY <1>1, <1>2, <1>3, <1>4, <1>5, <1>6, <1>7, <1>8, <1>9, <1>10, <1>11, <1>12, <1>13
  DEF Next, CollectSource

\* Every variable keeps its type.
THEOREM TypeCorrect == Spec => []TypeOK
  BY InitType, StepType, PTL DEF Spec

-----------------------------------------------------------------------------
(* The lock.  What a collector believes is left of its lease is what Redis  *)
(* has left of its key.                                                     *)

HoldsKey(c) ==
  Locked(pc[c]) /\ leaseLeft[c] > 0 => lock = [holder |-> c, left |-> leaseLeft[c]]

KeysAreHeld == \A c \in Collectors : HoldsKey(c)

\* A collector at a step outside the lock claims nothing.
LEMMA StepsOutside == \A s \in {"idle", "stale", "lock"} : ~Locked(s)
  BY DEF Locked

LEMMA StepHeld == ASSUME TypeOK, KeysAreHeld, [Next]_vars PROVE KeysAreHeld'
<1> USE CollectionAssumption
<1> SUFFICES ASSUME NEW d \in Collectors PROVE HoldsKey(d)'
  BY DEF KeysAreHeld
<1>0. HoldsKey(d) /\ leaseLeft[d] \in 0..LockTTL /\ pc[d] \in Steps
  BY DEF KeysAreHeld, TypeOK
<1>1. ASSUME NEW c \in Collectors, Find(c) \/ MarkStale(c) PROVE HoldsKey(d)'
  <2>1. UNCHANGED lock /\ pc'[c] \in {"idle", "stale", "lock"}
    BY <1>1 DEF Find, MarkStale, Goto, Leave, TypeOK
  <2>2. CASE d = c
    BY <2>1, <2>2, StepsOutside DEF HoldsKey
  <2>3. CASE d # c
    <3>1. pc'[d] = pc[d] /\ leaseLeft'[d] = leaseLeft[d]
      BY <1>1, <2>3 DEF Find, MarkStale, Goto, Leave, TypeOK, local
    <3>2. QED
      BY <1>0, <2>1, <3>1 DEF HoldsKey
  <2>4. QED
    BY <2>2, <2>3
<1>2. ASSUME NEW c \in Collectors, Acquire(c) PROVE HoldsKey(d)'
  <2>1. CASE d = c
    BY <1>2, <2>1 DEF Acquire, HoldsKey, Goto, Leave, TypeOK, Locked
  <2>2. CASE d # c
    <3>1. pc'[d] = pc[d] /\ leaseLeft'[d] = leaseLeft[d]
      BY <1>2, <2>2 DEF Acquire, Goto, Leave, TypeOK
    <3>2. lock.holder = Nobody \/ UNCHANGED lock
      BY <1>2 DEF Acquire, LockIsFree
    <3>3. QED
      BY <1>0, <3>1, <3>2 DEF HoldsKey
  <2>3. QED
    BY <2>1, <2>2
<1>3. ASSUME NEW c \in Collectors,
             CreateRun(c) \/ Collect(c) \/ FinishSuccess(c) \/ FinishFailed(c)
      PROVE  HoldsKey(d)'
  <2>1. UNCHANGED lock /\ Locked(pc[c])
    BY <1>3 DEF CreateRun, Collect, FinishSuccess, FinishFailed, Locked
  <2>2. leaseLeft'[d] = leaseLeft[d]
    BY <1>3 DEF CreateRun, Collect, FinishSuccess, FinishFailed, local
  <2>3. d # c => pc'[d] = pc[d]
    BY <1>3 DEF CreateRun, Collect, FinishSuccess, FinishFailed, Goto, TypeOK
  <2>4. QED
    BY <1>0, <2>1, <2>2, <2>3 DEF HoldsKey
<1>4. ASSUME NEW c \in Collectors, Release(c) \/ Crash(c) PROVE HoldsKey(d)'
  <2>1. Leave(c)
    BY <1>4 DEF Release, Crash
  <2>2. lock' = lock \/ (lock.holder = c /\ lock' = Free)
    BY <1>4 DEF Release, Crash
  <2>3. CASE d = c
    <3>1. pc'[c] = "idle"
      BY <2>1 DEF Leave, Goto, TypeOK
    <3>2. QED
      BY <2>3, <3>1, StepsOutside DEF HoldsKey
  <2>4. CASE d # c
    <3>1. pc'[d] = pc[d] /\ leaseLeft'[d] = leaseLeft[d]
      BY <2>1, <2>4 DEF Leave, Goto, TypeOK
    <3>2. QED
      BY <1>0, <2>2, <2>4, <3>1 DEF HoldsKey
  <2>5. QED
    BY <2>3, <2>4
<1>5. ASSUME DeleteSource \/ BeginUpdate \/ EndUpdate \/ Arrive \/ UNCHANGED vars
      PROVE  HoldsKey(d)'
  <2>1. UNCHANGED <<lock, pc, leaseLeft>>
    BY <1>5 DEF DeleteSource, BeginUpdate, EndUpdate, Arrive, vars, local
  <2>2. QED
    BY <1>0, <2>1 DEF HoldsKey
<1>6. ASSUME Tick PROVE HoldsKey(d)'
  <2>1. UNCHANGED pc /\ leaseLeft'[d] = IF leaseLeft[d] > 0 THEN leaseLeft[d] - 1 ELSE 0
    BY <1>6 DEF Tick
  <2>2. lock' = IF lock.left <= 1 THEN Free ELSE [lock EXCEPT !.left = @ - 1]
    BY <1>6 DEF Tick
  <2>3. SUFFICES ASSUME Locked(pc[d]), leaseLeft[d] > 1
                 PROVE  lock' = [holder |-> d, left |-> leaseLeft[d] - 1]
    BY <1>0, <2>1 DEF HoldsKey
  <2>4. lock = [holder |-> d, left |-> leaseLeft[d]]
    BY <1>0, <2>3 DEF HoldsKey
  <2>5. QED
    BY <1>0, <2>2, <2>3, <2>4
<1>7. QED
  BY <1>1, <1>2, <1>3, <1>4, <1>5, <1>6 DEF Next, CollectSource

LEMMA KeysHeld == Spec => []KeysAreHeld
<1>1. Init => KeysAreHeld
  BY StepsOutside DEF Init, KeysAreHeld, HoldsKey
<1>2. QED
  BY <1>1, TypeCorrect, StepHeld, PTL DEF Spec

\* Within its lease the key is the collector's own (release compares tokens).
THEOREM LeasesAreExclusive == Spec => []LeaseIsExclusive
<1>1. KeysAreHeld => LeaseIsExclusive
  BY DEF KeysAreHeld, HoldsKey, LeaseIsExclusive
<1>2. QED
  BY <1>1, KeysHeld, PTL

-----------------------------------------------------------------------------
(* The deleted source.                                                      *)

\* Every write of a collection or an edit goes through Update, which matches no
\* deleted row, and the articles are stored in the same transaction.
THEOREM DeletedIsLeftAlone == Spec => NothingAfterDeletion
<1>1. ASSUME [Next]_vars, deleted PROVE UNCHANGED <<deleted, cursor, saved>>
  <2>1. ASSUME NEW c \in Collectors, CollectSource(c) \/ Crash(c)
        PROVE  UNCHANGED <<deleted, cursor, saved>>
    BY <1>1, <2>1
    DEF CollectSource, Crash, Find, MarkStale, Acquire, CreateRun, Collect,
        FinishSuccess, FinishFailed, Release, Update, row
  <2>2. CASE DeleteSource \/ BeginUpdate \/ EndUpdate \/ Arrive \/ Tick \/ UNCHANGED vars
    BY <1>1, <2>2
    DEF DeleteSource, BeginUpdate, EndUpdate, Arrive, Tick, Update, vars, row
  <2>3. QED
    BY <1>1, <2>1, <2>2 DEF Next
<1>2. QED
  BY <1>1, PTL DEF Spec, NothingAfterDeletion

-----------------------------------------------------------------------------
(* The cursor.  A copy of the source, a collector's or the user's, may be   *)
(* written back at any later time, so none may be ahead of what is stored;  *)
(* only a collector about to store its messages is ahead, by just those.    *)

Stored(uid, S) == \A u \in Messages : u <= uid => u \in S

\* What must be stored for c to be at step s.
CopyIsSafe(c, s) ==
  /\ s \in {"stale", "lock", "create", "collect", "failure"} => Stored(seen[c], saved)
  /\ s = "success" => Stored(seen[c], saved \cup fetched[c])

CopiesAreSafe ==
  /\ Stored(cursor, saved)
  /\ \A c \in Collectors : CopyIsSafe(c, pc[c])
  /\ \A uid \in edit : Stored(uid, saved)

LEMMA StoredMore ==
  ASSUME NEW uid, NEW S, NEW T, S \subseteq T, Stored(uid, S) PROVE Stored(uid, T)
  BY DEF Stored

LEMMA NothingBelowZero == ASSUME NEW S PROVE Stored(0, S)
  BY CollectionAssumption DEF Stored, Messages

\* Other collectors keep what they have when the articles only grow.
LEMMA OthersAreSafe ==
  ASSUME TypeOK, CopiesAreSafe, saved \subseteq saved', NEW d \in Collectors,
         seen'[d] = seen[d], fetched'[d] = fetched[d], pc'[d] = pc[d]
  PROVE  CopyIsSafe(d, pc[d])'
<1>1. CopyIsSafe(d, pc[d])
  BY DEF CopiesAreSafe
<1>2. saved \cup fetched[d] \subseteq saved' \cup fetched[d]
  OBVIOUS
<1>3. QED
  BY <1>1, <1>2, StoredMore DEF CopyIsSafe

\* A step of c that stores nothing: it needs what its next step asks for.
LEMMA MoveIsSafe ==
  ASSUME TypeOK, CopiesAreSafe, NEW c \in Collectors,
         UNCHANGED <<saved, edit>>,
         cursor' = cursor \/ Stored(cursor', saved),
         \A d \in Collectors \ {c} :
           seen'[d] = seen[d] /\ fetched'[d] = fetched[d] /\ pc'[d] = pc[d],
         CopyIsSafe(c, pc[c])'
  PROVE  CopiesAreSafe'
<1>1. Stored(cursor, saved)' /\ \A uid \in edit : Stored(uid, saved)
  BY DEF CopiesAreSafe
<1>2. \A d \in Collectors : CopyIsSafe(d, pc[d])'
  BY OthersAreSafe
<1>3. QED
  BY <1>1, <1>2 DEF CopiesAreSafe

\* The steps of c leave the other collectors alone.
LEMMA OthersAlone ==
  ASSUME TypeOK, NEW c \in Collectors, CollectSource(c) \/ Crash(c),
         NEW d \in Collectors \ {c}
  PROVE  /\ seen'[d] = seen[d] /\ fetched'[d] = fetched[d]
         /\ runOf'[d] = runOf[d] /\ leaseLeft'[d] = leaseLeft[d]
         /\ pc'[d] = pc[d]
<1>1. CASE Find(c) \/ MarkStale(c) \/ Acquire(c)
  BY <1>1 DEF Find, MarkStale, Acquire, Leave, Goto, local, TypeOK
<1>2. CASE CreateRun(c) \/ Collect(c) \/ FinishSuccess(c) \/ FinishFailed(c)
  BY <1>2 DEF CreateRun, Collect, FinishSuccess, FinishFailed, Goto, local, TypeOK
<1>3. CASE Release(c) \/ Crash(c)
  BY <1>3 DEF Release, Crash, Leave, Goto, TypeOK
<1>4. QED
  BY <1>1, <1>2, <1>3 DEF CollectSource

LEMMA LeaveIsSafe ==
  ASSUME TypeOK, NEW c \in Collectors, Leave(c) PROVE CopyIsSafe(c, pc[c])'
  BY DEF Leave, Goto, TypeOK, CopyIsSafe

LEMMA StepSafe ==
  ASSUME "save" \notin Faults, TypeOK, CopiesAreSafe, [Next]_vars
  PROVE  CopiesAreSafe'
<1>1. ASSUME NEW c \in Collectors, Find(c) PROVE CopiesAreSafe'
  <2>1. UNCHANGED <<saved, edit, cursor>> /\ pc'[c] = "stale" /\ seen'[c] = cursor
    BY <1>1 DEF Find, Goto, TypeOK, row
  <2>2. CopyIsSafe(c, pc[c])'
    BY <2>1 DEF CopyIsSafe, CopiesAreSafe
  <2>3. QED
    BY <1>1, <2>1, <2>2, OthersAlone, MoveIsSafe DEF CollectSource
<1>2. ASSUME NEW c \in Collectors, MarkStale(c) PROVE CopiesAreSafe'
  <2>1. UNCHANGED <<saved, edit>> /\ Stored(seen[c], saved)
    BY <1>2 DEF MarkStale, CopiesAreSafe, CopyIsSafe
  <2>2. cursor' = cursor \/ cursor' = seen[c]
    BY <1>2 DEF MarkStale, Update, row
  <2>3. CASE Leave(c)
    BY <1>2, <2>1, <2>2, <2>3, LeaveIsSafe, OthersAlone, MoveIsSafe DEF CollectSource
  <2>4. CASE Goto(c, "lock") /\ UNCHANGED local
    <3>1. CopyIsSafe(c, pc[c])'
      BY <2>1, <2>4 DEF Goto, TypeOK, CopyIsSafe, local
    <3>2. QED
      BY <1>2, <2>1, <2>2, <3>1, OthersAlone, MoveIsSafe DEF CollectSource
  <2>5. QED
    BY <1>2, <2>3, <2>4 DEF MarkStale
<1>3. ASSUME NEW c \in Collectors, Acquire(c) \/ CreateRun(c) PROVE CopiesAreSafe'
  <2>1. UNCHANGED <<saved, edit, cursor>> /\ Stored(seen[c], saved)
    BY <1>3 DEF Acquire, CreateRun, row, CopiesAreSafe, CopyIsSafe
  <2>2. Leave(c) \/ (pc'[c] \in {"create", "collect", "release"} /\ seen' = seen)
    BY <1>3 DEF Acquire, CreateRun, Goto, TypeOK
  <2>3. CopyIsSafe(c, pc[c])'
    BY <2>1, <2>2, LeaveIsSafe DEF CopyIsSafe
  <2>4. QED
    BY <1>3, <2>1, <2>3, OthersAlone, MoveIsSafe DEF CollectSource
<1>4. ASSUME NEW c \in Collectors, Collect(c) PROVE CopiesAreSafe'
  <2>1. UNCHANGED <<saved, edit, cursor>> /\ Stored(seen[c], saved)
    BY <1>4 DEF Collect, row, CopiesAreSafe, CopyIsSafe
  <2>2. seen[c] \in Nat /\ mail \in Nat
    BY DEF TypeOK
  <2>3. ASSUME pc'[c] = "success", fetched'[c] = Found(c) \ Known(c),
               seen'[c] = IF mail > seen[c] THEN mail ELSE seen[c]
        PROVE  CopyIsSafe(c, pc[c])'
    <3>1. \A u \in Messages : u <= seen'[c] => u <= seen[c] \/ u \in fetched'[c]
      BY <2>2, <2>3, CollectionAssumption DEF Messages, Found, Known
    <3>2. Stored(seen[c], saved \cup fetched[c])'
      BY <2>1, <3>1 DEF Stored
    <3>3. QED
      BY <2>3, <3>2 DEF CopyIsSafe
  <2>4. ASSUME pc'[c] = "failure", seen' = seen PROVE CopyIsSafe(c, pc[c])'
    BY <2>1, <2>4 DEF CopyIsSafe
  <2>5. CopyIsSafe(c, pc[c])'
    <3>1. \/ /\ pc'[c] = "success" /\ fetched'[c] = Found(c) \ Known(c)
             /\ seen'[c] = IF mail > seen[c] THEN mail ELSE seen[c]
          \/ pc'[c] = "failure" /\ seen' = seen
      BY <1>4 DEF Collect, Goto, TypeOK
    <3>2. QED
      BY <2>3, <2>4, <3>1
  <2>6. QED
    BY <1>4, <2>1, <2>5, OthersAlone, MoveIsSafe DEF CollectSource
<1>5. ASSUME NEW c \in Collectors, FinishSuccess(c) PROVE CopiesAreSafe'
  <2>1. pc'[c] = "release" /\ UNCHANGED <<seen, edit>>
    BY <1>5 DEF FinishSuccess, Goto, TypeOK, local, Fault
  <2>2. CopyIsSafe(c, pc[c])'
    BY <2>1 DEF CopyIsSafe
  <2>3. CASE UNCHANGED <<saved, cursor>>
    BY <1>5, <2>1, <2>2, <2>3, OthersAlone, MoveIsSafe DEF CollectSource
  <2>4. CASE saved' = saved \cup fetched[c] /\ cursor' = seen[c]
    <3>1. Stored(cursor, saved)'
      BY <1>5, <2>4 DEF FinishSuccess, CopiesAreSafe, CopyIsSafe
    <3>2. saved \subseteq saved'
      BY <2>4
    <3>3. ASSUME NEW d \in Collectors PROVE CopyIsSafe(d, pc[d])'
      BY <1>5, <2>2, <3>2, OthersAlone, OthersAreSafe DEF CollectSource
    <3>4. \A uid \in edit' : Stored(uid, saved)'
      BY <2>1, <3>2, StoredMore DEF CopiesAreSafe
    <3>5. QED
      BY <3>1, <3>3, <3>4 DEF CopiesAreSafe
  <2>5. QED
    BY <1>5, <2>3, <2>4 DEF FinishSuccess, Save, Update, row
<1>6. ASSUME NEW c \in Collectors, FinishFailed(c) \/ Release(c) \/ Crash(c)
      PROVE  CopiesAreSafe'
  <2>1. UNCHANGED <<saved, edit>>
    BY <1>6 DEF FinishFailed, Release, Crash
  <2>2. cursor' = cursor \/ Stored(cursor', saved)
    BY <1>6 DEF FinishFailed, Release, Crash, Update, row, CopiesAreSafe, CopyIsSafe
  <2>3. Leave(c) \/ pc'[c] = "release"
    BY <1>6 DEF FinishFailed, Release, Crash, Goto, TypeOK
  <2>4. CopyIsSafe(c, pc[c])'
    BY <2>3, LeaveIsSafe DEF CopyIsSafe
  <2>5. QED
    BY <1>6, <2>1, <2>2, <2>4, OthersAlone, MoveIsSafe DEF CollectSource
<1>7. ASSUME UNCHANGED <<saved, pc, seen, fetched>>,
             cursor' = cursor \/ Stored(cursor', saved),
             edit' \subseteq edit \cup {cursor}
      PROVE  CopiesAreSafe'
  <2>1. \A c \in Collectors : CopyIsSafe(c, pc[c])'
    BY <1>7, OthersAreSafe
  <2>2. Stored(cursor, saved)' /\ \A uid \in edit' : Stored(uid, saved)'
    BY <1>7 DEF CopiesAreSafe
  <2>3. QED
    BY <2>1, <2>2 DEF CopiesAreSafe
<1>8. ASSUME EndUpdate PROVE CopiesAreSafe'
  <2>1. cursor' = cursor \/ Stored(cursor', saved)
    BY <1>8, NothingBelowZero DEF EndUpdate, Update, row, CopiesAreSafe
  <2>2. QED
    BY <1>7, <1>8, <2>1 DEF EndUpdate, local
<1>9. ASSUME DeleteSource \/ BeginUpdate \/ Arrive \/ Tick \/ UNCHANGED vars
      PROVE  CopiesAreSafe'
  BY <1>7, <1>9 DEF DeleteSource, BeginUpdate, Arrive, Tick, vars, row, local
<1>10. QED
  BY <1>1, <1>2, <1>3, <1>4, <1>5, <1>6, <1>8, <1>9 DEF Next, CollectSource

\* Unless the article writer fails, the cursor never passes a message that is
\* not stored.
THEOREM CursorIsBehind == "save" \notin Faults /\ Spec => []SavedBehindCursor
<1> SUFFICES ASSUME "save" \notin Faults PROVE Spec => []SavedBehindCursor
  OBVIOUS
<1>1. Init => CopiesAreSafe
  BY NothingBelowZero DEF Init, CopiesAreSafe, CopyIsSafe
<1>2. TypeOK /\ CopiesAreSafe /\ [Next]_vars => CopiesAreSafe'
  BY StepSafe
<1>3. CopiesAreSafe => SavedBehindCursor
  BY DEF CopiesAreSafe, Stored, SavedBehindCursor
<1>4. QED
  BY <1>1, <1>2, <1>3, TypeCorrect, PTL DEF Spec

-----------------------------------------------------------------------------
(* The outcome of a run.  A collection within its lease is younger than the *)
(* stale timeout, and being alone with the lock it shares its run with      *)
(* nobody.                                                                  *)

Working(s) == s \in {"collect", "success", "failure"}

\* What c has at step s: time left, and from CreateRun on a run that is running.
RunsOn(c, s) ==
  /\ Locked(s) => leaseLeft[c] > 0
  /\ Working(s) =>
       /\ runOf[c] \in Runs
       /\ runs[runOf[c]].status = "running"
       /\ runs[runOf[c]].age + leaseLeft[c] <= LockTTL

Timely == \A c \in Collectors : RunsOn(c, pc[c])

LEMMA WorkingIsLocked == \A s : Working(s) => Locked(s)
  BY DEF Working, Locked

\* Two collectors that both have time left would both hold the key.
LEMMA OneHolder ==
  ASSUME KeysAreHeld, Timely, NEW c \in Collectors, NEW d \in Collectors,
         Locked(pc[c]), Locked(pc[d])
  PROVE  c = d
<1>1. lock.holder = c /\ lock.holder = d
  BY DEF KeysAreHeld, HoldsKey, Timely, RunsOn
<1>2. QED
  BY <1>1

\* The run of a collector at work is not stale.
LEMMA NotStale ==
  ASSUME TypeOK, Timely, NEW c \in Collectors, Working(pc[c])
  PROVE  runOf[c] \notin Stale
<1>1. /\ runs[runOf[c]].age + leaseLeft[c] <= LockTTL /\ leaseLeft[c] > 0
      /\ runOf[c] \in Runs
  BY WorkingIsLocked DEF Timely, RunsOn
<1>2. runs[runOf[c]].age \in Nat /\ leaseLeft[c] \in Nat
  BY <1>1, CollectionAssumption DEF TypeOK
<1>3. QED
  BY <1>1, <1>2, CollectionAssumption DEF Stale

\* Collectors whose run a step leaves alone stay in time.
LEMMA OthersInTime ==
  ASSUME Timely, NEW d \in Collectors,
         pc'[d] = pc[d], runOf'[d] = runOf[d], leaseLeft'[d] = leaseLeft[d],
         Working(pc[d]) => runs'[runOf[d]] = runs[runOf[d]]
  PROVE  RunsOn(d, pc[d])'
  BY DEF Timely, RunsOn

LEMMA LeaveInTime ==
  ASSUME TypeOK, NEW c \in Collectors, Leave(c) PROVE RunsOn(c, pc[c])'
  BY DEF Leave, Goto, TypeOK, RunsOn, Locked, Working

LEMMA StepTimely ==
  ASSUME "slow" \notin Faults, TypeOK, KeysAreHeld, Timely, [Next]_vars
  PROVE  Timely'
<1> USE CollectionAssumption
<1> SUFFICES ASSUME NEW d \in Collectors PROVE RunsOn(d, pc[d])'
  BY DEF Timely
<1>0. RunsOn(d, pc[d])
  BY DEF Timely
<1>1. ASSUME NEW c \in Collectors, Find(c) \/ MarkStale(c) \/ Acquire(c)
      PROVE  RunsOn(d, pc[d])'
  <2>1. CASE d # c
    <3>1. Working(pc[d]) => runs'[runOf[d]] = runs[runOf[d]]
      BY <1>0, <1>1, NotStale DEF Find, MarkStale, Acquire, RunsOn
    <3>2. QED
      BY <1>1, <2>1, <3>1, OthersAlone, OthersInTime DEF CollectSource
  <2>2. CASE d = c
    <3>1. \/ Leave(c) \/ pc'[c] \in {"stale", "lock"}
          \/ pc'[c] = "create" /\ leaseLeft'[c] = LockTTL
      BY <1>1 DEF Find, MarkStale, Acquire, Goto, TypeOK
    <3>2. QED
      BY <2>2, <3>1, LeaveInTime DEF RunsOn, Locked, Working
  <2>3. QED
    BY <2>1, <2>2
<1>2. ASSUME NEW c \in Collectors, CreateRun(c) PROVE RunsOn(d, pc[d])'
  <2>1. CASE d # c
    <3>1. ~Working(pc[d])
      BY <1>2, <2>1, OneHolder, WorkingIsLocked DEF CreateRun, Locked
    <3>2. QED
      BY <1>2, <2>1, <3>1, OthersAlone, OthersInTime DEF CollectSource
  <2>2. leaseLeft'[c] = leaseLeft[c] /\ leaseLeft[c] > 0 /\ leaseLeft[c] \in 0..LockTTL
    BY <1>2 DEF CreateRun, Timely, RunsOn, Locked, TypeOK
  <2>3. CASE pc'[c] = "release"
    BY <2>1, <2>2, <2>3 DEF RunsOn, Working
  <2>4. CASE \E r \in Runs : /\ runs'[r] = [status |-> "running", age |-> 0]
                             /\ runOf'[c] = r
    BY <2>1, <2>2, <2>4 DEF RunsOn
  <2>5. QED
    BY <1>2, <2>3, <2>4 DEF CreateRun, Goto, EndRun, FreeRuns, TypeOK
<1>3. ASSUME NEW c \in Collectors,
             Collect(c) \/ FinishSuccess(c) \/ FinishFailed(c) \/ Release(c) \/ Crash(c)
      PROVE  RunsOn(d, pc[d])'
  <2>1. Leave(c) \/ (UNCHANGED <<runOf, leaseLeft>> /\ Working(pc[c]))
    BY <1>3 DEF Collect, FinishSuccess, FinishFailed, Release, Crash, Working, local
  <2>2. CASE Leave(c)
    <3>1. UNCHANGED runs \/ Working(pc[c])
      BY <1>3 DEF Collect, FinishSuccess, FinishFailed, Release, Crash, Working
    <3>2. d # c /\ Working(pc[d]) /\ Working(pc[c]) => FALSE
      BY OneHolder, WorkingIsLocked
    <3>3. QED
      BY <1>3, <2>2, <3>1, <3>2, LeaveInTime, OthersAlone, OthersInTime DEF CollectSource
  <2>3. CASE UNCHANGED <<runOf, leaseLeft>> /\ Working(pc[c])
    <3>1. CASE d # c
      <4>1. ~Working(pc[d])
        BY <2>3, <3>1, OneHolder, WorkingIsLocked
      <4>2. QED
        BY <1>3, <3>1, <4>1, OthersAlone, OthersInTime DEF CollectSource
    <3>2. CASE d = c
      <4>1. Locked(pc[c])
        BY <2>3, WorkingIsLocked
      <4>2. pc'[c] \in {"release", "idle"} \/ (UNCHANGED runs /\ Working(pc'[c]))
        BY <1>3
        DEF Collect, FinishSuccess, FinishFailed, Release, Crash, Leave, Goto, TypeOK,
            Working
      <4>3. QED
        BY <1>0, <2>3, <3>2, <4>1, <4>2 DEF RunsOn, Working
    <3>3. QED
      BY <3>1, <3>2
  <2>4. QED
    BY <2>1, <2>2, <2>3
<1>4. ASSUME DeleteSource \/ BeginUpdate \/ EndUpdate \/ Arrive \/ UNCHANGED vars
      PROVE  RunsOn(d, pc[d])'
  BY <1>4, OthersInTime DEF DeleteSource, BeginUpdate, EndUpdate, Arrive, vars, local
<1>5. ASSUME Tick PROVE RunsOn(d, pc[d])'
  <2>1. UNCHANGED <<pc, runOf>>
    BY <1>5 DEF Tick
  <2>2. SUFFICES ASSUME Locked(pc[d]) PROVE RunsOn(d, pc[d])'
    BY <2>1, WorkingIsLocked DEF RunsOn
  <2>3. leaseLeft[d] \in 0..LockTTL /\ ~(leaseLeft[d] <= 1)
    BY <1>5, <2>2 DEF Tick, Fault, TypeOK
  <2>4. leaseLeft'[d] = leaseLeft[d] - 1
    BY <1>5, <2>3 DEF Tick
  <2>5. ASSUME Working(pc[d])
        PROVE  /\ runs'[runOf[d]].status = "running"
               /\ runs'[runOf[d]].age <= runs[runOf[d]].age + 1
               /\ runs'[runOf[d]].age \in Nat
               /\ runs[runOf[d]].age \in Nat
    <3>1. runOf[d] \in Runs /\ runs[runOf[d]].status = "running"
      BY <1>0, <2>5 DEF RunsOn
    <3>2. runs[runOf[d]] \in [status : {"none", "running"} \cup Ended, age : 0..(StaleTimeout + 1)]
      BY <3>1 DEF TypeOK
    <3>3. runs'[runOf[d]] = IF runs[runOf[d]].age <= StaleTimeout
                            THEN [runs[runOf[d]] EXCEPT !.age = @ + 1]
                            ELSE runs[runOf[d]]
      BY <1>5, <3>1 DEF Tick
    <3>4. QED
      BY <3>1, <3>2, <3>3
  <2>6. QED
    BY <1>0, <2>1, <2>3, <2>4, <2>5 DEF RunsOn
<1>6. QED
  BY <1>1, <1>2, <1>3, <1>4, <1>5 DEF Next, CollectSource

\* Whoever ends a run found it running.
LEMMA StepFinal ==
  ASSUME TypeOK, Timely, [Next]_vars, NEW r \in Runs, runs[r].status \in Ended
  PROVE  runs'[r].status \in {runs[r].status, "running"}
<1>0. runs \in [Runs -> [status : {"none", "running"} \cup Ended, age : 0..(StaleTimeout + 1)]]
  BY DEF TypeOK
<1>1. ASSUME NEW c \in Collectors, FinishSuccess(c) \/ FinishFailed(c)
      PROVE  runs'[r] = runs[r]
  <2>1. runs[runOf[c]].status = "running"
    BY <1>1 DEF FinishSuccess, FinishFailed, Timely, RunsOn, Working
  <2>2. r # runOf[c]
    BY <2>1 DEF Ended
  <2>3. QED
    BY <1>0, <1>1, <2>2 DEF FinishSuccess, FinishFailed, EndRun
<1>2. ASSUME NEW c \in Collectors, MarkStale(c) PROVE runs'[r] = runs[r]
  <2>1. r \notin Stale
    BY DEF Stale, Ended
  <2>2. QED
    BY <1>2, <2>1 DEF MarkStale
<1>3. ASSUME NEW c \in Collectors, CreateRun(c)
      PROVE  runs'[r].status \in {runs[r].status, "running"}
  BY <1>0, <1>3 DEF CreateRun, EndRun
<1>4. ASSUME NEW c \in Collectors,
             Find(c) \/ Acquire(c) \/ Collect(c) \/ Release(c) \/ Crash(c)
      PROVE  runs' = runs
  BY <1>4 DEF Find, Acquire, Collect, Release, Crash
<1>5. ASSUME Tick PROVE runs'[r] = runs[r]
  BY <1>5 DEF Tick, Ended
<1>6. CASE DeleteSource \/ BeginUpdate \/ EndUpdate \/ Arrive \/ UNCHANGED vars
  BY <1>6 DEF DeleteSource, BeginUpdate, EndUpdate, Arrive, vars
<1>7. QED
  BY <1>1, <1>2, <1>3, <1>4, <1>5, <1>6 DEF Next, CollectSource

\* A run that ended keeps its outcome, if collections keep within their lease.
THEOREM OutcomesAreFinal == Spec => OutcomeIsFinal
<1>1. CASE "slow" \notin Faults
  <2>1. Init => Timely
    BY DEF Init, Timely, RunsOn, Locked, Working
  <2>2. TypeOK /\ KeysAreHeld /\ Timely /\ [Next]_vars => Timely'
    BY <1>1, StepTimely
  <2>3. TypeOK /\ Timely /\ [Next]_vars =>
          [\A r \in Runs : "slow" \notin Faults /\ runs[r].status \in Ended =>
             runs'[r].status \in {runs[r].status, "running"}]_vars
    BY StepFinal
  <2>4. QED
    BY <2>1, <2>2, <2>3, TypeCorrect, KeysHeld, PTL DEF Spec, OutcomeIsFinal
<1>2. CASE "slow" \in Faults
  <2>1. [\A r \in Runs : "slow" \notin Faults /\ runs[r].status \in Ended =>
           runs'[r].status \in {runs[r].status, "running"}]_vars
    BY <1>2
  <2>2. QED
    BY <2>1, PTL DEF OutcomeIsFinal
<1>3. QED
  BY <1>1, <1>2
=============================================================================
