----------------------------- MODULE Collection -----------------------------
(***************************************************************************)
(* CollectSource of internal/module/collector/service.go on one mailbox    *)
(* source, by API handlers, schedulers and workers of several replicas:    *)
(* the Redis lock of the source (lock.go), its rows of collection_runs     *)
(* (run_repository.go), the cursor last_seen_uid that the email collector  *)
(* keeps in the source's config (email/collector.go), and a user who edits *)
(* or deletes the source meanwhile (source/service.go).                    *)
(*                                                                         *)
(* One action is one transaction, one Redis call or one read of the        *)
(* mailbox.  Time is relative: a running run has an age, a lock what is    *)
(* left of its TTL, and Tick moves both.                                   *)
(* Bounds: MaxMail, MaxRuns (a slot is reused once its run has ended), and *)
(* MaxFaults, the faults of a behaviour.                                   *)
(***************************************************************************)
EXTENDS Integers, FiniteSets

CONSTANTS
  Collectors,            \* concurrent callers of CollectSource
  Nobody,                \* the holder of a key that does not exist
  LockTTL, StaleTimeout, \* in ticks
  Faults,                \* the kinds of fault this instance has
  MaxFaults, MaxMail, MaxRuns

FaultKinds == {"crash", "db", "redis", "fetch", "save", "slow"}

\* The defaults, which server.go keeps, are 10 and 30 minutes.  A fault leaves
\* at most one run behind, so a slot is always free.
ASSUME CollectionAssumption ==
  /\ Nobody \notin Collectors
  /\ LockTTL \in Nat \ {0}
  /\ StaleTimeout \in Nat /\ LockTTL <= StaleTimeout
  /\ Faults \subseteq FaultKinds
  /\ MaxFaults \in Nat /\ MaxMail \in Nat /\ MaxRuns \in Nat
  /\ IsFiniteSet(Collectors) /\ Cardinality(Collectors) + MaxFaults <= MaxRuns

VARIABLES
  deleted,   \* the source's deleted_at is set
  cursor,    \* last_seen_uid in the source's config_json
  mail,      \* the messages 1..mail are in the mailbox: those with a subject
             \* that match the source's filters.  All others are skipped for
             \* good; an edit that changes the filters is left out
  saved,     \* the messages stored as articles
  runs,      \* collection_runs
  lock,      \* the source's key in Redis
  pc,        \* collector -> its next call
  seen,      \* collector -> last_seen_uid in its copy of the source
  fetched,   \* collector -> the messages it read
  runOf,     \* collector -> its run, 0 before there is one
  leaseLeft, \* collector -> what is left of the lease it was given
  edit,      \* {last_seen_uid read by an UpdateSource in progress} or {}
  faults     \* faults so far

row == <<deleted, cursor>>
local == <<seen, fetched, runOf, leaseLeft>>
vars == <<row, mail, saved, runs, lock, pc, local, edit, faults>>

Runs == 1..MaxRuns
Messages == 1..MaxMail
Ended == {"success", "failed"}
Free == [holder |-> Nobody, left |-> 0]

Steps == {"idle", "stale", "lock", "create", "collect", "success", "failure",
          "release"}

\* Between Acquire and the deferred release.
Locked(s) == s \in {"create", "collect", "success", "failure", "release"}

Init ==
  /\ deleted = FALSE
  /\ cursor = 0
  /\ mail = 0
  /\ saved = {}
  /\ runs = [r \in Runs |-> [status |-> "none", age |-> 0]]
  /\ lock = Free
  /\ pc = [c \in Collectors |-> "idle"]
  /\ seen = [c \in Collectors |-> 0]
  /\ fetched = [c \in Collectors |-> {}]
  /\ runOf = [c \in Collectors |-> 0]
  /\ leaseLeft = [c \in Collectors |-> 0]
  /\ edit = {}
  /\ faults = 0

NoFault == UNCHANGED faults

Fault(kind) ==
  /\ kind \in Faults
  /\ faults < MaxFaults
  /\ faults' = faults + 1

Goto(c, step) == pc' = [pc EXCEPT ![c] = step]

\* CollectSource returned, or its process is gone.
Leave(c) ==
  /\ Goto(c, "idle")
  /\ seen' = [seen EXCEPT ![c] = 0]
  /\ fetched' = [fetched EXCEPT ![c] = {}]
  /\ runOf' = [runOf EXCEPT ![c] = 0]
  /\ leaseLeft' = [leaseLeft EXCEPT ![c] = 0]

\* A committed transaction may still report an error.
Committed == NoFault \/ Fault("db")

\* Mutant: a copy also overwrites the row of a deleted source.
UpdateDeleted(uid) ==
  /\ cursor' = uid
  /\ UNCHANGED deleted

\* GormRepository.Update writes every column of the copy, unless the row is
\* deleted: then it matches no row, and the transaction around it rolls back.
Update(uid) ==
  /\ ~deleted
  /\ cursor' = uid
  /\ UNCHANGED deleted

RolledBack == (deleted /\ NoFault) \/ Fault("db")

EndRun(r, status) == runs' = [runs EXCEPT ![r] = [status |-> status, age |-> 0]]

-----------------------------------------------------------------------------
(* CollectSource.                                                          *)

\* FindByUserIDAndID: the copy of the source is taken before the lock.
Find(c) ==
  /\ pc[c] = "idle"
  /\ ~deleted
  /\ seen' = [seen EXCEPT ![c] = cursor]
  /\ Goto(c, "stale")
  /\ UNCHANGED <<row, mail, saved, runs, lock, fetched, runOf, leaseLeft, edit, faults>>

\* Mutant: every running run is taken for stale.
StaleAtAnyAge == {r \in Runs : runs[r].status = "running"}

\* Mutant: the cutoff is compared the wrong way round.
StaleWhenFresh == {r \in Runs : runs[r].status = "running" /\ runs[r].age < StaleTimeout}

\* The runs MarkStaleRunningFailed selects.
Stale == {r \in Runs : runs[r].status = "running" /\ runs[r].age > StaleTimeout}

\* markStaleRunningRunsFailed, still without the lock.
MarkStale(c) ==
  /\ pc[c] = "stale"
  /\ \/ /\ Stale = {}
        /\ Goto(c, "lock")
        /\ NoFault
        /\ UNCHANGED <<row, runs, local>>
     \/ /\ Stale # {}
        /\ Update(seen[c])
        /\ runs' = [r \in Runs |->
             IF r \in Stale THEN [status |-> "failed", age |-> 0] ELSE runs[r]]
        /\ \/ NoFault /\ Goto(c, "lock") /\ UNCHANGED local
           \/ Fault("db") /\ Leave(c)
     \/ /\ (Stale # {} /\ deleted /\ NoFault) \/ Fault("db")
        /\ Leave(c)
        /\ UNCHANGED <<row, runs>>
  /\ UNCHANGED <<mail, saved, lock, edit>>

LockIsFree == lock.holder = Nobody

\* SET NX with the TTL and a fresh token.  After an error of Redis the caller
\* returns without a lock, even if the key was set.
Acquire(c) ==
  /\ pc[c] = "lock"
  /\ \/ /\ LockIsFree
        /\ lock' = [holder |-> c, left |-> LockTTL]
        /\ \/ /\ NoFault
              /\ Goto(c, "create")
              /\ leaseLeft' = [leaseLeft EXCEPT ![c] = LockTTL]
              /\ UNCHANGED <<seen, fetched, runOf>>
           \/ Fault("redis") /\ Leave(c)
     \/ /\ (~LockIsFree /\ NoFault) \/ Fault("redis")
        /\ Leave(c)
        /\ UNCHANGED lock
  /\ UNCHANGED <<row, mail, saved, runs, edit>>

FreeRuns == {r \in Runs : runs[r].status # "running" /\ \A c \in Collectors : runOf[c] # r}

CreateRun(c) ==
  /\ pc[c] = "create"
  /\ \/ \E r \in FreeRuns :
          /\ \A other \in FreeRuns : r <= other
          /\ EndRun(r, "running")
          /\ \/ /\ NoFault
                /\ Goto(c, "collect")
                /\ runOf' = [runOf EXCEPT ![c] = r]
             \/ /\ Fault("db")
                /\ Goto(c, "release")
                /\ UNCHANGED runOf
     \/ /\ Fault("db")
        /\ Goto(c, "release")
        /\ UNCHANGED <<runs, runOf>>
  /\ UNCHANGED <<row, mail, saved, lock, seen, fetched, leaseLeft, edit>>

\* Mutant: the copy keeps the next UID instead of the last one read.
CollectNextUid(c) ==
  /\ pc[c] = "collect"
  /\ NoFault
  /\ fetched' = [fetched EXCEPT ![c] = (seen[c] + 1)..mail]
  /\ seen' = [seen EXCEPT ![c] = mail + 1]
  /\ Goto(c, "success")
  /\ UNCHANGED <<row, mail, saved, runs, lock, runOf, leaseLeft, edit>>

\* UID SEARCH from the cursor on finds the last message even if it is no newer.
Found(c) == {uid \in 1..mail : seen[c] < uid \/ uid = mail}

\* Every message has a Message-ID, and seen_message_ids moves with the cursor.
Known(c) == 1..seen[c]

\* The email collector: all messages found are read, or none, and the cursor of
\* the copy moves to the highest UID read.  The IMAP connection has no deadline
\* once it is up: if the mail server falls silent, this step is never taken.
Collect(c) ==
  /\ pc[c] = "collect"
  /\ \/ /\ NoFault
        /\ fetched' = [fetched EXCEPT ![c] = Found(c) \ Known(c)]
        /\ seen' = [seen EXCEPT ![c] = IF mail > @ THEN mail ELSE @]
        /\ Goto(c, "success")
     \/ /\ Fault("fetch")
        /\ Goto(c, "failure")
        /\ UNCHANGED <<seen, fetched>>
  /\ UNCHANGED <<row, mail, saved, runs, lock, runOf, leaseLeft, edit>>

\* Mutant: one message that is stored already drops the whole batch.
SaveNoneOfOverlap(c) ==
  saved' = IF fetched[c] \cap saved = {} THEN saved \cup fetched[c] ELSE saved

\* Mutant: the newest message is left for the next collection, which starts
\* after it.
SaveAllButNewest(c) ==
  saved' = saved \cup {uid \in fetched[c] : uid < mail}

\* SaveCollectedItems skips what the unique indexes already hold.
Save(c) == saved' = saved \cup fetched[c]

\* One transaction: articles, run and source.  Only an error of the article
\* writer leads to finishFailed; after any other the run stays running.
FinishSuccess(c) ==
  /\ pc[c] = "success"
  /\ \/ /\ Save(c)
        /\ EndRun(runOf[c], "success")
        /\ Update(seen[c])
        /\ Committed
        /\ Goto(c, "release")
     \/ /\ \/ RolledBack /\ Goto(c, "release")
           \/ Fault("save") /\ Goto(c, "failure")
        /\ UNCHANGED <<row, saved, runs>>
  /\ UNCHANGED <<mail, lock, local, edit>>

FinishFailed(c) ==
  /\ pc[c] = "failure"
  /\ \/ /\ EndRun(runOf[c], "failed")
        /\ Update(seen[c])
        /\ Committed
        /\ Goto(c, "release")
     \/ /\ RolledBack
        /\ Goto(c, "release")
        /\ UNCHANGED <<row, runs>>
  /\ UNCHANGED <<mail, saved, lock, local, edit>>

\* Mutant: the key is deleted without looking at its token.
ReleaseAnyToken(c) ==
  /\ pc[c] = "release"
  /\ NoFault
  /\ lock' = Free
  /\ Leave(c)
  /\ UNCHANGED <<row, mail, saved, runs, edit>>

\* The deferred release deletes the key if it still holds the caller's token;
\* an error is only logged.
Release(c) ==
  /\ pc[c] = "release"
  /\ \/ NoFault /\ lock' = IF lock.holder = c THEN Free ELSE lock
     \/ Fault("redis") /\ lock' \in {lock, IF lock.holder = c THEN Free ELSE lock}
  /\ Leave(c)
  /\ UNCHANGED <<row, mail, saved, runs, edit>>

\* The process dies; its lock stays until the TTL, its run is left running.
Crash(c) ==
  /\ pc[c] # "idle"
  /\ Fault("crash")
  /\ Leave(c)
  /\ UNCHANGED <<row, mail, saved, runs, lock, edit>>

-----------------------------------------------------------------------------
(* The user, the mailbox and the clock.                                    *)

DeleteSource ==
  /\ ~deleted
  /\ deleted' = TRUE
  /\ UNCHANGED <<cursor, mail, saved, runs, lock, pc, local, edit, faults>>

\* UpdateSource reads the row, changes some fields and writes all of them.
BeginUpdate ==
  /\ ~deleted
  /\ edit = {}
  /\ edit' = {cursor}
  /\ UNCHANGED <<row, mail, saved, runs, lock, pc, local, faults>>

\* A new config replaces the whole JSON, the cursor with it.
EndUpdate ==
  /\ \E uid \in edit :
       \/ Update(uid)
       \/ Update(0)
       \/ deleted /\ UNCHANGED row
  /\ edit' = {}
  /\ UNCHANGED <<mail, saved, runs, lock, pc, local, faults>>

Arrive ==
  /\ mail < MaxMail
  /\ mail' = mail + 1
  /\ UNCHANGED <<row, saved, runs, lock, pc, local, edit, faults>>

\* A collection that outlives its lease is a fault: nothing renews the lock and
\* nothing stops the collection.
Tick ==
  /\ IF \E c \in Collectors : Locked(pc[c]) /\ leaseLeft[c] <= 1
     THEN Fault("slow")
     ELSE NoFault
  /\ lock' = IF lock.left <= 1 THEN Free ELSE [lock EXCEPT !.left = @ - 1]
  /\ leaseLeft' = [c \in Collectors |-> IF leaseLeft[c] > 0 THEN leaseLeft[c] - 1 ELSE 0]
  /\ runs' = [r \in Runs |->
       IF runs[r].status = "running" /\ runs[r].age <= StaleTimeout
       THEN [runs[r] EXCEPT !.age = @ + 1]
       ELSE runs[r]]
  /\ UNCHANGED <<row, mail, saved, pc, seen, fetched, runOf, edit>>

-----------------------------------------------------------------------------
CollectSource(c) ==
  \/ Find(c) \/ MarkStale(c) \/ Acquire(c) \/ CreateRun(c) \/ Collect(c)
  \/ FinishSuccess(c) \/ FinishFailed(c) \/ Release(c)

Next ==
  \/ \E c \in Collectors : CollectSource(c) \/ Crash(c)
  \/ DeleteSource \/ BeginUpdate \/ EndUpdate \/ Arrive \/ Tick

Spec == Init /\ [][Next]_vars

\* Whoever asks for collections, a scheduler or its users, keeps asking as long
\* as the collections asked for end, and time goes on although one is going on.
\* Every call ends at some time, but the reading of the mailbox may not.
FairSpec ==
  /\ Spec
  /\ \A c \in Collectors : WF_vars(pc[c] # "collect" /\ CollectSource(c))
  /\ SF_vars(Tick)

-----------------------------------------------------------------------------
TypeOK ==
  /\ deleted \in BOOLEAN
  /\ mail \in 0..MaxMail
  /\ cursor \in 0..mail
  /\ saved \subseteq 1..mail
  /\ runs \in [Runs -> [status : {"none", "running"} \cup Ended, age : 0..(StaleTimeout + 1)]]
  /\ lock \in {Free} \cup [holder : Collectors, left : 1..LockTTL]
  /\ pc \in [Collectors -> Steps]
  /\ seen \in [Collectors -> 0..mail]
  /\ fetched \in [Collectors -> SUBSET (1..mail)]
  /\ runOf \in [Collectors -> {0} \cup Runs]
  /\ leaseLeft \in [Collectors -> 0..LockTTL]
  /\ edit \in {{}} \cup {{uid} : uid \in 0..mail}
  /\ faults \in 0..MaxFaults

\* While its lease lasts, the key in Redis is the collector's own: no release of
\* a collection that outlived its lease, and no crash, frees it for a third.
LeaseIsExclusive ==
  \A c \in Collectors : Locked(pc[c]) /\ leaseLeft[c] > 0 => lock.holder = c

\* The cursor never passes a message that is not stored, whatever copies of the
\* source are written back by overlapping collections and by the user:
\* README.md:3 promises that what is collected is stored.
SavedBehindCursor == \A uid \in Messages : uid <= cursor => uid \in saved

\* Once the user deleted the source, a collection in flight stores nothing more
\* and does not bring the row back.
NothingAfterDeletion ==
  [][deleted => UNCHANGED <<deleted, cursor, saved>>]_vars

\* When collections keep within their lease, a run that ended keeps its
\* outcome: nobody declares dead a collection that is still going on.
OutcomeIsFinal ==
  [][\A r \in Runs : "slow" \notin Faults /\ runs[r].status \in Ended =>
        runs'[r].status \in {runs[r].status, "running"}]_vars

\* What the code cannot promise: the mail server always answers at last, or
\* closes the connection.
CollectionsEnd == \A c \in Collectors : []<>(pc[c] # "collect")

\* If the mail server answers, every message that matches the source's filters
\* is stored, unless the user deletes the source.
EveryMailIsSaved ==
  CollectionsEnd =>
    \A uid \in Messages : mail >= uid ~> (uid \in saved \/ deleted)

\* If the mail server answers, a run that a crash or a failed transaction left
\* running is marked failed by a later collection.  Nobody collects from a
\* deleted source: its runs may stay as they are.
EveryRunEnds ==
  CollectionsEnd =>
    \A r \in Runs :
      runs[r].status = "running" ~> (runs[r].status # "running" \/ deleted)

=============================================================================
