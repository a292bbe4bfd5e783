------------------------------- MODULE Outbox -------------------------------
(***************************************************************************)
(* The transactional outbox of internal/module/collectionjob: the table    *)
(* outbox_events (outbox_repository.go, migration 000009), the callers of  *)
(* OutboxProducer.RequestCollection and any number of OutboxDispatchers.   *)
(*                                                                         *)
(* One action is one database transaction, one Kafka write or one step of  *)
(* the clock; everything between two of them interleaves with the other    *)
(* processes.  Time is a counter; all processes read the same clock.       *)
(* A row locked by another transaction is skipped by ClaimReady (SKIP      *)
(* LOCKED): transactions being atomic here, skipping is running after it.  *)
(*                                                                         *)
(* Bounds of the model: MaxRows, MaxNow, MaxFailures (failed dispatches of *)
(* a row) and Horizon.  A behaviour chooses calmFrom, 0 or Horizon: from   *)
(* that instant on no dispatcher fails any more and a batch is dispatched  *)
(* before the clock moves.  A requester may fail at any time.              *)
(***************************************************************************)
EXTENDS Integers, FiniteSets, Backoff

CONSTANTS
  Requesters,   \* concurrent callers of RequestCollection
  Dispatchers,  \* running OutboxDispatchers
  Keys,         \* idempotency keys, one per source
  BatchSize,    \* rows claimed by one DispatchReady
  ClaimTTL,     \* lease of a claim
  BackoffBase,  \* first retry delay
  MaxRows, MaxFailures, MaxNow, Horizon

ASSUME OutboxAssumption ==
  /\ BatchSize \in Nat \ {0}
  /\ ClaimTTL \in Nat \ {0}
  /\ MaxRows \in Nat
  /\ MaxFailures \in Nat
  /\ MaxNow \in Nat
  /\ Horizon \in Nat
  /\ \A n \in 1..MaxFailures : RetryBackoff(BackoffBase, n) \in Nat

VARIABLES
  now,        \* the clock
  calmFrom,   \* the instant from which nothing fails
  lastId,     \* the id sequence of outbox_events
  outbox,     \* id -> row of outbox_events
  published,  \* id -> copies of the event in topic collection.requested
  claims,     \* claim ids drawn so far (randomTaskID never repeats)
  rpc,        \* requester -> step of OutboxRepository.Create it is at
  wanted,     \* requester -> key it asks for
  askedAt,    \* requester -> CreatedAt, read before the first query
  reply,      \* requester -> row it was last told of, 0 for an error
  dpc,        \* dispatcher -> step of DispatchReady it is at
  claimOf,    \* dispatcher -> its claimID
  batchNow,   \* dispatcher -> now, as read when DispatchReady began
  batch       \* dispatcher -> the claimed rows it has still to handle

rvars == <<rpc, wanted, askedAt, reply>>
dvars == <<dpc, claimOf, batchNow, batch>>
table == <<lastId, outbox>>
vars == <<now, calmFrom, table, published, claims, rvars, dvars>>

Ids == 1..lastId

\* Mutant: a claimed row no longer counts as active.
ActiveUntilClaimed == {"pending", "failed"}

Active == {"pending", "failed", "processing"}
Statuses == Active \cup {"sent"}

\* claimId 0 stands for '' and lockedUntil 0 for NULL.
Row == [key : Keys, status : Statuses, attempts : 0..MaxFailures,
        nextAttemptAt : Nat, claimId : Nat, lockedUntil : Nat]

\* The fields of a claimed row the dispatcher keeps and later uses.
Snapshot == [id : 1..MaxRows, attempts : 0..MaxFailures, nextAttemptAt : Nat]

Init ==
  /\ now = 0
  /\ calmFrom \in {0, Horizon}
  /\ lastId = 0
  /\ outbox = [i \in 1..0 |-> 0]
  /\ published = [i \in 1..0 |-> 0]
  /\ claims = 0
  /\ rpc = [r \in Requesters |-> "idle"]
  /\ wanted \in [Requesters -> Keys]
  /\ askedAt = [r \in Requesters |-> 0]
  /\ reply = [r \in Requesters |-> 0]
  /\ dpc = [d \in Dispatchers |-> "idle"]
  /\ claimOf = [d \in Dispatchers |-> 0]
  /\ batchNow = [d \in Dispatchers |-> 0]
  /\ batch = [d \in Dispatchers |-> {}]

-----------------------------------------------------------------------------
(* RequestCollection: GormOutboxRepository.Create, one query at a time.    *)

ActiveIds(k) == {i \in Ids : outbox[i].key = k /\ outbox[i].status \in Active}

\* findActiveByTopicKey: the active row of the key with the least id.
FirstActive(k, i) == i \in ActiveIds(k) /\ \A j \in ActiveIds(k) : i <= j

Reply(r, i) ==
  /\ reply' = [reply EXCEPT ![r] = i]
  /\ askedAt' = [askedAt EXCEPT ![r] = 0]
  /\ rpc' = [rpc EXCEPT ![r] = "idle"]

FindActive(r, k) ==
  /\ rpc[r] = "idle"
  /\ wanted' = [wanted EXCEPT ![r] = k]
  /\ \/ \E i \in Ids : FirstActive(k, i) /\ Reply(r, i)
     \/ /\ ActiveIds(k) = {}
        /\ rpc' = [rpc EXCEPT ![r] = "insert"]
        /\ askedAt' = [askedAt EXCEPT ![r] = now]
        /\ UNCHANGED reply
  /\ UNCHANGED <<now, calmFrom, table, published, claims, dvars>>

NewRow(k, at) ==
  [key |-> k, status |-> "pending", attempts |-> 0, nextAttemptAt |-> at,
   claimId |-> 0, lockedUntil |-> 0]

\* Mutant: the index covers pending rows only.
IndexOfPending(k) == \A i \in ActiveIds(k) : outbox[i].status # "pending"

\* The partial unique index on (topic, event_key) refuses a second active row.
UniqueIndexAllows(k) == ActiveIds(k) = {}

\* An INSERT that took effect may still report an error (its answer is lost, or
\* the caller gives up): the row is queued and the caller is told it is not.
Insert(r) ==
  /\ rpc[r] = "insert"
  /\ \/ /\ UniqueIndexAllows(wanted[r])
        /\ lastId < MaxRows
        /\ lastId' = lastId + 1
        /\ outbox' = [i \in 1..(lastId + 1) |->
             IF i = lastId + 1 THEN NewRow(wanted[r], askedAt[r]) ELSE outbox[i]]
        /\ published' = [i \in 1..(lastId + 1) |->
             IF i = lastId + 1 THEN 0 ELSE published[i]]
        /\ Reply(r, lastId + 1) \/ Reply(r, 0)
     \/ /\ ~UniqueIndexAllows(wanted[r])
        /\ rpc' = [rpc EXCEPT ![r] = "refind"]
        /\ UNCHANGED <<table, published, askedAt, reply>>
  /\ UNCHANGED <<now, calmFrom, claims, wanted, dvars>>

\* After ErrDuplicatedKey: by now the other row may have been sent, and the
\* request fails although nothing is wrong with the database.
Refind(r) ==
  /\ rpc[r] = "refind"
  /\ \/ \E i \in Ids : FirstActive(wanted[r], i) /\ Reply(r, i)
     \/ ActiveIds(wanted[r]) = {} /\ Reply(r, 0)
  /\ UNCHANGED <<now, calmFrom, table, published, claims, wanted, dvars>>

\* Any of these queries, the first one included, may fail without effect, or its
\* caller give up.
RequestFails(r) ==
  /\ Reply(r, 0)
  /\ UNCHANGED <<now, calmFrom, table, published, claims, wanted, dvars>>

-----------------------------------------------------------------------------
(* OutboxDispatcher.DispatchReady.                                         *)

\* Mutant: a claimed row is claimed again before its lease ends.
ReadyDespiteLease(i) ==
  outbox[i].status \in Active /\ outbox[i].nextAttemptAt <= now

\* Mutant: an expired lease is never taken over.
ReadyIfUnclaimed(i) ==
  outbox[i].status \in {"pending", "failed"} /\ outbox[i].nextAttemptAt <= now

Ready(i) ==
  \/ /\ outbox[i].status \in {"pending", "failed"}
     /\ outbox[i].nextAttemptAt <= now
  \/ /\ outbox[i].status = "processing"
     /\ outbox[i].lockedUntil <= now

SnapshotOf(i) ==
  [id |-> i, attempts |-> outbox[i].attempts,
   nextAttemptAt |-> outbox[i].nextAttemptAt]

\* ORDER BY next_attempt_at, id.
Before(e, f) ==
  \/ e.nextAttemptAt < f.nextAttemptAt
  \/ e.nextAttemptAt = f.nextAttemptAt /\ e.id < f.id

\* C is what the query returns under its ORDER BY and LIMIT.
FirstReady(C) ==
  LET ready == {i \in Ids : Ready(i)} IN
  /\ C \subseteq ready
  /\ Cardinality(C) <= BatchSize
  /\ C # ready => Cardinality(C) = BatchSize
  /\ \A i \in C, j \in ready \ C : Before(SnapshotOf(i), SnapshotOf(j))

\* One transaction: select the ready rows, lease them to a fresh claim id.
ClaimReady(d) ==
  /\ dpc[d] = "idle"
  /\ \E C \in SUBSET Ids :
       /\ C # {}
       /\ FirstReady(C)
       /\ outbox' = [i \in Ids |->
            IF i \in C
            THEN [outbox[i] EXCEPT !.status = "processing",
                                   !.claimId = claims + 1,
                                   !.lockedUntil = now + ClaimTTL]
            ELSE outbox[i]]
       /\ batch' = [batch EXCEPT ![d] = {SnapshotOf(i) : i \in C}]
  /\ claims' = claims + 1
  /\ claimOf' = [claimOf EXCEPT ![d] = claims + 1]
  /\ batchNow' = [batchNow EXCEPT ![d] = now]
  /\ dpc' = [dpc EXCEPT ![d] = "write"]
  /\ UNCHANGED <<now, calmFrom, lastId, published, rvars>>

\* e is the row of the batch d is working on.
IsHead(d, e) == e \in batch[d] /\ \A f \in batch[d] \ {e} : Before(e, f)

Publish(i) == published' = [published EXCEPT ![i] = @ + 1]

\* Mutant: the error of Write is ignored and the row is marked sent.
WriteErrorIgnored(d, e) ==
  /\ now < calmFrom
  /\ UNCHANGED published
  /\ dpc' = [dpc EXCEPT ![d] = "markSent"]

\* A write that reports an error may still have reached the topic: the
\* acknowledgement was lost, or the context was cancelled.
WriteError(d, e) ==
  /\ now < calmFrom
  /\ e.attempts < MaxFailures
  /\ Publish(e.id) \/ UNCHANGED published
  /\ dpc' = [dpc EXCEPT ![d] = "markFailed"]

Write(d) ==
  /\ dpc[d] = "write"
  /\ \E e \in batch[d] :
       /\ IsHead(d, e)
       /\ \/ Publish(e.id) /\ dpc' = [dpc EXCEPT ![d] = "markSent"]
          \/ WriteError(d, e)
  /\ UNCHANGED <<now, calmFrom, table, claims, rvars, claimOf, batchNow, batch>>

\* Mutant: the mark does not ask for the claim id.
HoldsAnyClaim(d, i) == outbox[i].status = "processing"

\* updateClaimed: WHERE id = ? AND status = 'processing' AND claim_id = ?
HoldsClaim(d, i) ==
  outbox[i].status = "processing" /\ outbox[i].claimId = claimOf[d]

\* DispatchReady returns; what is left of the batch stays leased.
Abandon(d) ==
  /\ dpc' = [dpc EXCEPT ![d] = "idle"]
  /\ batch' = [batch EXCEPT ![d] = {}]

\* The loop over the batch goes on after row e.
NextOfBatch(d, e) ==
  /\ batch' = [batch EXCEPT ![d] = @ \ {e}]
  /\ dpc' = [dpc EXCEPT ![d] = IF batch[d] = {e} THEN "idle" ELSE "write"]

\* Row e becomes row if d still holds its claim, else the batch is abandoned.
\* The statement, or the read that follows it, may also fail.
UpdateClaimed(d, e, row) ==
  \/ /\ HoldsClaim(d, e.id)
     /\ outbox' = [outbox EXCEPT ![e.id] = row]
     /\ NextOfBatch(d, e) \/ (now < calmFrom /\ Abandon(d))
  \/ /\ now < calmFrom \/ ~HoldsClaim(d, e.id)
     /\ Abandon(d)
     /\ UNCHANGED outbox

SentRow(i) ==
  [outbox[i] EXCEPT !.status = "sent", !.claimId = 0, !.lockedUntil = 0]

\* The attempt count and the clock are those read when the batch was claimed.
FailedRow(d, e) ==
  [outbox[e.id] EXCEPT
     !.status = "failed",
     !.attempts = e.attempts + 1,
     !.nextAttemptAt = batchNow[d] + RetryBackoff(BackoffBase, e.attempts + 1),
     !.claimId = 0,
     !.lockedUntil = 0]

MarkSent(d) ==
  /\ dpc[d] = "markSent"
  /\ \E e \in batch[d] : IsHead(d, e) /\ UpdateClaimed(d, e, SentRow(e.id))
  /\ UNCHANGED <<now, calmFrom, lastId, published, claims, rvars, claimOf, batchNow>>

MarkFailed(d) ==
  /\ dpc[d] = "markFailed"
  /\ \E e \in batch[d] : IsHead(d, e) /\ UpdateClaimed(d, e, FailedRow(d, e))
  /\ UNCHANGED <<now, calmFrom, lastId, published, claims, rvars, claimOf, batchNow>>

\* The process dies, or shuts down in the middle of a batch, and restarts.
Crash(d) ==
  /\ now < calmFrom
  /\ dpc[d] # "idle"
  /\ Abandon(d)
  /\ UNCHANGED <<now, calmFrom, table, published, claims, rvars, claimOf, batchNow>>

-----------------------------------------------------------------------------

\* Before calmFrom a dispatcher may be arbitrarily slow.
Tick ==
  /\ now < MaxNow
  /\ now < calmFrom \/ \A d \in Dispatchers : dpc[d] = "idle"
  /\ now' = now + 1
  /\ UNCHANGED <<calmFrom, table, published, claims, rvars, dvars>>

Request(r) ==
  (\E k \in Keys : FindActive(r, k)) \/ Insert(r) \/ Refind(r) \/ RequestFails(r)

Dispatch(d) == ClaimReady(d) \/ Write(d) \/ MarkSent(d) \/ MarkFailed(d)

Next ==
  \/ \E r \in Requesters : Request(r)
  \/ \E d \in Dispatchers : Dispatch(d) \/ Crash(d)
  \/ Tick

Spec == Init /\ [][Next]_vars

\* Run ticks for ever and DispatchReady has no step that waits for another
\* process, so every dispatcher keeps running; the clock goes on.
Fairness == WF_vars(Tick) /\ \A d \in Dispatchers : WF_vars(Dispatch(d))

FairSpec == Spec /\ Fairness

-----------------------------------------------------------------------------
(* Properties.                                                             *)

\* Every variable stays in its domain; a dispatcher that is not idle has work.
TypeOK ==
  /\ now \in Nat
  /\ calmFrom \in {0, Horizon}
  /\ lastId \in 0..MaxRows
  /\ outbox \in [Ids -> Row]
  /\ published \in [Ids -> Nat]
  /\ claims \in Nat
  /\ rpc \in [Requesters -> {"idle", "insert", "refind"}]
  /\ wanted \in [Requesters -> Keys]
  /\ askedAt \in [Requesters -> Nat]
  /\ reply \in [Requesters -> 0..lastId]
  /\ dpc \in [Dispatchers -> {"idle", "write", "markSent", "markFailed"}]
  /\ claimOf \in [Dispatchers -> 0..claims]
  /\ batchNow \in [Dispatchers -> Nat]
  /\ batch \in [Dispatchers -> SUBSET Snapshot]

\* DispatchReady marks a row sent only after writing it: whatever lease
\* expired and whoever finishes the row, a sent event is in the topic.
SentWasPublished == \A i \in Ids : outbox[i].status = "sent" => published[i] > 0

\* The events of one key reach the topic in the order they were requested,
\* although dispatchers share the table and work from expired claims: the
\* first copy of an event comes after the first copy of every earlier one.
KeyOrder ==
  \A i, j \in Ids :
    outbox[i].key = outbox[j].key /\ i < j /\ published[j] > 0 => published[i] > 0

\* While a lease runs, only the dispatcher it was given to touches the row
\* (TestGormOutboxRepository_ClaimReadySkipsActiveClaims).
LeaseRespected ==
  [][\A i \in Ids :
       /\ outbox[i].status = "processing"
       /\ outbox[i].lockedUntil > now
       /\ outbox'[i] # outbox[i]
       => \E d \in Dispatchers :
            /\ HoldsClaim(d, i)
            /\ \E e \in batch[d] : e.id = i /\ e \notin batch'[d]]_vars

\* A failed dispatch adds exactly one to the attempts of its row, although
\* the count is computed from a copy read when the batch was claimed: the
\* claim check of MarkFailed makes the read-modify-write safe.
FailureCounted ==
  [][\A i \in Ids :
       outbox'[i].status = "failed" /\ outbox'[i] # outbox[i]
       => outbox'[i].attempts = outbox[i].attempts + 1]_vars

\* When no write fails, no process dies and a batch is handled within its
\* lease, concurrent dispatchers publish every event exactly once.
ExactlyOnceWithoutFaults ==
  calmFrom = 0 => \A i \in Ids :
    /\ published[i] <= 1
    /\ outbox[i].status = "sent" => published[i] = 1

\* Create, ClaimReady, MarkSent and MarkFailed together behave as the queue
\* of module EventQueue, where a request is one atomic step.
Queue == INSTANCE EventQueue WITH
  keyOf <- [i \in Ids |-> outbox[i].key],
  settled <- {i \in Ids : outbox[i].status = "sent"},
  delivered <- published

ImplementsEventQueue == Queue!Spec

\* A queued event is eventually marked sent, whatever failed before calmFrom:
\* the lease of a dead dispatcher expires and a failed row comes due again.
EveryEventIsSent ==
  \A i \in 1..MaxRows :
    i \in Ids ~> (i \in Ids /\ outbox[i].status = "sent")
=============================================================================
