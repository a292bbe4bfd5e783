----------------------------- MODULE JobWorker -----------------------------
(***************************************************************************)
(* The collection worker of internal/module/collectionjob: the consumer    *)
(* loop and HandleMessage (worker.go), the table collection_job_executions *)
(* that claims each task for one worker (job_execution.go), and one        *)
(* partition of topic collection.requested with the committed offset of    *)
(* the consumer group (kafka.go).                                          *)
(*                                                                         *)
(* Messages are keyed by source and balanced by hash, so all messages of a *)
(* task share a partition, and tasks of other partitions touch neither its *)
(* offset nor its rows: one partition shows every interaction.             *)
(*                                                                         *)
(* One action is one transaction, one Kafka call or one tick.  A behaviour *)
(* has the faults of the constant Faults or, at most, rebalances; none     *)
(* happens from Horizon on.                                                *)
(* Other bounds: MaxDeliveries in all, retries apart, and MaxNow.          *)
(***************************************************************************)
EXTENDS Integers, Sequences, FiniteSets, Backoff

CONSTANTS
  Workers,      \* members of the consumer group whose process runs Worker.Run
  Idle,         \* members that never fetch: modes api and scheduler
  Tasks,        \* task ids
  Malformed,    \* the tasks whose message fails validation
  MaxAttempts, ClaimTTL, BackoffBase,
  Faults,       \* the kinds of fault this instance has
  MaxDeliveries, MaxNow, Horizon

FaultKinds == {"crash", "write", "db", "rebalance", "slow"}

ASSUME JobWorkerAssumption ==
  /\ Malformed \subseteq Tasks
  /\ Workers \cap Idle = {}
  /\ Faults \subseteq FaultKinds
  /\ MaxAttempts \in Nat \ {0}
  /\ ClaimTTL \in Nat \ {0}
  /\ MaxDeliveries \in Nat /\ MaxNow \in Nat /\ Horizon \in Nat
  /\ \A n \in 1..MaxAttempts : RetryBackoff(BackoffBase, n) \in Nat

VARIABLES
  now,        \* the clock
  faults,     \* the kinds of fault this behaviour may have
  log,        \* the partition of collection.requested, offsets 1..Len(log)
  committed,  \* offset up to which the group has committed
  owner,      \* {m} if the partition is assigned to m, {} if to nobody
  position,   \* last offset the owner fetched
  execs,      \* task -> its row of collection_job_executions
  claims,     \* claim ids drawn so far
  pc,         \* worker -> where it is in Run / HandleMessage
  at,         \* worker -> offset of the message it handles
  claimOf,    \* worker -> its claim id
  completed,  \* task -> collection.completed events written
  dlqItems,   \* task -> rows of collection_dlq_items
  dlqEvents   \* task -> collection.dlq events written

topic == <<log, committed, owner, position>>
table == <<execs, claims>>
outputs == <<completed, dlqItems, dlqEvents>>
local == <<at, claimOf>>
vars == <<now, faults, topic, table, pc, local, outputs>>

Offsets == 1..Len(log)
Members == Workers \cup Idle
Terminal == {"succeeded", "dlq"}
Statuses == {"none", "processing", "failed"} \cup Terminal

\* status "none" is a task with no row yet.
Exec == [status : Statuses, attempt : 0..(MaxAttempts - 1),
         claimId : Nat, lockedUntil : Nat]

\* dueAt 0 is a zero NextAttemptAt.
Message == [task : Tasks, attempt : 0..(MaxAttempts - 1), dueAt : Nat]

\* Between a successful claim and the end of its handling.
Handling == {"collect", "completed", "markSucceeded", "failed", "rejected",
             "retry", "markFailed", "dlqItem", "dlqEvent", "markDLQ"}

Init ==
  /\ now = 0
  /\ faults \in {Faults, Faults \cap {"rebalance"}}
  /\ log = <<>>
  /\ committed = 0
  /\ owner = {}
  /\ position = 0
  /\ execs = [t \in Tasks |->
       [status |-> "none", attempt |-> 0, claimId |-> 0, lockedUntil |-> 0]]
  /\ claims = 0
  /\ pc = [w \in Workers |-> "poll"]
  /\ at = [w \in Workers |-> 0]
  /\ claimOf = [w \in Workers |-> 0]
  /\ completed = [t \in Tasks |-> 0]
  /\ dlqItems = [t \in Tasks |-> 0]
  /\ dlqEvents = [t \in Tasks |-> 0]

May(fault) == fault \in faults /\ now < Horizon

Goto(w, step) == pc' = [pc EXCEPT ![w] = step]

\* HandleMessage returned an error: Run logs it and reads the next message
\* without committing this one.
Skip(w) == Goto(w, "poll")

Msg(w) == log[at[w]]
TaskOf(w) == Msg(w).task

-----------------------------------------------------------------------------
(* The topic and the consumer group.                                       *)

\* The outbox dispatcher or a DLQ replay writes the first message of task t;
\* the outbox delivers at least once, so it may be written again.
Deliver(t) ==
  /\ now <= Horizon
  /\ Cardinality({o \in Offsets : log[o].attempt = 0}) < MaxDeliveries
  /\ log' = Append(log, [task |-> t, attempt |-> 0, dueAt |-> 0])
  /\ UNCHANGED <<now, faults, committed, owner, position, table, pc, local, outputs>>

\* The group gives the partition to a live member, which resumes at the
\* committed offset.  The former owner goes on with the message it holds.
\* Every process opens a reader if Kafka is enabled, whatever its mode, and the
\* reader joins the group: the member may be one that nobody fetches from.
Assign(m) ==
  /\ m \in Workers => pc[m] # "stopped"
  /\ m \notin owner
  /\ owner = {} \/ May("rebalance")
  /\ owner' = {m}
  /\ position' = committed
  /\ UNCHANGED <<now, faults, log, committed, table, pc, local, outputs>>

Fetch(w) ==
  /\ pc[w] = "poll"
  /\ owner = {w}
  /\ position < Len(log)
  /\ position' = position + 1
  /\ at' = [at EXCEPT ![w] = position + 1]
  /\ Goto(w, "received")
  /\ UNCHANGED <<now, faults, log, committed, owner, table, claimOf, outputs>>

\* The process ends: killed, cancelled, or Run returned an error.
Stop(w) == Goto(w, "stopped") /\ owner' = owner \ {w}

\* A worker that lost the partition may have its commit accepted or refused.
Commit(w) ==
  /\ pc[w] = "commit"
  /\ \/ committed' = at[w] /\ Goto(w, "poll") /\ UNCHANGED owner
     \/ /\ w \notin owner \/ May("crash")
        /\ Stop(w)
        /\ UNCHANGED committed
  /\ UNCHANGED <<now, faults, log, position, table, local, outputs>>

Crash(w) ==
  /\ May("crash")
  /\ pc[w] # "stopped"
  /\ Stop(w)
  /\ UNCHANGED <<now, faults, log, committed, position, table, local, outputs>>

Restart(w) ==
  /\ pc[w] = "stopped"
  /\ Goto(w, "poll")
  /\ UNCHANGED <<now, faults, topic, table, local, outputs>>

-----------------------------------------------------------------------------
(* HandleMessage.                                                          *)

\* ErrInvalidMessage is the one error after which Run commits.
RejectInvalid(w) ==
  /\ pc[w] = "received"
  /\ TaskOf(w) \in Malformed
  /\ Goto(w, "commit")
  /\ UNCHANGED <<now, faults, topic, table, local, outputs>>

\* Mutant: the lease of a running execution is not looked at.
ShouldProcessDespiteLease(row, m) ==
  \/ row.status \in {"none", "processing"}
  \/ row.status = "failed" /\ m.attempt > row.attempt

\* Mutant: only the lease is looked at, not the status.
ShouldProcessUnleased(row, m) == row.lockedUntil <= now \/ m.attempt > row.attempt

\* Mutant: a failed execution is not claimed for its retry.
ShouldProcessUnlessFailed(row, m) ==
  row.status = "none" \/ (row.status = "processing" /\ row.lockedUntil <= now)

\* jobExecutionShouldProcess, or the INSERT found no row.
ShouldProcess(row, m) ==
  \/ row.status = "none"
  \/ /\ row.status = "processing"
     /\ m.attempt > row.attempt \/ row.lockedUntil <= now
  \/ row.status = "failed" /\ m.attempt > row.attempt

ClaimRow(w) ==
  /\ execs' = [execs EXCEPT ![TaskOf(w)] =
       [status |-> "processing", attempt |-> Msg(w).attempt,
        claimId |-> claims + 1, lockedUntil |-> now + ClaimTTL]]
  /\ claims' = claims + 1
  /\ claimOf' = [claimOf EXCEPT ![w] = claims + 1]

\* waitUntilNextAttempt and claimExecution.  The transaction may fail, or
\* commit and fail to say so.
Claim(w) ==
  /\ pc[w] = "received"
  /\ TaskOf(w) \notin Malformed
  /\ Msg(w).dueAt <= now
  /\ \/ /\ ShouldProcess(execs[TaskOf(w)], Msg(w))
        /\ ClaimRow(w)
        /\ Goto(w, "collect") \/ (May("db") /\ Skip(w))
     \/ /\ \/ ~ShouldProcess(execs[TaskOf(w)], Msg(w)) /\ Goto(w, "commit")
           \/ May("db") /\ Skip(w)
        /\ UNCHANGED <<table, claimOf>>
  /\ UNCHANGED <<now, faults, topic, at, outputs>>

\* CollectionService.CollectSource succeeds, fails, or is rejected with an
\* error IsPermanentError knows; it never answers (nil, nil).
Collect(w) ==
  /\ pc[w] = "collect"
  /\ \E result \in {"completed", "failed", "rejected"} : Goto(w, result)
  /\ UNCHANGED <<now, faults, topic, table, local, outputs>>

\* Mutant: the error of Write is ignored.
OutcomeIgnored(w, step, effect, none) ==
  (effect \/ (May("write") /\ none)) /\ Goto(w, step)

\* w.writer.Write: the event is written and w goes on, or an error is
\* reported, whether or not the event reached the topic.
Outcome(w, step, effect, none) ==
  \/ effect /\ Goto(w, step)
  \/ May("write") /\ (effect \/ none) /\ Skip(w)

WriteCompleted(w) ==
  /\ pc[w] = "completed"
  /\ Outcome(w, "markSucceeded",
       completed' = [completed EXCEPT ![TaskOf(w)] = @ + 1], UNCHANGED completed)
  /\ UNCHANGED <<now, faults, topic, table, local, dlqItems, dlqEvents>>

\* Mutant: off by one.
BudgetExceeded(w) == pc[w] = "rejected" \/ Msg(w).attempt + 1 > MaxAttempts

\* A permanent error, or no attempt left.
BudgetSpent(w) == pc[w] = "rejected" \/ Msg(w).attempt + 1 >= MaxAttempts

\* The first half of handleFailed: collection.failed, then the decision.
WriteFailed(w) ==
  /\ pc[w] \in {"failed", "rejected"}
  /\ \/ Goto(w, IF BudgetSpent(w) THEN "dlqItem" ELSE "retry")
     \/ May("write") /\ Skip(w)
  /\ UNCHANGED <<now, faults, topic, table, local, outputs>>

CreateDLQItem(w) ==
  /\ pc[w] = "dlqItem"
  /\ \/ /\ dlqItems' = [dlqItems EXCEPT ![TaskOf(w)] = @ + 1]
        /\ Goto(w, "dlqEvent") \/ (May("db") /\ Skip(w))
     \/ May("db") /\ Skip(w) /\ UNCHANGED dlqItems
  /\ UNCHANGED <<now, faults, topic, table, local, completed, dlqEvents>>

WriteDLQ(w) ==
  /\ pc[w] = "dlqEvent"
  /\ Outcome(w, "markDLQ",
       dlqEvents' = [dlqEvents EXCEPT ![TaskOf(w)] = @ + 1], UNCHANGED dlqEvents)
  /\ UNCHANGED <<now, faults, topic, table, local, completed, dlqItems>>

\* The retry is in the topic before the failure is in the table.
WriteRetry(w) ==
  /\ pc[w] = "retry"
  /\ LET next == Msg(w).attempt + 1 IN
       Outcome(w, "markFailed",
         log' = Append(log,
           [task |-> TaskOf(w), attempt |-> next,
            dueAt |-> now + RetryBackoff(BackoffBase, next)]),
         UNCHANGED log)
  /\ UNCHANGED <<now, faults, committed, owner, position, table, local, outputs>>

\* updateClaimed: WHERE task_id = ? AND status = 'processing' AND claim_id = ?
HoldsClaim(w, t) == execs[t].status = "processing" /\ execs[t].claimId = claimOf[w]

\* The claimed row gets its new status, or the claim was lost, or the
\* database fails before or after the update.
UpdateClaimed(w, status, attempt) ==
  /\ \/ /\ HoldsClaim(w, TaskOf(w))
        /\ execs' = [execs EXCEPT ![TaskOf(w)] =
             [status |-> status, attempt |-> attempt,
              claimId |-> 0, lockedUntil |-> 0]]
        /\ Goto(w, "commit") \/ (May("db") /\ Skip(w))
     \/ /\ May("db") \/ ~HoldsClaim(w, TaskOf(w))
        /\ Skip(w)
        /\ UNCHANGED execs
  /\ UNCHANGED <<now, faults, topic, claims, local, outputs>>

MarkSucceeded(w) ==
  /\ pc[w] = "markSucceeded"
  /\ UpdateClaimed(w, "succeeded", execs[TaskOf(w)].attempt)

MarkDLQ(w) ==
  /\ pc[w] = "markDLQ"
  /\ UpdateClaimed(w, "dlq", execs[TaskOf(w)].attempt)

MarkFailed(w) ==
  /\ pc[w] = "markFailed"
  /\ UpdateClaimed(w, "failed", Msg(w).attempt)

-----------------------------------------------------------------------------

\* w sleeps until its message is due, or blocks on an empty partition.
Waiting(w) ==
  \/ pc[w] = "received" /\ Msg(w).dueAt > now
  \/ pc[w] = "poll" /\ owner # {} /\ (w \in owner => position = Len(log))

\* A worker may outlive its lease only if it may be slow; from Horizon on the
\* clock moves only when every worker waits.
Tick ==
  /\ now < MaxNow
  /\ \/ May("slow")
     \/ now < Horizon /\ \A w \in Workers : pc[w] \notin Handling
     \/ \A w \in Workers : Waiting(w)
  /\ now' = now + 1
  /\ UNCHANGED <<faults, topic, table, pc, local, outputs>>

HandleMessage(w) ==
  \/ RejectInvalid(w) \/ Claim(w) \/ Collect(w)
  \/ WriteCompleted(w) \/ MarkSucceeded(w)
  \/ WriteFailed(w) \/ WriteRetry(w) \/ MarkFailed(w)
  \/ CreateDLQItem(w) \/ WriteDLQ(w) \/ MarkDLQ(w)

Run(w) == Fetch(w) \/ HandleMessage(w) \/ Commit(w)

Next ==
  \/ \E t \in Tasks : Deliver(t)
  \/ \E w \in Workers : Run(w) \/ Crash(w) \/ Restart(w)
  \/ \E m \in Members : Assign(m)
  \/ Tick

Spec == Init /\ [][Next]_vars

\* Run loops for ever; a stopped pod is restarted and the group assigns the
\* partition to some live member, a worker or not; the clock goes on.  A
\* collection is not fair: the read of a mailbox has no deadline.
Fairness ==
  /\ WF_vars(Tick)
  /\ WF_vars(\E m \in Members : Assign(m))
  /\ \A w \in Workers : WF_vars(pc[w] # "collect" /\ Run(w)) /\ WF_vars(Restart(w))

FairSpec == Spec /\ Fairness

-----------------------------------------------------------------------------
(* Properties.                                                             *)

\* Every variable stays in its domain.
TypeOK ==
  /\ now \in Nat
  /\ faults \subseteq FaultKinds
  /\ log \in Seq(Message)
  /\ committed \in 0..Len(log)
  /\ owner \in {{}} \cup {{m} : m \in Members}
  /\ position \in 0..Len(log)
  /\ execs \in [Tasks -> Exec]
  /\ claims \in Nat
  /\ pc \in [Workers -> {"poll", "received", "commit", "stopped"} \cup Handling]
  /\ at \in [Workers -> 0..Len(log)]
  /\ claimOf \in [Workers -> 0..claims]
  /\ completed \in [Tasks -> Nat]
  /\ dlqItems \in [Tasks -> Nat]
  /\ dlqEvents \in [Tasks -> Nat]

\* A task that ended stays ended: no redelivery, no stale worker and no late
\* mark reopens or overwrites a succeeded or dead-lettered execution.
TerminalIsFinal ==
  [][\A t \in Tasks : execs[t].status \in Terminal => execs'[t] = execs[t]]_vars

\* What the table says of a task has been announced, whatever failed in
\* between: a success is in collection.completed, a dead task has its DLQ row
\* and its collection.dlq event, and a failed attempt has its retry queued.
EndWasAnnounced ==
  \A t \in Tasks :
    /\ execs[t].status = "succeeded" => completed[t] > 0
    /\ execs[t].status = "dlq" => dlqItems[t] > 0 /\ dlqEvents[t] > 0
    /\ execs[t].status = "failed" =>
         \E o \in Offsets : log[o].task = t /\ log[o].attempt = execs[t].attempt + 1

\* Retries form chains: a retry follows, in the partition, a message of its
\* task with the attempt before it, and no message exceeds the budget.
RetriesFollowAttempts ==
  \A o \in Offsets :
    /\ log[o].attempt < MaxAttempts
    /\ log[o].attempt > 0 =>
         \E p \in 1..(o - 1) :
           log[p].task = log[o].task /\ log[p].attempt = log[o].attempt - 1

\* While a lease runs, the row changes only by the mark of the worker it was
\* given to or by the claim of a newer attempt.
LeaseRespected ==
  [][\A t \in Tasks :
       /\ execs[t].status = "processing"
       /\ execs[t].lockedUntil > now
       /\ execs'[t] # execs[t]
       => \/ /\ execs'[t].status = "processing"
             /\ execs'[t].attempt > execs[t].attempt
          \/ \E w \in Workers :
               /\ pc[w] \in {"markSucceeded", "markFailed", "markDLQ"}
               /\ pc'[w] # pc[w]
               /\ TaskOf(w) = t
               /\ HoldsClaim(w, t)]_vars

\* However often the outbox delivers a message and however the partition is
\* moved, a task ends once if leases outlast the work and nothing fails.
EndsOnceWithoutFaults ==
  faults \subseteq {"rebalance"} =>
    \A t \in Tasks : completed[t] + dlqItems[t] <= 1

\* A message whose handling failed is not committed, so that it comes back
\* (TestWorker_RunDoesNotCommitFailedHandling): a task all of whose messages
\* are committed has ended, or a worker that holds its claim is at work on it.
CommittedIsHandled ==
  \A t \in Tasks \ Malformed :
    LET messages == {o \in Offsets : log[o].task = t} IN
      messages # {} /\ messages \subseteq 1..committed
      => \/ execs[t].status \in Terminal
         \/ \E w \in Workers :
              pc[w] \in Handling /\ TaskOf(w) = t /\ HoldsClaim(w, t)

\* The partition is not left for good with a member that does not fetch from it,
\* and no mail server leaves a worker waiting for ever.
PartitionIsRead == []<>(owner \cap Idle = {})
CollectionsEnd == \A w \in Workers : []<>(pc[w] # "collect")

\* Every delivered task ends, completed or dead-lettered, wherever the partition
\* goes in between: that it comes back to some worker, and that collections end,
\* is enough.  Nothing in the code provides for either.
EveryTaskEnds ==
  PartitionIsRead /\ CollectionsEnd =>
    \A t \in Tasks \ Malformed :
      (\E o \in Offsets : log[o].task = t) ~> execs[t].status \in Terminal
=============================================================================
