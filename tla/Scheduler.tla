----------------------------- MODULE Scheduler -----------------------------
(***************************************************************************)
(* The periodic collection of internal/module/scheduler: every tick lists  *)
(* the sources that were fetched longest ago and hands them, over an       *)
(* unbuffered channel, to a pool of goroutines started for this round.     *)
(* With Kafka a collection is only requested here, through the outbox, and *)
(* made by a worker later; without, the pool collects.  Server composes it *)
(* with the rest of the process.                                           *)
(***************************************************************************)
EXTENDS Integers, SequencesExt

CONSTANTS
  Sources,      \* in the order of their creation
  Pausable,     \* those the user pauses and resumes
  Concurrency

ASSUME SchedulerAssumption ==
  /\ Pausable \subseteq ToSet(Sources)
  /\ Concurrency \in Nat \ {0}

VARIABLES
  kafka,      \* kafka.enabled
  batchSize,
  cancelled,  \* backgroundCtx is done
  queue,      \* all sources by last_fetched_at, NULL first
  active,     \* sources with is_active, not deleted
  requested,  \* sources with a request on its way to a worker
  round,      \* Run and RunOnce: "off", "select", "feed", "wait" or "stopped"
  feed,       \* sources of this round not handed over yet
  pool,       \* goroutines of this round
  job         \* goroutine -> {the source it collects} or {}

config == <<kafka, batchSize>>
tables == <<queue, active, requested>>
poolVars == <<round, feed, pool, job>>
schedulerVars == <<config, cancelled, tables, poolVars>>

SourceIds == ToSet(Sources)
Goroutines == 1..Concurrency

\* The configuration and round are of the process.
SchedulerInit ==
  /\ cancelled = FALSE
  /\ queue = Sources
  /\ active = SourceIds
  /\ requested = {}
  /\ feed = <<>>
  /\ pool = {}
  /\ job = [g \in Goroutines |-> {}]

\* Mutant: the query has no order but that of creation.
ListedByCreation(n) ==
  LET listed == SelectSeq(Sources, LAMBDA s : s \in active)
  IN  SubSeq(listed, 1, IF Len(listed) < n THEN Len(listed) ELSE n)

\* ListActiveForCollection.
Listed(n) ==
  LET listed == SelectSeq(queue, LAMBDA s : s \in active)
  IN  SubSeq(listed, 1, IF Len(listed) < n THEN Len(listed) ELSE n)

\* A tick of Run starts RunOnce; if the query fails, or finds nothing, it ends.
StartRound ==
  /\ round = "select"
  /\ ~cancelled
  /\ Listed(batchSize) # <<>>
  /\ feed' = Listed(batchSize)
  /\ pool' = {g \in Goroutines : g <= Len(Listed(batchSize))}
  /\ round' = "feed"
  /\ UNCHANGED <<config, cancelled, tables, job>>

\* The select of RunOnce: jobs <- src, when a goroutine waits for it.
Feed(g) ==
  /\ round = "feed"
  /\ feed # <<>>
  /\ g \in pool /\ job[g] = {}
  /\ job' = [job EXCEPT ![g] = {Head(feed)}]
  /\ feed' = Tail(feed)
  /\ UNCHANGED <<config, cancelled, tables, round, pool>>

\* close(jobs), with all sources handed over or the context done.
CloseJobs ==
  /\ round = "feed"
  /\ feed = <<>> \/ cancelled
  /\ feed' = <<>>
  /\ round' = "wait"
  /\ UNCHANGED <<config, cancelled, tables, pool, job>>

\* Mutant: the deferred calls are in the wrong place, RunOnce does not wait.
ReturnsAtOnce(left) == left \subseteq Goroutines

Returns(left) == left = {}

EndRound ==
  /\ round = "wait"
  /\ Returns(pool)
  /\ round' = "select"
  /\ UNCHANGED <<config, cancelled, tables, feed, pool, job>>

StopScheduler ==
  /\ round = "select"
  /\ cancelled
  /\ round' = "stopped"
  /\ UNCHANGED <<config, cancelled, tables, feed, pool, job>>

ToBack(s) == Append(SelectSeq(queue, LAMBDA t : t # s), s)

\* CollectSource of the outbox producer, which answers with an event that is
\* already active, or of the collection service: a collection that ends, with
\* success or not, notes the time.
Collected(g) ==
  /\ job[g] # {}
  /\ \E s \in job[g] :
       IF kafka
       THEN requested' = requested \cup {s} /\ UNCHANGED queue
       ELSE queue' = ToBack(s) /\ UNCHANGED requested
  /\ job' = [job EXCEPT ![g] = {}]
  /\ UNCHANGED <<config, cancelled, active, round, feed, pool>>

\* An error, logged: no such source, lock taken, a failing statement, shutdown.
NotCollected(g) ==
  /\ job[g] # {}
  /\ job' = [job EXCEPT ![g] = {}]
  /\ UNCHANGED <<config, cancelled, tables, round, feed, pool>>

\* The range over jobs ends.
EndGoroutine(g) ==
  /\ round # "feed"
  /\ g \in pool /\ job[g] = {}
  /\ pool' = pool \ {g}
  /\ UNCHANGED <<config, cancelled, tables, round, feed, job>>

\* With the context done nobody lists the sources any more: they stay as they are.

\* A worker, of this process or another, has collected from s.
Settle(s) ==
  /\ ~cancelled
  /\ s \in requested
  /\ requested' = requested \ {s}
  /\ queue' = ToBack(s)
  /\ UNCHANGED <<config, cancelled, active, poolVars>>

\* The user pauses and resumes a source.  An update writes all columns it read;
\* one that straddles a collection, and so takes back its time, is left out.
ToggleActive(s) ==
  /\ ~cancelled
  /\ active' = IF s \in active THEN active \ {s} ELSE active \cup {s}
  /\ UNCHANGED <<config, cancelled, queue, requested, poolVars>>

Goroutine(g) == Collected(g) \/ NotCollected(g) \/ EndGoroutine(g)

SchedulerNext ==
  \/ StartRound \/ CloseJobs \/ EndRound \/ StopScheduler
  \/ \E g \in Goroutines : Feed(g) \/ Goroutine(g)
  \/ \E s \in SourceIds : Settle(s)
  \/ \E s \in Pausable : ToggleActive(s)

Refused(s) == \E g \in Goroutines : job[g] = {s} /\ NotCollected(g)

Accepted(s) == \E g \in Goroutines : job[g] = {s} /\ Collected(g)

\* The scheduler's own steps, and the statements that request a collection, come
\* to an end.  A collection of the pool need not: it may read from a mail server
\* without a deadline.  No source is refused for ever.  Nothing is said of the
\* workers: nobody need ever settle what was requested.
SchedulerFairness ==
  /\ WF_schedulerVars(StartRound) /\ WF_schedulerVars(EndRound)
  /\ WF_schedulerVars(CloseJobs) /\ WF_schedulerVars(StopScheduler)
  /\ WF_schedulerVars(\E g \in Goroutines : Feed(g))
  /\ \A g \in Goroutines :
       WF_schedulerVars((kafka \/ job[g] = {}) /\ Goroutine(g))
  /\ \A s \in SourceIds :
       []<><<Refused(s)>>_schedulerVars => []<><<Accepted(s)>>_schedulerVars

\* What the code cannot promise: every mail server answers at last.
PoolCollectionsEnd == \A g \in Goroutines : []<>(job[g] = {})

\* Nor this: of any batch of sources, some request is settled at last.  Requests
\* are left if their messages lie with a process that never reads them.
BatchesAreSettled ==
  \A S \in SUBSET SourceIds :
    []<>(Cardinality(S) >= batchSize => ~(S \subseteq requested))

\* A source that stays active and whose requests are settled is collected again
\* and again, whatever the batch size and although other sources may never be:
\* listing by the last fetch makes the sources take turns.  It takes that no
\* collection of the pool goes on for ever, since RunOnce waits for all of them,
\* and that the sources never settled, first in the list, are less than a batch.
EverySourceIsCollected ==
  PoolCollectionsEnd /\ BatchesAreSettled =>
    \A s \in SourceIds :
      []<>(s \notin requested) =>
        (queue[Len(queue)] # s /\ s \in active /\ round # "off"
           ~> queue[Len(queue)] = s \/ s \notin active \/ cancelled)
=============================================================================
