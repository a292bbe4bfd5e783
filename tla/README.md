# contentflow: specifications, model checking and proofs

contentflow collects RSS feeds and mailboxes for its users. A Go server
(`src/internal`) keeps sources, articles, users and jobs in PostgreSQL, caches
and locks in Redis, and moves collection jobs through Kafka. One binary runs in
the modes api, scheduler, worker or all (`app/mode.go`); every mode may run in
several replicas. This directory specifies the concurrent and failure-prone
parts in TLA+, checks them with TLC on small instances, and proves the main
safety results with TLAPS for every instance.

## 1. The system

| Component | State | Operations | Interacts with |
|---|---|---|---|
| Transactional outbox (`collectionjob/outbox*.go`) | table `outbox_events`: status, attempts, next attempt, claim, lease | `RequestCollection`/`Create`; `DispatchReady`: `ClaimReady`, write, `MarkSent`, `MarkFailed` | called by HTTP handlers and the scheduler; writes topic `collection.requested` |
| Collection worker (`worker.go`, `job_execution.go`, `kafka.go`) | table `collection_job_executions`, the group's committed offset, the message in hand | `Run`, `HandleMessage`: claim, collect, announce, mark, retry, dead-letter, commit | consumes `collection.requested`; calls the collection service; writes `completed`, `failed`, `dlq` and retries |
| Dead letters (`dlq*.go`) | table `collection_dlq_items` | `Create` (worker), `List`, `Replay`, `MarkHandled` | replay writes a new task to `collection.requested` |
| Collection service (`collector/service.go`, `lock.go`, `run_repository.go`) | runs, the Redis lock of a source, the source row (cursor, status) | `CollectSource`: lock, mark stale runs, create run, fetch, save, finish | called by HTTP, scheduler or worker; sources, articles, list cache |
| RSS and email collectors | the email cursor inside the source's config | `Collect` | upstream servers |
| Sources (`source/`) | table `sources`, list cache in Redis | create, list, update, soft delete | the collection service writes the same rows |
| Articles (`article/`) | articles (unique per source and hash), reader state, list cache | save items, list, update state | called in the collection's transaction |
| Sessions (`auth/`) | tables `users`, `refresh_tokens`; the browser's cookie and access token | register, login, refresh (revoke and create), logout | the rate limiter in front of the login |
| AI summaries (`ai/service.go`, `ai/worker.go`) | table `article_summaries` (pending, processing, succeeded, failed) | request, claim, complete, fail, worker loop | articles, an assistant |
| Assistant requests (`ai/service.go`, `ai/repository.go`) | tables `user_ai_settings`, `article_embeddings`, `daily_digests` | settings, embedding, similar articles, digest, search | articles, an assistant |
| Scheduler (`scheduler/`) | a pool of goroutines per round | `Run`, `RunOnce` | the outbox, or the collection service without Kafka |
| Rate limiter (`ratelimit/`) | a Redis counter with expiry per key and window | `Allow` | HTTP routes |
| Lifecycle (`app/server.go`) | background tasks, error channel | start, first error or signal, shutdown | everything |
| HTTP, config, infrastructure | none of their own | | |

What is hard here: several replicas share one table or one partition and
coordinate through leases only; Kafka and PostgreSQL are updated one after the
other, never together; every call may fail before or after it took effect; a
process may stop between any two of them; a job outlives its lease; a message
comes twice; and the order of writes decides what is lost and what is doubled.

What makes each component correct:

- *Outbox.* One unsettled event per source; an event marked sent is in the
  topic; events of a source arrive in order; a running lease is respected;
  nothing that got a row is forgotten, whatever its requester was told.
- *Worker.* A finished task stays finished; what the table says was announced;
  a lease fences other workers; every delivered task ends, completed or
  dead-lettered, as long as no process dies and no call fails at the wrong moment
  (findings 1 and 2), its partition is read and its collection ends.
- *Dead letters.* An item is replayed into the topic before the caller is told so.
- *Collection service.* Within its lease a collection has the source to itself,
  and its run keeps its outcome; the cursor never passes an item that was not
  saved, unless saving fails (finding 3); nothing is done to a deleted source; a
  matching message is saved, and a run ends, if the mail server answers.
- *Sessions.* A refresh token has one heir; a logout ends all that its session
  could still use, also what a refresh in progress issues.
- *Rate limiter.* At most twice the limit in an interval as long as a window, and a
  refused client is admitted again within one.
- *AI summaries.* A requested summary is eventually produced or failed, unless its
  worker is lost; workers and calls are bounded by the requests.
- *Assistant.* Articles of a deleted source are not given to the assistant again,
  and a removed key is not put back, unless two saves of the settings cross.
- *Caches.* A change is visible to the lists that follow it, or it is known why
  not.
- *Scheduler and lifecycle.* Sources take turns, whatever the batch size, and a
  signal or an error ends the process, if collections end; nothing is at work when
  the writer is closed.

The code does not provide some things one might look for: a change of a source
that a user makes during a collection may be overwritten by it, a handled letter
can be replayed, a letter can be replayed twice, and of two results of one summary
the later wins. They happen in the models, and no property says otherwise.

`PROJECT.json` lists the hazards behind these, each at its line.

## 2. Modules

| Module | What it is |
|---|---|
| `Backoff` | the exponential backoff both retry loops compute |
| `EventQueue` | abstract: what the outbox promises, without table, lease or dispatcher |
| `Outbox` | the outbox in detail; `Queue` is the refinement mapping to `EventQueue` |
| `JobWorker` | the worker, its execution table and one Kafka partition |
| `Collection` | `CollectSource` on a mailbox source: lock, runs, cursor, transactions, and the user's edits |
| `SummaryQueue` | requests for AI summaries and the workers that compute them |
| `RateLimiter` | the fixed-window counter in Redis |
| `Sessions` | accounts, refresh and access tokens, behind `RateLimiter`, which it extends |
| `Catalog` | sources and articles of a user and their cached lists |
| `DeadLetters` | the user's replays and marks of dead letters |
| `Assistant` | the other requests of the AI module, and its settings |
| `Requests` | the four parts of the HTTP API above, side by side |
| `Scheduler` | the periodic collection with its pool of goroutines |
| `Server` | one process in each mode: its tasks, `Scheduler` among them, and how they end |
| `MCOutbox`, `MCJobWorker`, `MCCollection`, `MCSummaryQueue`, `MCRequests`, `MCServer` | small instances for TLC; the `.cfg` files give the constants |
| `OutboxProofs` | the inductive invariants of `Outbox`, the safety theorems, and the proof that it implements `EventQueue` |
| `JobWorkerProofs` | the inductive invariants of `JobWorker` and the safety theorems |
| `CollectionProofs` | the invariants of `Collection` and the safety theorems |
| `SummaryQueueProofs` | the inductive invariant of `SummaryQueue` and the safety theorems |
| `SessionsProofs` | the inductive invariants of `Sessions` and `RateLimiter` and their theorems |
| `CatalogProofs` | the inductive invariant of `Catalog` and its theorem |
| `RequestsProofs` | the inductive invariants of `DeadLetters` and `Assistant`, and the theorems of `Requests` |
| `ServerProofs` | the invariant of `Server` and its theorem |

Next to each property-relevant guard stand its *mutants*: operators marked
`\* Mutant:` that change the definition below them as a plausible bug would.
The specification never uses them; `PROJECT.json` pairs each with a property
that fails when the mutant takes the definition's place.

### Outbox

A row of `outbox` has the columns that steer the code; payload, topic and error
text are left out (there is one topic). `claimId` 0 is the empty claim,
`lockedUntil` 0 is NULL, and claim ids are drawn from a counter because
`randomTaskID` does not repeat. `lastId` is the id sequence.

| Action | Code |
|---|---|
| `FindActive`, `Insert`, `Refind`, `RequestFails` | `GormOutboxRepository.Create`, one query per action; the unique index of migration 000009 decides `Insert`, which may take effect and report an error |
| `ClaimReady` | the transaction of `ClaimReady`, with its order and limit |
| `Write` | `KafkaWriter.Write`; an error may or may not have reached the topic |
| `MarkSent`, `MarkFailed` | `updateClaimed`, its failure modes, and what the loop does next |
| `Crash` | the process dies or shuts down with a batch in hand, and comes back |
| `Tick` | the clock all replicas share |

A behaviour chooses `calmFrom` at its start: 0, so that no dispatcher ever fails,
or `Horizon`, so that anything may fail before it. A request may fail at any time,
with or without a row.

An action is one transaction, one Kafka call or one tick, so the values a
process read earlier (`batchNow`, the rows in `batch`, `askedAt`) are variables
of their own. A read of the clock and the transaction that uses it are one
step. `SKIP LOCKED` needs no lock in the model: transactions are atomic, so
skipping a locked row is running after its holder.

### JobWorker

`log` is the partition, `committed` the group's offset, `owner` and `position`
the current assignment. `pc` names the next call of `HandleMessage`. The
outcome of `CollectSource` is a choice of three: success, an error
`IsPermanentError` knows, another error. Messages of a task carry its source's
key, so they share a partition; other partitions have no effect on it.
`collection.failed` is written but not recorded: no state depends on it.

`Faults` selects what may go wrong in an instance, and `faults` what may in a
behaviour, all of it or at most the rebalances: `crash`, `write` (a Kafka
write reports an error, with or without effect), `db` (a transaction reports an
error, with or without effect), `rebalance` and `slow` (a worker outlives its
lease). `Deliver` stands for the outbox dispatcher and the DLQ replay, and may
write a task several times, because the outbox delivers at least once;
`MaxDeliveries` bounds all its messages together.

`Idle` are the other members of the group. Every process with Kafka opens a reader
of the group (server.go:247-249), in modes api and scheduler too, where no
`Worker.Run` fetches from it; the deployed base runs those modes with the same
configuration as the worker. Such a member may be given the partition and hold it.

### Collection

`JobWorker` sees a collection as an outcome; `Collection` is what happens behind
it, and the API and a scheduler without Kafka call it too. The module takes an
IMAP source, because its cursor is the one piece of data that a collection
writes back: `cursor` is `last_seen_uid` in `config_json`, `seen[c]` the same in
the copy collector c read before it took the lock. The other columns are either
written with it or concern no property. An RSS source is the case of a cursor
that stays 0. `mail` are the messages a collection would store: those that match
the source's filters and have a subject. The collector passes over all others
(email/collector.go:102-109), and they are never stored, by design. `saved` are
the articles: the unique indexes make a second insert of a message nothing.

| Action | Code |
|---|---|
| `Find`, `MarkStale`, `Acquire`, `CreateRun` | `CollectSource` up to the fetch; the first two run without the lock |
| `Collect` | the email collector: `Found` is the search, which returns the last message even when it is no newer than the cursor, `Known` the Message-IDs it passes over; the cursor advances in memory. The connection has no deadline (imap_reader.go:304-318), so that this step need never be taken |
| `FinishSuccess`, `FinishFailed` | the two finalization transactions, all their writes at once or none |
| `Release`, `Crash` | the deferred release with its token; a death that leaves lock and run |
| `DeleteSource`, `BeginUpdate`, `EndUpdate` | the user: soft delete, and the read and the write of `UpdateSource` |
| `Arrive`, `Tick` | new mail; Redis expiring the key, runs growing old |

Time is relative here: a running run has an age up to the stale timeout, a key
what is left of its TTL, so that the clock needs no bound. A client that goes
away cancels the context: the fetch fails, then the transaction (two faults).
`Faults` names the kinds of fault of an instance: `crash`, `db` (a transaction
reports an error, with or without effect), `redis` (likewise), `fetch`, `save`
(the article writer fails) and `slow` (a collection outlives its lease).

### SummaryQueue

`rows` is `article_summaries`, one row per article since the prompt version is
fixed; `wait` is `next_attempt_at` as a distance from now, `text` whether a
summary is stored. `asked`, `renewed`, `claimed` and `faults` are history.

| Action | Code |
|---|---|
| `Ask`, `EnqueueSummary`, `RequestFails` | `RequestSummary`: the reads, then the upsert, which does not look at what was read |
| `ClaimNextSummary`, `FindSummary` | the claiming transaction and the read after it, which misses deleted sources |
| `Summarize` | article, settings and assistant; any of them may fail |
| `CompleteSummary`, `FailSummary` | the result, written by id alone |
| `Abandon` | a worker dies, shuts down, or a statement fails: the row stays as it is |
| `DeleteSource`, `Tick` | the user deletes the article's source; time |

A claim is a change of status and nothing else, so there is no lease to respect.
What takes its place is counted: a row that waits or is answered is a token, a
claim turns the token into a worker, a result turns the worker into a token, and
only a request makes new ones.

### Sessions and RateLimiter

A session is what one login started; its refresh tokens are numbered in the
order of their rows. A handler is a request in progress, and one action is one
query or one Redis script. `cookie` is what the browser keeps, `access` what is
left of a session's latest access token, which no query ever looks up.

| Action | Code |
|---|---|
| `FindByEmail`, `InsertUser` | `Register`; the unique index decides |
| `Throttle` | the middleware and `redisRateLimitScript` (`Count`); a limiter that fails refuses |
| `Authenticate`, `Issue` | `Login`, and the second half of `Refresh`: sign, insert the token's row |
| `FindValidByHash`, `Revoke` | `Refresh`: the lookup, then the update that asks for `revoked_at IS NULL` |
| `Logout` | one update, and the cookie deleted if it hit a row |
| `Deliver` | the answer reaches the browser, late or not at all |
| `Crash`, `Tick` | a process dies; time |

### Catalog

The cache has one key per list: the sources, the articles without filter, the
articles by each flag. `GetList` reads the tables after a miss, `Fill` puts the
list into Redis later; the count and the page are read as one. Every change of
the tables leads, in an action of its own, to `DeleteKey` for the keys the scan
of `DeleteUser` found, or to `Abort`. `SaveCollectedItems` deletes them before
its transaction ends (`Commit`), `DeleteSource` deletes only the list of sources.
`stranded` is history: the keys whose entry is wrong and will stay so until its
TTL ends.

### DeadLetters

`Replay` and `MarkHandled` find the item, whatever its status; `WriteTask` is the
Kafka write of a replay, `UpdateStatus` the update by id, which may fail before
or after it took effect. `ToggleWriter` closes the writer while requests are
served, and opens it in the next process.

### Assistant

Every request is a sequence of queries on `task[h]`, which holds what it read:
`Begin` and its four callers find or list articles, `AssistantForUser` takes the
provider of the settings, `UpsertEmbedding` and `UpsertDigest` store, `Retrieve`
compares vectors, `FindArticle` looks up what was close, `SearchArticles` falls
back to words. `FindAISettings` and `UpsertAISettings` are `UpdateAISettings`: the
key is read and written back unless a new one is given. `old`, `given` and
`crossed` are history. Provider "local" stands for the assistant built into the
server, whose embedding model is the default one; each provider has one model.

### Requests

No variable of the four parts above is read by another, but for the deletion of
a source, which each part has as a step of its own. So a behaviour of `Requests`
is one part, chosen at the start and run from its initial states, with the
others at rest: the product would multiply the states and show nothing new. The
properties of all parts are checked in all behaviours.

### Scheduler and Server

`StartRound` lists the sources and starts the pool; `Feed` is the unbuffered
channel, `CloseJobs` its end, by exhaustion or a cancelled context, and
`EndRound` the wait for the pool. `queue` is the order of `last_fetched_at`: a
collection moves its source to the back. With Kafka a round only asks for
collections, and `Settle` is the worker's, which need not come: a source that was
asked for and is never collected stays at the front of the list. Once the context
is done nobody lists the sources any more, and they stay as they are.

`Server` adds the other tasks of `Run` as loops (`Claim`, `Summarize`, `AiSelect`;
`Dispatch`, `DispatcherSelect`; `Read`, `HandleMessage`, `Commit`), what they do
being the subject of their own modules, and the main goroutine: `Stop` (a signal
or an error, then the context is cancelled), `CloseWriter` after the wait for all
tasks, `Shutdown` of the HTTP server, which an error skips. The error channel has
room for one; later errors are only logged.

## 3. What is checked

| Run | Instance | Shows |
|---|---|---|
| `outbox_safety` | 2 requesters, 2 dispatchers, 1 key, 2 rows, clock 0..3, faults throughout | `TypeOK`, `SentWasPublished`, `KeyOrder`, `LeaseRespected`, `FailureCounted`, `ImplementsEventQueue` |
| `outbox_liveness` | 1 requester, 2 dispatchers, 2 keys, 2 rows, faults before time 1 or none, fairness | `ExactlyOnceWithoutFaults`, `EveryEventIsSent` |
| `jobworker_faults` | 2 workers, 1 idle member, 1 task, 1 delivery, 2 attempts, all faults | `TypeOK`, `EndWasAnnounced`, `RetriesFollowAttempts`, `TerminalIsFinal`, `LeaseRespected` |
| `jobworker_liveness` | 2 workers, 1 idle member, 2 tasks (one malformed), 3 deliveries, clock 0..2, rebalances, slow workers or none, fairness | `EndsOnceWithoutFaults`, `CommittedIsHandled`, `EveryTaskEnds` |
| `jobworker_skipped` | writes may fail | `CommittedIsHandled` is violated: finding 1 |
| `jobworker_crash` | workers may die | `EveryTaskEnds` is violated: finding 2 |
| `collection_safety` | 2 collectors, 2 messages, 2 faults of all kinds but `save` | `TypeOK`, `LeaseIsExclusive`, `SavedBehindCursor`, `NothingAfterDeletion` |
| `collection_liveness` | 2 collectors, 1 message, 1 fault (no `save`, no `slow`), fairness | `OutcomeIsFinal`, `EveryMailIsSaved`, `EveryRunEnds` |
| `collection_cursor` | a failing article writer | `SavedBehindCursor` is violated: finding 3 |
| `summaries` | 1 requester, 2 workers, 1 article, 3 requests, 2 attempts, 1 lost worker, fairness | `TypeOK`, `OneWorkerPerRequest`, `CallBudget`, `ProcessingIsHeld`, `AnswerIsFinal`, `EveryRequestSettles` |
| `requests` | 2 handlers; 1 browser, 2 logins, 3 tokens; 1 source, 1 flag; 1 letter; 2 articles, 1 key | `RequestsTypeOK`, `OneTokenPerSession`, `LogoutEndsSession`, `BurstBound`, `RefusalsEnd`, `StaleIsPending`, `ReplaysAreWritten`, `NothingComesBack` |
| `server` | mode all without Kafka, the other modes with it; 3 sources, batches of 2 and 3 and, with Kafka, of 1, 2 goroutines, fairness | `BackgroundIsOver`, `ShutdownCompletes`, `EverySourceIsCollected` |

**Bounds.** Every race here is between two processes over one row or one
partition, so two requesters, dispatchers and workers show it. Two rows of one
key let an event follow another of its source, two rows of two keys fill a
batch of two (with a third row, left out of a batch, the liveness run takes too
long). A lease of one tick and a clock of two or three
ticks let a lease expire and be taken over, and a retry come due. Two attempts
give one retry and one dead letter; three deliveries bring one of the two tasks
twice. `MaxFailures`, `MaxDeliveries`, `MaxRows` and `MaxNow` only cut off
repetitions. In `Collection` two messages let a batch
overlap with what is stored, and two faults let a collection outlive its lease
beside a crash; a fault leaves at most one run running, so `MaxRuns` slots for
the runs that count are enough. In `SummaryQueue` articles share nothing but the
workers, so one article shows every race; three requests put two workers at it
and ask once more after the first result, and `MaxLate` lets a row be overdue.
In `Requests` every race is between two handlers, of one browser that sends the
same cookie twice, over one source, one list per filter, one letter. Three
tokens let a session refresh twice or a second one start; a limit of 1 in a
window of 2 ticks makes two windows meet; an entry of the cache lives one tick;
two replays are written per letter at most. In `Assistant` two articles tell a
deleted one from the others, and `MaxCalls` keeps one request at the assistant
beside the saves of the settings: requests to it share no row that a property is
about. In `Server` a batch of one makes the three sources take turns and lets one
that is never settled be in the way of another, one of two leaves a source out and
fills both goroutines, and in one of three the last source waits for a goroutine.
The user pauses one of the sources. Mode all with Kafka, which has every
task at once, is too large an instance for liveness: tasks share nothing but the
context and the error channel, and the four deployments checked show each task
with both. What they do not show is a second error while the first is in the
channel.

Symmetry is declared over processes, and only in runs without liveness.

**Deadlock.** The JobWorker instances really stop: when every message is
handled and the clock is at its bound, all workers wait for messages that never
come. So does `Collection` once the user has deleted the source. The outbox
instances always have a next request, and in `SummaryQueue` time never ends:
there deadlock is checked, as in `Requests`, where time or the next request goes
on. A process of `Server` ends, which is what the run is about, so deadlock is
not checked there: `ShutdownCompletes` says it ends where it should, and that a
process which is to go on does is what `EverySourceIsCollected` says.

**Fairness.** `Run` of the dispatcher ticks for ever and no step of
`DispatchReady` waits for another process, hence weak fairness of `Dispatch` per
dispatcher. A worker's loop is fair while its process lives, but for the
collection it waits for; a stopped pod is restarted by its Deployment (`Restart`),
and the group coordinator assigns an unowned partition to some member (`Assign`).
The clock goes on. Faults stop at `Horizon`: without that a write could fail for
ever and no delivery be promised. From `Horizon` on the clock moves only when the
processes are idle or waiting, that is, work is faster than the lease; before it a
process may be arbitrarily slow.

A collection is fair nowhere. The dialogue with a mail server has no deadline once
the connection is up, and does not look at the context (imap_reader.go:304-318),
so `Collect` in `JobWorker` and `Collection`, the pool's goroutines in `Scheduler`
without Kafka and `HandleMessage` in `Server` may stay where they are for ever. What
the liveness properties need of it is their antecedent: `CollectionsEnd` or
`PoolCollectionsEnd`, no collection goes on for ever. All other calls end: those to
PostgreSQL, Redis and Kafka take the context, the HTTP clients of the feeds and of
the remote assistant have timeouts. In the same way `EveryTaskEnds` assumes
`PartitionIsRead`, the partition does not stay with a member that never fetches, and
`EverySourceIsCollected` assumes that the requests of the source are settled and
that fewer than a batch of others are not (`BatchesAreSettled`); no fairness of
`Settle` is assumed. Each of these properties fails without its antecedent.

`SummaryWorker.Run` calls `ProcessNextSummary` again as long as it processes
something and at every tick otherwise, hence weak fairness of `Process` per
worker; `Abandon` is never fair, and a worker may take any time. In `Collection`
whoever asks for collections keeps asking, a scheduler or its users. In `Server`
every other loop is weakly fair, `Read` only when its context is cancelled, since
messages need not come; a `select` with a timer and a cancelled context both ready
takes either at random, hence strong fairness of the case that stops. In
`Scheduler` a source whose collection is refused again and again is accepted again
and again: the lock it may be refused for ends with its TTL. `Requests` assumes
none: `RefusalsEnd` bounds the wait in ticks instead.

### Findings

1. *A failed handling is committed by its successor.* `Worker.Run` skips the
   commit of a message whose handling failed (worker.go:144) and fetches the
   next one. Committing that one commits the offset of both. The test
   `TestWorker_RunDoesNotCommitFailedHandling` (worker_test.go:15) states the
   intent; it has one message, so the difference does not show.
2. *A crash after the claim can strand a task.* The redelivered message has the
   attempt of the row and the lease still runs (job_execution.go:140), so the
   claim is refused, the handler returns nil and the message is committed. The
   row stays `processing`; nothing scans the table for expired leases. The
   sequence in docs/architecture.md:71-83 knows no such end.
3. *A failed save loses mail.* `Collect` advances the cursor in memory; when
   `SaveCollectedItems` fails, the transaction is rolled back, but `finishFailed`
   (service.go:425) writes the same copy. The next search starts behind
   messages that were never stored, against README.md:3 of the repository.

`CommittedIsHandled`, `EveryTaskEnds` and `SavedBehindCursor` hold when the
fault in question is absent, and are checked so.

The liveness runs show two more things by what they have to assume. A mail server
that accepts the connection and then falls silent holds more than its own source:
`RunOnce` waits for its pool (scheduler.go:147), so without Kafka no source of that
scheduler is collected any more; a worker handles no other message; and a shutdown
waits for both. And a process that joins the consumer group without a worker keeps
the partitions it is given: their tasks are not handled as long as it has them, and
their sources, asked for and never collected, stay first in the scheduler's list. No
document speaks of either.

What `requests` shows is in no conflict with the documentation either: a refresh
whose answer is lost, or whose process dies between the update and the insert,
ends its session, since the old token is spent and nobody has the heir; two
tabs that refresh at once leave one of them with an error, and with the heir's
cookie if the browser has it by then; a list that was being read while it was
changed, a collection, or the deletion of a source, leave a stale list in the
cache for its TTL; a replay may be written more than once, but is never answered
with success and not written; and a save of the settings that read the key
before another removed it puts it back.

What `summaries` shows of the summary queue is not in conflict with its
documentation, but is worth knowing: a lost worker strands its summary in
processing until somebody asks again; asking again while a worker is at work
puts a second one beside it, and the later result wins, a failure over a
success; and a summary out of attempts that is requested without regeneration
says pending although nobody will take it up.

## 4. What is proved

For all values of the constants that satisfy `OutboxAssumption` (batch size and
lease are positive, bounds are naturals, and the delays of the failures counted
are naturals):

- `OutboxProofs`: `Spec => []TypeOK`, `[]SentWasPublished`, `[]KeyOrder`,
  `[]ExactlyOnceWithoutFaults`, the action properties `LeaseRespected` and
  `FailureCounted`, and `Spec => Queue!Spec`, that is, `ImplementsEventQueue`.

`SentWasPublished` and `KeyOrder` are not inductive. `Inv` adds what the
dispatcher's local state means:

- `BatchInTable`: the rows of a batch exist;
- `HeadWasWritten`: at `markSent` the row in hand has been published;
- `HeadMayFail`: at `markFailed` its attempts are below the bound, for the type;
- `SnapshotIsCurrent`: while a dispatcher holds a claim, its copy of the row is
  the row: nobody else may change the attempts, which gives `FailureCounted`;
- `OlderAreSent`: all events of a key but the last are sent, because the unique
  index lets a new one in only when none is active. With `SentWasPublished` it
  gives `KeyOrder`.

`ExactlyOnceWithoutFaults` is about behaviours with `calmFrom = 0`. `CalmInv` says
of them that a dispatcher holds a running lease on every row of its batch
(`LeasesRun`: the clock waits for it, and no write fails), that no row is in two
batches (`BatchesAreDisjoint`), and counts the copies: one for a row that is
marked sent or in the hands of a dispatcher that has written it and not yet
marked it, none for the others (`CopiesAreMarked`).

The refinement maps `settled` to the rows marked sent and `delivered` to the
published copies. The lookups of a request stutter or share an event; `Insert`
accepts one, whether its requester is told of the event or of an error, and a
request that fails otherwise leaves the queue as it is; `Write` delivers, `MarkSent` settles (`HeadWasWritten` supplies
`delivered > 0`), and claims, failures, crashes and ticks stutter.

For all values that satisfy `JobWorkerAssumption` (a positive retry budget and
lease, natural bounds and delays), and for every subset of the faults:

- `JobWorkerProofs`: `Spec => []TypeOK`, `[]EndWasAnnounced`,
  `[]RetriesFollowAttempts`, `[]EndsOnceWithoutFaults`, the action properties
  `TerminalIsFinal` and `LeaseRespected`, and, of the behaviours without crashes
  and failing calls (`Calm`), `[]CommittedIsHandled` and `[]NoneIsForgotten`.

`EndWasAnnounced` needs to know what a worker has done before it marks. The
invariant adds `StepAnnounced`: every worker is `Entitled` to the step it is at.
At `markSucceeded` the completed event is out; at `dlqEvent` the DLQ row exists,
at `markDLQ` the event too; at `retry` the next attempt is within the budget;
at `markFailed` the retry is in the partition. Nothing written is undone
(`Grows`), so a worker keeps its entitlement while others move
(`EntitledKept`), and each step of `HandleMessage` earns the next one.
`TerminalIsFinal` and `LeaseRespected` follow from who changes a row: only a
claim, which `ShouldProcess` refuses on a terminal row and on a running lease of
the same or a later attempt, or a mark, which `HoldsClaim` and the status
`processing` guard (`ExecChanges`).

`CommittedIsHandled` is false when a write, a transaction or a process fails
(findings 1 and 2), so its theorem is about behaviours with `Calm`: the partition
may be moved at any time and workers may be slow for ever. Offsets alone do not
carry it: a rebalance sets the position back, and a worker that lost the partition
may still commit. `CalmInv` says which offsets are *passed*: committed, behind the
message some worker has in hand, or behind the next fetch of the owner. A task
without a row has no message passed, and one that failed, or is about to be marked
so by the holder of its claim, has a retry ahead that is not passed and that
`ShouldProcess` would admit (`NothingIsSkipped`). A running execution is in the
hands of the worker that holds its claim (`RunningIsHandled`), whose message has
the attempt of the row (`ClaimsAreTrue`). Fetching, committing and moving the
partition pass nothing that was not passed (`LeavesBehind`, `Decides`); a message
is first passed when it is claimed or refused, and then its task has a row of that
attempt or of a later one. `NoneIsForgotten`, the safety half of `EveryTaskEnds`,
follows too: what has not ended is at work or still to be fetched.

`EndsOnceWithoutFaults` excludes slow workers as well. `QuietInv` says of every
task that its lease runs while it is processed (`LeaseRuns`: the clock waits for
the worker), that whoever is at work on it holds its claim for the latest attempt
in the partition (`WorkIsCurrent`), that at most the next attempt is in the
partition (`RetryIsNext`), and that its end is announced once, by the worker that
is about to mark it or by one that has (`EndsOnce`). A claim therefore comes either
first or after the retry was written, when its predecessor has nothing left to do
but to mark, and has ended nothing (`HolderAlone`).

For all values that satisfy `CollectionAssumption` (in particular a stale
timeout no shorter than the lock's TTL, as the defaults are):

- `CollectionProofs`: `Spec => []TypeOK`, `[]LeaseIsExclusive`,
  `NothingAfterDeletion`, `OutcomeIsFinal`, and, if the article writer does not
  fail, `[]SavedBehindCursor`.

`LeaseIsExclusive` needs that what a collector has left of its lease is what
Redis has left of its key (`KeysAreHeld`). `SavedBehindCursor` needs it of every
copy that may still be written back (`CopiesAreSafe`): a collector about to
store is ahead by exactly the messages it fetched, the user's copy by nothing.
`OutcomeIsFinal` needs `Timely`: a collector at work has a running run whose age
and remaining lease add up to at most the TTL, so that `Stale` cannot select it,
and as the only holder of the key (`OneHolder`) it shares the run with nobody.
The relation TTL <= stale timeout is used there and only there.

For all values that satisfy `SummaryAssumption` (finitely many workers, at least
one attempt, natural bounds and delays):

- `SummaryQueueProofs`: `Spec => []TypeOK`, `[]OneWorkerPerRequest`,
  `[]CallBudget`, `[]ProcessingIsHeld` and `AnswerIsFinal`.

The invariant is per article (`Sound`): workers and
token together are at most the requests (`Balanced`), claims and the attempts
left at most the budget (`Budgeted`). `OneWorkerPerRequest` alone is not
inductive: a failure opens the row for another worker, and only the token it
becomes accounts for it. `AnswerIsFinal` follows: an answered row is a token, so
with one request no worker is left.

For all values that satisfy `SessionsAssumption` (positive lifetimes) and
`RateLimiterAssumption` (a positive limit and window):

- `SessionsProofs`: `Spec => []OneTokenPerSession`, `[]LogoutEndsSession`,
  `[]BurstBound` and `[]RefusalsEnd`.

Between the update and the insert of a refresh its session has no token, so
neither is inductive. The invariant counts the handler as one: `IssuersHoldNone`
(a session issued for has no live token) and `OneIssuer` (nor a second issuer).
`EndedIsOver` adds that an ended session has neither, and that what is left of its
access token and the age of the logout add up to at most `AccessTTL`. Most steps
only take tokens and rights away (`Forgets`); `Revoke` trades a token for the
right, `Issue` trades it back, and `Logout`, which hits a live token, ends the
session with all it has.

Of the limiter the invariant says what a key's counter and its TTL tell of the
requests admitted in the last ticks (`Accounted`): at most the limit in the present
window, no more than its counter, and at most the limit before it. A refusal is not
older than the window whose end is still ahead, which gives `RefusalsEnd`.

For all sets of handlers, sources and flags:

- `CatalogProofs`: `Spec => []StaleIsPending`.

The invariant adds that a handler with keys to delete is deleting
(`DeletersDelete`), so that no request drops them by starting something else, and
that a source which does not exist has no article (`CollectedExists`), so that
creating one changes no list of articles, as `CreateSource` relies on. Each step
then shows of each key that it stays covered.

For all values that satisfy `RequestsAssumption` (a positive lifetime of a cached
list, a natural bound of replays), and the two above:

- `RequestsProofs`: `RequestsSpec => []RequestsTypeOK`, `[]StaleIsPending`,
  `[]ReplaysAreWritten` and `[]NothingComesBack`, and `RequestsSpec => Spec`, the
  specification of `Sessions`, so that its four theorems hold among all requests.

A behaviour of `Requests` keeps the parts at rest in a state their invariants
allow, so the invariant is the conjunction of those of the parts. Of the lists it
is that of `CatalogProofs`, taken over for the instance `Lists`
(`TheSameLists`), with the types of what a handler holds at each step. Of the dead
letters, `ReplaysAreWritten` alone does not account for the handlers between
their write and their mark: `WritesAreAccounted` has the answers of an item and
these handlers together at most the tasks written for it. Of the assistant,
`NothingComesBack` alone does not say what a request may still be given:
`GoneIsLeftOut` has what was gone when a request began still gone and out of its
inputs, so that neither a search nor a lookup brings it in, and `LastKeyIsKept`
has every save in progress that keeps the key carry the last one given.

For all values that satisfy `SchedulerAssumption` and `ServerAssumption`, which
the proof does not need:

- `ServerProofs`: `Spec => []BackgroundIsOver`, because outside of a round the pool
  is empty, and a loop that has ended takes no step.

Every invariant and every action property that a run checks is proved. Only
model-checked are the liveness properties: `EveryEventIsSent`, `EveryTaskEnds`,
`EveryMailIsSaved`, `EveryRunEnds`, `EveryRequestSettles`, `ShutdownCompletes` and
`EverySourceIsCollected`. The prover has no rules for `ENABLED`, which weak and
strong fairness are defined by.

## 5. Not modelled

- *Payloads, error texts, logging, metrics, HTTP envelopes*: no property is
  about them.
- *`collectionjob/producer.go`*: server.go does not use it.
- *Clock skew between replicas*: leases compare clocks of different machines;
  the model has one clock.
- *Loss inside PostgreSQL, Kafka or Redis*: a committed transaction and an
  acknowledged write are durable.
- *Overtaken updates of a source*: an update writes every column it read. What
  this does to cursor and deletion is in `Collection`; that it may also put back
  `last_fetched_at` or `is_active` is left out of `Scheduler` and `Catalog`.
- *RSS and IMAP parsing, prompts, similarity, the HTTP client of the remote
  assistant, encryption, address checks, configuration*: libraries, I/O or pure
  functions. Mails have a Message-ID; a mailbox whose messages cannot be read at
  all is the fault `fetch`, which is bounded.
- *Normalisation of addresses and URLs, passwords, signatures*: data. An address
  is what `normalizeEmail` returns.
- *Handlers that only read*: lists of runs and letters, `Me`, and `GetDigest`, which
  returns a stored digest as it is, with articles whose source was deleted since.
- *Two simplifications that no property notices*: `Ask` of `SummaryQueue` reads
  article and summary in one step, the code in two queries; and `Throttle` of
  `Sessions` refuses without counting when the limiter fails, whereas a script whose
  answer is lost has counted.
- *HTTP routing and validation, requests to collect*: stateless in front of the
  service they call.
- *Start-up*: connections and wiring either succeed or end the process.
- *Deployment, the API description and the frontend.*

## 6. Plan

All components that keep state are modelled, and their safety is proved. What is
left:

1. The safety half of the other liveness properties as theorems: an invariant that says
   of every event, task or run that has not ended which step of which process
   would take it further, so that only the fairness is left to TLC.
2. The hazards without a property are of two kinds. For some the code makes no
   promise to state (requests answered with an event that is just being collected,
   double replays, a handled item replayed); the attempt of an expired lease that
   goes back could get a bound on how often a task is collected.
