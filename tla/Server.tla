------------------------------- MODULE Server -------------------------------
(***************************************************************************)
(* One process of internal/app: what Run starts in the four modes, how its *)
(* background tasks and the HTTP server run beside each other, and how     *)
(* they end, after a signal or an error.  The scheduler is detailed in     *)
(* Scheduler; of the other tasks only their loops are here: what they do   *)
(* is in Outbox, JobWorker and SummaryQueue.                               *)
(***************************************************************************)
EXTENDS Scheduler

CONSTANT Deployments  \* the configurations processes run with

ASSUME ServerAssumption ==
  Deployments \subseteq
    [mode : {"all", "api", "scheduler", "worker"},
     kafka : BOOLEAN,
     batchSize : Nat \ {0}]

VARIABLES
  main,       \* Run: "select", "wait", "shutdown" or "returned"
  failed,     \* Run has received an error
  errCh,      \* errors in the channel, which has room for one
  ai,         \* SummaryWorker.Run; the loops are "off", "stopped" or at a step
  worker,     \* Worker.Run
  dispatcher, \* OutboxDispatcher.Run
  http        \* the HTTP server listens

loops == <<ai, worker, dispatcher>>
vars == <<schedulerVars, main, failed, errCh, loops, http>>

\* runtimePlanForMode.
Plan(mode) ==
  [http |-> mode \in {"all", "api"},
   scheduler |-> mode \in {"all", "scheduler"},
   worker |-> mode \in {"all", "worker"}]

\* The tasks of the plan run when Run comes to its select: nothing depends on
\* the order they start in.  Mode worker without Kafka is refused before.  With
\* Kafka the process has a reader of the consumer group in every mode; in modes
\* api and scheduler no loop of it fetches (JobWorker has such members as Idle).
Init ==
  /\ SchedulerInit
  /\ \E deployed \in Deployments :
       LET plan == Plan(deployed.mode)
       IN  /\ deployed.mode = "worker" => deployed.kafka
           /\ kafka = deployed.kafka
           /\ batchSize = deployed.batchSize
           /\ round = IF plan.scheduler THEN "select" ELSE "off"
           /\ ai = IF plan.scheduler \/ plan.worker THEN "claim" ELSE "off"
           /\ worker = IF plan.worker /\ kafka THEN "read" ELSE "off"
           /\ dispatcher = IF plan.scheduler /\ kafka THEN "dispatch" ELSE "off"
           /\ http = plan.http
  /\ main = "select"
  /\ failed = FALSE
  /\ errCh = 0

Ended(state) == state \in {"off", "stopped"}

\* startBackgroundTask: an error that finds the channel full is only logged.
Report == errCh' = 1

-----------------------------------------------------------------------------
(* The background tasks.                                                   *)

SchedulerStep ==
  /\ SchedulerNext
  /\ UNCHANGED <<main, failed, errCh, loops, http>>

\* Mutant: an error of the claim counts as a summary that was processed.
AfterNoClaimAgain == {"claim"}

\* No summary is ready, or the claim fails, as it does with a cancelled context.
AfterNoClaim == {"select"}

Claim ==
  /\ ai = "claim"
  /\ \/ ~cancelled /\ ai' = "summarize"
     \/ ai' \in AfterNoClaim
  /\ UNCHANGED <<schedulerVars, main, failed, errCh, worker, dispatcher, http>>

\* Summarized or failed: the loop claims the next without looking at the context.
Summarize ==
  /\ ai = "summarize"
  /\ ai' = "claim"
  /\ UNCHANGED <<schedulerVars, main, failed, errCh, worker, dispatcher, http>>

\* Done or tick: with both ready the select takes either.
AiSelect ==
  /\ ai = "select"
  /\ \/ cancelled /\ ai' = "stopped"
     \/ ai' = "claim"
  /\ UNCHANGED <<schedulerVars, main, failed, errCh, worker, dispatcher, http>>

\* DispatchReady: in a cancelled context every statement and every write fails.
Dispatch ==
  /\ dispatcher = "dispatch"
  /\ dispatcher' = "select"
  /\ UNCHANGED <<schedulerVars, main, failed, errCh, ai, worker, http>>

DispatcherSelect ==
  /\ dispatcher = "select"
  /\ \/ cancelled /\ dispatcher' = "stopped"
     \/ dispatcher' = "dispatch"
  /\ UNCHANGED <<schedulerVars, main, failed, errCh, ai, worker, http>>

\* A cancelled read ends the worker; a closed reader or another error does too,
\* and brings the process down.
Read ==
  /\ worker = "read"
  /\ \/ ~cancelled /\ worker' = "handle" /\ UNCHANGED errCh
     \/ cancelled /\ worker' = "stopped" /\ UNCHANGED errCh
     \/ worker' = "stopped" /\ Report
  /\ UNCHANGED <<schedulerVars, main, failed, ai, dispatcher, http>>

\* A failed handling is not committed.
HandleMessage ==
  /\ worker = "handle"
  /\ worker' \in {"commit", "read"}
  /\ UNCHANGED <<schedulerVars, main, failed, errCh, ai, dispatcher, http>>

Commit ==
  /\ worker = "commit"
  /\ \/ ~cancelled /\ worker' = "read" /\ UNCHANGED errCh
     \/ worker' = "stopped" /\ Report
  /\ UNCHANGED <<schedulerVars, main, failed, ai, dispatcher, http>>

-----------------------------------------------------------------------------
(* The HTTP server.                                                        *)

\* ListenAndServe fails, and its error is sent.  The send waits for room in the
\* channel: as long as it does, nothing has happened that anyone can see.
ListenFails ==
  /\ http
  /\ main # "returned"
  /\ errCh = 0
  /\ Report
  /\ http' = FALSE
  /\ UNCHANGED <<schedulerVars, main, failed, loops>>

-----------------------------------------------------------------------------
(* Run, from its select on.                                                *)

Continue(to) == main' = to /\ UNCHANGED <<config, tables, poolVars, loops>>

\* A signal, or an error; stopBackground, and the reader is closed.
Stop ==
  /\ main = "select"
  /\ \/ errCh = 1 /\ errCh' = 0 /\ failed' = TRUE
     \/ UNCHANGED <<errCh, failed>>
  /\ cancelled' = TRUE
  /\ Continue("wait")
  /\ UNCHANGED http

\* backgroundWG.Wait.
TasksEnded == \A state \in {round, ai, worker, dispatcher} : Ended(state)

CloseWriter ==
  /\ main = "wait"
  /\ TasksEnded
  /\ Continue(IF failed THEN "returned" ELSE "shutdown")
  /\ UNCHANGED <<cancelled, failed, errCh, http>>

\* server.Shutdown: no more connections; the requests in progress are answered,
\* or five seconds are over.
Shutdown ==
  /\ main = "shutdown"
  /\ http' = FALSE
  /\ Continue("returned")
  /\ UNCHANGED <<cancelled, failed, errCh>>

-----------------------------------------------------------------------------

Background ==
  \/ SchedulerStep
  \/ Claim \/ Summarize \/ AiSelect
  \/ Dispatch \/ DispatcherSelect
  \/ Read \/ HandleMessage \/ Commit

Main == Stop \/ CloseWriter \/ Shutdown

Next == Background \/ ListenFails \/ Main

Spec == Init /\ [][Next]_vars

\* Every loop goes on; a select takes each of the cases that are ready.  A
\* worker may wait for its next message as long as its context lives; the
\* handling of one collects, from a mail server that may never answer, and
\* need not end.
FairSpec ==
  /\ Spec
  /\ SchedulerFairness
  /\ WF_vars(Claim) /\ WF_vars(Summarize)
  /\ WF_vars(AiSelect) /\ SF_vars(AiSelect /\ ai' = "stopped")
  /\ WF_vars(Dispatch)
  /\ WF_vars(DispatcherSelect) /\ SF_vars(DispatcherSelect /\ dispatcher' = "stopped")
  /\ WF_vars(cancelled /\ Read) /\ WF_vars(Commit)
  /\ WF_vars(errCh = 1 /\ Stop) /\ WF_vars(CloseWriter) /\ WF_vars(Shutdown)

-----------------------------------------------------------------------------
(* Properties.                                                             *)

\* Nothing of the background is at work once Run goes on to close the writer:
\* no loop, and none of the goroutines the scheduler started.
BackgroundIsOver ==
  main \in {"shutdown", "returned"} =>
    /\ \A state \in {round, ai, worker, dispatcher} : Ended(state)
    /\ pool = {}

\* No collection goes on for ever, in the scheduler's pool or in the worker.
CollectionsEnd == PoolCollectionsEnd /\ []<>(worker # "handle")

\* A signal, or an error of any part, ends the process, whatever each loop and
\* the scheduler's channel are doing then, if the collections in progress end:
\* Run waits for them, and a cancelled context does not stop the reading of a
\* mailbox.
ShutdownCompletes ==
  CollectionsEnd => (main # "select" \/ errCh = 1 ~> main = "returned")
=============================================================================
