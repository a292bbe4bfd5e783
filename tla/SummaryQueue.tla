---------------------------- MODULE SummaryQueue ----------------------------
(***************************************************************************)
(* The AI summaries of internal/module/ai: the table article_summaries     *)
(* (repository.go, migration 000003), callers of Service.RequestSummary    *)
(* and the SummaryWorkers of any number of replicas, each calling          *)
(* Service.ProcessNextSummary in a loop.                                   *)
(*                                                                         *)
(* One action is one transaction, the call of the assistant or one step of *)
(* the clock.  A claim is no lease: nothing tells a worker that its        *)
(* summary was requested again, or others that a worker died.              *)
(*                                                                         *)
(* Bounds of the model: MaxRequests (requests stored for an article),      *)
(* MaxFaults, and MaxLate: how long a row has been due is not told apart   *)
(* beyond MaxLate.                                                         *)
(***************************************************************************)
EXTENDS Integers, FiniteSets

CONSTANTS
  Requesters,  \* concurrent callers of RequestSummary
  Workers,     \* running SummaryWorkers
  Articles,    \* articles of the user; one summary each (prompt_version is fixed)
  Nothing,     \* no article
  MaxAttempts, \* attempts after which a summary is not claimed any more
  Backoff,     \* unit of the retry delay
  MaxRequests, MaxFaults, MaxLate

ASSUME SummaryAssumption ==
  /\ Nothing \notin Articles
  /\ IsFiniteSet(Workers)
  /\ MaxAttempts \in Nat \ {0}
  /\ Backoff \in Nat
  /\ MaxRequests \in Nat
  /\ MaxFaults \in Nat
  /\ MaxLate \in Nat

VARIABLES
  rows,     \* article -> its row of article_summaries
  deleted,  \* articles whose source is deleted
  rpc,      \* requester -> step of RequestSummary it is at
  wanted,   \* requester -> [article, regenerate]
  wpc,      \* worker -> step of ProcessNextSummary it is at
  job,      \* worker -> article it claimed
  seen,     \* worker -> attempts of the row it read after the claim
  asked,    \* article -> requests stored (history)
  renewed,  \* article -> regenerations among them (history)
  claimed,  \* article -> claims (history)
  faults    \* workers that vanished or lost the database (history)

rvars == <<rpc, wanted>>
wvars == <<wpc, job, seen>>
counts == <<asked, renewed, claimed, faults>>
vars == <<rows, deleted, rvars, wvars, counts>>

Waiting == {"pending", "failed"}
Statuses == Waiting \cup {"none", "processing", "succeeded"}

\* nextAttempt: (attempts + 1) * retryBackoff from now.
Delay(n) == (n + 1) * Backoff

\* wait is next_attempt_at as a distance from now; status "none" is no row.
Row == [status : Statuses, attempts : 0..MaxAttempts, wait : Int, text : BOOLEAN]

NoRow == [status |-> "none", attempts |-> 0, wait |-> 0, text |-> FALSE]

Init ==
  /\ rows = [a \in Articles |-> NoRow]
  /\ deleted = {}
  /\ rpc = [r \in Requesters |-> "idle"]
  /\ wanted = [r \in Requesters |-> [article |-> Nothing, regenerate |-> FALSE]]
  /\ wpc = [w \in Workers |-> "idle"]
  /\ job = [w \in Workers |-> Nothing]
  /\ seen = [w \in Workers |-> 0]
  /\ asked = [a \in Articles |-> 0]
  /\ renewed = [a \in Articles |-> 0]
  /\ claimed = [a \in Articles |-> 0]
  /\ faults = 0

-----------------------------------------------------------------------------
(* RequestSummary.                                                         *)

Returns(r) ==
  /\ rpc' = [rpc EXCEPT ![r] = "idle"]
  /\ wanted' = [wanted EXCEPT ![r] = [article |-> Nothing, regenerate |-> FALSE]]

\* The article is visible and, unless a regeneration is asked for, no summary
\* is ready.  The other outcomes answer the caller and change nothing.
Ask(r, a, regenerate) ==
  /\ rpc[r] = "idle"
  /\ a \notin deleted
  /\ regenerate \/ rows[a].status # "succeeded"
  /\ rpc' = [rpc EXCEPT ![r] = "enqueue"]
  /\ wanted' = [wanted EXCEPT ![r] = [article |-> a, regenerate |-> regenerate]]
  /\ UNCHANGED <<rows, deleted, wvars, counts>>

\* Mutant: every request gives the summary its attempts back.
ReopenAfresh(row, regenerate) ==
  [row EXCEPT !.status = "pending", !.wait = 0, !.attempts = 0]

\* ON CONFLICT DO UPDATE, whatever the row has become since it was read.
Reopen(row, regenerate) ==
  IF regenerate
  THEN [row EXCEPT !.status = "pending", !.wait = 0, !.attempts = 0, !.text = FALSE]
  ELSE [row EXCEPT !.status = "pending", !.wait = 0]

EnqueueSummary(r) ==
  /\ rpc[r] = "enqueue"
  /\ LET a == wanted[r].article
         regenerate == wanted[r].regenerate
     IN /\ asked[a] < MaxRequests
        /\ rows' = [rows EXCEPT ![a] = Reopen(@, regenerate)]
        /\ asked' = [asked EXCEPT ![a] = @ + 1]
        /\ renewed' = [renewed EXCEPT ![a] = IF regenerate THEN @ + 1 ELSE @]
  /\ Returns(r)
  /\ UNCHANGED <<deleted, wvars, claimed, faults>>

\* A query fails, or the caller gives up.
RequestFails(r) ==
  /\ rpc[r] = "enqueue"
  /\ Returns(r)
  /\ UNCHANGED <<rows, deleted, wvars, counts>>

-----------------------------------------------------------------------------
(* ProcessNextSummary.                                                     *)

\* Mutant: a summary in processing is claimed again.
ClaimableDespiteWorker(a) ==
  /\ rows[a].status \in Waiting \cup {"processing"}
  /\ rows[a].wait <= 0
  /\ rows[a].attempts < MaxAttempts

\* Mutant: the attempts are not looked at.
ClaimableForEver(a) == rows[a].status \in Waiting /\ rows[a].wait <= 0

\* Mutant: failed summaries are not retried.
ClaimableUnlessFailed(a) ==
  /\ rows[a].status = "pending"
  /\ rows[a].wait <= 0
  /\ rows[a].attempts < MaxAttempts

Claimable(a) ==
  /\ rows[a].status \in Waiting
  /\ rows[a].wait <= 0
  /\ rows[a].attempts < MaxAttempts

Idle(w) ==
  /\ wpc' = [wpc EXCEPT ![w] = "idle"]
  /\ job' = [job EXCEPT ![w] = Nothing]
  /\ seen' = [seen EXCEPT ![w] = 0]

\* One transaction; ORDER BY next_attempt_at.
ClaimNextSummary(w) ==
  /\ wpc[w] = "idle"
  /\ \E a \in Articles :
       /\ Claimable(a)
       /\ \A b \in Articles : Claimable(b) => rows[a].wait <= rows[b].wait
       /\ rows' = [rows EXCEPT ![a].status = "processing", ![a].attempts = @ + 1]
       /\ job' = [job EXCEPT ![w] = a]
       /\ claimed' = [claimed EXCEPT ![a] = @ + 1]
  /\ wpc' = [wpc EXCEPT ![w] = "find"]
  /\ UNCHANGED <<deleted, rvars, seen, asked, renewed, faults>>

\* The FindSummary after the claim joins sources: it does not find the summary
\* of a deleted source, which stays in processing.
FindSummary(w) ==
  /\ wpc[w] = "find"
  /\ \/ /\ job[w] \notin deleted
        /\ seen' = [seen EXCEPT ![w] = rows[job[w]].attempts]
        /\ wpc' = [wpc EXCEPT ![w] = "summarize"]
        /\ UNCHANGED job
     \/ job[w] \in deleted /\ Idle(w)
  /\ UNCHANGED <<rows, deleted, rvars, counts>>

\* FindByUserAndID, assistantForUser and Summarize; each of them may fail.
Summarize(w) ==
  /\ wpc[w] = "summarize"
  /\ \/ job[w] \notin deleted /\ wpc' = [wpc EXCEPT ![w] = "complete"]
     \/ wpc' = [wpc EXCEPT ![w] = "fail"]
  /\ UNCHANGED <<rows, deleted, rvars, job, seen, counts>>

\* WHERE id = ?: neither the status nor a claim is asked for.
CompleteSummary(w) ==
  /\ wpc[w] = "complete"
  /\ rows' = [rows EXCEPT ![job[w]].status = "succeeded", ![job[w]].text = TRUE]
  /\ Idle(w)
  /\ UNCHANGED <<deleted, rvars, counts>>

\* Mutant: the worker leaves a failed summary in processing.
FailedStillProcessing(w) == [rows[job[w]] EXCEPT !.wait = Delay(seen[w])]

FailedRow(w) ==
  [rows[job[w]] EXCEPT !.status = "failed", !.wait = Delay(seen[w])]

FailSummary(w) ==
  /\ wpc[w] = "fail"
  /\ rows' = [rows EXCEPT ![job[w]] = FailedRow(w)]
  /\ Idle(w)
  /\ UNCHANGED <<deleted, rvars, counts>>

\* The process dies or shuts down, or a statement of ProcessNextSummary fails:
\* Run goes on with the next summary.
Abandon(w) ==
  /\ wpc[w] # "idle"
  /\ faults < MaxFaults
  /\ faults' = faults + 1
  /\ Idle(w)
  /\ UNCHANGED <<rows, deleted, rvars, asked, renewed, claimed>>

-----------------------------------------------------------------------------

DeleteSource(a) ==
  /\ a \notin deleted
  /\ deleted' = deleted \cup {a}
  /\ UNCHANGED <<rows, rvars, wvars, counts>>

\* A unit of time; a row long due stays at -MaxLate.
Tick ==
  /\ rows' = [a \in Articles |->
       [rows[a] EXCEPT !.wait = IF @ > -MaxLate THEN @ - 1 ELSE @]]
  /\ UNCHANGED <<deleted, rvars, wvars, counts>>

Request(r) ==
  \/ \E a \in Articles, regenerate \in BOOLEAN : Ask(r, a, regenerate)
  \/ EnqueueSummary(r)
  \/ RequestFails(r)

Process(w) ==
  \/ ClaimNextSummary(w)
  \/ FindSummary(w)
  \/ Summarize(w)
  \/ CompleteSummary(w)
  \/ FailSummary(w)

Next ==
  \/ \E r \in Requesters : Request(r)
  \/ \E w \in Workers : Process(w) \/ Abandon(w)
  \/ \E a \in Articles : DeleteSource(a)
  \/ Tick

Spec == Init /\ [][Next]_vars

\* Run calls ProcessNextSummary again and again until the context ends, and
\* time goes on.
FairSpec == Spec /\ WF_vars(Tick) /\ \A w \in Workers : WF_vars(Process(w))

-----------------------------------------------------------------------------
(* Properties.                                                             *)

\* Every variable stays in its domain; in particular a summary is not
\* attempted more than MaxAttempts times, whoever claims it.
TypeOK ==
  /\ rows \in [Articles -> Row]
  /\ deleted \subseteq Articles
  /\ rpc \in [Requesters -> {"idle", "enqueue"}]
  /\ wanted \in
       [Requesters -> [article : Articles \cup {Nothing}, regenerate : BOOLEAN]]
  /\ wpc \in [Workers -> {"idle", "find", "summarize", "complete", "fail"}]
  /\ job \in [Workers -> Articles \cup {Nothing}]
  /\ seen \in [Workers -> 0..MaxAttempts]
  /\ asked \in [Articles -> 0..MaxRequests]
  /\ renewed \in [Articles -> Nat]
  /\ claimed \in [Articles -> Nat]
  /\ faults \in Nat

\* The workers that hold a claim of a.
WorkersOn(a) == {w \in Workers : job[w] = a}

\* Without a lease two workers may compute one summary at the same time, but
\* only because it was requested again: never more workers than requests,
\* although the late failure of one of them opens the row for another.
OneWorkerPerRequest == \A a \in Articles : Cardinality(WorkersOn(a)) <= asked[a]

\* The assistant is called at most MaxAttempts times for an article and again
\* as often for each regeneration: asking again without regenerating, however
\* often, buys no more calls (EnqueueSummary keeps the attempts).
CallBudget ==
  \A a \in Articles : claimed[a] <= MaxAttempts * (1 + renewed[a])

\* A summary in processing has a worker at it unless a worker was lost or the
\* source is gone: late results of other workers never strand it.
ProcessingIsHeld ==
  \A a \in Articles :
    rows[a].status = "processing" /\ WorkersOn(a) = {} =>
      faults > 0 \/ a \in deleted

\* A summary requested once stays once it is ready: no worker is left that
\* could turn it back into failed, and none takes it up again.
AnswerIsFinal ==
  [][\A a \in Articles :
       rows[a].status = "succeeded" /\ asked'[a] = 1 =>
         rows'[a].status = "succeeded"]_vars

\* A summary that waits or is worked on ends up ready or out of attempts, or
\* is stranded, which ProcessingIsHeld leaves to lost workers and to deleted
\* sources.
EveryRequestSettles ==
  \A a \in Articles :
    rows[a].status \in {"pending", "processing"} ~>
      \/ rows[a].status = "succeeded"
      \/ rows[a].attempts = MaxAttempts /\ WorkersOn(a) = {}
      \/ rows[a].status = "processing" /\ WorkersOn(a) = {}
=============================================================================
