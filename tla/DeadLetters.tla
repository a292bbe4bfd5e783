---------------------------- MODULE DeadLetters ----------------------------
(***************************************************************************)
(* The dead letters of internal/module/collectionjob as their user handles *)
(* them: DLQService over table collection_dlq_items and the Kafka writer.  *)
(* The worker of JobWorker inserts an item; requests, possibly several at  *)
(* once, replay it or mark it handled.  One action is one query or one     *)
(* Kafka call.                                                             *)
(*                                                                         *)
(* Bound: MaxReplays writes per item.                                      *)
(***************************************************************************)
EXTENDS Naturals

CONSTANTS
  Handlers,   \* requests in progress at a time
  Letters,    \* ids of items
  MaxReplays

VARIABLES
  status,     \* item -> its status, "" before it exists
  stamped,    \* item -> the time columns that are set
  written,    \* item -> tasks written for it to collection.requested
  answered,   \* item -> replays that were answered with success
  open,       \* the Kafka writer is open
  work        \* handler -> {[item, next step]} or {}

item == <<status, stamped>>
vars == <<item, written, answered, open, work>>

Statuses == {"pending", "replayed", "handled"}
Steps == {"write", "replayed", "handled"}

Init ==
  /\ status = [i \in Letters |-> ""]
  /\ stamped = [i \in Letters |-> {}]
  /\ written = [i \in Letters |-> 0]
  /\ answered = [i \in Letters |-> 0]
  /\ open = TRUE
  /\ work = [h \in Handlers |-> {}]

\* GormDLQRepository.Create, which the worker calls.
Create(i) ==
  /\ status[i] = ""
  /\ status' = [status EXCEPT ![i] = "pending"]
  /\ UNCHANGED <<stamped, written, answered, open, work>>

\* The answer, or the end of the process.
Finish(h) == work' = [work EXCEPT ![h] = {}]

\* Replay and MarkHandled find the user's item, whatever its status is.
FindByUserIDAndID(h, i, step) ==
  /\ work[h] = {}
  /\ status[i] # ""
  /\ work' = [work EXCEPT ![h] = {[id |-> i, step |-> step]}]
  /\ UNCHANGED <<item, written, answered, open>>

\* Mutant: the writer is asynchronous and reports no error.
AcknowledgedOnCall(effect) == TRUE

\* WriteMessages returns when the brokers have acknowledged.
Acknowledged(effect) == effect

\* A task with an id of its own.  A write that fails may have taken effect; a
\* writer that is closed refuses.
WriteTask(h) ==
  \E w \in work[h], effect \in BOOLEAN :
    /\ w.step = "write"
    /\ effect => open /\ written[w.id] < MaxReplays
    /\ written' = [written EXCEPT ![w.id] = IF effect THEN @ + 1 ELSE @]
    /\ \/ /\ Acknowledged(effect)
          /\ work' = [work EXCEPT ![h] = {[w EXCEPT !.step = "replayed"]}]
       \/ Finish(h)
    /\ UNCHANGED <<item, answered, open>>

\* updateStatus asks for the id alone; the item is read again for the answer.
UpdateStatus(h) ==
  \E w \in work[h] :
    /\ w.step # "write"
    /\ \/ /\ status' = [status EXCEPT ![w.id] = w.step]
          /\ stamped' = [stamped EXCEPT ![w.id] = @ \cup {w.step}]
          /\ answered' = IF w.step = "replayed"
                         THEN [answered EXCEPT ![w.id] = @ + 1] ELSE answered
       \/ /\ status' = [status EXCEPT ![w.id] = w.step]
          /\ stamped' = [stamped EXCEPT ![w.id] = @ \cup {w.step}]
          /\ UNCHANGED answered
       \/ UNCHANGED <<item, answered>>
    /\ Finish(h)
    /\ UNCHANGED <<written, open>>

Crash(h) ==
  /\ work[h] # {}
  /\ Finish(h)
  /\ UNCHANGED <<item, written, answered, open>>

\* The process shuts down: the writer is closed while requests are served.
\* The next process opens it again.
ToggleWriter == open' = ~open /\ UNCHANGED <<item, written, answered, work>>

Replay(h, i) == FindByUserIDAndID(h, i, "write")
MarkHandled(h, i) == FindByUserIDAndID(h, i, "handled")

Next ==
  \/ \E i \in Letters : Create(i)
  \/ \E h \in Handlers :
       \/ \E i \in Letters : Replay(h, i) \/ MarkHandled(h, i)
       \/ WriteTask(h) \/ UpdateStatus(h) \/ Crash(h)
  \/ ToggleWriter

Spec == Init /\ [][Next]_vars

-----------------------------------------------------------------------------
(* Properties.                                                             *)

\* Every variable stays in its domain.
TypeOK ==
  /\ status \in [Letters -> {""} \cup Statuses]
  /\ stamped \in [Letters -> SUBSET {"replayed", "handled"}]
  /\ written \in [Letters -> 0..MaxReplays]
  /\ answered \in [Letters -> Nat]
  /\ open \in BOOLEAN
  /\ \A h \in Handlers : work[h] \subseteq [id : Letters, step : Steps]

\* Every replay that was answered with success has put a task of its own into
\* the topic, and an item says it was replayed only if there is one: no crash,
\* failing mark, second click or closing writer makes a replay get lost.
ReplaysAreWritten ==
  \A i \in Letters :
    /\ answered[i] <= written[i]
    /\ "replayed" \in stamped[i] => written[i] > 0
    /\ status[i] \in {"", "pending"} \/ status[i] \in stamped[i]
=============================================================================
