----------------------------- MODULE EventQueue -----------------------------
(***************************************************************************)
(* What the transactional outbox promises its callers, with no table, no   *)
(* lease and no dispatcher: a queue of events, at most one of which is     *)
(* unsettled per key, each delivered to the topic at least once before it  *)
(* is settled.                                                             *)
(*                                                                         *)
(* Requests for a key that has an unsettled event share that event.  A     *)
(* request is one atomic step here, although the code reads, inserts and   *)
(* reads again (module Outbox is shown to implement this one).  A request  *)
(* told of an error may have queued its event all the same; one that asks  *)
(* again shares it.                                                        *)
(***************************************************************************)
EXTENDS Integers

CONSTANTS Requesters, Keys, MaxRows

VARIABLES
  lastId,     \* number of events accepted so far; events are 1..lastId
  keyOf,      \* event -> its key
  settled,    \* events the queue is finished with
  delivered,  \* event -> number of copies in the topic
  reply       \* requester -> the event it was last told of, 0 for an error

qvars == <<lastId, keyOf, settled, delivered, reply>>

Events == 1..lastId

Unsettled(k) == {e \in Events : keyOf[e] = k /\ e \notin settled}

Init ==
  /\ lastId = 0
  /\ keyOf = [e \in 1..0 |-> 0]
  /\ settled = {}
  /\ delivered = [e \in 1..0 |-> 0]
  /\ reply = [r \in Requesters |-> 0]

\* The request is answered with the unsettled event of its key.
Share(r, k) ==
  /\ \E e \in Unsettled(k) : reply' = [reply EXCEPT ![r] = e]
  /\ UNCHANGED <<lastId, keyOf, settled, delivered>>

\* The key has no unsettled event: the request creates one.  Its answer may get
\* lost, and the requester is told of an error then.
Accept(r, k) ==
  /\ Unsettled(k) = {}
  /\ lastId < MaxRows
  /\ lastId' = lastId + 1
  /\ keyOf' = [e \in 1..(lastId + 1) |-> IF e = lastId + 1 THEN k ELSE keyOf[e]]
  /\ delivered' =
       [e \in 1..(lastId + 1) |-> IF e = lastId + 1 THEN 0 ELSE delivered[e]]
  /\ \E answer \in {lastId + 1, 0} : reply' = [reply EXCEPT ![r] = answer]
  /\ UNCHANGED settled

\* The request fails, and leaves the queue as it is.
Reject(r) ==
  /\ reply' = [reply EXCEPT ![r] = 0]
  /\ UNCHANGED <<lastId, keyOf, settled, delivered>>

\* A copy reaches the topic, possibly one more copy of a settled event.
Deliver(e) ==
  /\ delivered' = [delivered EXCEPT ![e] = @ + 1]
  /\ UNCHANGED <<lastId, keyOf, settled, reply>>

\* Only a delivered event is settled.
Settle(e) ==
  /\ e \notin settled
  /\ delivered[e] > 0
  /\ settled' = settled \cup {e}
  /\ UNCHANGED <<lastId, keyOf, delivered, reply>>

Next ==
  \/ \E r \in Requesters, k \in Keys : Share(r, k) \/ Accept(r, k)
  \/ \E r \in Requesters : Reject(r)
  \/ \E e \in Events : Deliver(e) \/ Settle(e)

Spec == Init /\ [][Next]_qvars
=============================================================================
