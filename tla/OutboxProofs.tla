---------------------------- MODULE OutboxProofs ----------------------------
(***************************************************************************)
(* Theorems about module Outbox for all values of its constants.  They     *)
(* rest on one inductive invariant, Inv.                                   *)
(***************************************************************************)
EXTENDS Outbox, TLAPS

\* Dispatchers work on rows of the table.
BatchInTable == \A d \in Dispatchers : \A e \in batch[d] : e.id \in Ids

\* The row a dispatcher is about to mark sent is one it has just written.
HeadWasWritten ==
  \A d \in Dispatchers : dpc[d] = "markSent" =>
    \A e \in batch[d] : IsHead(d, e) => published[e.id] > 0

\* The row a dispatcher is about to mark failed stays within MaxFailures.
HeadMayFail ==
  \A d \in Dispatchers : dpc[d] = "markFailed" =>
    \A e \in batch[d] : IsHead(d, e) => e.attempts < MaxFailures

\* As long as a dispatcher holds the claim of a row, its copy is current.
SnapshotIsCurrent ==
  \A d \in Dispatchers : \A e \in batch[d] :
    HoldsClaim(d, e.id) => e.attempts = outbox[e.id].attempts

\* No event is queued behind an unsent event of its key.
OlderAreSent ==
  \A i, j \in Ids :
    i < j /\ outbox[i].key = outbox[j].key => outbox[i].status = "sent"

Inv ==
  /\ TypeOK
  /\ BatchInTable
  /\ HeadWasWritten
  /\ HeadMayFail
  /\ SnapshotIsCurrent
  /\ OlderAreSent
  /\ SentWasPublished

-----------------------------------------------------------------------------

LEMMA InitInv == Init => Inv
<1> SUFFICES ASSUME Init PROVE Inv
  OBVIOUS
<1> USE OutboxAssumption DEF Init
<1>1. Ids = {} /\ 1..0 = {}
  BY DEF Ids
<1>2. TypeOK
  BY <1>1 DEF TypeOK
<1>3. QED
  BY <1>1, <1>2 DEF Inv, BatchInTable, HeadWasWritten, HeadMayFail,
     SnapshotIsCurrent, OlderAreSent, SentWasPublished

\* What a request that inserts nothing may change.
RequestTypes ==
  /\ rpc' \in [Requesters -> {"idle", "insert", "refind"}]
  /\ wanted' \in [Requesters -> Keys]
  /\ askedAt' \in [Requesters -> Nat]
  /\ reply' \in [Requesters -> 0..lastId]

\* A step that leaves the table, the topic and the dispatchers alone.
LEMMA QuietStep ==
  ASSUME Inv, RequestTypes, now' \in Nat,
         UNCHANGED <<calmFrom, table, published, claims, dvars>>
  PROVE  Inv'
<1> USE DEF Inv, table, dvars
<1>1. Ids' = Ids
  BY DEF Ids
<1>2. TypeOK'
  BY <1>1 DEF TypeOK, RequestTypes
<1>3. (BatchInTable /\ HeadWasWritten /\ HeadMayFail)'
  BY <1>1 DEF BatchInTable, HeadWasWritten, HeadMayFail, IsHead
<1>4. (SnapshotIsCurrent /\ OlderAreSent /\ SentWasPublished)'
  BY <1>1 DEF SnapshotIsCurrent, OlderAreSent, SentWasPublished, HoldsClaim
<1>5. QED
  BY <1>2, <1>3, <1>4

\* What a request may be told.
LEMMA Replies ==
  ASSUME TypeOK
  PROVE  /\ lastId \in Nat
         /\ 0 \in 0..lastId
         /\ \A i \in Ids : i \in 0..lastId
  BY OutboxAssumption DEF TypeOK, Ids

LEMMA ReplyTypes ==
  ASSUME TypeOK, NEW r \in Requesters, NEW i \in 0..lastId, Reply(r, i),
         wanted' \in [Requesters -> Keys]
  PROVE  RequestTypes
  BY DEF TypeOK, Reply, RequestTypes

LEMMA FindActiveInv ==
  ASSUME Inv, NEW r \in Requesters, NEW k \in Keys, FindActive(r, k)
  PROVE  Inv'
<1>1. wanted' \in [Requesters -> Keys]
  BY DEF Inv, TypeOK, FindActive
<1>2. RequestTypes
  <2>1. ASSUME NEW i \in Ids, Reply(r, i) PROVE RequestTypes
    BY <1>1, <2>1, Replies, ReplyTypes DEF Inv
  <2>2. ASSUME rpc' = [rpc EXCEPT ![r] = "insert"],
               askedAt' = [askedAt EXCEPT ![r] = now], UNCHANGED reply
        PROVE  RequestTypes
    BY <1>1, <2>2 DEF Inv, TypeOK, RequestTypes
  <2>3. QED
    BY <2>1, <2>2 DEF FindActive
<1>3. now' \in Nat /\ UNCHANGED <<calmFrom, table, published, claims, dvars>>
  BY DEF Inv, TypeOK, FindActive
<1>4. QED
  BY <1>2, <1>3, QuietStep

LEMMA RefindInv ==
  ASSUME Inv, NEW r \in Requesters, Refind(r)
  PROVE  Inv'
<1>1. wanted' \in [Requesters -> Keys]
  BY DEF Inv, TypeOK, Refind
<1>2. PICK i \in 0..lastId : Reply(r, i)
  BY Replies DEF Inv, Refind
<1>3. RequestTypes
  BY <1>1, <1>2, ReplyTypes DEF Inv
<1>4. now' \in Nat /\ UNCHANGED <<calmFrom, table, published, claims, dvars>>
  BY DEF Inv, TypeOK, Refind
<1>5. QED
  BY <1>3, <1>4, QuietStep

LEMMA RequestFailsInv ==
  ASSUME Inv, NEW r \in Requesters, RequestFails(r)
  PROVE  Inv'
<1>1. wanted' \in [Requesters -> Keys]
  BY DEF Inv, TypeOK, RequestFails
<1>2. RequestTypes
  BY <1>1, Replies, ReplyTypes DEF Inv, RequestFails
<1>3. now' \in Nat /\ UNCHANGED <<calmFrom, table, published, claims, dvars>>
  BY DEF Inv, TypeOK, RequestFails
<1>4. QED
  BY <1>2, <1>3, QuietStep

\* The row a request inserts.
LEMMA NewRowType ==
  ASSUME TypeOK, NEW k \in Keys, NEW at \in Nat
  PROVE  NewRow(k, at) \in Row
  BY OutboxAssumption DEF TypeOK, NewRow, Row, Statuses, Active

LEMMA InsertInv ==
  ASSUME Inv, NEW r \in Requesters, Insert(r)
  PROVE  Inv'
<1> USE DEF Inv, table, dvars
<1> USE DEF UniqueIndexAllows
<1>1. CASE ActiveIds(wanted[r]) # {}
  <2>1. RequestTypes
    BY <1>1 DEF TypeOK, Insert, RequestTypes
  <2>2. now' \in Nat /\ UNCHANGED <<calmFrom, table, published, claims, dvars>>
    BY <1>1 DEF TypeOK, Insert
  <2>3. QED
    BY <2>1, <2>2, QuietStep
<1>2. CASE ActiveIds(wanted[r]) = {}
  <2> DEFINE id == lastId + 1
  <2>1. /\ lastId \in Nat /\ id \in 1..MaxRows
        /\ Ids' = Ids \cup {id} /\ id \notin Ids
        /\ \A i \in Ids : i \in Nat /\ i < id
    <3>1. lastId \in 0..MaxRows /\ lastId < MaxRows /\ lastId' = lastId + 1
      BY <1>2 DEF TypeOK, Insert
    <3>2. QED
      BY <3>1, OutboxAssumption DEF Ids
  <2>2. /\ outbox'[id] = NewRow(wanted[r], askedAt[r]) /\ published'[id] = 0
        /\ \A i \in Ids : outbox'[i] = outbox[i] /\ published'[i] = published[i]
    BY <1>2, <2>1 DEF TypeOK, Insert, Ids
  <2>3. TypeOK'
    <3>1. NewRow(wanted[r], askedAt[r]) \in Row
      <4>1. wanted[r] \in Keys /\ askedAt[r] \in Nat
        BY DEF TypeOK
      <4>2. QED
        BY <4>1, NewRowType
    <3>2. outbox' \in [Ids' -> Row] /\ published' \in [Ids' -> Nat]
      <4> DEFINE row == NewRow(wanted[r], askedAt[r])
      <4>1. /\ outbox' = [i \in 1..id |-> IF i = id THEN row ELSE outbox[i]]
            /\ published' = [i \in 1..id |-> IF i = id THEN 0 ELSE published[i]]
            /\ Ids' = 1..id
        BY <1>2 DEF Insert, Ids
      <4>2. row \in Row
        BY <3>1
      <4>3. \A i \in 1..id : i # id => i \in Ids
        BY <2>1 DEF Ids
      <4> HIDE DEF row, id
      <4>4. QED
        BY <4>1, <4>2, <4>3 DEF TypeOK
    <3>3. lastId' = id /\ reply' \in [Requesters -> 0..id]
      <4>1. PICK answer \in {id, 0} : reply' = [reply EXCEPT ![r] = answer]
        BY <1>2 DEF Insert, Reply
      <4>2. answer \in 0..id /\ \A i \in 0..lastId : i \in 0..id
        BY <2>1
      <4>3. lastId' = id
        BY <1>2 DEF Insert
      <4>4. QED
        BY <4>1, <4>2, <4>3 DEF TypeOK
    <3>4. UNCHANGED <<now, calmFrom, claims, wanted, dpc, claimOf, batchNow, batch>>
      BY <1>2 DEF Insert
    <3>5. /\ rpc' \in [Requesters -> {"idle", "insert", "refind"}]
          /\ askedAt' \in [Requesters -> Nat]
      <4>1. /\ rpc' = [rpc EXCEPT ![r] = "idle"]
            /\ askedAt' = [askedAt EXCEPT ![r] = 0]
        BY <1>2 DEF Insert, Reply
      <4>2. QED
        BY <4>1 DEF TypeOK
    <3>6. QED
      BY <2>1, <3>2, <3>3, <3>4, <3>5 DEF TypeOK
  <2>4. UNCHANGED dvars
    BY <1>2 DEF Insert
  <2>5. BatchInTable'
    BY <2>1, <2>4 DEF BatchInTable
  <2>6. HeadWasWritten' /\ HeadMayFail'
    BY <2>2, <2>4 DEF BatchInTable, HeadWasWritten, HeadMayFail, IsHead
  <2>7. SnapshotIsCurrent'
    BY <2>2, <2>4 DEF BatchInTable, SnapshotIsCurrent, HoldsClaim
  <2>8. OlderAreSent'
    <3>1. \A i \in Ids : outbox[i].key = wanted[r] => outbox[i].status = "sent"
      BY <1>2 DEF TypeOK, Row, Statuses, ActiveIds
    <3>2. QED
      BY <2>1, <2>2, <3>1 DEF OlderAreSent, NewRow
  <2>9. SentWasPublished'
    BY <2>1, <2>2 DEF SentWasPublished, NewRow
  <2>10. QED
    BY <2>3, <2>5, <2>6, <2>7, <2>8, <2>9
<1>3. QED
  BY <1>1, <1>2

LEMMA RequestInv ==
  ASSUME Inv, NEW r \in Requesters, Request(r)
  PROVE  Inv'
  BY FindActiveInv, InsertInv, RefindInv, RequestFailsInv DEF Request

LEMMA TickInv == ASSUME Inv, Tick PROVE Inv'
<1>1. RequestTypes /\ now' \in Nat
  BY DEF Inv, TypeOK, Tick, RequestTypes, rvars
<1>2. UNCHANGED <<calmFrom, table, published, claims, dvars>>
  BY DEF Tick
<1>3. QED
  BY <1>1, <1>2, QuietStep

-----------------------------------------------------------------------------

\* One row of a batch is next.
LEMMA HeadIsUnique ==
  ASSUME TypeOK, NEW d \in Dispatchers,
         NEW e \in batch[d], NEW f \in batch[d], IsHead(d, e), IsHead(d, f)
  PROVE  e = f
<1>1. e \in Snapshot /\ f \in Snapshot
  BY DEF TypeOK
<1>2. ~(Before(e, f) /\ Before(f, e))
  BY <1>1, OutboxAssumption DEF Before, Snapshot
<1>3. QED
  BY <1>2 DEF IsHead

LEMMA ClaimReadyInv ==
  ASSUME Inv, NEW d \in Dispatchers, ClaimReady(d)
  PROVE  Inv'
<1> USE DEF Inv
<1>1. PICK C \in SUBSET Ids :
        /\ \A i \in C : Ready(i)
        /\ outbox' = [i \in Ids |->
             IF i \in C
             THEN [outbox[i] EXCEPT !.status = "processing",
                                    !.claimId = claims + 1,
                                    !.lockedUntil = now + ClaimTTL]
             ELSE outbox[i]]
        /\ batch' = [batch EXCEPT ![d] = {SnapshotOf(i) : i \in C}]
  BY DEF ClaimReady, FirstReady
<1>2. /\ claims' = claims + 1
      /\ claimOf' = [claimOf EXCEPT ![d] = claims + 1]
      /\ dpc' = [dpc EXCEPT ![d] = "write"]
      /\ batchNow' = [batchNow EXCEPT ![d] = now]
      /\ UNCHANGED <<now, calmFrom, lastId, published, rpc, wanted, askedAt, reply>>
  BY DEF ClaimReady, rvars
<1>3. Ids' = Ids
  BY <1>2 DEF Ids
<1>4. \A i \in Ids : /\ outbox'[i].key = outbox[i].key
                     /\ outbox'[i].attempts = outbox[i].attempts
                     /\ i \notin C => outbox'[i] = outbox[i]
                     /\ i \in C => /\ outbox'[i].status = "processing"
                                   /\ outbox'[i].claimId = claims + 1
                                   /\ outbox[i].status # "sent"
  BY <1>1 DEF TypeOK, Row, Ready
<1>5. \A i \in C : SnapshotOf(i) \in Snapshot /\ SnapshotOf(i).id = i
                   /\ SnapshotOf(i).attempts = outbox[i].attempts
  <2> SUFFICES ASSUME NEW i \in C
               PROVE  /\ SnapshotOf(i) \in Snapshot /\ SnapshotOf(i).id = i
                      /\ SnapshotOf(i).attempts = outbox[i].attempts
    OBVIOUS
  <2>1. i \in 1..MaxRows
    BY OutboxAssumption DEF TypeOK, Ids
  <2>2. outbox[i] \in Row
    BY DEF TypeOK
  <2>3. QED
    BY <2>1, <2>2 DEF Row, Snapshot, SnapshotOf
<1>6. TypeOK'
  <2>1. outbox' \in [Ids' -> Row]
    <3>1. now + ClaimTTL \in Nat /\ claims + 1 \in Nat /\ "processing" \in Statuses
      BY OutboxAssumption DEF TypeOK, Statuses, Active
    <3>2. \A i \in Ids : outbox[i] \in Row
      BY DEF TypeOK
    <3>3. \A i \in Ids : [outbox[i] EXCEPT !.status = "processing",
                                           !.claimId = claims + 1,
                                           !.lockedUntil = now + ClaimTTL] \in Row
      BY <3>1, <3>2 DEF Row
    <3>4. QED
      BY <1>1, <1>3, <3>2, <3>3
  <2>2. batch' \in [Dispatchers -> SUBSET Snapshot]
    <3>1. {SnapshotOf(i) : i \in C} \in SUBSET Snapshot
      BY <1>5
    <3>2. QED
      BY <1>1, <3>1 DEF TypeOK
  <2>3. claims' \in Nat /\ claimOf' \in [Dispatchers -> 0..claims']
    BY <1>2 DEF TypeOK
  <2>4. QED
    BY <1>2, <1>3, <2>1, <2>2, <2>3 DEF TypeOK
<1>7. BatchInTable'
  <2> SUFFICES ASSUME NEW c \in Dispatchers, NEW e \in batch'[c]
               PROVE  e.id \in Ids
    BY <1>3 DEF BatchInTable
  <2>1. CASE c = d
    <3>1. PICK i \in C : e = SnapshotOf(i)
      BY <1>1, <2>1 DEF TypeOK
    <3>2. QED
      BY <1>5, <3>1
  <2>2. CASE c # d
    BY <1>1, <2>2 DEF TypeOK, BatchInTable
  <2>3. QED
    BY <2>1, <2>2
<1>8. HeadWasWritten' /\ HeadMayFail'
  <2>1. /\ dpc'[d] = "write"
        /\ \A c \in Dispatchers \ {d} : dpc'[c] = dpc[c] /\ batch'[c] = batch[c]
    BY <1>1, <1>2 DEF TypeOK
  <2>2. QED
    BY <1>2, <2>1 DEF HeadWasWritten, HeadMayFail, IsHead
<1>9. SnapshotIsCurrent'
  <2> SUFFICES ASSUME NEW c \in Dispatchers, NEW e \in batch'[c],
                      HoldsClaim(c, e.id)'
               PROVE  e.attempts = outbox'[e.id].attempts
    BY DEF SnapshotIsCurrent
  <2>1. CASE c = d
    <3>1. PICK i \in C : e = SnapshotOf(i)
      BY <1>1, <2>1 DEF TypeOK
    <3>2. QED
      BY <1>4, <1>5, <3>1
  <2>2. CASE c # d
    <3>1. e \in batch[c] /\ e.id \in Ids /\ claimOf'[c] = claimOf[c]
      BY <1>1, <1>2, <2>2 DEF TypeOK, BatchInTable
    <3>2. claimOf[c] # claims + 1
      BY DEF TypeOK
    <3>3. e.id \notin C
      BY <1>4, <3>1, <3>2 DEF HoldsClaim
    <3>4. QED
      BY <1>4, <3>1, <3>3 DEF SnapshotIsCurrent, HoldsClaim
  <2>3. QED
    BY <2>1, <2>2
<1>10. OlderAreSent' /\ SentWasPublished'
  BY <1>2, <1>3, <1>4 DEF OlderAreSent, SentWasPublished
<1>11. QED
  BY <1>6, <1>7, <1>8, <1>9, <1>10

LEMMA WriteInv ==
  ASSUME Inv, NEW d \in Dispatchers, Write(d)
  PROVE  Inv'
<1> USE DEF Inv
<1>1. /\ UNCHANGED <<now, calmFrom, lastId, outbox, claims, rpc, wanted, askedAt, reply>>
      /\ UNCHANGED <<claimOf, batchNow, batch>>
  BY DEF Write, table, rvars
<1>2. PICK e \in batch[d] :
        /\ IsHead(d, e)
        /\ \/ Publish(e.id) /\ dpc' = [dpc EXCEPT ![d] = "markSent"]
           \/ /\ e.attempts < MaxFailures
              /\ Publish(e.id) \/ UNCHANGED published
              /\ dpc' = [dpc EXCEPT ![d] = "markFailed"]
  BY DEF Write, WriteError
<1>3. e.id \in Ids /\ Ids' = Ids
  BY <1>1 DEF BatchInTable, Ids
<1>4. /\ published' \in [Ids -> Nat]
      /\ \A i \in Ids : published[i] > 0 => published'[i] > 0
      /\ Publish(e.id) => published'[e.id] > 0
  BY <1>2, <1>3 DEF TypeOK, Publish
<1>5. TypeOK'
  BY <1>1, <1>2, <1>3, <1>4 DEF TypeOK
<1>6. HeadWasWritten' /\ HeadMayFail'
  <2> SUFFICES ASSUME NEW c \in Dispatchers, NEW f \in batch[c], IsHead(c, f)
               PROVE  /\ dpc'[c] = "markSent" => published'[f.id] > 0
                      /\ dpc'[c] = "markFailed" => f.attempts < MaxFailures
    BY <1>1 DEF HeadWasWritten, HeadMayFail, IsHead
  <2>1. CASE c = d
    <3>1. f = e
      BY <1>2, <2>1, HeadIsUnique
    <3>2. QED
      BY <1>2, <1>4, <2>1, <3>1 DEF TypeOK
  <2>2. CASE c # d
    BY <1>2, <1>4, <2>2 DEF TypeOK, HeadWasWritten, HeadMayFail, BatchInTable
  <2>3. QED
    BY <2>1, <2>2
<1>7. BatchInTable' /\ SnapshotIsCurrent' /\ OlderAreSent'
  BY <1>1, <1>3 DEF BatchInTable, SnapshotIsCurrent, OlderAreSent, HoldsClaim
<1>8. SentWasPublished'
  BY <1>1, <1>3, <1>4 DEF SentWasPublished
<1>9. QED
  BY <1>5, <1>6, <1>7, <1>8

-----------------------------------------------------------------------------

\* A dispatcher leaves its batch, or goes on after the row it marked.
LEMMA LeaveRowInv ==
  ASSUME Inv, NEW d \in Dispatchers,
         \/ Abandon(d)
         \/ \E e \in batch[d] : NextOfBatch(d, e),
         UNCHANGED <<now, calmFrom, table, published, claims, rvars, claimOf, batchNow>>
  PROVE  Inv'
<1> USE DEF Inv, table, rvars
<1>1. /\ dpc' \in [Dispatchers -> {"idle", "write", "markSent", "markFailed"}]
      /\ batch' \in [Dispatchers -> SUBSET Snapshot]
      /\ batch'[d] \subseteq batch[d] /\ dpc'[d] \in {"idle", "write"}
      /\ \A c \in Dispatchers \ {d} : batch'[c] = batch[c] /\ dpc'[c] = dpc[c]
  BY DEF TypeOK, Abandon, NextOfBatch
<1>2. Ids' = Ids
  BY DEF Ids
<1>3. TypeOK'
  BY <1>1, <1>2 DEF TypeOK
<1>4. BatchInTable' /\ HeadWasWritten' /\ HeadMayFail'
  BY <1>1, <1>2 DEF BatchInTable, HeadWasWritten, HeadMayFail, IsHead
<1>5. SnapshotIsCurrent' /\ OlderAreSent' /\ SentWasPublished'
  BY <1>1, <1>2 DEF SnapshotIsCurrent, OlderAreSent, SentWasPublished, HoldsClaim
<1>6. QED
  BY <1>3, <1>4, <1>5

\* A dispatcher marks the row it has just written, or fails to.
LEMMA MarkRowInv ==
  ASSUME Inv, NEW d \in Dispatchers, NEW e \in batch[d], NEW row \in Row,
         UpdateClaimed(d, e, row),
         row.key = outbox[e.id].key,
         row.status \in {"sent", "failed"},
         row.status = "sent" => published[e.id] > 0,
         UNCHANGED <<now, calmFrom, lastId, published, claims, rvars, claimOf, batchNow>>
  PROVE  Inv'
<1> USE DEF Inv, table, rvars
<1>1. CASE UNCHANGED outbox
  BY <1>1, LeaveRowInv DEF UpdateClaimed
<1>2. CASE outbox' # outbox
  <2>1. /\ HoldsClaim(d, e.id)
        /\ outbox' = [outbox EXCEPT ![e.id] = row]
        /\ NextOfBatch(d, e) \/ Abandon(d)
    BY <1>2 DEF UpdateClaimed
  <2>2. /\ dpc' \in [Dispatchers -> {"idle", "write", "markSent", "markFailed"}]
        /\ batch' \in [Dispatchers -> SUBSET Snapshot]
        /\ batch'[d] \subseteq batch[d] /\ dpc'[d] \in {"idle", "write"}
        /\ \A c \in Dispatchers \ {d} : batch'[c] = batch[c] /\ dpc'[c] = dpc[c]
    BY <2>1 DEF TypeOK, Abandon, NextOfBatch
  <2>3. Ids' = Ids /\ e.id \in Ids
    BY DEF Ids, BatchInTable
  <2>4. /\ outbox'[e.id] = row
        /\ \A i \in Ids \ {e.id} : outbox'[i] = outbox[i]
    BY <2>1, <2>3 DEF TypeOK
  <2>5. outbox[e.id].status = "processing"
    BY <2>1 DEF HoldsClaim
  <2>6. TypeOK'
    BY <2>1, <2>2, <2>3 DEF TypeOK
  <2>7. BatchInTable' /\ HeadWasWritten' /\ HeadMayFail'
    BY <2>2, <2>3 DEF BatchInTable, HeadWasWritten, HeadMayFail, IsHead
  <2>8. SnapshotIsCurrent'
    BY <2>2, <2>3, <2>4 DEF SnapshotIsCurrent, BatchInTable, HoldsClaim
  <2>9. OlderAreSent'
    BY <2>3, <2>4, <2>5 DEF OlderAreSent
  <2>10. SentWasPublished'
    BY <2>3, <2>4 DEF SentWasPublished
  <2>11. QED
    BY <2>6, <2>7, <2>8, <2>9, <2>10
<1>3. QED
  BY <1>1, <1>2

LEMMA MarkSentInv ==
  ASSUME Inv, NEW d \in Dispatchers, MarkSent(d)
  PROVE  Inv'
<1> USE DEF Inv
<1>1. PICK e \in batch[d] : IsHead(d, e) /\ UpdateClaimed(d, e, SentRow(e.id))
  BY DEF MarkSent
<1>2. outbox[e.id] \in Row /\ published[e.id] > 0
  BY <1>1 DEF MarkSent, TypeOK, BatchInTable, HeadWasWritten
<1>3. /\ SentRow(e.id) \in Row
      /\ SentRow(e.id).key = outbox[e.id].key
      /\ SentRow(e.id).status = "sent"
  BY <1>2 DEF SentRow, Row, Statuses
<1>4. UNCHANGED <<now, calmFrom, lastId, published, claims, rvars, claimOf, batchNow>>
  BY DEF MarkSent
<1>5. QED
  BY <1>1, <1>2, <1>3, <1>4, MarkRowInv

\* The row a failed dispatch leaves.
LEMMA FailedRowType ==
  ASSUME TypeOK, NEW d \in Dispatchers, NEW e \in batch[d],
         e.id \in Ids, e.attempts < MaxFailures
  PROVE  /\ FailedRow(d, e) \in Row
         /\ FailedRow(d, e).key = outbox[e.id].key
         /\ FailedRow(d, e).status = "failed"
         /\ FailedRow(d, e).attempts = e.attempts + 1
<1>1. e.attempts \in Nat /\ MaxFailures \in Nat
  BY OutboxAssumption DEF TypeOK, Snapshot
<1>2. e.attempts + 1 \in 1..MaxFailures /\ e.attempts + 1 \in 0..MaxFailures
  BY <1>1
<1>3. RetryBackoff(BackoffBase, e.attempts + 1) \in Nat /\ batchNow[d] \in Nat
  BY <1>2, OutboxAssumption DEF TypeOK
<1>4. batchNow[d] + RetryBackoff(BackoffBase, e.attempts + 1) \in Nat
  BY <1>3
<1>5. outbox[e.id] \in Row
  BY DEF TypeOK
<1>6. QED
  BY <1>2, <1>4, <1>5 DEF FailedRow, Row, Statuses, Active

LEMMA MarkFailedInv ==
  ASSUME Inv, NEW d \in Dispatchers, MarkFailed(d)
  PROVE  Inv'
<1> USE DEF Inv
<1>1. PICK e \in batch[d] : IsHead(d, e) /\ UpdateClaimed(d, e, FailedRow(d, e))
  BY DEF MarkFailed
<1>2. e.id \in Ids /\ e.attempts < MaxFailures
  BY <1>1 DEF MarkFailed, BatchInTable, HeadMayFail
<1>3. UNCHANGED <<now, calmFrom, lastId, published, claims, rvars, claimOf, batchNow>>
  BY DEF MarkFailed
<1>4. QED
  BY <1>1, <1>2, <1>3, FailedRowType, MarkRowInv

LEMMA CrashInv == ASSUME Inv, NEW d \in Dispatchers, Crash(d) PROVE Inv'
  BY LeaveRowInv DEF Crash

LEMMA NextInv == Inv /\ [Next]_vars => Inv'
<1> SUFFICES ASSUME Inv, [Next]_vars PROVE Inv'
  OBVIOUS
<1>1. CASE \E r \in Requesters : Request(r)
  BY <1>1, RequestInv
<1>2. CASE \E d \in Dispatchers : Dispatch(d)
  BY <1>2, ClaimReadyInv, WriteInv, MarkSentInv, MarkFailedInv DEF Dispatch
<1>3. CASE \E d \in Dispatchers : Crash(d)
  BY <1>3, CrashInv
<1>4. CASE Tick
  BY <1>4, TickInv
<1>5. CASE UNCHANGED vars
  <2>1. RequestTypes /\ now' \in Nat
    BY <1>5 DEF Inv, TypeOK, RequestTypes, vars, rvars
  <2>2. UNCHANGED <<calmFrom, table, published, claims, dvars>>
    BY <1>5 DEF vars
  <2>3. QED
    BY <2>1, <2>2, QuietStep
<1>6. QED
  BY <1>1, <1>2, <1>3, <1>4, <1>5 DEF Next

-----------------------------------------------------------------------------

\* The outbox never leaves the states Inv describes, whatever crashes, fails
\* or is slow, for any number of callers, dispatchers and keys.
THEOREM Invariance == Spec => []Inv
<1>1. QED
  BY InitInv, NextInv, PTL DEF Spec

\* Type correctness of the outbox.
THEOREM TypeCorrect == Spec => []TypeOK
<1>1. Inv => TypeOK
  BY DEF Inv
<1>2. QED
  BY <1>1, Invariance, PTL

\* A row DispatchReady marked sent is in the topic.
THEOREM SentIsPublished == Spec => []SentWasPublished
<1>1. Inv => SentWasPublished
  BY DEF Inv
<1>2. QED
  BY <1>1, Invariance, PTL

\* The events of a key reach the topic in the order of their requests: the
\* unique index queues an event only when all earlier ones are sent, and a
\* sent one has been published.
THEOREM KeysInOrder == Spec => []KeyOrder
<1>1. Inv => KeyOrder
  BY DEF Inv, OlderAreSent, SentWasPublished, KeyOrder
<1>2. QED
  BY <1>1, Invariance, PTL

-----------------------------------------------------------------------------

\* Steps other than a mark change no row but a ready one, and leave none
\* failed that was not.
LEMMA UnmarkedRows ==
  ASSUME TypeOK,
         \/ \E r \in Requesters : Request(r)
         \/ \E d \in Dispatchers : ClaimReady(d) \/ Write(d) \/ Crash(d)
         \/ Tick
         \/ UNCHANGED vars,
         NEW i \in Ids, outbox'[i] # outbox[i]
  PROVE  Ready(i) /\ outbox'[i].status = "processing"
<1>1. CASE \E d \in Dispatchers : ClaimReady(d)
  <2>1. PICK C \in SUBSET Ids :
          /\ \A j \in C : Ready(j)
          /\ outbox' = [j \in Ids |->
               IF j \in C
               THEN [outbox[j] EXCEPT !.status = "processing",
                                      !.claimId = claims + 1,
                                      !.lockedUntil = now + ClaimTTL]
               ELSE outbox[j]]
    BY <1>1 DEF ClaimReady, FirstReady
  <2>2. outbox[i] \in Row
    BY DEF TypeOK
  <2>3. i \in C
    BY <2>1
  <2>4. QED
    BY <2>1, <2>2, <2>3 DEF Row
<1>2. CASE \E r \in Requesters : Insert(r)
  <2>1. lastId \in Nat /\ i \in 1..lastId
    BY OutboxAssumption DEF TypeOK, Ids
  <2>2. outbox'[i] = outbox[i]
    BY <1>2, <2>1 DEF Insert, table
  <2>3. QED
    BY <2>2
<1>3. CASE UNCHANGED outbox
  BY <1>3
<1>4. QED
  BY <1>1, <1>2, <1>3
     DEF Request, FindActive, Refind, RequestFails, Write, Crash, Tick, vars, table

\* A mark changes no row but the one at the head of the batch, and only if
\* its dispatcher holds the claim of that row.
LEMMA MarkedRow ==
  ASSUME TypeOK, BatchInTable, NEW d \in Dispatchers, NEW e \in batch[d],
         NEW row, UpdateClaimed(d, e, row),
         NEW i \in Ids, outbox'[i] # outbox[i]
  PROVE  /\ i = e.id /\ HoldsClaim(d, i) /\ outbox'[i] = row
         /\ e \notin batch'[d]
<1>1. HoldsClaim(d, e.id) /\ outbox' = [outbox EXCEPT ![e.id] = row]
  BY DEF UpdateClaimed
<1>2. NextOfBatch(d, e) \/ Abandon(d)
  BY DEF UpdateClaimed
<1>3. e \notin batch'[d]
  BY <1>2 DEF TypeOK, NextOfBatch, Abandon
<1>4. QED
  BY <1>1, <1>3 DEF TypeOK, BatchInTable

\* Every row that changes is ready, and was claimed, or is marked by the
\* dispatcher that holds its claim.
LEMMA RowChange ==
  ASSUME Inv, [Next]_vars, NEW i \in Ids, outbox'[i] # outbox[i]
  PROVE  \/ Ready(i) /\ outbox'[i].status = "processing"
         \/ \E d \in Dispatchers : \E e \in batch[d] :
              /\ i = e.id /\ HoldsClaim(d, i) /\ e \notin batch'[d]
              /\ \/ outbox'[i].status = "sent"
                 \/ outbox'[i].attempts = e.attempts + 1
<1> USE DEF Inv
<1>1. CASE \E d \in Dispatchers : MarkSent(d)
  <2>1. PICK d \in Dispatchers : \E e \in batch[d] :
          UpdateClaimed(d, e, SentRow(e.id))
    BY <1>1 DEF MarkSent
  <2> PICK e \in batch[d] : UpdateClaimed(d, e, SentRow(e.id))
    BY <2>1
  <2>2. /\ i = e.id /\ HoldsClaim(d, i) /\ outbox'[i] = SentRow(i)
        /\ e \notin batch'[d]
    BY MarkedRow
  <2>3. SentRow(i).status = "sent"
    BY DEF SentRow, TypeOK, Row
  <2>4. QED
    BY <2>2, <2>3
<1>2. CASE \E d \in Dispatchers : MarkFailed(d)
  <2>1. PICK d \in Dispatchers : MarkFailed(d)
    BY <1>2
  <2> PICK e \in batch[d] : IsHead(d, e) /\ UpdateClaimed(d, e, FailedRow(d, e))
    BY <2>1 DEF MarkFailed
  <2>2. e.id \in Ids /\ e.attempts < MaxFailures
    BY <2>1 DEF MarkFailed, BatchInTable, HeadMayFail
  <2>3. /\ i = e.id /\ HoldsClaim(d, i) /\ outbox'[i] = FailedRow(d, e)
        /\ e \notin batch'[d]
    BY MarkedRow
  <2>4. QED
    BY <2>2, <2>3, FailedRowType
<1>3. CASE ~(\E d \in Dispatchers : MarkSent(d) \/ MarkFailed(d))
  BY <1>3, UnmarkedRows DEF Next, Dispatch
<1>4. QED
  BY <1>1, <1>2, <1>3

\* A dispatcher that outlived its lease cannot touch the row any more, and
\* nobody else can before the lease ends (updateClaimed, readyFilter).
THEOREM LeasesAreRespected == Spec => LeaseRespected
<1>1. ASSUME Inv, [Next]_vars, NEW i \in Ids, outbox[i].status = "processing",
             outbox[i].lockedUntil > now, outbox'[i] # outbox[i]
      PROVE  \E d \in Dispatchers :
               /\ HoldsClaim(d, i)
               /\ \E e \in batch[d] : e.id = i /\ e \notin batch'[d]
  <2>1. ~Ready(i)
    <3>1. outbox[i].lockedUntil \in Nat /\ now \in Nat
      BY <1>1 DEF Inv, TypeOK, Row
    <3>2. QED
      BY <1>1, <3>1 DEF Ready
  <2>2. QED
    BY <1>1, <2>1, RowChange
<1>2. Inv /\ [Next]_vars =>
        [\A i \in Ids :
           /\ outbox[i].status = "processing"
           /\ outbox[i].lockedUntil > now
           /\ outbox'[i] # outbox[i]
           => \E d \in Dispatchers :
                /\ HoldsClaim(d, i)
                /\ \E e \in batch[d] : e.id = i /\ e \notin batch'[d]]_vars
  BY <1>1
<1>3. QED
  BY <1>2, Invariance, PTL DEF Spec, LeaseRespected

\* The attempt count is not lost or counted twice by the read-modify-write of
\* MarkFailed.
THEOREM FailuresAreCounted == Spec => FailureCounted
<1>1. ASSUME Inv, [Next]_vars, NEW i \in Ids,
             outbox'[i].status = "failed", outbox'[i] # outbox[i]
      PROVE  outbox'[i].attempts = outbox[i].attempts + 1
  BY <1>1, RowChange DEF Inv, SnapshotIsCurrent
<1>2. Inv /\ [Next]_vars =>
        [\A i \in Ids :
           outbox'[i].status = "failed" /\ outbox'[i] # outbox[i]
           => outbox'[i].attempts = outbox[i].attempts + 1]_vars
  BY <1>1
<1>3. QED
  BY <1>2, Invariance, PTL DEF Spec, FailureCounted

-----------------------------------------------------------------------------
(* Without faults: every event is published exactly once.  What follows    *)
(* is about the behaviours with calmFrom = 0.                              *)

\* A dispatcher with work never saw a write fail, and its leases run: the
\* clock waits for it.
LeasesRun ==
  \A d \in Dispatchers :
    /\ dpc[d] # "markFailed"
    /\ dpc[d] = "idle" => batch[d] = {}
    /\ \A e \in batch[d] : HoldsClaim(d, e.id) /\ outbox[e.id].lockedUntil > now

\* No row is in two hands.
BatchesAreDisjoint ==
  \A c, d \in Dispatchers : \A e \in batch[c], f \in batch[d] :
    e.id = f.id => c = d /\ e = f

\* Row i has just been written and is about to be marked sent.
BeingMarked(i) ==
  \E d \in Dispatchers :
    dpc[d] = "markSent" /\ \E e \in batch[d] : e.id = i /\ IsHead(d, e)

\* The copies in the topic are those of the rows marked or about to be.
CopiesAreMarked ==
  \A i \in Ids :
    published[i] = IF outbox[i].status = "sent" \/ BeingMarked(i) THEN 1 ELSE 0

CalmInv ==
  calmFrom = 0 => LeasesRun /\ BatchesAreDisjoint /\ CopiesAreMarked

Calm == calmFrom = 0 /\ LeasesRun /\ BatchesAreDisjoint /\ CopiesAreMarked

LEMMA InitCalm == Init => CalmInv
<1>1. Init => Ids = {}
  BY DEF Init, Ids
<1>2. QED
  BY <1>1 DEF Init, CalmInv, LeasesRun, BatchesAreDisjoint, CopiesAreMarked

\* A step that touches neither the rows nor the batches, and moves the clock
\* only while no dispatcher works.
LEMMA CalmQuietStep ==
  ASSUME Calm, UNCHANGED <<calmFrom, table, published, claims, dvars>>,
         \/ now' = now
         \/ \A d \in Dispatchers : dpc[d] = "idle"
  PROVE  Calm'
<1> USE DEF Calm, table, dvars
<1>1. LeasesRun'
  BY DEF LeasesRun, HoldsClaim
<1>2. BatchesAreDisjoint'
  BY DEF BatchesAreDisjoint
<1>3. Ids' = Ids /\ \A i : BeingMarked(i)' <=> BeingMarked(i)
  BY DEF Ids, BeingMarked, IsHead
<1>4. CopiesAreMarked'
  BY <1>3 DEF CopiesAreMarked
<1>5. QED
  BY <1>1, <1>2, <1>4

LEMMA CalmInsert ==
  ASSUME Inv, Calm, NEW r \in Requesters, Insert(r),
         ActiveIds(wanted[r]) = {}
  PROVE  Calm'
<1> USE DEF Calm, table, dvars
<1> DEFINE id == lastId + 1
<1>1. /\ UNCHANGED <<now, calmFrom, claims, dpc, claimOf, batchNow, batch>>
      /\ lastId' = id
  BY DEF Insert, UniqueIndexAllows
<1>2. lastId \in Nat
  BY OutboxAssumption DEF Inv, TypeOK
<1>3. Ids' = Ids \cup {id} /\ id \notin Ids /\ 1..id = Ids \cup {id}
  BY <1>1, <1>2 DEF Ids
<1>4. /\ outbox'[id].status = "pending" /\ published'[id] = 0
      /\ \A i \in Ids : outbox'[i] = outbox[i] /\ published'[i] = published[i]
  <2>1. /\ outbox' = [i \in 1..id |->
             IF i = id THEN NewRow(wanted[r], askedAt[r]) ELSE outbox[i]]
        /\ published' = [i \in 1..id |-> IF i = id THEN 0 ELSE published[i]]
    BY DEF Insert, UniqueIndexAllows
  <2>2. QED
    BY <1>3, <2>1 DEF NewRow
<1>5. \A d \in Dispatchers : \A e \in batch[d] : e.id \in Ids
  BY DEF Inv, BatchInTable
<1> HIDE DEF id
<1>6. LeasesRun'
  BY <1>1, <1>4, <1>5 DEF LeasesRun, HoldsClaim
<1>7. BatchesAreDisjoint'
  BY <1>1 DEF BatchesAreDisjoint
<1>8. /\ \A i \in Ids : BeingMarked(i)' <=> BeingMarked(i)
      /\ \A i \in {id} : ~BeingMarked(i)'
  BY <1>1, <1>3, <1>5 DEF BeingMarked, IsHead
<1>9. CopiesAreMarked'
  BY <1>3, <1>4, <1>8 DEF CopiesAreMarked
<1>10. QED
  BY <1>1, <1>6, <1>7, <1>9

LEMMA CalmRequest ==
  ASSUME Inv, Calm, NEW r \in Requesters, Request(r)
  PROVE  Calm'
<1>1. CASE Insert(r) /\ ActiveIds(wanted[r]) = {}
  BY <1>1, CalmInsert
<1>2. CASE ~(Insert(r) /\ ActiveIds(wanted[r]) = {})
  <2>1. UNCHANGED <<now, calmFrom, table, published, claims, dvars>>
    BY <1>2 DEF Request, FindActive, Insert, Refind, RequestFails, UniqueIndexAllows
  <2>2. QED
    BY <2>1, CalmQuietStep
<1>3. QED
  BY <1>1, <1>2

LEMMA CalmClaim ==
  ASSUME Inv, Calm, NEW d \in Dispatchers, ClaimReady(d)
  PROVE  Calm'
<1> USE DEF Calm
<1>1. PICK C \in SUBSET Ids :
        /\ \A i \in C : Ready(i)
        /\ outbox' = [i \in Ids |->
             IF i \in C
             THEN [outbox[i] EXCEPT !.status = "processing",
                                    !.claimId = claims + 1,
                                    !.lockedUntil = now + ClaimTTL]
             ELSE outbox[i]]
        /\ batch' = [batch EXCEPT ![d] = {SnapshotOf(i) : i \in C}]
  BY DEF ClaimReady, FirstReady
<1>2. /\ claimOf' = [claimOf EXCEPT ![d] = claims + 1]
      /\ dpc' = [dpc EXCEPT ![d] = "write"]
      /\ dpc[d] = "idle"
      /\ UNCHANGED <<now, calmFrom, lastId, published>>
  BY DEF ClaimReady
<1>3. Ids' = Ids /\ now + ClaimTTL > now
  BY <1>2, OutboxAssumption DEF Ids, Inv, TypeOK
<1>4. \A i \in Ids : /\ i \notin C => outbox'[i] = outbox[i]
                     /\ i \in C => /\ outbox'[i].status = "processing"
                                   /\ outbox'[i].claimId = claims + 1
                                   /\ outbox'[i].lockedUntil = now + ClaimTTL
                                   /\ outbox[i].status # "sent"
  BY <1>1 DEF Inv, TypeOK, Row, Ready
<1>5. /\ claimOf'[d] = claims + 1 /\ dpc'[d] = "write"
      /\ batch'[d] = {SnapshotOf(i) : i \in C}
      /\ \A c \in Dispatchers \ {d} : /\ claimOf'[c] = claimOf[c]
                                      /\ dpc'[c] = dpc[c]
                                      /\ batch'[c] = batch[c]
  BY <1>1, <1>2 DEF Inv, TypeOK
<1>6. \A i \in C : SnapshotOf(i).id = i
  BY DEF SnapshotOf
\* A row in hand is leased and its lease runs, so the claim passes it over.
<1>7. \A c \in Dispatchers : \A e \in batch[c] : e.id \in Ids \ C
  <2> SUFFICES ASSUME NEW c \in Dispatchers, NEW e \in batch[c], e.id \in C
               PROVE  FALSE
    BY DEF Inv, BatchInTable
  <2>1. /\ outbox[e.id].status = "processing"
        /\ outbox[e.id].lockedUntil > now
    BY DEF LeasesRun, HoldsClaim
  <2>2. outbox[e.id].lockedUntil \in Nat /\ now \in Nat
    BY DEF Inv, TypeOK, Row
  <2>3. Ready(e.id)
    BY <1>1
  <2>4. QED
    BY <2>1, <2>2, <2>3 DEF Ready
<1>8. LeasesRun'
  <2> SUFFICES ASSUME NEW c \in Dispatchers
               PROVE  /\ dpc'[c] # "markFailed"
                      /\ dpc'[c] = "idle" => batch'[c] = {}
                      /\ \A e \in batch'[c] :
                           HoldsClaim(c, e.id)' /\ outbox'[e.id].lockedUntil > now
    BY <1>2 DEF LeasesRun
  <2>1. CASE c = d
    BY <1>3, <1>4, <1>5, <1>6, <2>1 DEF HoldsClaim
  <2>2. CASE c # d
    BY <1>4, <1>5, <1>7, <2>2 DEF LeasesRun, HoldsClaim
  <2>3. QED
    BY <2>1, <2>2
<1>9. BatchesAreDisjoint'
  <2> SUFFICES ASSUME NEW b \in Dispatchers, NEW c \in Dispatchers,
                      NEW e \in batch'[b], NEW f \in batch'[c], e.id = f.id
               PROVE  b = c /\ e = f
    BY DEF BatchesAreDisjoint
  <2>1. CASE b = d /\ c = d
    BY <1>5, <1>6, <2>1
  <2>2. CASE b = d /\ c # d
    BY <1>5, <1>6, <1>7, <2>2
  <2>3. CASE b # d /\ c = d
    BY <1>5, <1>6, <1>7, <2>3
  <2>4. CASE b # d /\ c # d
    BY <1>5, <2>4 DEF BatchesAreDisjoint
  <2>5. QED
    BY <2>1, <2>2, <2>3, <2>4
<1>10. \A i \in Ids : BeingMarked(i)' <=> BeingMarked(i)
  <2>1. \A i : BeingMarked(i)' => BeingMarked(i)
    BY <1>5 DEF BeingMarked, IsHead
  <2>2. \A i : BeingMarked(i) => BeingMarked(i)'
    BY <1>2, <1>5 DEF BeingMarked, IsHead
  <2>3. QED
    BY <2>1, <2>2
<1>11. CopiesAreMarked'
  <2>1. \A i \in Ids : outbox'[i].status = "sent" <=> outbox[i].status = "sent"
    BY <1>4
  <2>2. QED
    BY <1>2, <1>3, <1>10, <2>1 DEF CopiesAreMarked
<1>12. QED
  BY <1>2, <1>8, <1>9, <1>11

LEMMA CalmWrite ==
  ASSUME Inv, Calm, NEW d \in Dispatchers, Write(d)
  PROVE  Calm'
<1> USE DEF Calm
<1>1. /\ UNCHANGED <<now, calmFrom, lastId, outbox, claims>>
      /\ UNCHANGED <<claimOf, batchNow, batch>> /\ dpc[d] = "write"
  BY DEF Write, table
<1>2. PICK e \in batch[d] :
        /\ IsHead(d, e) /\ Publish(e.id)
        /\ dpc' = [dpc EXCEPT ![d] = "markSent"]
  <2>1. ~(now < calmFrom)
    BY DEF Inv, TypeOK
  <2>2. QED
    BY <2>1 DEF Write, WriteError
<1>3. e.id \in Ids /\ Ids' = Ids
  BY <1>1 DEF Inv, BatchInTable, Ids
<1>4. /\ dpc'[d] = "markSent"
      /\ \A c \in Dispatchers \ {d} : dpc'[c] = dpc[c]
  BY <1>2 DEF Inv, TypeOK
<1>5. LeasesRun' /\ BatchesAreDisjoint'
  BY <1>1, <1>4 DEF LeasesRun, BatchesAreDisjoint, HoldsClaim
<1>6. published[e.id] = 0
  <2>1. outbox[e.id].status = "processing"
    BY DEF LeasesRun, HoldsClaim
  <2>2. ~BeingMarked(e.id)
    BY <1>1 DEF BatchesAreDisjoint, BeingMarked
  <2>3. QED
    BY <1>3, <2>1, <2>2 DEF CopiesAreMarked
<1>7. /\ published'[e.id] = 1
      /\ \A i \in Ids \ {e.id} : published'[i] = published[i]
  BY <1>2, <1>3, <1>6 DEF Inv, TypeOK, Publish
<1>8. BeingMarked(e.id)'
  BY <1>1, <1>2, <1>4 DEF BeingMarked, IsHead
<1>9. \A i \in Ids \ {e.id} : BeingMarked(i)' <=> BeingMarked(i)
  <2> SUFFICES ASSUME NEW i \in Ids \ {e.id}
               PROVE  BeingMarked(i)' <=> BeingMarked(i)
    OBVIOUS
  <2>1. ASSUME BeingMarked(i) PROVE BeingMarked(i)'
    BY <1>1, <1>4, <2>1 DEF BeingMarked, IsHead
  <2>2. ASSUME BeingMarked(i)' PROVE BeingMarked(i)
    <3>1. PICK c \in Dispatchers :
            dpc'[c] = "markSent" /\ \E f \in batch[c] : f.id = i /\ IsHead(c, f)
      BY <1>1, <2>2 DEF BeingMarked, IsHead
    <3>2. c # d
      BY <1>2, <3>1, HeadIsUnique DEF Inv
    <3>3. QED
      BY <1>4, <3>1, <3>2 DEF BeingMarked
  <2>3. QED
    BY <2>1, <2>2
<1>10. CopiesAreMarked'
  BY <1>1, <1>3, <1>7, <1>8, <1>9 DEF CopiesAreMarked
<1>11. QED
  BY <1>1, <1>5, <1>10

LEMMA CalmMarkSent ==
  ASSUME Inv, Calm, NEW d \in Dispatchers, MarkSent(d)
  PROVE  Calm'
<1> USE DEF Calm
<1>1. /\ UNCHANGED <<now, calmFrom, lastId, published, claims, claimOf, batchNow>>
      /\ dpc[d] = "markSent"
  BY DEF MarkSent
<1>2. PICK e \in batch[d] : IsHead(d, e) /\ UpdateClaimed(d, e, SentRow(e.id))
  BY DEF MarkSent
<1>3. /\ HoldsClaim(d, e.id)
      /\ outbox' = [outbox EXCEPT ![e.id] = SentRow(e.id)]
      /\ NextOfBatch(d, e)
  <2>1. ~(now < calmFrom) /\ HoldsClaim(d, e.id)
    BY DEF Inv, TypeOK, LeasesRun
  <2>2. QED
    BY <1>2, <2>1 DEF UpdateClaimed
<1>4. e.id \in Ids /\ Ids' = Ids
  BY <1>1 DEF Inv, BatchInTable, Ids
<1>5. /\ outbox'[e.id].status = "sent"
      /\ \A i \in Ids \ {e.id} : outbox'[i] = outbox[i]
  BY <1>3, <1>4 DEF Inv, TypeOK, Row, SentRow
<1>6. /\ batch'[d] = batch[d] \ {e}
      /\ dpc'[d] \in {"idle", "write"}
      /\ dpc'[d] = "idle" => batch'[d] = {}
      /\ \A c \in Dispatchers \ {d} : dpc'[c] = dpc[c] /\ batch'[c] = batch[c]
  BY <1>3 DEF Inv, TypeOK, NextOfBatch
<1>7. \A c \in Dispatchers : \A f \in batch'[c] :
        f \in batch[c] /\ f.id \in Ids \ {e.id}
  <2> SUFFICES ASSUME NEW c \in Dispatchers, NEW f \in batch'[c]
               PROVE  f \in batch[c] /\ f.id \in Ids \ {e.id}
    OBVIOUS
  <2>1. f \in batch[c] /\ (c = d => f # e)
    BY <1>6
  <2>2. f.id # e.id
    BY <2>1 DEF BatchesAreDisjoint
  <2>3. QED
    BY <2>1, <2>2 DEF Inv, BatchInTable
<1>8. LeasesRun'
  <2>1. \A c \in Dispatchers :
          dpc'[c] # "markFailed" /\ (dpc'[c] = "idle" => batch'[c] = {})
    BY <1>6 DEF LeasesRun
  <2>2. \A c \in Dispatchers : \A f \in batch'[c] :
          HoldsClaim(c, f.id)' /\ outbox'[f.id].lockedUntil > now
    BY <1>1, <1>5, <1>7 DEF LeasesRun, HoldsClaim
  <2>3. QED
    BY <1>1, <2>1, <2>2 DEF LeasesRun
<1>9. BatchesAreDisjoint'
  BY <1>7 DEF BatchesAreDisjoint
<1>10. BeingMarked(e.id)
  BY <1>1, <1>2 DEF BeingMarked
<1>11. \A i \in Ids \ {e.id} : BeingMarked(i)' <=> BeingMarked(i)
  <2> SUFFICES ASSUME NEW i \in Ids \ {e.id}
               PROVE  BeingMarked(i)' <=> BeingMarked(i)
    OBVIOUS
  <2>1. ASSUME BeingMarked(i)' PROVE BeingMarked(i)
    BY <1>6, <2>1 DEF BeingMarked, IsHead
  <2>2. ASSUME BeingMarked(i) PROVE BeingMarked(i)'
    <3>1. PICK c \in Dispatchers :
            dpc[c] = "markSent" /\ \E f \in batch[c] : f.id = i /\ IsHead(c, f)
      BY <2>2 DEF BeingMarked
    <3>2. c # d
      BY <1>2, <3>1, HeadIsUnique DEF Inv
    <3>3. QED
      BY <1>6, <3>1, <3>2 DEF BeingMarked, IsHead
  <2>3. QED
    BY <2>1, <2>2
<1>12. CopiesAreMarked'
  BY <1>1, <1>4, <1>5, <1>10, <1>11 DEF CopiesAreMarked
<1>13. QED
  BY <1>1, <1>8, <1>9, <1>12

LEMMA CalmNext == Inv /\ CalmInv /\ [Next]_vars => CalmInv'
<1> SUFFICES ASSUME Inv, CalmInv, [Next]_vars, calmFrom' = 0 PROVE Calm'
  BY DEF CalmInv, Calm
<1>1. calmFrom' = calmFrom
  BY DEF Next, vars, Request, FindActive, Insert, Refind, RequestFails, Dispatch,
     ClaimReady, Write, MarkSent, MarkFailed, Crash, Tick
<1>2. Calm
  BY <1>1 DEF CalmInv, Calm
<1>3. ~(now < calmFrom)
  BY <1>1 DEF Inv, TypeOK
<1>4. CASE \E r \in Requesters : Request(r)
  BY <1>2, <1>4, CalmRequest
<1>5. CASE \E d \in Dispatchers : ClaimReady(d) \/ Write(d) \/ MarkSent(d)
  BY <1>2, <1>5, CalmClaim, CalmWrite, CalmMarkSent
<1>6. CASE \E d \in Dispatchers : MarkFailed(d) \/ Crash(d)
  BY <1>2, <1>3, <1>6 DEF MarkFailed, Crash, Calm, LeasesRun
<1>7. CASE Tick \/ UNCHANGED vars
  <2>1. UNCHANGED <<calmFrom, table, published, claims, dvars>>
    BY <1>7 DEF Tick, vars
  <2>2. now' = now \/ \A d \in Dispatchers : dpc[d] = "idle"
    BY <1>3, <1>7 DEF Tick, vars
  <2>3. QED
    BY <1>2, <2>1, <2>2, CalmQuietStep
<1>8. QED
  BY <1>4, <1>5, <1>6, <1>7 DEF Next, Dispatch

\* Any number of dispatchers share the table without publishing an event
\* twice, as long as nothing fails and a batch is handled within its lease:
\* ClaimReady leases a row to one of them, and the mark takes it out of play.
THEOREM EventsArePublishedOnce == Spec => []ExactlyOnceWithoutFaults
<1>1. Inv /\ CalmInv => ExactlyOnceWithoutFaults
  BY DEF Inv, TypeOK, CalmInv, CopiesAreMarked, ExactlyOnceWithoutFaults
<1>2. QED
  BY <1>1, InitCalm, CalmNext, Invariance, PTL DEF Spec

-----------------------------------------------------------------------------
(* The outbox implements the queue of module EventQueue: under the mapping *)
(* of Outbox!Queue every step of a requester or a dispatcher is a step of  *)
(* the queue or leaves it unchanged.                                       *)

\* The queue's variables, seen in the table.
KeyOf == [i \in Ids |-> outbox[i].key]
Settled == {i \in Ids : outbox[i].status = "sent"}

qbar == <<lastId, KeyOf, Settled, published, reply>>

\* What is unsettled for the queue is active in the table.
LEMMA UnsettledIsActive ==
  ASSUME TypeOK, NEW k \in Keys
  PROVE  Queue!Unsettled(k) = ActiveIds(k)
<1>1. \A i \in Ids : outbox[i].status \in Active <=> outbox[i].status # "sent"
  BY DEF TypeOK, Row, Statuses, Active
<1>2. QED
  BY <1>1 DEF Queue!Unsettled, Queue!Events, ActiveIds, Ids

\* Rows keep their keys, and sent rows stay the same.
LEMMA KeepsRows ==
  ASSUME lastId' = lastId,
         \A i \in Ids : /\ outbox'[i].key = outbox[i].key
                        /\ outbox'[i].status = "sent" <=> outbox[i].status = "sent"
  PROVE  UNCHANGED <<lastId, KeyOf, Settled>>
<1>1. Ids' = Ids
  BY DEF Ids
<1>2. QED
  BY <1>1 DEF KeyOf, Settled

LEMMA InitRefines == Init => Queue!Init
<1> SUFFICES ASSUME Init PROVE Queue!Init
  OBVIOUS
<1>1. Ids = 1..0 /\ 1..0 = {}
  BY DEF Init, Ids
<1>2. QED
  BY <1>1 DEF Init, Queue!Init

\* A step that changes nothing the queue knows of.
LEMMA Stutters ==
  ASSUME UNCHANGED <<table, published, reply>>
  PROVE  UNCHANGED Queue!qvars
<1>1. UNCHANGED <<lastId, KeyOf, Settled>>
  BY KeepsRows DEF table
<1>2. QED
  BY <1>1 DEF Queue!qvars, KeyOf, Settled

\* Answering with an active row shares it; answering with an error rejects.
LEMMA RepliesRefine ==
  ASSUME Inv, NEW r \in Requesters, NEW k \in Keys, NEW i \in ActiveIds(k) \cup {0},
         Reply(r, i), UNCHANGED <<table, published>>
  PROVE  Queue!Next
<1>1. UNCHANGED <<lastId, KeyOf, Settled, published>>
  BY KeepsRows DEF table
<1>2. CASE i \in ActiveIds(k)
  <2>1. i \in Queue!Unsettled(k)
    BY <1>2, UnsettledIsActive DEF Inv
  <2>2. Queue!Share(r, k)
    BY <1>1, <2>1 DEF Queue!Share, Reply, KeyOf, Settled
  <2>3. QED
    BY <2>2 DEF Queue!Next
<1>3. CASE i = 0
  <2>1. Queue!Reject(r)
    BY <1>1, <1>3 DEF Queue!Reject, Reply, KeyOf, Settled
  <2>2. QED
    BY <2>1 DEF Queue!Next
<1>4. QED
  BY <1>2, <1>3

LEMMA RequestRefines ==
  ASSUME Inv, NEW r \in Requesters, Request(r)
  PROVE  Queue!Next \/ UNCHANGED Queue!qvars
<1>1. ASSUME NEW k \in Keys, FindActive(r, k)
      PROVE  Queue!Next \/ UNCHANGED Queue!qvars
  BY <1>1, Stutters, RepliesRefine DEF FindActive, FirstActive
<1>2. CASE Refind(r)
  <2>1. wanted[r] \in Keys
    BY DEF Inv, TypeOK
  <2>2. QED
    BY <1>2, <2>1, RepliesRefine DEF Refind, FirstActive
<1>3. CASE RequestFails(r)
  <2>1. wanted[r] \in Keys
    BY DEF Inv, TypeOK
  <2>2. QED
    BY <1>3, <2>1, RepliesRefine DEF RequestFails
<1>4. CASE Insert(r) /\ ActiveIds(wanted[r]) # {}
  BY <1>4, Stutters DEF Insert, UniqueIndexAllows
<1>5. ASSUME NEW k \in Keys, k = wanted[r], Insert(r), ActiveIds(k) = {}
      PROVE  Queue!Next
  <2> DEFINE id == lastId + 1
  <2>1. /\ lastId < MaxRows /\ lastId' = id
        /\ outbox' = [i \in 1..id |->
             IF i = id THEN NewRow(k, askedAt[r]) ELSE outbox[i]]
        /\ published' = [i \in 1..id |-> IF i = id THEN 0 ELSE published[i]]
        /\ \E answer \in {id, 0} : reply' = [reply EXCEPT ![r] = answer]
    BY <1>5 DEF Insert, UniqueIndexAllows, Reply
  <2>2. lastId \in Nat
    BY OutboxAssumption DEF Inv, TypeOK
  <2>3. /\ 1..id = Ids \cup {id} /\ id \notin Ids
        /\ Ids' = 1..id
    BY <2>1, <2>2 DEF Ids
  <2>4. /\ NewRow(k, askedAt[r]).key = k
        /\ NewRow(k, askedAt[r]).status = "pending"
    BY DEF NewRow
  <2>5. Queue!Unsettled(k) = {}
    BY <1>5, UnsettledIsActive DEF Inv
  <2>6. KeyOf' = [i \in 1..id |-> IF i = id THEN k ELSE KeyOf[i]]
    BY <2>1, <2>3, <2>4 DEF KeyOf
  <2>7. Settled' = Settled
    BY <2>1, <2>3, <2>4 DEF Settled
  <2>8. Queue!Accept(r, k)
    BY <2>1, <2>5, <2>6, <2>7 DEF Queue!Accept, KeyOf, Settled
  <2>9. QED
    BY <2>8 DEF Queue!Next
<1>6. wanted[r] \in Keys
  BY DEF Inv, TypeOK
<1>7. QED
  BY <1>1, <1>2, <1>3, <1>4, <1>5, <1>6 DEF Request

LEMMA ClaimReadyRefines ==
  ASSUME Inv, NEW d \in Dispatchers, ClaimReady(d)
  PROVE  UNCHANGED Queue!qvars
<1>1. UNCHANGED <<lastId, published, reply>>
  BY DEF ClaimReady, rvars
<1>2. \A i \in Ids : outbox'[i] # outbox[i] =>
        /\ outbox[i].status # "sent" /\ outbox'[i].status = "processing"
        /\ outbox'[i].key = outbox[i].key
  <2>1. PICK C \in SUBSET Ids :
          /\ \A j \in C : Ready(j)
          /\ outbox' = [j \in Ids |->
               IF j \in C
               THEN [outbox[j] EXCEPT !.status = "processing",
                                      !.claimId = claims + 1,
                                      !.lockedUntil = now + ClaimTTL]
               ELSE outbox[j]]
    BY DEF ClaimReady, FirstReady
  <2>2. \A i \in Ids : outbox[i] \in Row
    BY DEF Inv, TypeOK
  <2>3. QED
    BY <2>1, <2>2 DEF Row, Ready
<1>3. UNCHANGED <<lastId, KeyOf, Settled>>
  BY <1>1, <1>2, KeepsRows
<1>4. QED
  BY <1>1, <1>3 DEF Queue!qvars, KeyOf, Settled

LEMMA WriteRefines ==
  ASSUME Inv, NEW d \in Dispatchers, Write(d)
  PROVE  Queue!Next \/ UNCHANGED Queue!qvars
<1>1. PICK e \in batch[d] : Publish(e.id) \/ UNCHANGED published
  BY DEF Write, WriteError
<1>2. UNCHANGED <<table, reply>>
  BY DEF Write, rvars
<1>3. CASE Publish(e.id)
  <2>1. UNCHANGED <<lastId, KeyOf, Settled>>
    BY <1>2, KeepsRows DEF table
  <2>2. Queue!Deliver(e.id) /\ e.id \in Queue!Events
    BY <1>2, <1>3, <2>1
       DEF Queue!Deliver, Queue!Events, Publish, KeyOf, Settled, Inv, BatchInTable, Ids
  <2>3. QED
    BY <2>2 DEF Queue!Next
<1>4. QED
  BY <1>1, <1>2, <1>3, Stutters

\* Marking the head of a batch settles it or changes nothing for the queue.
LEMMA MarkRefines ==
  ASSUME Inv, NEW d \in Dispatchers, NEW e \in batch[d], NEW row,
         UpdateClaimed(d, e, row),
         row.key = outbox[e.id].key,
         row.status \in {"sent", "failed"},
         row.status = "sent" => published[e.id] > 0,
         UNCHANGED <<lastId, published, reply>>
  PROVE  Queue!Next \/ UNCHANGED Queue!qvars
<1> USE DEF Inv
<1>1. CASE UNCHANGED outbox
  BY <1>1, Stutters DEF table
<1>2. CASE outbox' # outbox
  <2>1. HoldsClaim(d, e.id) /\ outbox' = [outbox EXCEPT ![e.id] = row]
    BY <1>2 DEF UpdateClaimed
  <2>2. e.id \in Ids /\ outbox[e.id].status = "processing" /\ Ids' = Ids
    BY <2>1 DEF BatchInTable, HoldsClaim, Ids
  <2>3. outbox'[e.id] = row /\ \A i \in Ids \ {e.id} : outbox'[i] = outbox[i]
    BY <2>1, <2>2 DEF TypeOK
  <2>4. CASE row.status = "failed"
    <3>1. UNCHANGED <<lastId, KeyOf, Settled>>
      BY <2>2, <2>3, <2>4, KeepsRows
    <3>2. QED
      BY <3>1 DEF Queue!qvars, KeyOf, Settled
  <2>5. CASE row.status = "sent"
    <3>1. KeyOf' = KeyOf
      BY <2>2, <2>3 DEF KeyOf
    <3>2. Settled' = Settled \cup {e.id} /\ e.id \notin Settled
      BY <2>2, <2>3, <2>5 DEF Settled
    <3>3. Queue!Settle(e.id) /\ e.id \in Queue!Events
      BY <2>2, <2>5, <3>1, <3>2
         DEF Queue!Settle, Queue!Events, KeyOf, Settled, Ids
    <3>4. QED
      BY <3>3 DEF Queue!Next
  <2>6. QED
    BY <2>4, <2>5
<1>3. QED
  BY <1>1, <1>2

LEMMA MarkSentRefines ==
  ASSUME Inv, NEW d \in Dispatchers, MarkSent(d)
  PROVE  Queue!Next \/ UNCHANGED Queue!qvars
<1>1. PICK e \in batch[d] : IsHead(d, e) /\ UpdateClaimed(d, e, SentRow(e.id))
  BY DEF MarkSent
<1>2. outbox[e.id] \in Row /\ published[e.id] > 0
  BY <1>1 DEF Inv, MarkSent, TypeOK, BatchInTable, HeadWasWritten
<1>3. SentRow(e.id).key = outbox[e.id].key /\ SentRow(e.id).status = "sent"
  BY <1>2 DEF SentRow, Row
<1>4. UNCHANGED <<lastId, published, reply>>
  BY DEF MarkSent, rvars
<1>5. QED
  BY <1>1, <1>2, <1>3, <1>4, MarkRefines

LEMMA MarkFailedRefines ==
  ASSUME Inv, NEW d \in Dispatchers, MarkFailed(d)
  PROVE  Queue!Next \/ UNCHANGED Queue!qvars
<1>1. PICK e \in batch[d] : IsHead(d, e) /\ UpdateClaimed(d, e, FailedRow(d, e))
  BY DEF MarkFailed
<1>2. e.id \in Ids /\ e.attempts < MaxFailures
  BY <1>1 DEF Inv, MarkFailed, BatchInTable, HeadMayFail
<1>3. FailedRow(d, e).key = outbox[e.id].key /\ FailedRow(d, e).status = "failed"
  BY <1>2, FailedRowType DEF Inv
<1>4. UNCHANGED <<lastId, published, reply>>
  BY DEF MarkFailed, rvars
<1>5. QED
  BY <1>1, <1>3, <1>4, MarkRefines

\* Every step of the outbox is a step of the queue or changes nothing for it.
LEMMA NextRefines == Inv /\ [Next]_vars => [Queue!Next]_(Queue!qvars)
<1> SUFFICES ASSUME Inv, [Next]_vars
             PROVE  Queue!Next \/ UNCHANGED Queue!qvars
  OBVIOUS
<1>1. CASE \E r \in Requesters : Request(r)
  BY <1>1, RequestRefines
<1>2. CASE \E d \in Dispatchers : Dispatch(d)
  BY <1>2, ClaimReadyRefines, WriteRefines, MarkSentRefines, MarkFailedRefines
     DEF Dispatch
<1>3. CASE (\E d \in Dispatchers : Crash(d)) \/ Tick \/ UNCHANGED vars
  <2>1. UNCHANGED <<table, published, reply>>
    BY <1>3 DEF Crash, Tick, vars, table, rvars
  <2>2. QED
    BY <2>1, Stutters
<1>4. QED
  BY <1>1, <1>2, <1>3 DEF Next

\* Whatever Create, the dispatchers and the failures do, callers and readers
\* of the topic see a queue with one unsettled event per key.
THEOREM RefinesEventQueue == Spec => ImplementsEventQueue
<1>1. QED
  BY InitRefines, NextRefines, Invariance, PTL
     DEF Spec, ImplementsEventQueue, Queue!Spec
=============================================================================
