-------------------------- MODULE JobWorkerProofs --------------------------
(***************************************************************************)
(* The safety of module JobWorker for every instance: any number of        *)
(* workers and tasks, any retry budget and lease, every kind of fault.     *)
(*                                                                         *)
(* A worker announces the end of an attempt (a completed event, a DLQ row  *)
(* and event, a retry) before it marks the execution.  The invariant says  *)
(* what a worker at a given step has announced; the proofs rest on nothing *)
(* that was announced being ever undone.                                   *)
(***************************************************************************)
EXTENDS JobWorker, SequenceTheorems, TLAPS

Steps == {"poll", "received", "commit", "stopped"} \cup Handling

InHand(s) == s \notin {"poll", "stopped"}

RetryQueued(t, n) == \E o \in Offsets : log[o].task = t /\ log[o].attempt = n

\* What must hold of worker w for it to be at step s.
Entitled(w, s) ==
  /\ InHand(s) => at[w] \in Offsets
  /\ s = "retry" => Msg(w).attempt + 1 < MaxAttempts
  /\ s = "markSucceeded" => completed[TaskOf(w)] > 0
  /\ s \in {"dlqEvent", "markDLQ"} => dlqItems[TaskOf(w)] > 0
  /\ s = "markDLQ" => dlqEvents[TaskOf(w)] > 0
  /\ s = "markFailed" => RetryQueued(TaskOf(w), Msg(w).attempt + 1)

StepAnnounced == \A w \in Workers : Entitled(w, pc[w])

Inv == TypeOK /\ StepAnnounced /\ EndWasAnnounced /\ RetriesFollowAttempts

-----------------------------------------------------------------------------

LEMMA InitInv == Init => Inv
<1> SUFFICES ASSUME Init PROVE Inv
  OBVIOUS
<1> USE JobWorkerAssumption DEF Init
<1>1. log \in Seq(Message) /\ Len(log) = 0 /\ Offsets = {}
  BY DEF Offsets
<1>2. TypeOK
  BY <1>1 DEF TypeOK, Exec, Statuses
<1>3. StepAnnounced
  BY DEF StepAnnounced, Entitled, InHand
<1>4. EndWasAnnounced
  BY DEF EndWasAnnounced, Terminal
<1>5. RetriesFollowAttempts
  BY <1>1 DEF RetriesFollowAttempts
<1>6. QED
  BY <1>2, <1>3, <1>4, <1>5 DEF Inv

-----------------------------------------------------------------------------
(* The topic and the outputs only grow.                                    *)

Grows ==
  /\ \A o \in Offsets : o \in Offsets' /\ log'[o] = log[o]
  /\ \A t \in Tasks :
       /\ completed[t] > 0 => completed'[t] > 0
       /\ dlqItems[t] > 0 => dlqItems'[t] > 0
       /\ dlqEvents[t] > 0 => dlqEvents'[t] > 0

LEMMA AppendGrows ==
  ASSUME log \in Seq(Message), NEW m \in Message, log' = Append(log, m)
  PROVE  /\ log' \in Seq(Message)
         /\ Len(log) \in Nat
         /\ Len(log') = Len(log) + 1
         /\ log'[Len(log) + 1] = m
         /\ Offsets' = Offsets \cup {Len(log) + 1}
         /\ \A o \in Offsets : o \in Offsets' /\ log'[o] = log[o]
<1>1. Len(log) \in Nat
  BY LenProperties
<1>2. /\ log' \in Seq(Message) /\ Len(log') = Len(log) + 1
      /\ log'[Len(log) + 1] = m
      /\ \A o \in 1..Len(log) : log'[o] = log[o]
  BY AppendProperties
<1>3. Offsets' = Offsets \cup {Len(log) + 1}
  BY <1>1, <1>2 DEF Offsets
<1>4. QED
  BY <1>1, <1>2, <1>3 DEF Offsets

\* The message a worker has in hand is one of the partition.
LEMMA MessageInHand ==
  ASSUME TypeOK, NEW w \in Workers, at[w] \in Offsets
  PROVE  Msg(w) \in Message /\ TaskOf(w) \in Tasks
<1>1. Msg(w) \in Message
  BY ElementOfSeq DEF TypeOK, Offsets, Msg
<1>2. QED
  BY <1>1 DEF TaskOf, Message

\* What a worker was entitled to, it stays entitled to.
LEMMA EntitledKept ==
  ASSUME TypeOK, Grows, NEW w \in Workers, NEW s, at'[w] = at[w], Entitled(w, s)
  PROVE  Entitled(w, s)'
<1>1. CASE ~InHand(s)
  BY <1>1 DEF InHand, Entitled
<1>2. CASE InHand(s)
  <2>1. at[w] \in Offsets /\ at'[w] \in Offsets'
    BY <1>2 DEF Entitled, Grows
  <2>2. Msg(w)' = Msg(w) /\ TaskOf(w)' = TaskOf(w) /\ TaskOf(w) \in Tasks
    BY <2>1, MessageInHand DEF Grows, Msg, TaskOf
  <2>3. s = "markFailed" => RetryQueued(TaskOf(w), Msg(w).attempt + 1)'
    BY <2>2 DEF Entitled, RetryQueued, Grows
  <2>4. QED
    BY <2>1, <2>2, <2>3 DEF Entitled, Grows
<1>3. QED
  BY <1>1, <1>2

\* Worker w moves to a step it is entitled to; the others stay where they are.
LEMMA MoveKeeps ==
  ASSUME TypeOK, StepAnnounced, Grows, NEW w \in Workers, NEW s \in Steps,
         pc' = [pc EXCEPT ![w] = s],
         \A v \in Workers \ {w} : at'[v] = at[v],
         Entitled(w, s)'
  PROVE  StepAnnounced'
<1> SUFFICES ASSUME NEW v \in Workers PROVE Entitled(v, pc[v])'
  BY DEF StepAnnounced
<1>1. CASE v = w
  <2>1. pc'[v] = s
    BY <1>1 DEF TypeOK
  <2>2. QED
    BY <1>1, <2>1 DEF Entitled
<1>2. CASE v # w
  <2>1. pc'[v] = pc[v] /\ at'[v] = at[v]
    BY <1>2 DEF TypeOK
  <2>2. \A x : x = pc[v] => Entitled(v, x)'
    BY <2>1, EntitledKept DEF StepAnnounced
  <2>3. QED
    BY <2>1, <2>2 DEF Entitled
<1>3. QED
  BY <1>1, <1>2

LEMMA StayKeeps ==
  ASSUME TypeOK, StepAnnounced, Grows, at' = at, pc' = pc
  PROVE  StepAnnounced'
<1> SUFFICES ASSUME NEW v \in Workers PROVE Entitled(v, pc[v])'
  BY DEF StepAnnounced
<1>1. \A x : x = pc[v] => Entitled(v, x)'
  BY EntitledKept DEF StepAnnounced
<1>2. QED
  BY <1>1 DEF Entitled

\* What was announced stays announced.
LEMMA EndKept ==
  ASSUME EndWasAnnounced, Grows, execs' = execs
  PROVE  EndWasAnnounced'
  BY DEF EndWasAnnounced, Grows

\* A message appended to the partition continues its chain.
LEMMA FollowKept ==
  ASSUME RetriesFollowAttempts, Len(log) \in Nat,
         Offsets' = Offsets \cup {Len(log) + 1}, Len(log) + 1 \notin Offsets,
         \A o \in Offsets : log'[o] = log[o],
         log'[Len(log) + 1].attempt < MaxAttempts,
         log'[Len(log) + 1].attempt > 0 =>
           \E p \in Offsets :
             /\ log[p].task = log'[Len(log) + 1].task
             /\ log[p].attempt = log'[Len(log) + 1].attempt - 1
  PROVE  RetriesFollowAttempts'
<1> DEFINE last == Len(log) + 1
<1> SUFFICES ASSUME NEW o \in Offsets'
             PROVE  /\ log'[o].attempt < MaxAttempts
                    /\ log'[o].attempt > 0 =>
                         \E p \in 1..(o - 1) :
                           /\ log'[p].task = log'[o].task
                           /\ log'[p].attempt = log'[o].attempt - 1
  BY DEF RetriesFollowAttempts
<1>1. CASE o \in Offsets
  <2>1. \A p \in 1..(o - 1) : p \in Offsets
    BY <1>1 DEF Offsets
  <2>2. QED
    BY <1>1, <2>1 DEF RetriesFollowAttempts
<1>2. CASE o = last
  <2>1. \A p \in Offsets : p \in 1..(o - 1)
    BY <1>2 DEF Offsets
  <2>2. QED
    BY <1>2, <2>1
<1>3. QED
  BY <1>1, <1>2

\* A step that touches neither the log, the outputs nor the table: nobody
\* moves, or w moves to a step it was already entitled to.
LEMMA QuietStep ==
  ASSUME Inv, TypeOK', UNCHANGED <<log, execs, at, outputs>>,
         \/ pc' = pc
         \/ \E w \in Workers, s \in Steps :
              pc' = [pc EXCEPT ![w] = s] /\ Entitled(w, s)
  PROVE  Inv'
<1>1. Grows
  BY DEF Grows, Offsets, outputs
<1>2. StepAnnounced'
  <2>1. ASSUME NEW w \in Workers, NEW s \in Steps,
               pc' = [pc EXCEPT ![w] = s], Entitled(w, s)
        PROVE  StepAnnounced'
    BY <1>1, <2>1, EntitledKept, MoveKeeps DEF Inv
  <2>2. QED
    BY <1>1, <2>1, StayKeeps DEF Inv
<1>3. EndWasAnnounced' /\ RetriesFollowAttempts'
  BY DEF Inv, EndWasAnnounced, RetriesFollowAttempts, Offsets, outputs
<1>4. QED
  BY <1>2, <1>3 DEF Inv

-----------------------------------------------------------------------------
(* The topic and the consumer group.                                       *)

LEMMA DeliverInv == ASSUME Inv, NEW t \in Tasks, Deliver(t) PROVE Inv'
<1> DEFINE m == [task |-> t, attempt |-> 0, dueAt |-> 0]
<1>1. m \in Message /\ log' = Append(log, m)
  BY JobWorkerAssumption DEF Deliver, Message
<1>2. /\ log' \in Seq(Message) /\ Len(log) \in Nat /\ Len(log') = Len(log) + 1
      /\ log'[Len(log) + 1] = m
      /\ Offsets' = Offsets \cup {Len(log) + 1}
      /\ \A o \in Offsets : o \in Offsets' /\ log'[o] = log[o]
  BY <1>1, AppendGrows DEF Inv, TypeOK
<1>3. UNCHANGED <<now, faults, committed, owner, position, execs, claims, pc, at, claimOf,
                  completed, dlqItems, dlqEvents>>
  BY DEF Deliver, table, local, outputs
<1>4. TypeOK'
  <2>1. \A n \in 0..Len(log) : n \in 0..Len(log')
    BY <1>2
  <2>2. QED
    BY <1>2, <1>3, <2>1 DEF Inv, TypeOK
<1>5. Grows
  BY <1>2, <1>3 DEF Grows
<1>6. StepAnnounced'
  BY <1>3, <1>5, StayKeeps DEF Inv
<1>7. EndWasAnnounced'
  BY <1>3, <1>5, EndKept DEF Inv
<1>8. RetriesFollowAttempts'
  <2>1. Len(log) + 1 \notin Offsets /\ m.attempt = 0 /\ 0 < MaxAttempts
    BY <1>2, JobWorkerAssumption DEF Offsets
  <2>2. QED
    BY <1>2, <2>1, FollowKept DEF Inv
<1>9. QED
  BY <1>4, <1>6, <1>7, <1>8 DEF Inv

LEMMA AssignInv == ASSUME Inv, NEW w \in Members, Assign(w) PROVE Inv'
<1>1. UNCHANGED <<now, faults, log, committed, execs, claims, pc, at, claimOf, outputs>>
  BY DEF Assign, table, local
<1>2. owner' = {w} /\ position' = committed
  BY DEF Assign
<1>3. TypeOK'
  BY <1>1, <1>2 DEF Inv, TypeOK, outputs
<1>4. QED
  BY <1>1, <1>3, QuietStep

LEMMA TickInv == ASSUME Inv, Tick PROVE Inv'
<1>1. UNCHANGED <<faults, log, committed, owner, position, execs, claims, pc, at,
                  claimOf, outputs>>
  BY DEF Tick, topic, table, local
<1>2. now' \in Nat
  BY DEF Inv, TypeOK, Tick
<1>3. TypeOK'
  BY <1>1, <1>2 DEF Inv, TypeOK, outputs
<1>4. QED
  BY <1>1, <1>3, QuietStep

ClaimTypes ==
  /\ execs \in [Tasks -> Exec]
  /\ claims \in Nat
  /\ claimOf \in [Workers -> 0..claims]

LEMMA OwnerLost ==
  ASSUME TypeOK, NEW w \in Workers, owner' = owner \ {w}
  PROVE  owner' \in {{}} \cup {{v} : v \in Members}
<1>1. CASE owner = {}
  BY <1>1
<1>2. ASSUME NEW v \in Members, owner = {v}
      PROVE  owner' = {} \/ owner' = {v}
  BY <1>2
<1>3. QED
  BY <1>1, <1>2 DEF TypeOK

\* Steps at which nothing is asked of a worker.
LEMMA Unentitled ==
  ASSUME NEW w \in Workers, NEW s \in {"poll", "stopped"}
  PROVE  s \in Steps /\ Entitled(w, s)
  BY DEF Steps, Entitled, InHand

LEMMA FetchInv == ASSUME Inv, NEW w \in Workers, Fetch(w) PROVE Inv'
<1>1. UNCHANGED <<now, faults, log, committed, owner, execs, claims, claimOf, outputs>>
  BY DEF Fetch, table
<1>2. /\ position' = position + 1 /\ position + 1 \in Offsets
      /\ at' = [at EXCEPT ![w] = position + 1]
      /\ pc' = [pc EXCEPT ![w] = "received"]
  <2>1. Len(log) \in Nat
    BY LenProperties DEF Inv, TypeOK
  <2>2. QED
    BY <2>1 DEF Fetch, Goto, Inv, TypeOK, Offsets
<1>3. position + 1 \in 0..Len(log)
  BY <1>2 DEF Offsets
<1>4. TypeOK'
  BY <1>1, <1>2, <1>3 DEF Inv, TypeOK, outputs
<1>5. Grows
  BY <1>1 DEF Grows, Offsets, outputs
<1>6. Entitled(w, "received")'
  <2>1. at'[w] \in Offsets'
    BY <1>1, <1>2 DEF Inv, TypeOK, Offsets
  <2>2. QED
    BY <2>1 DEF Entitled
<1>7. "received" \in Steps /\ \A v \in Workers \ {w} : at'[v] = at[v]
  BY <1>2 DEF Steps, Inv, TypeOK
<1>8. StepAnnounced'
  BY <1>2, <1>5, <1>6, <1>7, MoveKeeps DEF Inv
<1>9. EndWasAnnounced' /\ RetriesFollowAttempts'
  BY <1>1 DEF Inv, EndWasAnnounced, RetriesFollowAttempts, Offsets, outputs
<1>10. QED
  BY <1>4, <1>8, <1>9 DEF Inv

\* A worker polls again, or stops, and perhaps gives up the partition.
LEMMA LeaveInv ==
  ASSUME Inv, NEW w \in Workers, NEW s \in {"poll", "stopped"},
         pc' = [pc EXCEPT ![w] = s],
         committed' \in 0..Len(log),
         owner' \in {{}} \cup {{v} : v \in Members},
         UNCHANGED <<now, faults, log, position, table, local, outputs>>
  PROVE  Inv'
<1>1. TypeOK'
  BY DEF Inv, TypeOK, table, local, outputs
<1>2. s \in Steps /\ Entitled(w, s)
  BY Unentitled
<1>3. QED
  BY <1>1, <1>2, QuietStep DEF table, local

LEMMA CommitInv == ASSUME Inv, NEW w \in Workers, Commit(w) PROVE Inv'
<1>1. UNCHANGED <<now, faults, log, position, table, local, outputs>>
  BY DEF Commit
<1>2. committed \in 0..Len(log) /\ at[w] \in 0..Len(log)
  BY DEF Inv, TypeOK
<1>3. CASE committed' = at[w] /\ Goto(w, "poll") /\ UNCHANGED owner
  BY <1>1, <1>2, <1>3, LeaveInv DEF Goto, Inv, TypeOK
<1>4. CASE Stop(w) /\ UNCHANGED committed
  BY <1>1, <1>2, <1>4, LeaveInv, OwnerLost DEF Stop, Goto, Inv
<1>5. QED
  BY <1>3, <1>4 DEF Commit

LEMMA CrashInv == ASSUME Inv, NEW w \in Workers, Crash(w) PROVE Inv'
<1>1. /\ UNCHANGED <<now, faults, log, position, table, local, outputs>>
      /\ UNCHANGED committed /\ committed \in 0..Len(log)
  BY DEF Crash, Inv, TypeOK
<1>2. QED
  BY <1>1, LeaveInv, OwnerLost DEF Crash, Stop, Goto, Inv

LEMMA RestartInv == ASSUME Inv, NEW w \in Workers, Restart(w) PROVE Inv'
<1>1. /\ UNCHANGED <<now, faults, log, position, table, local, outputs>>
      /\ UNCHANGED <<committed, owner>> /\ committed \in 0..Len(log)
      /\ owner \in {{}} \cup {{v} : v \in Members}
  BY DEF Restart, topic, Inv, TypeOK
<1>2. QED
  BY <1>1, LeaveInv DEF Restart, Goto

-----------------------------------------------------------------------------
(* HandleMessage.                                                          *)

\* What is known of a worker that handles a message.
LEMMA Working ==
  ASSUME Inv, NEW w \in Workers, InHand(pc[w])
  PROVE  /\ at[w] \in Offsets
         /\ Msg(w) \in Message /\ TaskOf(w) \in Tasks
         /\ Entitled(w, pc[w])
         /\ \A s \in {"poll", "received", "commit", "collect", "completed",
                     "failed", "rejected", "dlqItem"} :
              s \in Steps /\ Entitled(w, s)
<1>1. Entitled(w, pc[w])
  BY DEF Inv, StepAnnounced
<1>2. at[w] \in Offsets
  BY <1>1 DEF Entitled
<1>3. Msg(w) \in Message /\ TaskOf(w) \in Tasks
  BY <1>2, MessageInHand DEF Inv
<1>4. \A s \in {"poll", "received", "commit", "collect", "completed",
                "failed", "rejected", "dlqItem"} : s \in Steps /\ Entitled(w, s)
  BY <1>2 DEF Entitled, Steps, Handling
<1>5. QED
  BY <1>1, <1>2, <1>3, <1>4

\* A step that only moves its worker.
LEMMA SilentStep ==
  ASSUME Inv, NEW w \in Workers, NEW s \in Steps, Goto(w, s), Entitled(w, s),
         UNCHANGED <<now, faults, topic, table, local, outputs>>
  PROVE  Inv'
<1>1. TypeOK'
  BY DEF Inv, TypeOK, Goto, Steps, topic, table, local, outputs
<1>2. QED
  BY <1>1, QuietStep DEF Goto, topic, table, local

LEMMA RejectInvalidInv ==
  ASSUME Inv, NEW w \in Workers, RejectInvalid(w) PROVE Inv'
<1>1. InHand(pc[w])
  BY DEF RejectInvalid, InHand
<1>2. QED
  BY <1>1, Working, SilentStep DEF RejectInvalid

LEMMA CollectInv == ASSUME Inv, NEW w \in Workers, Collect(w) PROVE Inv'
<1>1. InHand(pc[w])
  BY DEF Collect, InHand
<1>2. PICK s \in {"completed", "failed", "rejected"} : Goto(w, s)
  BY DEF Collect
<1>3. s \in Steps /\ Entitled(w, s)
  BY <1>1, Working
<1>4. QED
  BY <1>2, <1>3, SilentStep DEF Collect

LEMMA WriteFailedInv == ASSUME Inv, NEW w \in Workers, WriteFailed(w) PROVE Inv'
<1>1. InHand(pc[w])
  BY DEF WriteFailed, InHand
<1>2. Entitled(w, "dlqItem") /\ Entitled(w, "poll")
  BY <1>1, Working
<1>3. ~BudgetSpent(w) => Entitled(w, "retry")
  <2>1. Msg(w).attempt \in Nat /\ MaxAttempts \in Nat
    BY <1>1, Working, JobWorkerAssumption DEF Message
  <2>2. at[w] \in Offsets
    BY <1>1, Working
  <2>3. QED
    BY <2>1, <2>2 DEF BudgetSpent, Entitled
<1>4. PICK s \in {"dlqItem", "retry", "poll"} : Goto(w, s) /\ Entitled(w, s)
  BY <1>2, <1>3 DEF WriteFailed, Skip
<1>5. s \in Steps
  BY DEF Steps, Handling
<1>6. QED
  BY <1>4, <1>5, SilentStep DEF WriteFailed

\* The row of a claim.
LEMMA ClaimInv == ASSUME Inv, NEW w \in Workers, Claim(w) PROVE Inv'
<1>1. InHand(pc[w])
  BY DEF Claim, InHand
<1>2. UNCHANGED <<now, faults, topic, at, outputs>>
  BY DEF Claim
<1>3. PICK s \in {"collect", "commit", "poll"} : Goto(w, s)
  BY DEF Claim, Skip
<1>4. s \in Steps /\ Entitled(w, s)
  BY <1>1, Working
<1>5. CASE ClaimRow(w)
  <2> DEFINE row == [status |-> "processing", attempt |-> Msg(w).attempt,
                     claimId |-> claims + 1, lockedUntil |-> now + ClaimTTL]
  <2>1. /\ execs' = [execs EXCEPT ![TaskOf(w)] = row]
        /\ claims' = claims + 1
        /\ claimOf' = [claimOf EXCEPT ![w] = claims + 1]
    BY <1>5 DEF ClaimRow
  <2>2. row \in Exec
    <3>1. Msg(w).attempt \in 0..(MaxAttempts - 1)
      BY <1>1, Working DEF Message
    <3>2. claims + 1 \in Nat /\ now + ClaimTTL \in Nat
      BY JobWorkerAssumption DEF Inv, TypeOK
    <3>3. QED
      BY <3>1, <3>2 DEF Exec, Statuses
  <2>3. row.status = "processing"
    OBVIOUS
  <2> HIDE DEF row
  <2>4. ClaimTypes'
    <3>1. execs' \in [Tasks -> Exec]
      BY <2>1, <2>2 DEF Inv, TypeOK
    <3>2. /\ claims \in Nat /\ claims' \in Nat
          /\ claims + 1 \in 0..claims' /\ \A n \in 0..claims : n \in 0..claims'
      BY <2>1 DEF Inv, TypeOK
    <3>3. claimOf' \in [Workers -> 0..claims']
      BY <2>1, <3>2 DEF Inv, TypeOK
    <3>4. QED
      BY <3>1, <3>2, <3>3 DEF ClaimTypes
  <2>5. TypeOK'
    BY <1>2, <1>3, <1>4, <2>4 DEF Inv, TypeOK, ClaimTypes, Goto, topic, outputs, Steps
  <2>6. Grows
    BY <1>2 DEF Grows, Offsets, topic, outputs
  <2>7. StepAnnounced'
    <3>1. TypeOK /\ StepAnnounced /\ at' = at
      BY <1>2 DEF Inv
    <3>2. Entitled(w, s)'
      BY <1>4, <2>6, <3>1, EntitledKept
    <3>3. QED
      BY <1>3, <1>4, <2>6, <3>1, <3>2, MoveKeeps DEF Goto
  <2>8. EndWasAnnounced'
    <3>1. ASSUME NEW t \in Tasks
          PROVE  execs'[t] = execs[t] \/ execs'[t].status = "processing"
      BY <1>1, <2>1, <2>3, Working DEF Inv, TypeOK
    <3>2. QED
      BY <1>2, <3>1 DEF Inv, EndWasAnnounced, Offsets, topic, outputs
  <2>9. RetriesFollowAttempts'
    BY <1>2 DEF Inv, RetriesFollowAttempts, Offsets, topic
  <2>10. QED
    BY <2>5, <2>7, <2>8, <2>9 DEF Inv
<1>6. CASE UNCHANGED <<table, claimOf>>
  BY <1>2, <1>3, <1>4, <1>6, SilentStep DEF local
<1>7. QED
  BY <1>5, <1>6 DEF Claim

\* A worker adds something to the outputs and goes on, to a step that this
\* entitles it to.
LEMMA OutputStep ==
  ASSUME Inv, TypeOK', NEW w \in Workers, NEW s \in Steps, Goto(w, s), Grows,
         Entitled(w, s)', UNCHANGED <<log, execs, at>>
  PROVE  Inv'
<1>1. StepAnnounced'
  BY MoveKeeps DEF Inv, Goto
<1>2. EndWasAnnounced'
  BY EndKept DEF Inv
<1>3. RetriesFollowAttempts'
  BY DEF Inv, RetriesFollowAttempts, Offsets
<1>4. QED
  BY <1>1, <1>2, <1>3 DEF Inv

LEMMA WriteCompletedInv ==
  ASSUME Inv, NEW w \in Workers, WriteCompleted(w) PROVE Inv'
<1> DEFINE t == TaskOf(w)
<1>1. InHand(pc[w])
  BY DEF WriteCompleted, InHand
<1>2. t \in Tasks /\ at[w] \in Offsets /\ Entitled(w, "poll")
  BY <1>1, Working
<1>3. UNCHANGED <<now, faults, log, committed, owner, position, execs, claims, at, claimOf,
                  dlqItems, dlqEvents>>
  BY DEF WriteCompleted, topic, table, local
<1>4. CASE /\ completed' = [completed EXCEPT ![t] = @ + 1]
           /\ Goto(w, "markSucceeded") \/ Goto(w, "poll")
  <2>1. /\ completed' \in [Tasks -> Nat] /\ completed'[t] > 0
        /\ \A u \in Tasks : completed[u] > 0 => completed'[u] > 0
    BY <1>2, <1>4 DEF Inv, TypeOK
  <2>2. PICK s \in {"markSucceeded", "poll"} : Goto(w, s)
    BY <1>4
  <2>3. s \in Steps
    BY DEF Steps, Handling
  <2>4. TypeOK'
    BY <1>3, <2>1, <2>2, <2>3 DEF Inv, TypeOK, Goto, Steps
  <2>5. Grows
    BY <1>3, <2>1 DEF Grows, Offsets
  <2>6. Entitled(w, s)'
    BY <1>2, <1>3, <2>1 DEF Entitled, Offsets, TaskOf, Msg
  <2>7. QED
    BY <1>3, <2>2, <2>3, <2>4, <2>5, <2>6, OutputStep
<1>5. CASE UNCHANGED completed /\ Goto(w, "poll")
  BY <1>2, <1>3, <1>5, SilentStep DEF topic, table, local, outputs, Steps
<1>6. QED
  BY <1>4, <1>5 DEF WriteCompleted, Outcome, Skip

LEMMA CreateDLQItemInv ==
  ASSUME Inv, NEW w \in Workers, CreateDLQItem(w) PROVE Inv'
<1> DEFINE t == TaskOf(w)
<1>1. InHand(pc[w])
  BY DEF CreateDLQItem, InHand
<1>2. t \in Tasks /\ at[w] \in Offsets /\ Entitled(w, "poll")
  BY <1>1, Working
<1>3. UNCHANGED <<now, faults, log, committed, owner, position, execs, claims, at, claimOf,
                  completed, dlqEvents>>
  BY DEF CreateDLQItem, topic, table, local
<1>4. CASE /\ dlqItems' = [dlqItems EXCEPT ![t] = @ + 1]
           /\ Goto(w, "dlqEvent") \/ Goto(w, "poll")
  <2>1. /\ dlqItems' \in [Tasks -> Nat] /\ dlqItems'[t] > 0
        /\ \A u \in Tasks : dlqItems[u] > 0 => dlqItems'[u] > 0
    BY <1>2, <1>4 DEF Inv, TypeOK
  <2>2. PICK s \in {"dlqEvent", "poll"} : Goto(w, s)
    BY <1>4
  <2>3. s \in Steps
    BY DEF Steps, Handling
  <2>4. TypeOK'
    BY <1>3, <2>1, <2>2, <2>3 DEF Inv, TypeOK, Goto, Steps
  <2>5. Grows
    BY <1>3, <2>1 DEF Grows, Offsets
  <2>6. Entitled(w, s)'
    BY <1>2, <1>3, <2>1 DEF Entitled, Offsets, TaskOf, Msg
  <2>7. QED
    BY <1>3, <2>2, <2>3, <2>4, <2>5, <2>6, OutputStep
<1>5. CASE UNCHANGED dlqItems /\ Goto(w, "poll")
  BY <1>2, <1>3, <1>5, SilentStep DEF topic, table, local, outputs, Steps
<1>6. QED
  BY <1>4, <1>5 DEF CreateDLQItem, Skip

LEMMA WriteDLQInv == ASSUME Inv, NEW w \in Workers, WriteDLQ(w) PROVE Inv'
<1> DEFINE t == TaskOf(w)
<1>1. InHand(pc[w]) /\ pc[w] = "dlqEvent"
  BY DEF WriteDLQ, InHand
<1>2. /\ t \in Tasks /\ at[w] \in Offsets /\ Entitled(w, "poll")
      /\ dlqItems[t] > 0
  <2>1. Entitled(w, pc[w])
    BY <1>1, Working
  <2>2. QED
    BY <1>1, <2>1, Working DEF Entitled
<1>3. UNCHANGED <<now, faults, log, committed, owner, position, execs, claims, at, claimOf,
                  completed, dlqItems>>
  BY DEF WriteDLQ, topic, table, local
<1>4. CASE /\ dlqEvents' = [dlqEvents EXCEPT ![t] = @ + 1]
           /\ Goto(w, "markDLQ") \/ Goto(w, "poll")
  <2>1. /\ dlqEvents' \in [Tasks -> Nat] /\ dlqEvents'[t] > 0
        /\ \A u \in Tasks : dlqEvents[u] > 0 => dlqEvents'[u] > 0
    BY <1>2, <1>4 DEF Inv, TypeOK
  <2>2. PICK s \in {"markDLQ", "poll"} : Goto(w, s)
    BY <1>4
  <2>3. s \in Steps
    BY DEF Steps, Handling
  <2>4. TypeOK'
    BY <1>3, <2>1, <2>2, <2>3 DEF Inv, TypeOK, Goto, Steps
  <2>5. Grows
    BY <1>3, <2>1 DEF Grows, Offsets
  <2>6. Entitled(w, s)'
    BY <1>2, <1>3, <2>1 DEF Entitled, Offsets, TaskOf, Msg
  <2>7. QED
    BY <1>3, <2>2, <2>3, <2>4, <2>5, <2>6, OutputStep
<1>5. CASE UNCHANGED dlqEvents /\ Goto(w, "poll")
  BY <1>2, <1>3, <1>5, SilentStep DEF topic, table, local, outputs, Steps
<1>6. QED
  BY <1>4, <1>5 DEF WriteDLQ, Outcome, Skip

LEMMA WriteRetryInv == ASSUME Inv, NEW w \in Workers, WriteRetry(w) PROVE Inv'
<1> DEFINE t == TaskOf(w)
           next == Msg(w).attempt + 1
           last == Len(log) + 1
           m == [task |-> t, attempt |-> next,
                 dueAt |-> now + RetryBackoff(BackoffBase, next)]
<1>1. InHand(pc[w]) /\ pc[w] = "retry"
  BY DEF WriteRetry, InHand
<1>2. /\ t \in Tasks /\ at[w] \in Offsets /\ Entitled(w, "poll")
      /\ Msg(w).attempt \in Nat /\ next < MaxAttempts
  <2>1. Entitled(w, pc[w])
    BY <1>1, Working
  <2>2. Msg(w).attempt \in Nat
    BY <1>1, Working DEF Message
  <2>3. QED
    BY <1>1, <2>1, <2>2, Working DEF Entitled
<1>3. UNCHANGED <<now, faults, committed, owner, position, execs, claims, at, claimOf,
                  completed, dlqItems, dlqEvents>>
  BY DEF WriteRetry, table, local, outputs
<1>4. CASE log' = Append(log, m) /\ (Goto(w, "markFailed") \/ Goto(w, "poll"))
  <2>1. m \in Message
    <3>1. next \in 1..MaxAttempts /\ next \in 0..(MaxAttempts - 1)
      BY <1>2, JobWorkerAssumption
    <3>2. now + RetryBackoff(BackoffBase, next) \in Nat
      BY <3>1, JobWorkerAssumption DEF Inv, TypeOK
    <3>3. QED
      BY <1>2, <3>1, <3>2 DEF Message
  <2>2. m.task = t /\ m.attempt = next
    OBVIOUS
  <2> HIDE DEF m
  <2>3. /\ log' \in Seq(Message) /\ Len(log) \in Nat /\ Len(log') = last
        /\ log'[last] = m
        /\ Offsets' = Offsets \cup {last}
        /\ \A o \in Offsets : o \in Offsets' /\ log'[o] = log[o]
    BY <1>4, <2>1, AppendGrows DEF Inv, TypeOK
  <2>4. PICK s \in {"markFailed", "poll"} : Goto(w, s)
    BY <1>4
  <2>5. s \in Steps
    BY DEF Steps, Handling
  <2>6. TypeOK'
    <3>1. \A n \in 0..Len(log) : n \in 0..Len(log')
      BY <2>3
    <3>2. QED
      BY <1>3, <2>3, <2>4, <2>5, <3>1 DEF Inv, TypeOK, Goto, Steps
  <2>7. Grows
    BY <1>3, <2>3 DEF Grows
  <2>8. Entitled(w, s)'
    <3>1. /\ at'[w] \in Offsets'
          /\ Msg(w)' = Msg(w) /\ TaskOf(w)' = t
      BY <1>2, <1>3, <2>3 DEF Msg, TaskOf
    <3>2. RetryQueued(TaskOf(w), Msg(w).attempt + 1)'
      BY <2>2, <2>3, <3>1 DEF RetryQueued
    <3>3. QED
      BY <3>1, <3>2 DEF Entitled
  <2>9. StepAnnounced'
    <3>1. \A v \in Workers \ {w} : at'[v] = at[v]
      BY <1>3
    <3>2. QED
      BY <2>4, <2>5, <2>7, <2>8, <3>1, MoveKeeps DEF Inv, Goto
  <2>10. EndWasAnnounced'
    BY <1>3, <2>7, EndKept DEF Inv
  <2>11. RetriesFollowAttempts'
    <3>1. last \notin Offsets
      BY <2>3 DEF Offsets
    <3>2. log[at[w]].task = m.task /\ log[at[w]].attempt = m.attempt - 1
      BY <1>2, <2>2 DEF Msg, TaskOf
    <3>3. QED
      BY <1>2, <2>2, <2>3, <3>1, <3>2, FollowKept DEF Inv
  <2>12. QED
    BY <2>6, <2>9, <2>10, <2>11 DEF Inv
<1>5. CASE UNCHANGED log /\ Goto(w, "poll")
  BY <1>2, <1>3, <1>5, SilentStep DEF topic, table, local, outputs, Steps
<1>6. QED
  BY <1>4, <1>5 DEF WriteRetry, Outcome, Skip

\* A worker marks its execution with an end it has announced.
LEMMA MarkInv ==
  ASSUME Inv, NEW w \in Workers, InHand(pc[w]),
         NEW status \in {"succeeded", "failed", "dlq"},
         NEW attempt \in 0..(MaxAttempts - 1),
         UpdateClaimed(w, status, attempt),
         status = "succeeded" => completed[TaskOf(w)] > 0,
         status = "dlq" => dlqItems[TaskOf(w)] > 0 /\ dlqEvents[TaskOf(w)] > 0,
         status = "failed" => RetryQueued(TaskOf(w), attempt + 1)
  PROVE  Inv'
<1> DEFINE t == TaskOf(w)
           row == [status |-> status, attempt |-> attempt,
                   claimId |-> 0, lockedUntil |-> 0]
<1>1. PICK s \in {"commit", "poll"} : Goto(w, s)
  BY DEF UpdateClaimed, Skip
<1>2. s \in Steps /\ Entitled(w, s) /\ t \in Tasks
  BY Working
<1>3. UNCHANGED <<now, faults, topic, claims, local, outputs>>
  BY DEF UpdateClaimed
<1>4. CASE execs' = [execs EXCEPT ![t] = row]
  <2>1. row \in Exec
    BY DEF Exec, Statuses, Terminal
  <2>2. row.status = status /\ row.attempt = attempt
    OBVIOUS
  <2> HIDE DEF row
  <2>3. TypeOK'
    BY <1>1, <1>2, <1>3, <1>4, <2>1
       DEF Inv, TypeOK, Goto, Steps, topic, local, outputs
  <2>4. Grows
    BY <1>3 DEF Grows, Offsets, topic, outputs
  <2>5. StepAnnounced'
    <3>1. TypeOK /\ StepAnnounced /\ at' = at
      BY <1>3 DEF Inv, local
    <3>2. Entitled(w, s)'
      BY <1>2, <2>4, <3>1, EntitledKept
    <3>3. QED
      BY <1>1, <1>2, <2>4, <3>1, <3>2, MoveKeeps DEF Goto
  <2>6. EndWasAnnounced'
    <3>1. execs'[t] = row /\ \A u \in Tasks \ {t} : execs'[u] = execs[u]
      BY <1>2, <1>4 DEF Inv, TypeOK
    <3>2. QED
      BY <1>3, <2>2, <3>1
         DEF Inv, EndWasAnnounced, RetryQueued, Offsets, topic, outputs
  <2>7. RetriesFollowAttempts'
    BY <1>3 DEF Inv, RetriesFollowAttempts, Offsets, topic
  <2>8. QED
    BY <2>3, <2>5, <2>6, <2>7 DEF Inv
<1>5. CASE UNCHANGED execs
  BY <1>1, <1>2, <1>3, <1>5, SilentStep DEF table
<1>6. QED
  BY <1>4, <1>5 DEF UpdateClaimed

LEMMA MarksInv ==
  ASSUME Inv, NEW w \in Workers, MarkSucceeded(w) \/ MarkDLQ(w) \/ MarkFailed(w)
  PROVE  Inv'
<1>1. InHand(pc[w])
  BY DEF MarkSucceeded, MarkDLQ, MarkFailed, InHand
<1>2. /\ Entitled(w, pc[w])
      /\ execs[TaskOf(w)].attempt \in 0..(MaxAttempts - 1)
      /\ Msg(w).attempt \in 0..(MaxAttempts - 1)
  BY <1>1, Working DEF Inv, TypeOK, Exec, Message
<1>3. CASE MarkSucceeded(w)
  BY <1>1, <1>2, <1>3, MarkInv DEF MarkSucceeded, Entitled
<1>4. CASE MarkDLQ(w)
  BY <1>1, <1>2, <1>4, MarkInv DEF MarkDLQ, Entitled
<1>5. CASE MarkFailed(w)
  BY <1>1, <1>2, <1>5, MarkInv DEF MarkFailed, Entitled
<1>6. QED
  BY <1>3, <1>4, <1>5

-----------------------------------------------------------------------------

LEMMA NextInv == Inv /\ [Next]_vars => Inv'
<1> SUFFICES ASSUME Inv, [Next]_vars PROVE Inv'
  OBVIOUS
<1>1. ASSUME NEW t \in Tasks, Deliver(t) PROVE Inv'
  BY <1>1, DeliverInv
<1>2. ASSUME NEW w \in Workers, Run(w) PROVE Inv'
  BY <1>2, FetchInv, CommitInv, RejectInvalidInv, ClaimInv, CollectInv,
     WriteCompletedInv, WriteFailedInv, WriteRetryInv, CreateDLQItemInv,
     WriteDLQInv, MarksInv DEF Run, HandleMessage
<1>3. ASSUME NEW w \in Workers, Crash(w) \/ Restart(w) PROVE Inv'
  BY <1>3, CrashInv, RestartInv
<1>4. CASE Tick
  BY <1>4, TickInv
<1>5. CASE UNCHANGED vars
  <2>1. TypeOK'
    BY <1>5 DEF Inv, TypeOK, vars, topic, table, local, outputs
  <2>2. QED
    BY <1>5, <2>1, QuietStep DEF vars, topic, table, local
<1>6. QED
  BY <1>1, <1>2, <1>3, <1>4, <1>5, AssignInv DEF Next

\* The invariant holds in every state of every instance.
THEOREM Invariance == Spec => []Inv
  BY InitInv, NextInv, PTL DEF Spec

\* Types: in particular no message and no execution carries an attempt the
\* budget does not allow (worker.go:271).
THEOREM TypeCorrect == Spec => []TypeOK
<1>1. Inv => TypeOK
  BY DEF Inv
<1>2. QED
  BY <1>1, Invariance, PTL

\* What the execution table says of a task was announced first: HandleMessage
\* marks only after its writes, whatever fails or dies in between.
THEOREM EndsAreAnnounced == Spec => []EndWasAnnounced
<1>1. Inv => EndWasAnnounced
  BY DEF Inv
<1>2. QED
  BY <1>1, Invariance, PTL

\* Retries form chains within the budget, in the order of the partition
\* (handleFailed).
THEOREM RetriesAreChained == Spec => []RetriesFollowAttempts
<1>1. Inv => RetriesFollowAttempts
  BY DEF Inv
<1>2. QED
  BY <1>1, Invariance, PTL

-----------------------------------------------------------------------------
(* What changes an execution: a claim or a mark.                           *)

Claims(w, t) ==
  /\ TaskOf(w) = t
  /\ ShouldProcess(execs[t], Msg(w))
  /\ execs'[t].status = "processing" /\ execs'[t].attempt = Msg(w).attempt

Marks(w, t) ==
  /\ TaskOf(w) = t
  /\ HoldsClaim(w, t)
  /\ pc[w] \in {"markSucceeded", "markFailed", "markDLQ"}
  /\ pc'[w] # pc[w]

LEMMA ClaimChanges ==
  ASSUME Inv, NEW w \in Workers, Claim(w), NEW t \in Tasks, execs'[t] # execs[t]
  PROVE  Claims(w, t)
<1>1. ShouldProcess(execs[TaskOf(w)], Msg(w)) /\ ClaimRow(w)
  BY DEF Claim, table
<1>2. InHand(pc[w])
  BY DEF Claim, InHand
<1>3. TaskOf(w) = t
  BY <1>1 DEF ClaimRow, Inv, TypeOK
<1>4. execs'[t].status = "processing" /\ execs'[t].attempt = Msg(w).attempt
  BY <1>1, <1>3 DEF ClaimRow, Inv, TypeOK
<1>5. QED
  BY <1>1, <1>3, <1>4 DEF Claims

LEMMA MarkChanges ==
  ASSUME Inv, NEW w \in Workers, NEW status, NEW attempt,
         pc[w] \in {"markSucceeded", "markFailed", "markDLQ"},
         UpdateClaimed(w, status, attempt),
         NEW t \in Tasks, execs'[t] # execs[t]
  PROVE  Marks(w, t)
<1>1. HoldsClaim(w, TaskOf(w))
  BY DEF UpdateClaimed
<1>2. TaskOf(w) = t
  BY DEF UpdateClaimed, Inv, TypeOK
<1>3. pc'[w] \in {"commit", "poll"}
  BY DEF UpdateClaimed, Goto, Skip, Inv, TypeOK
<1>4. QED
  BY <1>1, <1>2, <1>3 DEF Marks

LEMMA ExecChanges ==
  ASSUME Inv, [Next]_vars, NEW t \in Tasks, execs'[t] # execs[t]
  PROVE  \E w \in Workers : Claims(w, t) \/ Marks(w, t)
<1>1. PICK w \in Workers :
        Claim(w) \/ MarkSucceeded(w) \/ MarkDLQ(w) \/ MarkFailed(w)
  <2>1. ASSUME NEW w \in Workers, Run(w)
        PROVE  \/ UNCHANGED execs
               \/ Claim(w) \/ MarkSucceeded(w) \/ MarkDLQ(w) \/ MarkFailed(w)
    BY <2>1 DEF Run, HandleMessage, Fetch, Commit, RejectInvalid, Collect,
       WriteCompleted, WriteFailed, WriteRetry, CreateDLQItem, WriteDLQ, table
  <2>2. ASSUME NEW m \in Members, Assign(m) \/ Crash(m) \/ Restart(m)
        PROVE  UNCHANGED execs
    BY <2>2 DEF Assign, Crash, Restart, table
  <2>3. (\E u \in Tasks : Deliver(u)) \/ Tick \/ UNCHANGED vars => UNCHANGED execs
    BY DEF Deliver, Tick, vars, table
  <2>4. QED
    BY <2>1, <2>2, <2>3 DEF Next, Members
<1>2. CASE Claim(w)
  BY <1>2, ClaimChanges
<1>3. CASE MarkSucceeded(w)
  BY <1>3, MarkChanges DEF MarkSucceeded
<1>4. CASE MarkDLQ(w)
  BY <1>4, MarkChanges DEF MarkDLQ
<1>5. CASE MarkFailed(w)
  BY <1>5, MarkChanges DEF MarkFailed
<1>6. QED
  BY <1>1, <1>2, <1>3, <1>4, <1>5

\* A succeeded or dead-lettered execution never changes again: Claim refuses
\* it (jobExecutionShouldProcess) and a mark needs a processing row.
THEOREM EndsAreFinal == Spec => TerminalIsFinal
<1> DEFINE Step == \A t \in Tasks : execs[t].status \in Terminal => execs'[t] = execs[t]
<1>1. Inv /\ [Next]_vars => [Step]_vars
  <2> SUFFICES ASSUME Inv, [Next]_vars, NEW t \in Tasks,
                      execs[t].status \in Terminal, execs'[t] # execs[t]
               PROVE  FALSE
    OBVIOUS
  <2>1. PICK w \in Workers : Claims(w, t) \/ Marks(w, t)
    BY ExecChanges
  <2>2. QED
    BY <2>1 DEF Claims, Marks, ShouldProcess, HoldsClaim, Terminal
<1>2. QED
  BY <1>1, Invariance, PTL DEF Spec, TerminalIsFinal

\* While a lease runs, its execution changes only by the mark of the worker
\* that holds the claim or by the claim of a newer attempt.
THEOREM LeasesAreRespected == Spec => LeaseRespected
<1> DEFINE Step ==
      \A t \in Tasks :
        /\ execs[t].status = "processing"
        /\ execs[t].lockedUntil > now
        /\ execs'[t] # execs[t]
        => \/ /\ execs'[t].status = "processing"
              /\ execs'[t].attempt > execs[t].attempt
           \/ \E w \in Workers :
                /\ pc[w] \in {"markSucceeded", "markFailed", "markDLQ"}
                /\ pc'[w] # pc[w]
                /\ TaskOf(w) = t
                /\ HoldsClaim(w, t)
<1>1. Inv /\ [Next]_vars => [Step]_vars
  <2> SUFFICES ASSUME Inv, [Next]_vars, NEW t \in Tasks,
                      execs[t].status = "processing", execs[t].lockedUntil > now,
                      execs'[t] # execs[t],
                      NEW w \in Workers, Claims(w, t)
               PROVE  /\ execs'[t].status = "processing"
                      /\ execs'[t].attempt > execs[t].attempt
    BY ExecChanges DEF Marks
  <2>1. execs[t].lockedUntil \in Nat /\ now \in Nat
    BY DEF Inv, TypeOK, Exec
  <2>2. Msg(w).attempt > execs[t].attempt
    BY <2>1 DEF Claims, ShouldProcess
  <2>3. QED
    BY <2>2 DEF Claims
<1>2. QED
  BY <1>1, Invariance, PTL DEF Spec, LeaseRespected

-----------------------------------------------------------------------------
(* Without crashes and failing calls.  A claim is held until its mark, so    *)
(* that a running execution is always in some worker's hands; and a message  *)
(* its task still waits for is never passed over.                            *)

\* Faults that leave every call answered: the partition moves, workers are slow.
Calm == faults \subseteq {"rebalance", "slow"}

Handles(w, t) == pc[w] \in Handling /\ TaskOf(w) = t /\ HoldsClaim(w, t)

\* A claim id is one worker's, and its row has the attempt of that worker's message.
ClaimsAreTrue ==
  /\ \A v, w \in Workers : claimOf[v] = claimOf[w] /\ claimOf[v] # 0 => v = w
  /\ \A t \in Tasks : execs[t].status = "processing" => execs[t].claimId \in 1..claims
  /\ \A w \in Workers : pc[w] \in Handling =>
       /\ TaskOf(w) \notin Malformed
       /\ HoldsClaim(w, TaskOf(w)) => execs[TaskOf(w)].attempt = Msg(w).attempt

RunningIsHandled ==
  \A t \in Tasks : execs[t].status = "processing" => \E w \in Workers : Handles(w, t)

\* Offset o is behind w: its message is decided upon, and what precedes it was before.
BehindWorker(w, o) ==
  \/ pc[w] \in {"commit"} \cup Handling /\ o <= at[w]
  \/ pc[w] = "received" /\ o < at[w]

\* Or behind what the owner of the partition fetches next.
BehindOwner(w, o) == o <= position /\ ~(InHand(pc[w]) /\ at[w] = position)

Passed(o) ==
  \/ o <= committed
  \/ \E w \in Workers : BehindWorker(w, o)
  \/ \E w \in owner \cap Workers : BehindOwner(w, o)

\* The message at o would be claimed.
Awaited(o) ==
  /\ log[o].task \notin Malformed
  /\ \/ execs[log[o].task].status = "none"
     \/ /\ execs[log[o].task].status \in {"processing", "failed"}
        /\ log[o].attempt > execs[log[o].task].attempt

Ahead(t) == \E o \in Offsets : log[o].task = t /\ Awaited(o) /\ ~Passed(o)

\* A task without a row has all its messages ahead, one whose attempt failed,
\* or is about to be marked so, has its retry ahead.
NothingIsSkipped ==
  \A t \in Tasks \ Malformed :
    /\ execs[t].status = "none" => \A o \in Offsets : log[o].task = t => ~Passed(o)
    /\ execs[t].status = "failed" => Ahead(t)
    /\ \A w \in Workers : pc[w] = "markFailed" /\ Handles(w, t) => Ahead(t)

CalmInv == ClaimsAreTrue /\ RunningIsHandled /\ NothingIsSkipped

LEMMA CalmInvImplies == Inv /\ CalmInv => CommittedIsHandled
<1> SUFFICES ASSUME Inv, CalmInv, NEW t \in Tasks \ Malformed,
                    NEW o \in Offsets, log[o].task = t,
                    {p \in Offsets : log[p].task = t} \subseteq 1..committed
             PROVE  execs[t].status \in Terminal \/ \E w \in Workers : Handles(w, t)
  BY DEF CommittedIsHandled, Handles
<1>1. \A p \in Offsets : log[p].task = t => Passed(p)
  BY DEF Passed, Inv, TypeOK
<1>2. execs[t].status \in {"none", "processing", "failed"} \cup Terminal
  BY DEF Inv, TypeOK, Exec, Statuses
<1>3. execs[t].status \notin {"none", "failed"}
  BY <1>1 DEF CalmInv, NothingIsSkipped, Ahead
<1> QED
  BY <1>2, <1>3 DEF CalmInv, RunningIsHandled

LEMMA CalmInvInit == Init => CalmInv
<1> SUFFICES ASSUME Init PROVE CalmInv
  OBVIOUS
<1>1. Offsets = {} /\ \A w \in Workers : pc[w] = "poll" /\ claimOf[w] = 0
  BY DEF Init, Offsets
<1>2. \A t \in Tasks : execs[t].status = "none"
  BY DEF Init
<1> QED
  BY <1>1, <1>2
     DEF CalmInv, ClaimsAreTrue, RunningIsHandled, NothingIsSkipped, Handling

\* A message in hand stays the same.
LEMMA SameMessage ==
  ASSUME Inv, Grows, NEW w \in Workers, InHand(pc[w]), at'[w] = at[w]
  PROVE  /\ Msg(w)' = Msg(w) /\ TaskOf(w)' = TaskOf(w)
         /\ at[w] \in Offsets /\ Msg(w) \in Message /\ TaskOf(w) \in Tasks
<1>1. at[w] \in Offsets /\ Msg(w) \in Message /\ TaskOf(w) \in Tasks
  BY Working
<1>2. Msg(w)' = Msg(w)
  BY <1>1 DEF Grows, Msg
<1> QED
  BY <1>1, <1>2 DEF TaskOf

LEMMA HandlingInHand ==
  ASSUME NEW s \in Handling
  PROVE  InHand(s) /\ s \in Steps /\ s # "commit" /\ s # "received"
  BY DEF Handling, InHand, Steps

\* Nobody begins, and nobody that holds a claim ends, to handle a message.
LEMMA ClaimsKept ==
  ASSUME Inv, CalmInv, Grows, UNCHANGED <<execs, claims, claimOf>>,
         \A w \in Workers :
           pc'[w] \in Handling => pc[w] \in Handling /\ at'[w] = at[w],
         \A w \in Workers :
           pc[w] \in Handling /\ HoldsClaim(w, TaskOf(w)) =>
             pc'[w] \in Handling /\ at'[w] = at[w]
  PROVE  ClaimsAreTrue' /\ RunningIsHandled'
<1>1. ASSUME NEW w \in Workers, pc[w] \in Handling, at'[w] = at[w]
      PROVE  Msg(w)' = Msg(w) /\ TaskOf(w)' = TaskOf(w)
  BY <1>1, HandlingInHand, SameMessage
<1>2. ASSUME NEW w \in Workers, NEW t PROVE HoldsClaim(w, t)' <=> HoldsClaim(w, t)
  BY DEF HoldsClaim
<1>3. ClaimsAreTrue'
  <2> SUFFICES ASSUME NEW w \in Workers, pc'[w] \in Handling
               PROVE  /\ TaskOf(w)' \notin Malformed
                      /\ HoldsClaim(w, TaskOf(w))' =>
                           execs'[TaskOf(w)'].attempt = Msg(w)'.attempt
    BY DEF CalmInv, ClaimsAreTrue
  <2>1. pc[w] \in Handling /\ Msg(w)' = Msg(w) /\ TaskOf(w)' = TaskOf(w)
    BY <1>1
  <2>2. HoldsClaim(w, TaskOf(w))' <=> HoldsClaim(w, TaskOf(w))
    BY <2>1 DEF HoldsClaim
  <2> QED
    BY <2>1, <2>2 DEF CalmInv, ClaimsAreTrue
<1>4. RunningIsHandled'
  <2> SUFFICES ASSUME NEW t \in Tasks, execs[t].status = "processing"
               PROVE  \E w \in Workers : Handles(w, t)'
    BY DEF RunningIsHandled
  <2>1. PICK w \in Workers : Handles(w, t)
    BY DEF CalmInv, RunningIsHandled
  <2>2. pc'[w] \in Handling /\ at'[w] = at[w] /\ pc[w] \in Handling
    BY <2>1 DEF Handles
  <2>3. TaskOf(w)' = t
    BY <1>1, <2>1, <2>2 DEF Handles
  <2>4. HoldsClaim(w, t)'
    BY <1>2, <2>1 DEF Handles
  <2> QED
    BY <2>2, <2>3, <2>4 DEF Handles
<1> QED
  BY <1>3, <1>4

\* No message that is waited for is passed; who is now about to mark a failure
\* has its retry ahead.
LEMMA NothingSkippedKept ==
  ASSUME Inv, CalmInv, Grows, UNCHANGED <<execs, claimOf>>,
         \A o \in Offsets : Awaited(o) /\ Passed(o)' => Passed(o),
         \A o \in Offsets' \ Offsets : ~Passed(o)',
         \A w \in Workers : pc'[w] = "markFailed" =>
           \/ pc[w] = "markFailed" /\ at'[w] = at[w]
           \/ HoldsClaim(w, TaskOf(w))' => Ahead(TaskOf(w))'
  PROVE  NothingIsSkipped'
<1>1. ASSUME NEW o \in Offsets
      PROVE  o \in Offsets' /\ log'[o] = log[o] /\ Awaited(o)' = Awaited(o)
  BY DEF Grows, Awaited
<1>2. ASSUME NEW t, Ahead(t) PROVE Ahead(t)'
  <2>1. PICK o \in Offsets : log[o].task = t /\ Awaited(o) /\ ~Passed(o)
    BY <1>2 DEF Ahead
  <2>2. o \in Offsets' /\ log'[o].task = t /\ Awaited(o)' /\ ~Passed(o)'
    BY <1>1, <2>1
  <2> QED
    BY <2>2 DEF Ahead
<1> SUFFICES ASSUME NEW t \in Tasks \ Malformed
             PROVE  /\ execs'[t].status = "none" =>
                         \A o \in Offsets' : log'[o].task = t => ~Passed(o)'
                    /\ execs'[t].status = "failed" => Ahead(t)'
                    /\ \A w \in Workers :
                         pc'[w] = "markFailed" /\ Handles(w, t)' => Ahead(t)'
  BY DEF NothingIsSkipped
<1>3. ASSUME execs'[t].status = "none", NEW o \in Offsets', log'[o].task = t
      PROVE  ~Passed(o)'
  <2>1. CASE o \in Offsets
    BY <1>1, <1>3, <2>1 DEF CalmInv, NothingIsSkipped, Awaited
  <2> QED
    BY <2>1
<1>4. execs'[t].status = "failed" => Ahead(t)'
  BY <1>2 DEF CalmInv, NothingIsSkipped
<1>5. ASSUME NEW w \in Workers, pc'[w] = "markFailed", Handles(w, t)' PROVE Ahead(t)'
  <2>1. TaskOf(w)' = t
    BY <1>5 DEF Handles
  <2>2. CASE pc[w] = "markFailed" /\ at'[w] = at[w]
    <3>1. TaskOf(w)' = TaskOf(w) /\ pc[w] \in Handling
      BY <2>2, SameMessage DEF InHand, Handling
    <3>2. Handles(w, t)
      BY <1>5, <2>1, <3>1 DEF Handles, HoldsClaim
    <3> QED
      BY <1>2, <2>2, <3>2 DEF CalmInv, NothingIsSkipped
  <2>3. CASE HoldsClaim(w, TaskOf(w))' => Ahead(TaskOf(w))'
    <3>1. HoldsClaim(w, TaskOf(w))'
      BY <1>5, <2>1 DEF Handles, HoldsClaim
    <3> QED
      BY <2>1, <2>3, <3>1 DEF Ahead, Awaited, Passed
  <2> QED
    BY <1>5, <2>2, <2>3
<1> QED
  BY <1>3, <1>4, <1>5

-----------------------------------------------------------------------------
(* The steps of Calm behaviours.                                           *)

LEMMA NoFault == ASSUME Calm, NEW f \in {"crash", "write", "db"} PROVE ~May(f)
  BY DEF Calm, May

LEMMA SameGrows == ASSUME UNCHANGED <<log, outputs>> PROVE Grows
  BY DEF Grows, Offsets, outputs

\* Whoever does not move is as far as before.
LEMMA OthersStay ==
  ASSUME TypeOK, NEW w \in Workers, NEW s, pc' = [pc EXCEPT ![w] = s],
         NEW v \in Workers \ {w}, at'[v] = at[v], NEW o
  PROVE  pc'[v] = pc[v] /\ (BehindWorker(v, o)' <=> BehindWorker(v, o))
  BY DEF TypeOK, BehindWorker

\* A step of w outside of Handling, after which it is not in it either, or a
\* step of the group or the clock.
LEMMA ElsewhereCalm ==
  ASSUME Inv, CalmInv, UNCHANGED <<log, execs, claims, claimOf, outputs>>,
         \/ UNCHANGED <<pc, at>>
         \/ \E w \in Workers, s \in Steps \ Handling :
              /\ pc[w] \notin Handling
              /\ pc' = [pc EXCEPT ![w] = s]
              /\ \A v \in Workers \ {w} : at'[v] = at[v],
         \A o \in Offsets : Awaited(o) /\ Passed(o)' => Passed(o)
  PROVE  CalmInv'
<1>1. \A v \in Workers :
        /\ pc'[v] \in Handling => pc[v] \in Handling /\ at'[v] = at[v] /\ pc'[v] = pc[v]
        /\ pc[v] \in Handling => pc'[v] \in Handling /\ at'[v] = at[v]
  BY DEF Inv, TypeOK
<1>2. Grows /\ Offsets' = Offsets
  BY SameGrows DEF Offsets
<1>3. ClaimsAreTrue' /\ RunningIsHandled'
  BY <1>1, <1>2, ClaimsKept
<1>4. NothingIsSkipped'
  BY <1>1, <1>2, NothingSkippedKept DEF Handling
<1> QED
  BY <1>3, <1>4 DEF CalmInv

LEMMA AssignCalm ==
  ASSUME Inv, CalmInv, NEW w \in Members, Assign(w)
  PROVE  CalmInv'
<1>1. /\ UNCHANGED <<log, execs, claims, claimOf, outputs, pc, at, committed>>
      /\ owner' = {w} /\ position' = committed
  BY DEF Assign, table, local
<1>2. ASSUME NEW o \in Offsets, Passed(o)' PROVE Passed(o)
  BY <1>1, <1>2 DEF Passed, BehindWorker, BehindOwner
<1> QED
  BY <1>1, <1>2, ElsewhereCalm

LEMMA FetchCalm ==
  ASSUME Inv, CalmInv, NEW w \in Workers, Fetch(w)
  PROVE  CalmInv'
<1>1. /\ UNCHANGED <<log, execs, claims, claimOf, outputs, committed, owner>>
      /\ pc[w] = "poll" /\ owner = {w} /\ position' = position + 1
      /\ at' = [at EXCEPT ![w] = position + 1] /\ pc' = [pc EXCEPT ![w] = "received"]
  BY DEF Fetch, Goto, table
<1>2. /\ pc'[w] = "received" /\ at'[w] = position'
      /\ \A v \in Workers \ {w} : at'[v] = at[v]
      /\ position \in Nat
  BY <1>1, LenProperties DEF Inv, TypeOK
<1>3. ASSUME NEW o \in Offsets, Passed(o)' PROVE Passed(o)
  <2>1. BehindOwner(w, o)' = FALSE
    BY <1>2 DEF BehindOwner, InHand
  <2>2. o \in Nat /\ (BehindWorker(w, o)' => o <= position)
    BY <1>1, <1>2 DEF BehindWorker, Offsets, Handling
  <2>3. o <= position => Passed(o)
    BY <1>1 DEF Passed, BehindOwner, InHand
  <2>4. \A v \in Workers \ {w} : BehindWorker(v, o)' => BehindWorker(v, o)
    BY <1>1, <1>2, OthersStay DEF Inv
  <2> QED
    BY <1>1, <1>3, <2>1, <2>2, <2>3, <2>4 DEF Passed
<1>4. "received" \in Steps \ Handling /\ pc[w] \notin Handling
  BY <1>1 DEF Steps, Handling
<1> QED
  BY <1>1, <1>2, <1>3, <1>4, ElsewhereCalm

\* A worker that leaves its message behind polls again.
LEMMA LeavesBehind ==
  ASSUME TypeOK, NEW w \in Workers, pc[w] \in {"commit"} \cup Handling,
         NEW s \in {"poll", "stopped"}, pc' = [pc EXCEPT ![w] = s],
         UNCHANGED <<at, position>>, owner' \subseteq owner,
         committed' \in {committed, at[w]},
         NEW o \in Offsets, Passed(o)'
  PROVE  Passed(o)
<1>1. pc'[w] = s /\ ~BehindWorker(w, o)'
  BY DEF TypeOK, BehindWorker, Handling
<1>2. \A v \in Workers \ {w} : pc'[v] = pc[v] /\ (BehindWorker(v, o)' <=> BehindWorker(v, o))
  BY OthersStay
<1>3. o <= at[w] => BehindWorker(w, o)
  BY DEF BehindWorker
<1>4. ASSUME NEW v \in owner \cap Workers, BehindOwner(v, o)' PROVE Passed(o)
  <2>1. v \in Workers
    BY DEF TypeOK
  <2>2. CASE v # w
    BY <1>2, <1>4, <2>1, <2>2 DEF BehindOwner, Passed
  <2>3. CASE v = w
    BY <1>3, <1>4, <2>3 DEF BehindOwner, Passed
  <2> QED
    BY <2>2, <2>3
<1> QED
  BY <1>1, <1>2, <1>3, <1>4 DEF Passed

LEMMA CommitCalm ==
  ASSUME Inv, CalmInv, Calm, NEW w \in Workers, Commit(w)
  PROVE  CalmInv'
<1>1. /\ pc[w] = "commit" /\ UNCHANGED <<log, execs, claims, claimOf, outputs, at, position>>
      /\ committed' \in {committed, at[w]}
  BY DEF Commit, table, local
<1>2. PICK s \in {"poll", "stopped"} :
        pc' = [pc EXCEPT ![w] = s] /\ owner' \subseteq owner
  BY DEF Commit, Stop, Goto
<1>3. \A o \in Offsets : Passed(o)' => Passed(o)
  BY <1>1, <1>2, LeavesBehind DEF Inv
<1>4. s \in Steps \ Handling /\ pc[w] \notin Handling
  BY <1>1 DEF Steps, Handling
<1> QED
  BY <1>1, <1>2, <1>3, <1>4, ElsewhereCalm

LEMMA RestartCalm ==
  ASSUME Inv, CalmInv, NEW w \in Workers, Restart(w)
  PROVE  CalmInv'
<1>1. /\ pc[w] = "stopped" /\ pc' = [pc EXCEPT ![w] = "poll"]
      /\ UNCHANGED <<log, execs, claims, claimOf, outputs, at, committed, owner, position>>
  BY DEF Restart, Goto, topic, table, local
<1>2. pc'[w] = "poll"
  BY <1>1 DEF Inv, TypeOK
<1>3. ASSUME NEW o \in Offsets, Passed(o)' PROVE Passed(o)
  <2>1. ASSUME NEW v \in Workers PROVE BehindWorker(v, o)' => BehindWorker(v, o)
    <3>1. CASE v = w
      BY <1>2, <3>1 DEF BehindWorker, Handling
    <3>2. CASE v # w
      BY <1>1, <3>2, OthersStay DEF Inv
    <3> QED
      BY <3>1, <3>2
  <2>2. ASSUME NEW v \in owner \cap Workers PROVE BehindOwner(v, o)' => BehindOwner(v, o)
    <3>1. v \in Workers
      BY DEF Inv, TypeOK
    <3> QED
      BY <1>1, <1>2, <3>1 DEF BehindOwner, InHand, Inv, TypeOK
  <2> QED
    BY <1>1, <1>3, <2>1, <2>2 DEF Passed
<1>4. "poll" \in Steps \ Handling /\ pc[w] \notin Handling
  BY <1>1 DEF Steps, Handling
<1> QED
  BY <1>1, <1>3, <1>4, ElsewhereCalm

LEMMA TickCalm == ASSUME Inv, CalmInv, Tick PROVE CalmInv'
<1>1. UNCHANGED <<log, execs, claims, claimOf, outputs, pc, at, committed, owner, position>>
  BY DEF Tick, topic, table, local
<1>2. \A o \in Offsets : Passed(o)' => Passed(o)
  BY <1>1 DEF Passed, BehindWorker, BehindOwner
<1> QED
  BY <1>1, <1>2, ElsewhereCalm

\* Worker w, which received the message at at[w], has decided upon it.
LEMMA Decides ==
  ASSUME TypeOK, NEW w \in Workers, pc[w] = "received",
         NEW s \in {"commit"} \cup Handling, pc' = [pc EXCEPT ![w] = s],
         UNCHANGED <<at, committed, owner, position>>,
         NEW o \in Offsets, Passed(o)'
  PROVE  Passed(o) \/ o = at[w]
<1>1. /\ pc'[w] = s /\ InHand(s) /\ InHand(pc[w])
      /\ \A v \in Workers \ {w} : pc'[v] = pc[v]
  BY DEF TypeOK, InHand, Handling
<1>2. BehindWorker(w, o)' => BehindWorker(w, o) \/ o = at[w]
  <2>1. o \in Int /\ at[w] \in Int
    BY DEF TypeOK, Offsets
  <2> QED
    BY <1>1, <2>1 DEF BehindWorker, Handling
<1>3. \A v \in Workers \ {w} : BehindWorker(v, o)' <=> BehindWorker(v, o)
  BY OthersStay
<1>4. ASSUME NEW v \in owner \cap Workers PROVE BehindOwner(v, o)' <=> BehindOwner(v, o)
  <2>1. v \in Workers
    BY DEF TypeOK
  <2> QED
    BY <1>1, <2>1 DEF BehindOwner
<1> QED
  BY <1>2, <1>3, <1>4 DEF Passed

\* What is not claimed, because it is malformed or was decided upon, is committed.
LEMMA RefusedCalm ==
  ASSUME Inv, CalmInv, NEW w \in Workers, pc[w] = "received",
         pc' = [pc EXCEPT ![w] = "commit"], ~Awaited(at[w]),
         UNCHANGED <<log, execs, claims, claimOf, outputs, at, committed, owner, position>>
  PROVE  CalmInv'
<1>1. \A o \in Offsets : Awaited(o) /\ Passed(o)' => Passed(o)
  <2>1. "commit" \in {"commit"} \cup Handling
    OBVIOUS
  <2>2. \A o \in Offsets : Passed(o)' => Passed(o) \/ o = at[w]
    BY <2>1, Decides DEF Inv
  <2> QED
    BY <2>2
<1>2. "commit" \in Steps \ Handling /\ pc[w] \notin Handling
  BY DEF Steps, Handling
<1> QED
  BY <1>1, <1>2, ElsewhereCalm

LEMMA RejectInvalidCalm ==
  ASSUME Inv, CalmInv, NEW w \in Workers, RejectInvalid(w)
  PROVE  CalmInv'
<1>1. /\ pc[w] = "received" /\ pc' = [pc EXCEPT ![w] = "commit"]
      /\ UNCHANGED <<log, execs, claims, claimOf, outputs, at, committed, owner, position>>
  BY DEF RejectInvalid, Goto, topic, table, local
<1>2. ~Awaited(at[w])
  BY DEF RejectInvalid, Awaited, TaskOf, Msg
<1> QED
  BY <1>1, <1>2, RefusedCalm

\* A claim: the execution is in the hands of w, and of nobody else.
LEMMA ClaimRowCalm ==
  ASSUME Inv, CalmInv, NEW w \in Workers, pc[w] = "received", TaskOf(w) \notin Malformed,
         ClaimRow(w), pc' = [pc EXCEPT ![w] = "collect"],
         UNCHANGED <<log, outputs, at, committed, owner, position>>
  PROVE  CalmInv'
<1> DEFINE t == TaskOf(w)
           row == [status |-> "processing", attempt |-> Msg(w).attempt,
                   claimId |-> claims + 1, lockedUntil |-> now + ClaimTTL]
<1>1. /\ execs' = [execs EXCEPT ![t] = row]
      /\ claims' = claims + 1 /\ claimOf' = [claimOf EXCEPT ![w] = claims + 1]
  BY DEF ClaimRow
<1>2. /\ row.status = "processing" /\ row.attempt = Msg(w).attempt
      /\ row.claimId = claims + 1
  OBVIOUS
<1> HIDE DEF row
<1>3. InHand(pc[w]) /\ Grows /\ Offsets' = Offsets
  BY SameGrows DEF InHand, Offsets
<1>4. /\ at[w] \in Offsets /\ t \in Tasks
      /\ \A v \in Workers : Msg(v)' = Msg(v) /\ TaskOf(v)' = TaskOf(v)
  BY <1>3, Working DEF Msg, TaskOf
<1>5. /\ execs'[t] = row /\ \A u \in Tasks \ {t} : execs'[u] = execs[u]
      /\ claimOf'[w] = claims + 1 /\ pc'[w] = "collect"
      /\ \A v \in Workers \ {w} : claimOf'[v] = claimOf[v] /\ pc'[v] = pc[v]
  BY <1>1, <1>4 DEF Inv, TypeOK
<1>6. claims \in Nat /\ \A v \in Workers : claimOf[v] \in 0..claims
  BY DEF Inv, TypeOK
<1>7. \A v \in Workers : claimOf'[v] = claims + 1 => v = w
  BY <1>5, <1>6
\* Nobody else holds the claim of t, or has lost or won the claim of another task.
<1>8. /\ \A u \in Tasks : u = t => HoldsClaim(w, u)'
      /\ \A v \in Workers \ {w}, u \in Tasks : u = t => ~HoldsClaim(v, u)'
      /\ \A v \in Workers \ {w}, u \in Tasks \ {t} : HoldsClaim(v, u)' <=> HoldsClaim(v, u)
  BY <1>2, <1>4, <1>5, <1>7 DEF HoldsClaim
<1>9. "collect" \in Handling /\ pc[w] \notin Handling
  BY DEF Handling
<1>10. ClaimsAreTrue'
  <2>1. ASSUME NEW v \in Workers, NEW x \in Workers, claimOf'[v] = claimOf'[x],
               claimOf'[v] # 0
        PROVE  v = x
    <3>1. CASE v = w \/ x = w
      BY <1>5, <1>7, <2>1, <3>1
    <3>2. CASE v # w /\ x # w
      BY <1>5, <2>1, <3>2 DEF CalmInv, ClaimsAreTrue
    <3> QED
      BY <3>1, <3>2
  <2>2. ASSUME NEW u \in Tasks, execs'[u].status = "processing"
        PROVE  execs'[u].claimId \in 1..claims'
    <3>1. claims + 1 \in 1..claims' /\ \A n \in 1..claims : n \in 1..claims'
      BY <1>1, <1>6
    <3>2. CASE u = t
      BY <1>2, <1>5, <3>1, <3>2
    <3>3. CASE u # t
      BY <1>5, <2>2, <3>1, <3>3 DEF CalmInv, ClaimsAreTrue
    <3> QED
      BY <3>2, <3>3
  <2>3. ASSUME NEW v \in Workers, pc'[v] \in Handling
        PROVE  /\ TaskOf(v)' \notin Malformed
               /\ HoldsClaim(v, TaskOf(v))' => execs'[TaskOf(v)'].attempt = Msg(v)'.attempt
    <3>1. CASE v = w
      BY <1>2, <1>4, <1>5, <3>1
    <3>2. CASE v # w
      <4>1. pc[v] \in Handling /\ TaskOf(v) \in Tasks
        BY <1>5, <2>3, <3>2, HandlingInHand, Working
      <4>2. CASE TaskOf(v) = t
        BY <1>4, <1>8, <3>2, <4>1, <4>2 DEF CalmInv, ClaimsAreTrue, HoldsClaim
      <4>3. CASE TaskOf(v) # t
        <5>1. HoldsClaim(v, TaskOf(v))' <=> HoldsClaim(v, TaskOf(v))
          BY <1>4, <1>5, <3>2, <4>1, <4>3 DEF HoldsClaim
        <5> QED
          BY <1>4, <1>5, <4>1, <4>3, <5>1 DEF CalmInv, ClaimsAreTrue
      <4> QED
        BY <4>2, <4>3
    <3> QED
      BY <3>1, <3>2
  <2> QED
    BY <2>1, <2>2, <2>3 DEF ClaimsAreTrue
<1>11. ASSUME NEW u \in Tasks \ {t}, NEW v \in Workers
       PROVE  Handles(v, u)' <=> Handles(v, u)
  BY <1>4, <1>5, <1>8, <1>9 DEF Handles
<1>12. RunningIsHandled'
  <2>1. \A u \in Tasks : u = t => Handles(w, u)'
    BY <1>4, <1>5, <1>8, <1>9 DEF Handles
  <2> QED
    BY <1>5, <1>11, <2>1 DEF CalmInv, RunningIsHandled
<1>13. NothingIsSkipped'
  <2>1. ASSUME NEW o \in Offsets, log[o].task # t PROVE Passed(o)' => Passed(o)
    <3>1. o # at[w]
      BY <2>1 DEF TaskOf, Msg
    <3> QED
      BY <1>9, <3>1, Decides DEF Inv
  <2>2. ASSUME NEW u \in Tasks \ {t}, Ahead(u) PROVE Ahead(u)'
    <3>1. PICK o \in Offsets : log[o].task = u /\ Awaited(o) /\ ~Passed(o)
      BY <2>2 DEF Ahead
    <3>2. Awaited(o)' /\ ~Passed(o)'
      BY <1>5, <2>1, <3>1 DEF Awaited
    <3> QED
      BY <1>3, <3>1, <3>2 DEF Ahead
  <2>3. ASSUME NEW u \in Tasks \ Malformed
        PROVE  /\ execs'[u].status = "none" =>
                    \A o \in Offsets' : log'[o].task = u => ~Passed(o)'
               /\ execs'[u].status = "failed" => Ahead(u)'
               /\ \A v \in Workers : pc'[v] = "markFailed" /\ Handles(v, u)' => Ahead(u)'
    <3>1. CASE u = t
      <4>1. execs'[u].status \notin {"none", "failed"}
        BY <1>2, <1>5, <3>1
      <4>2. \A v \in Workers : pc'[v] = "markFailed" => ~Handles(v, u)'
        BY <1>5, <1>8, <3>1 DEF Handles
      <4> QED
        BY <4>1, <4>2
    <3>2. CASE u # t
      BY <1>3, <1>5, <1>11, <2>1, <2>2, <3>2 DEF CalmInv, NothingIsSkipped
    <3> QED
      BY <3>1, <3>2
  <2> QED
    BY <2>3 DEF NothingIsSkipped
<1> QED
  BY <1>10, <1>12, <1>13 DEF CalmInv

LEMMA ClaimCalm ==
  ASSUME Inv, CalmInv, Calm, NEW w \in Workers, Claim(w)
  PROVE  CalmInv'
<1>1. /\ pc[w] = "received" /\ TaskOf(w) \notin Malformed
      /\ UNCHANGED <<log, outputs, at, committed, owner, position>>
  BY DEF Claim, topic
<1>2. CASE ClaimRow(w) /\ Goto(w, "collect")
  BY <1>1, <1>2, ClaimRowCalm DEF Goto
<1>3. CASE /\ ~ShouldProcess(execs[TaskOf(w)], Msg(w))
           /\ Goto(w, "commit") /\ UNCHANGED <<table, claimOf>>
  <2>1. ~Awaited(at[w])
    BY <1>3 DEF ShouldProcess, Awaited, TaskOf, Msg
  <2> QED
    BY <1>1, <1>3, <2>1, RefusedCalm DEF Goto, table
<1> QED
  BY <1>2, <1>3, NoFault DEF Claim

\* An offset beyond the partition is not passed.
LEMMA NewIsNotPassed ==
  ASSUME Inv, UNCHANGED <<at, committed, owner, position>>, NEW o, o = Len(log) + 1
  PROVE  ~Passed(o)'
<1>1. Len(log) \in Nat
  BY LenProperties DEF Inv, TypeOK
<1>2. /\ ~(o <= committed) /\ ~(o <= position)
      /\ \A w \in Workers : ~(o <= at[w]) /\ ~(o < at[w])
  BY <1>1 DEF Inv, TypeOK
<1>3. \A w \in Workers : ~BehindWorker(w, o)'
  BY <1>2 DEF BehindWorker
<1>4. \A w \in owner' \cap Workers : ~BehindOwner(w, o)'
  BY <1>2 DEF BehindOwner
<1> QED
  BY <1>2, <1>3, <1>4 DEF Passed

LEMMA DeliverCalm ==
  ASSUME Inv, CalmInv, NEW t \in Tasks, Deliver(t)
  PROVE  CalmInv'
<1> DEFINE m == [task |-> t, attempt |-> 0, dueAt |-> 0]
<1>1. m \in Message /\ log' = Append(log, m)
  BY JobWorkerAssumption DEF Deliver, Message
<1>2. UNCHANGED <<committed, owner, position, execs, claims, pc, at, claimOf,
                  completed, dlqItems, dlqEvents>>
  BY DEF Deliver, table, local, outputs
<1>3. /\ Offsets' = Offsets \cup {Len(log) + 1}
      /\ \A o \in Offsets : o \in Offsets' /\ log'[o] = log[o]
  BY <1>1, AppendGrows DEF Inv, TypeOK
<1>4. Grows
  BY <1>2, <1>3 DEF Grows
<1>5. \A o \in Offsets : Passed(o)' => Passed(o)
  BY <1>2 DEF Passed, BehindWorker, BehindOwner
<1>6. \A o \in Offsets' \ Offsets : ~Passed(o)'
  BY <1>2, <1>3, NewIsNotPassed
<1>7. ClaimsAreTrue' /\ RunningIsHandled'
  BY <1>2, <1>4, ClaimsKept
<1>8. NothingIsSkipped'
  BY <1>2, <1>4, <1>5, <1>6, NothingSkippedKept
<1> QED
  BY <1>7, <1>8 DEF CalmInv

\* A worker goes on with its message.
LEMMA ProgressCalm ==
  ASSUME Inv, CalmInv, Grows, NEW w \in Workers, pc[w] \in Handling,
         NEW s \in Handling, pc' = [pc EXCEPT ![w] = s],
         UNCHANGED <<execs, claims, claimOf, at, committed, owner, position>>,
         \A o \in Offsets' \ Offsets : ~Passed(o)',
         s = "markFailed" => Ahead(TaskOf(w))' \/ ~HoldsClaim(w, TaskOf(w))'
  PROVE  CalmInv'
<1>1. /\ pc'[w] = s /\ \A v \in Workers \ {w} : pc'[v] = pc[v]
      /\ \A v \in Workers : pc'[v] \in Handling <=> pc[v] \in Handling
  BY DEF Inv, TypeOK
<1>2. InHand(s) /\ InHand(pc[w])
  BY HandlingInHand
<1>3. ASSUME NEW o PROVE Passed(o)' => Passed(o)
  <2>1. ASSUME NEW v \in Workers PROVE BehindWorker(v, o)' => BehindWorker(v, o)
    <3>1. CASE v = w
      <4>1. s # "received"
        BY HandlingInHand
      <4> QED
        BY <1>1, <3>1, <4>1 DEF BehindWorker
    <3>2. CASE v # w
      BY <1>1, <3>2 DEF BehindWorker
    <3> QED
      BY <3>1, <3>2
  <2>2. ASSUME NEW v \in owner \cap Workers PROVE BehindOwner(v, o)' => BehindOwner(v, o)
    <3>1. v \in Workers
      BY DEF Inv, TypeOK
    <3> QED
      BY <1>1, <1>2, <3>1 DEF BehindOwner
  <2> QED
    BY <2>1, <2>2 DEF Passed
<1>4. ClaimsAreTrue' /\ RunningIsHandled'
  BY <1>1, ClaimsKept
<1>5. NothingIsSkipped'
  BY <1>1, <1>3, NothingSkippedKept
<1> QED
  BY <1>4, <1>5 DEF CalmInv

\* The steps that write no message and mark nothing.
LEMMA WorkCalm ==
  ASSUME Inv, CalmInv, Calm, NEW w \in Workers,
         Collect(w) \/ WriteCompleted(w) \/ WriteFailed(w) \/ CreateDLQItem(w) \/ WriteDLQ(w)
  PROVE  CalmInv'
<1>1. /\ pc[w] \in Handling
      /\ UNCHANGED <<log, execs, claims, claimOf, at, committed, owner, position>>
  BY DEF Collect, WriteCompleted, WriteFailed, CreateDLQItem, WriteDLQ, Handling,
         topic, table, local
<1>2. PICK s \in Handling : s # "markFailed" /\ pc' = [pc EXCEPT ![w] = s]
  <2>1. \A x \in {"completed", "failed", "rejected", "markSucceeded", "dlqItem", "retry",
                  "dlqEvent", "markDLQ"} : x \in Handling /\ x # "markFailed"
    BY DEF Handling
  <2>2. ~May("write") /\ ~May("db")
    BY NoFault
  <2> QED
    BY <2>1, <2>2 DEF Collect, WriteCompleted, WriteFailed, CreateDLQItem, WriteDLQ,
                      Outcome, Goto
<1>3. TaskOf(w) \in Tasks
  BY <1>1, HandlingInHand, Working
<1>4. Grows
  <2>1. ASSUME NEW f \in [Tasks -> Nat], NEW u \in Tasks,
               NEW t \in Tasks, f[u] > 0
        PROVE  [f EXCEPT ![t] = @ + 1][u] > 0
    BY <2>1
  <2>2. /\ completed' = completed \/ completed' = [completed EXCEPT ![TaskOf(w)] = @ + 1]
        /\ dlqItems' = dlqItems \/ dlqItems' = [dlqItems EXCEPT ![TaskOf(w)] = @ + 1]
        /\ dlqEvents' = dlqEvents \/ dlqEvents' = [dlqEvents EXCEPT ![TaskOf(w)] = @ + 1]
    BY DEF Collect, WriteCompleted, WriteFailed, CreateDLQItem, WriteDLQ, Outcome, outputs
  <2>3. ASSUME NEW u \in Tasks
        PROVE  /\ completed[u] > 0 => completed'[u] > 0
               /\ dlqItems[u] > 0 => dlqItems'[u] > 0
               /\ dlqEvents[u] > 0 => dlqEvents'[u] > 0
    BY <1>3, <2>1, <2>2 DEF Inv, TypeOK
  <2> QED
    BY <1>1, <2>3 DEF Grows, Offsets
<1> QED
  BY <1>1, <1>2, <1>4, ProgressCalm DEF Offsets

LEMMA WriteRetryCalm ==
  ASSUME Inv, CalmInv, Calm, NEW w \in Workers, WriteRetry(w)
  PROVE  CalmInv'
<1> DEFINE t == TaskOf(w)
           next == Msg(w).attempt + 1
           last == Len(log) + 1
           m == [task |-> t, attempt |-> next,
                 dueAt |-> now + RetryBackoff(BackoffBase, next)]
<1>1. /\ pc[w] = "retry" /\ pc[w] \in Handling
      /\ pc' = [pc EXCEPT ![w] = "markFailed"] /\ log' = Append(log, m)
      /\ UNCHANGED <<now, committed, owner, position, execs, claims, at, claimOf,
                     completed, dlqItems, dlqEvents>>
  BY NoFault DEF WriteRetry, Outcome, Goto, Handling, table, local, outputs
<1>2. /\ t \in Tasks /\ at[w] \in Offsets
      /\ Msg(w).attempt \in Nat /\ next < MaxAttempts
  <2>1. InHand(pc[w])
    BY <1>1, HandlingInHand
  <2>2. Entitled(w, pc[w]) /\ Msg(w).attempt \in Nat
    BY <2>1, Working DEF Message
  <2> QED
    BY <1>1, <2>1, <2>2, Working DEF Entitled
<1>3. m \in Message /\ m.task = t /\ m.attempt = next
  <2>1. next \in 1..MaxAttempts /\ next \in 0..(MaxAttempts - 1)
    BY <1>2, JobWorkerAssumption
  <2>2. now + RetryBackoff(BackoffBase, next) \in Nat
    BY <2>1, JobWorkerAssumption DEF Inv, TypeOK
  <2> QED
    BY <1>2, <2>1, <2>2 DEF Message
<1> HIDE DEF m
<1>4. /\ log'[last] = m
      /\ Offsets' = Offsets \cup {last}
      /\ \A o \in Offsets : o \in Offsets' /\ log'[o] = log[o]
  BY <1>1, <1>3, AppendGrows DEF Inv, TypeOK
<1>5. Grows
  BY <1>1, <1>4 DEF Grows
<1>7. TaskOf(w)' = t
  BY <1>1, <1>2, <1>4 DEF TaskOf, Msg
<1>8. ASSUME HoldsClaim(w, TaskOf(w))' PROVE Ahead(TaskOf(w))'
  <2>1. HoldsClaim(w, t)
    BY <1>1, <1>7, <1>8 DEF HoldsClaim
  <2>2. /\ t \notin Malformed /\ execs[t].status = "processing"
        /\ execs[t].attempt = Msg(w).attempt
    BY <1>1, <2>1 DEF CalmInv, ClaimsAreTrue, HoldsClaim
  <2>3. m.attempt > execs[t].attempt
    BY <1>2, <1>3, <2>2
  <2>4. \A o : o = last => Awaited(o)'
    BY <1>1, <1>3, <1>4, <2>2, <2>3 DEF Awaited
  <2>5. \A o : o = last => ~Passed(o)'
    BY <1>1, NewIsNotPassed
  <2>6. last \in Offsets' /\ log'[last].task = t
    BY <1>3, <1>4
  <2> QED
    BY <1>7, <2>4, <2>5, <2>6 DEF Ahead
<1>9. "markFailed" \in Handling /\ \A o \in Offsets' \ Offsets : ~Passed(o)'
  BY <1>1, <1>4, NewIsNotPassed DEF Handling
<1> QED
  BY <1>1, <1>5, <1>8, <1>9, ProgressCalm

\* A worker that lost its claim drops its message, which is behind it: the
\* partition went to another worker, or the task to another message.
LEMMA MarkLostCalm ==
  ASSUME Inv, CalmInv, NEW w \in Workers, pc[w] \in Handling,
         ~HoldsClaim(w, TaskOf(w)), pc' = [pc EXCEPT ![w] = "poll"],
         UNCHANGED <<log, execs, claims, claimOf, outputs, at, committed, owner, position>>
  PROVE  CalmInv'
<1>1. pc'[w] = "poll" /\ \A v \in Workers \ {w} : pc'[v] = pc[v]
  BY DEF Inv, TypeOK
<1>2. Grows /\ Offsets' = Offsets /\ "poll" \notin Handling
  BY SameGrows DEF Offsets, Handling
<1>3. \A o \in Offsets : Passed(o)' => Passed(o)
  BY LeavesBehind DEF Inv
<1>4. ClaimsAreTrue' /\ RunningIsHandled'
  BY <1>1, <1>2, ClaimsKept
<1>5. \A v \in Workers : pc'[v] = "markFailed" => pc[v] = "markFailed" /\ at'[v] = at[v]
  BY <1>1
<1>6. NothingIsSkipped'
  BY <1>2, <1>3, <1>5, NothingSkippedKept
<1> QED
  BY <1>4, <1>6 DEF CalmInv

\* A worker that holds its claim gives its execution its new status.
LEMMA MarkHeldCalm ==
  ASSUME Inv, CalmInv, NEW w \in Workers, pc[w] \in Handling,
         NEW status \in {"succeeded", "failed", "dlq"}, NEW attempt,
         status = "failed" => pc[w] = "markFailed" /\ attempt = Msg(w).attempt,
         HoldsClaim(w, TaskOf(w)),
         execs' = [execs EXCEPT ![TaskOf(w)] =
           [status |-> status, attempt |-> attempt, claimId |-> 0, lockedUntil |-> 0]],
         pc' = [pc EXCEPT ![w] = "commit"],
         UNCHANGED <<log, claims, claimOf, at, committed, owner, position>>
  PROVE  CalmInv'
<1> DEFINE t == TaskOf(w)
           row == [status |-> status, attempt |-> attempt, claimId |-> 0, lockedUntil |-> 0]
<1>1. row.status = status /\ row.attempt = attempt
  OBVIOUS
<1>2. t \in Tasks /\ InHand(pc[w])
  BY HandlingInHand, Working
<1>3. execs'[t] = row /\ \A u \in Tasks \ {t} : execs'[u] = execs[u]
  BY <1>2 DEF Inv, TypeOK
<1> HIDE DEF row
<1>4. pc'[w] = "commit" /\ \A v \in Workers \ {w} : pc'[v] = pc[v]
  BY DEF Inv, TypeOK
<1>5. /\ Offsets' = Offsets /\ "commit" \notin Handling
      /\ \A v \in Workers : Msg(v)' = Msg(v) /\ TaskOf(v)' = TaskOf(v)
  BY DEF Offsets, Msg, TaskOf, Handling
<1>6. /\ \A v \in Workers, u \in Tasks : u = t => ~HoldsClaim(v, u)'
      /\ \A v \in Workers, u \in Tasks \ {t} : HoldsClaim(v, u)' <=> HoldsClaim(v, u)
  BY <1>1, <1>2, <1>3 DEF HoldsClaim
<1>7. ASSUME NEW v \in Workers, NEW u \in Tasks \ {t}
      PROVE  Handles(v, u)' <=> Handles(v, u)
  <2>1. CASE v = w
    BY <1>5, <2>1 DEF Handles
  <2>2. CASE v # w
    BY <1>4, <1>5, <1>6, <2>2 DEF Handles
  <2> QED
    BY <2>1, <2>2
<1>8. ASSUME NEW v \in Workers, NEW u \in Tasks, u = t PROVE ~Handles(v, u)'
  BY <1>6, <1>8 DEF Handles
<1>9. ClaimsAreTrue'
  <2>1. ASSUME NEW u \in Tasks, execs'[u].status = "processing"
        PROVE  execs'[u].claimId \in 1..claims'
    <3>1. u # t
      BY <1>1, <1>3, <2>1
    <3> QED
      BY <1>3, <2>1, <3>1 DEF CalmInv, ClaimsAreTrue
  <2>2. ASSUME NEW v \in Workers, pc'[v] \in Handling
        PROVE  /\ TaskOf(v)' \notin Malformed
               /\ HoldsClaim(v, TaskOf(v))' => execs'[TaskOf(v)'].attempt = Msg(v)'.attempt
    <3>1. v # w /\ pc[v] \in Handling
      BY <1>4, <1>5, <2>2
    <3>2. TaskOf(v) \in Tasks
      BY <3>1, HandlingInHand, Working
    <3>3. CASE TaskOf(v) = t
      <4>1. ~HoldsClaim(v, TaskOf(v))'
        BY <1>1, <1>3, <1>5, <3>3 DEF HoldsClaim
      <4> QED
        BY <1>5, <3>1, <4>1 DEF CalmInv, ClaimsAreTrue
    <3>4. CASE TaskOf(v) # t
      <4>1. HoldsClaim(v, TaskOf(v))' <=> HoldsClaim(v, TaskOf(v))
        BY <1>3, <1>5, <3>2, <3>4 DEF HoldsClaim
      <4> QED
        BY <1>3, <1>5, <3>1, <3>2, <3>4, <4>1 DEF CalmInv, ClaimsAreTrue
    <3> QED
      BY <3>3, <3>4
  <2> QED
    BY <2>1, <2>2 DEF CalmInv, ClaimsAreTrue
<1>10. RunningIsHandled'
  BY <1>1, <1>3, <1>7 DEF CalmInv, RunningIsHandled
<1>11. ASSUME NEW o PROVE Passed(o)' => Passed(o)
  <2>1. ASSUME NEW v \in Workers PROVE BehindWorker(v, o)' => BehindWorker(v, o)
    BY <1>4, <1>5 DEF BehindWorker
  <2>2. ASSUME NEW v \in owner \cap Workers PROVE BehindOwner(v, o)' => BehindOwner(v, o)
    <3>1. v \in Workers /\ InHand("commit")
      BY DEF Inv, TypeOK, InHand
    <3> QED
      BY <1>2, <1>4, <3>1 DEF BehindOwner
  <2> QED
    BY <2>1, <2>2 DEF Passed
<1>12. ASSUME NEW u \in Tasks, Ahead(u),
              u # t \/ (status = "failed" /\ attempt = execs[t].attempt /\ u \notin Malformed)
       PROVE  Ahead(u)'
  <2>1. PICK o \in Offsets : log[o].task = u /\ Awaited(o) /\ ~Passed(o)
    BY <1>12 DEF Ahead
  <2>2. Awaited(o)'
    <3>1. CASE u # t
      BY <1>3, <2>1, <3>1 DEF Awaited
    <3>2. CASE u = t
      <4>1. execs[t].status = "processing" /\ log[o].attempt > execs[t].attempt
        BY <2>1, <3>2 DEF Awaited, HoldsClaim
      <4>2. execs'[u].status = "failed" /\ log[o].attempt > execs'[u].attempt
        BY <1>1, <1>3, <1>12, <3>2, <4>1
      <4> QED
        BY <1>12, <2>1, <4>2 DEF Awaited
    <3> QED
      BY <3>1, <3>2
  <2> QED
    BY <1>5, <1>11, <2>1, <2>2 DEF Ahead
<1>13. NothingIsSkipped'
  <2>1. ASSUME NEW u \in Tasks \ Malformed
        PROVE  /\ execs'[u].status = "none" =>
                    \A o \in Offsets' : log'[o].task = u => ~Passed(o)'
               /\ execs'[u].status = "failed" => Ahead(u)'
               /\ \A v \in Workers : pc'[v] = "markFailed" /\ Handles(v, u)' => Ahead(u)'
    <3>1. CASE u = t
      <4>1. execs'[u].status = status
        BY <1>1, <1>3, <3>1
      <4>2. ASSUME status = "failed" PROVE Ahead(u)'
        <5>1. attempt = execs[t].attempt
          BY <4>2 DEF CalmInv, ClaimsAreTrue
        <5>2. Handles(w, u)
          BY <3>1 DEF Handles
        <5>3. Ahead(u)
          BY <4>2, <5>2 DEF CalmInv, NothingIsSkipped
        <5> QED
          BY <1>12, <4>2, <5>1, <5>3
      <4> QED
        BY <1>8, <3>1, <4>1, <4>2
    <3>2. CASE u # t
      <4>1. ASSUME NEW v \in Workers, pc'[v] = "markFailed", Handles(v, u)' PROVE Ahead(u)'
        <5>1. pc[v] = "markFailed" /\ Handles(v, u)
          BY <1>4, <1>7, <3>2, <4>1
        <5> QED
          BY <1>12, <3>2, <5>1 DEF CalmInv, NothingIsSkipped
      <4>2. execs'[u] = execs[u]
        BY <1>3, <3>2
      <4> QED
        BY <1>5, <1>11, <1>12, <3>2, <4>1, <4>2 DEF CalmInv, NothingIsSkipped
    <3> QED
      BY <3>1, <3>2
  <2> QED
    BY <2>1 DEF NothingIsSkipped
<1> QED
  BY <1>9, <1>10, <1>13 DEF CalmInv

LEMMA MarkCalm ==
  ASSUME Inv, CalmInv, Calm, NEW w \in Workers,
         MarkSucceeded(w) \/ MarkDLQ(w) \/ MarkFailed(w)
  PROVE  CalmInv'
<1>1. PICK status \in {"succeeded", "failed", "dlq"}, attempt \in Int :
        /\ UpdateClaimed(w, status, attempt)
        /\ status = "failed" => pc[w] = "markFailed" /\ attempt = Msg(w).attempt
  <2>1. InHand(pc[w])
    BY DEF MarkSucceeded, MarkDLQ, MarkFailed, InHand
  <2>2. Msg(w).attempt \in Int
    BY <2>1, Working DEF Message
  <2>3. execs[TaskOf(w)] \in Exec
    BY <2>1, Working DEF Inv, TypeOK
  <2>4. execs[TaskOf(w)].attempt \in Int
    BY <2>3 DEF Exec
  <2> QED
    BY <2>2, <2>4 DEF MarkSucceeded, MarkDLQ, MarkFailed
<1>2. /\ pc[w] \in Handling
      /\ UNCHANGED <<log, claims, claimOf, outputs, at, committed, owner, position>>
  BY DEF MarkSucceeded, MarkDLQ, MarkFailed, UpdateClaimed, Handling, topic, local
<1>3. CASE HoldsClaim(w, TaskOf(w))
  <2>1. /\ execs' = [execs EXCEPT ![TaskOf(w)] =
             [status |-> status, attempt |-> attempt, claimId |-> 0, lockedUntil |-> 0]]
        /\ pc' = [pc EXCEPT ![w] = "commit"]
    BY <1>1, <1>3, NoFault DEF UpdateClaimed, Goto
  <2> QED
    BY <1>1, <1>2, <1>3, <2>1, MarkHeldCalm
<1>4. CASE ~HoldsClaim(w, TaskOf(w))
  BY <1>1, <1>2, <1>4, NoFault, MarkLostCalm DEF UpdateClaimed, Skip, Goto
<1> QED
  BY <1>3, <1>4

\* What may fail is settled at the start.
LEMMA FaultsStay == [Next]_vars => faults' = faults
  BY DEF Next, vars, Deliver, Run, HandleMessage, Fetch, RejectInvalid, Claim, Collect,
         WriteCompleted, MarkSucceeded, WriteFailed, WriteRetry, MarkFailed, UpdateClaimed,
         CreateDLQItem, WriteDLQ, MarkDLQ, Commit, Assign, Crash, Restart, Tick

LEMMA NextCalm ==
  ASSUME Inv, CalmInv, Calm, [Next]_vars
  PROVE  CalmInv' /\ Calm'
<1>1. ASSUME NEW t \in Tasks, Deliver(t) PROVE CalmInv'
  BY <1>1, DeliverCalm
<1>2. ASSUME NEW w \in Workers, Run(w) PROVE CalmInv'
  <2>1. CASE HandleMessage(w)
    BY <2>1, RejectInvalidCalm, ClaimCalm, WorkCalm, WriteRetryCalm, MarkCalm
       DEF HandleMessage
  <2> QED
    BY <1>2, <2>1, FetchCalm, CommitCalm DEF Run
<1>3. ASSUME NEW w \in Workers, Crash(w) \/ Restart(w) PROVE CalmInv'
  <2>1. ~Crash(w)
    BY NoFault DEF Crash
  <2> QED
    BY <1>3, <2>1, RestartCalm
<1>4. ASSUME UNCHANGED vars PROVE CalmInv'
  <2>1. UNCHANGED <<log, execs, claims, claimOf, outputs, pc, at, committed, owner, position>>
    BY <1>4 DEF vars, topic, table, local
  <2>2. \A o \in Offsets : Passed(o)' => Passed(o)
    BY <2>1 DEF Passed, BehindWorker, BehindOwner
  <2> QED
    BY <2>1, <2>2, ElsewhereCalm
<1>5. faults' = faults
  BY FaultsStay
<1> QED
  BY <1>1, <1>2, <1>3, <1>4, <1>5, AssignCalm, TickCalm DEF Next, Calm

\* A message whose handling failed is not committed, and comes back: in every
\* behaviour without crashes and failing calls, a task all of whose messages are
\* committed has ended or is in the hands of the worker that holds its claim,
\* however the partition is moved and however slow the workers are (Run commits
\* only what HandleMessage answered, worker.go:142).
THEOREM CommittedMessagesAreHandled == Spec /\ Calm => []CommittedIsHandled
<1>1. Init => CalmInv
  BY CalmInvInit
<1>2. Inv /\ (CalmInv /\ Calm) /\ [Next]_vars => (CalmInv /\ Calm)'
  BY NextCalm
<1>3. Inv /\ CalmInv => CommittedIsHandled
  BY CalmInvImplies
<1> QED
  BY <1>1, <1>2, <1>3, Invariance, PTL DEF Spec

\* A delivered task has ended, or is in the hands of the worker that holds its
\* claim, or has a message still to come that its row would be claimed for.
NoneIsForgotten ==
  \A t \in Tasks \ Malformed :
    (\E o \in Offsets : log[o].task = t)
    => \/ execs[t].status \in Terminal
       \/ \E w \in Workers : Handles(w, t)
       \/ Ahead(t)

\* The safety half of EveryTaskEnds: as long as no call fails and no process dies,
\* every task that has not ended is taken further by Run reading on or by the
\* worker at work on it, so that only their fairness is left to be assumed.
THEOREM NoTaskIsForgotten == Spec /\ Calm => []NoneIsForgotten
<1>1. Init => CalmInv
  BY CalmInvInit
<1>2. Inv /\ (CalmInv /\ Calm) /\ [Next]_vars => (CalmInv /\ Calm)'
  BY NextCalm
<1>3. Inv /\ CalmInv => NoneIsForgotten
  <2> SUFFICES ASSUME Inv, CalmInv, NEW t \in Tasks \ Malformed,
                      NEW o \in Offsets, log[o].task = t
               PROVE  \/ execs[t].status \in Terminal
                      \/ \E w \in Workers : Handles(w, t)
                      \/ Ahead(t)
    BY DEF NoneIsForgotten
  <2>1. CASE execs[t].status = "none"
    BY <2>1 DEF CalmInv, NothingIsSkipped, Ahead, Awaited
  <2>2. CASE execs[t].status = "failed"
    BY <2>2 DEF CalmInv, NothingIsSkipped
  <2>3. CASE execs[t].status = "processing"
    BY <2>3 DEF CalmInv, RunningIsHandled
  <2>4. execs[t].status \in {"none", "processing", "failed"} \cup Terminal
    BY DEF Inv, TypeOK, Exec, Statuses
  <2> QED
    BY <2>1, <2>2, <2>3, <2>4
<1> QED
  BY <1>1, <1>2, <1>3, Invariance, PTL DEF Spec

-----------------------------------------------------------------------------
(* Without slow workers either.  Every lease outlasts its work, so that one  *)
(* worker at a time is at work on a task, on its latest attempt.             *)

Quiet == faults \subseteq {"rebalance"}

\* Until its retry is written, and once an end is written and not yet marked.
Busy == Handling \ {"markFailed"}
Ending == {"markSucceeded", "dlqEvent", "markDLQ"}

NoneBeyond(t, n) == \A o \in Offsets : log[o].task = t => log[o].attempt <= n

LeaseRuns(t) == execs[t].status = "processing" => execs[t].lockedUntil > now

\* Who is at work on t holds its claim, for its latest attempt.
WorkIsCurrent(t) ==
  \A w \in Workers : pc[w] \in Busy /\ TaskOf(w) = t =>
    HoldsClaim(w, t) /\ NoneBeyond(t, execs[t].attempt)

\* At most the next attempt is in the partition.
RetryIsNext(t) ==
  /\ execs[t].status = "none" => NoneBeyond(t, 0)
  /\ execs[t].status \in {"processing", "failed"} => NoneBeyond(t, execs[t].attempt + 1)

\* The one end of t is in the table or in the hands of a worker that will mark it.
EndsOnce(t) ==
  /\ completed[t] + dlqItems[t] <= 1
  /\ completed[t] + dlqItems[t] > 0 =>
       \/ execs[t].status \in Terminal
       \/ \E w \in Workers : pc[w] \in Ending /\ Handles(w, t)

QuietTask(t) == LeaseRuns(t) /\ WorkIsCurrent(t) /\ RetryIsNext(t) /\ EndsOnce(t)

QuietInv == \A t \in Tasks : QuietTask(t)

LEMMA QuietInvInit == Init => QuietInv
<1> SUFFICES ASSUME Init, NEW t \in Tasks PROVE QuietTask(t)
  BY DEF QuietInv
<1>1. Offsets = {} /\ \A w \in Workers : pc[w] = "poll"
  BY DEF Init, Offsets
<1>2. execs[t].status = "none" /\ completed[t] = 0 /\ dlqItems[t] = 0
  BY DEF Init
<1> QED
  BY <1>1, <1>2 DEF QuietTask, LeaseRuns, WorkIsCurrent, RetryIsNext, EndsOnce, NoneBeyond,
                    Busy, Handling

LEMMA SoleHolder ==
  ASSUME CalmInv, NEW t \in Tasks, NEW v \in Workers, NEW w \in Workers,
         HoldsClaim(v, t), HoldsClaim(w, t)
  PROVE  v = w
<1>1. claimOf[v] = claimOf[w] /\ claimOf[v] \in 1..claims
  BY DEF CalmInv, ClaimsAreTrue, HoldsClaim
<1> QED
  BY <1>1 DEF CalmInv, ClaimsAreTrue

\* Whoever holds the claim of t is alone at work on it, and has ended nothing
\* unless it is about to mark an end.
LEMMA HolderAlone ==
  ASSUME Inv, CalmInv, NEW t \in Tasks, QuietTask(t), NEW w \in Workers, HoldsClaim(w, t)
  PROVE  /\ \A v \in Workers : pc[v] \in Busy /\ TaskOf(v) = t => v = w
         /\ pc[w] \notin Ending => completed[t] = 0 /\ dlqItems[t] = 0
<1>1. \A v \in Workers : pc[v] \in Busy /\ TaskOf(v) = t => v = w
  BY SoleHolder DEF QuietTask, WorkIsCurrent
<1>2. ASSUME pc[w] \notin Ending PROVE completed[t] = 0 /\ dlqItems[t] = 0
  <2>1. execs[t].status \notin Terminal
    BY DEF HoldsClaim, Terminal
  <2>2. \A v \in Workers : pc[v] \in Ending => ~Handles(v, t)
    BY <1>2, SoleHolder DEF Handles
  <2>3. ~(completed[t] + dlqItems[t] > 0)
    BY <2>1, <2>2 DEF QuietTask, EndsOnce
  <2>4. completed[t] \in Nat /\ dlqItems[t] \in Nat
    BY DEF Inv, TypeOK
  <2> QED
    BY <2>3, <2>4
<1> QED
  BY <1>1, <1>2

\* A task whose row, outputs and workers stay, whatever first attempt is delivered.
LEMMA TaskKept ==
  ASSUME Inv, NEW t \in Tasks, QuietTask(t),
         execs'[t] = execs[t], completed'[t] = completed[t], dlqItems'[t] = dlqItems[t],
         LeaseRuns(t)',
         \A o \in Offsets' : log'[o].task = t =>
           (o \in Offsets /\ log'[o] = log[o]) \/ log'[o].attempt = 0,
         \A w \in Workers : pc'[w] \in Busy /\ TaskOf(w)' = t =>
           pc[w] \in Busy /\ TaskOf(w) = t /\ claimOf'[w] = claimOf[w],
         \A w \in Workers : pc[w] \in Ending /\ TaskOf(w) = t =>
           pc'[w] \in Ending /\ TaskOf(w)' = t /\ claimOf'[w] = claimOf[w]
  PROVE  QuietTask(t)'
<1>1. ASSUME NEW n \in Nat, NoneBeyond(t, n) PROVE NoneBeyond(t, n)'
  BY <1>1 DEF NoneBeyond
<1>2. execs[t].attempt \in Nat
  <2>1. execs[t] \in Exec
    BY DEF Inv, TypeOK
  <2> QED
    BY <2>1, JobWorkerAssumption DEF Exec
<1>3. WorkIsCurrent(t)'
  <2>1. ASSUME NEW w \in Workers, pc'[w] \in Busy, TaskOf(w)' = t
        PROVE  HoldsClaim(w, t)' /\ NoneBeyond(t, execs[t].attempt)
    BY <2>1 DEF QuietTask, WorkIsCurrent, HoldsClaim
  <2> QED
    BY <1>1, <1>2, <2>1 DEF WorkIsCurrent
<1>4. RetryIsNext(t)'
  BY <1>1, <1>2 DEF QuietTask, RetryIsNext
<1>5. EndsOnce(t)'
  <2>1. ASSUME NEW w \in Workers, pc[w] \in Ending, Handles(w, t)
        PROVE  pc'[w] \in Ending /\ Handles(w, t)'
    <3>1. pc'[w] \in Ending /\ TaskOf(w)' = t /\ claimOf'[w] = claimOf[w]
      BY <2>1 DEF Handles
    <3>2. pc'[w] \in Handling
      BY <3>1 DEF Ending, Handling
    <3> QED
      BY <2>1, <3>1, <3>2 DEF Handles, HoldsClaim
  <2> QED
    BY <2>1 DEF QuietTask, EndsOnce
<1> QED
  BY <1>3, <1>4, <1>5 DEF QuietTask

\* A step of w that is none of the business of t, or leaves w no more to do for
\* it, or takes its work further.
LEMMA TaskStep ==
  ASSUME Inv, Grows, NEW w \in Workers, NEW s, pc' = [pc EXCEPT ![w] = s],
         NEW t \in Tasks, QuietTask(t), now' = now,
         execs'[t] = execs[t], completed'[t] = completed[t], dlqItems'[t] = dlqItems[t],
         \A o \in Offsets' : log'[o].task = t => o \in Offsets,
         \A v \in Workers \ {w} : at'[v] = at[v] /\ claimOf'[v] = claimOf[v],
         \/ TaskOf(w) # t /\ TaskOf(w)' # t
         \/ pc[w] \notin Ending /\ s \notin Busy
         \/ /\ pc[w] \in Busy /\ at'[w] = at[w] /\ claimOf'[w] = claimOf[w]
            /\ pc[w] \in Ending => s \in Ending
  PROVE  QuietTask(t)'
<1>1. /\ pc'[w] = s /\ \A v \in Workers \ {w} : pc'[v] = pc[v]
      /\ \A x \in Ending : x \in Busy
      /\ \A x \in Busy : InHand(x)
  BY DEF Inv, TypeOK, Ending, Busy, Handling, InHand
<1>2. ASSUME NEW v \in Workers, pc[v] \in Busy, at'[v] = at[v]
      PROVE  TaskOf(v)' = TaskOf(v)
  BY <1>1, <1>2, SameMessage
<1>3. ASSUME NEW v \in Workers, pc'[v] \in Busy, TaskOf(v)' = t
      PROVE  pc[v] \in Busy /\ TaskOf(v) = t /\ claimOf'[v] = claimOf[v]
  BY <1>1, <1>2, <1>3
<1>4. ASSUME NEW v \in Workers, pc[v] \in Ending, TaskOf(v) = t
      PROVE  pc'[v] \in Ending /\ TaskOf(v)' = t /\ claimOf'[v] = claimOf[v]
  BY <1>1, <1>2, <1>4
<1>5. LeaseRuns(t)'
  BY DEF QuietTask, LeaseRuns
<1>6. \A o \in Offsets' : log'[o].task = t => o \in Offsets /\ log'[o] = log[o]
  BY DEF Grows
<1> QED
  BY <1>3, <1>4, <1>5, <1>6, TaskKept

\* A step that touches neither the partition, the rows nor the outputs.
LEMMA MoveQuiet ==
  ASSUME Inv, QuietInv, NEW w \in Workers, NEW s, pc' = [pc EXCEPT ![w] = s],
         UNCHANGED <<now, log, execs, claimOf, outputs>>,
         \A v \in Workers \ {w} : at'[v] = at[v],
         \/ pc[w] \notin Ending /\ s \notin Busy
         \/ /\ pc[w] \in Busy /\ at'[w] = at[w]
            /\ pc[w] \in Ending => s \in Ending
  PROVE  QuietInv'
<1>1. Grows /\ Offsets' = Offsets
  BY SameGrows DEF Offsets
<1>2. completed' = completed /\ dlqItems' = dlqItems
  BY DEF outputs
<1> SUFFICES ASSUME NEW t \in Tasks PROVE QuietTask(t)'
  BY DEF QuietInv
<1>3. QuietTask(t)
  BY DEF QuietInv
<1> QED
  BY <1>1, <1>2, <1>3, TaskStep

\* Nobody moves: the partition grows by a first attempt, or the clock moves
\* while nothing runs, or the group does something.
LEMMA StillQuiet ==
  ASSUME Inv, QuietInv, Grows,
         UNCHANGED <<execs, pc, at, claimOf, completed, dlqItems>>,
         now' = now \/ \A t \in Tasks : execs[t].status # "processing",
         \A o \in Offsets' \ Offsets : log'[o].attempt = 0
  PROVE  QuietInv'
<1> SUFFICES ASSUME NEW t \in Tasks PROVE QuietTask(t)'
  BY DEF QuietInv
<1>1. QuietTask(t)
  BY DEF QuietInv
<1>2. \A v \in Workers : pc[v] \in Busy => TaskOf(v)' = TaskOf(v)
  <2>1. \A x \in Busy : InHand(x)
    BY DEF Busy, Handling, InHand
  <2> QED
    BY <2>1, SameMessage
<1>3. \A x \in Ending : x \in Busy
  BY DEF Ending, Busy, Handling
<1>4. LeaseRuns(t)'
  BY <1>1 DEF QuietTask, LeaseRuns
<1>5. \A o \in Offsets' : (o \in Offsets /\ log'[o] = log[o]) \/ log'[o].attempt = 0
  BY DEF Grows
<1> QED
  BY <1>1, <1>2, <1>3, <1>4, <1>5, TaskKept

LEMMA DeliverQuiet ==
  ASSUME Inv, QuietInv, NEW t \in Tasks, Deliver(t)
  PROVE  QuietInv'
<1> DEFINE m == [task |-> t, attempt |-> 0, dueAt |-> 0]
<1>1. m \in Message /\ m.attempt = 0 /\ log' = Append(log, m)
  BY JobWorkerAssumption DEF Deliver, Message
<1>2. UNCHANGED <<now, execs, pc, at, claimOf, completed, dlqItems, dlqEvents>>
  BY DEF Deliver, table, local, outputs
<1> HIDE DEF m
<1>3. /\ Offsets' = Offsets \cup {Len(log) + 1} /\ log'[Len(log) + 1] = m
      /\ \A o \in Offsets : o \in Offsets' /\ log'[o] = log[o]
  BY <1>1, AppendGrows DEF Inv, TypeOK
<1>4. Grows
  BY <1>2, <1>3 DEF Grows
<1> QED
  BY <1>1, <1>2, <1>3, <1>4, StillQuiet

LEMMA GroupQuiet ==
  ASSUME Inv, QuietInv, NEW w \in Workers, Fetch(w) \/ Commit(w) \/ Restart(w)
  PROVE  QuietInv'
<1>1. /\ pc[w] \notin Ending
      /\ UNCHANGED <<now, log, execs, claimOf, outputs>>
      /\ \A v \in Workers \ {w} : at'[v] = at[v]
  BY DEF Fetch, Commit, Restart, Ending, topic, table, local, Inv, TypeOK
<1>2. PICK s \in {"poll", "received", "stopped"} : pc' = [pc EXCEPT ![w] = s]
  BY DEF Fetch, Commit, Restart, Stop, Goto
<1>3. s \notin Busy
  BY DEF Busy, Handling
<1> QED
  BY <1>1, <1>2, <1>3, MoveQuiet

LEMMA AssignQuiet ==
  ASSUME Inv, QuietInv, NEW m \in Members, Assign(m)
  PROVE  QuietInv'
<1>1. UNCHANGED <<now, log, execs, pc, at, claimOf, outputs, completed, dlqItems>>
  BY DEF Assign, table, local, outputs
<1> QED
  BY <1>1, SameGrows, StillQuiet DEF Offsets

\* The clock moves only while nothing runs.
LEMMA TickQuiet ==
  ASSUME Inv, CalmInv, QuietInv, Quiet, Tick
  PROVE  QuietInv'
<1>1. UNCHANGED <<log, execs, pc, at, claimOf, outputs, completed, dlqItems>>
  BY DEF Tick, topic, table, local, outputs
<1>2. \A w \in Workers : pc[w] \notin Handling
  <2>1. ~May("slow")
    BY DEF Quiet, May
  <2> QED
    BY <2>1 DEF Tick, Waiting, Handling
<1>3. \A t \in Tasks : execs[t].status # "processing"
  BY <1>2 DEF CalmInv, RunningIsHandled, Handles
<1> QED
  BY <1>1, <1>3, SameGrows, StillQuiet DEF Offsets

\* The steps that neither claim, end, retry nor mark.
LEMMA WorkQuiet ==
  ASSUME Inv, QuietInv, Quiet, NEW w \in Workers,
         RejectInvalid(w) \/ Collect(w) \/ WriteFailed(w)
  PROVE  QuietInv'
<1>1. UNCHANGED <<now, log, execs, claimOf, outputs, at>>
  BY DEF RejectInvalid, Collect, WriteFailed, topic, table, local
<1>2. CASE RejectInvalid(w)
  BY <1>1, <1>2, MoveQuiet DEF RejectInvalid, Goto, Ending, Busy, Handling
<1>3. CASE Collect(w) \/ WriteFailed(w)
  <2>1. pc[w] \in Busy /\ pc[w] \notin Ending
    BY <1>3 DEF Collect, WriteFailed, Busy, Handling, Ending
  <2>2. ~May("write")
    BY DEF Quiet, May
  <2>3. PICK s \in Steps : pc' = [pc EXCEPT ![w] = s]
    BY <1>3, <2>2 DEF Collect, WriteFailed, Goto, Steps, Handling
  <2> QED
    BY <1>1, <2>1, <2>3, MoveQuiet
<1> QED
  BY <1>2, <1>3

\* A worker at work on t writes the end of t, the first one.
LEMMA EndStep ==
  ASSUME Inv, CalmInv, QuietInv, Grows, NEW w \in Workers, NEW t \in Tasks, TaskOf(w) = t,
         pc[w] \in Busy, pc[w] \notin Ending,
         NEW s \in Ending, pc' = [pc EXCEPT ![w] = s],
         UNCHANGED <<now, log, execs, claimOf, at>>,
         \/ completed' = [completed EXCEPT ![t] = @ + 1] /\ dlqItems' = dlqItems
         \/ dlqItems' = [dlqItems EXCEPT ![t] = @ + 1] /\ completed' = completed
  PROVE  QuietInv'
<1>1. TaskOf(w)' = t /\ Offsets' = Offsets
  BY DEF TaskOf, Msg, Offsets
<1>2. /\ \A u \in Tasks \ {t} : completed'[u] = completed[u] /\ dlqItems'[u] = dlqItems[u]
      /\ \/ completed'[t] = completed[t] + 1 /\ dlqItems'[t] = dlqItems[t]
         \/ dlqItems'[t] = dlqItems[t] + 1 /\ completed'[t] = completed[t]
  BY DEF Inv, TypeOK
<1>3. \A u \in Tasks : QuietTask(u)
  BY DEF QuietInv
<1>4. ASSUME NEW u \in Tasks, u # t PROVE QuietTask(u)'
  BY <1>1, <1>2, <1>3, <1>4, TaskStep
<1>5. HoldsClaim(w, t)
  BY <1>3 DEF QuietTask, WorkIsCurrent
<1>6. completed[t] = 0 /\ dlqItems[t] = 0
  BY <1>3, <1>5, HolderAlone
<1>7. /\ pc'[w] = s /\ s \in Handling /\ s \in Busy
      /\ \A v \in Workers \ {w} : pc'[v] = pc[v]
  BY DEF Inv, TypeOK, Ending, Handling, Busy
<1>8. EndsOnce(t)'
  <2>1. Handles(w, t)'
    BY <1>1, <1>5, <1>7 DEF Handles, HoldsClaim
  <2>2. completed'[t] + dlqItems'[t] <= 1
    BY <1>2, <1>6
  <2> QED
    BY <1>7, <2>1, <2>2 DEF EndsOnce
<1>9. LeaseRuns(t)' /\ RetryIsNext(t)'
  BY <1>1, <1>3 DEF QuietTask, LeaseRuns, RetryIsNext, NoneBeyond
<1>10. WorkIsCurrent(t)'
  <2>1. \A v \in Workers : TaskOf(v)' = TaskOf(v) /\ (pc'[v] \in Busy => pc[v] \in Busy)
    BY <1>7 DEF TaskOf, Msg
  <2> QED
    BY <1>1, <1>3, <2>1 DEF QuietTask, WorkIsCurrent, NoneBeyond, HoldsClaim
<1>11. QuietTask(t)'
  BY <1>8, <1>9, <1>10 DEF QuietTask
<1> QED
  BY <1>4, <1>11 DEF QuietInv

LEMMA OutputQuiet ==
  ASSUME Inv, CalmInv, QuietInv, Quiet, NEW w \in Workers,
         WriteCompleted(w) \/ CreateDLQItem(w) \/ WriteDLQ(w)
  PROVE  QuietInv'
<1>1. /\ pc[w] \in Busy /\ UNCHANGED <<now, log, execs, claimOf, at>>
      /\ ~May("write") /\ ~May("db")
  BY DEF WriteCompleted, CreateDLQItem, WriteDLQ, Busy, Handling, topic, table, local,
         Quiet, May
<1>2. TaskOf(w) \in Tasks
  BY <1>1, HandlingInHand, Working DEF Busy
<1>3. /\ completed \in [Tasks -> Nat] /\ dlqItems \in [Tasks -> Nat]
      /\ dlqEvents \in [Tasks -> Nat]
  BY DEF Inv, TypeOK
<1>4. ASSUME NEW f \in [Tasks -> Nat], NEW t \in Tasks
      PROVE  \A u \in Tasks : f[u] > 0 => [f EXCEPT ![t] = @ + 1][u] > 0
  OBVIOUS
<1>5. CASE WriteCompleted(w)
  <2>1. /\ completed' = [completed EXCEPT ![TaskOf(w)] = @ + 1]
        /\ pc' = [pc EXCEPT ![w] = "markSucceeded"] /\ UNCHANGED <<dlqItems, dlqEvents>>
        /\ pc[w] \notin Ending
    BY <1>1, <1>5 DEF WriteCompleted, Outcome, Goto, Ending
  <2>2. Grows
    BY <1>1, <1>2, <1>3, <1>4, <2>1 DEF Grows, Offsets
  <2>3. "markSucceeded" \in Ending
    BY DEF Ending
  <2> QED
    BY <1>1, <1>2, <2>1, <2>2, <2>3, EndStep
<1>6. CASE CreateDLQItem(w)
  <2>1. /\ dlqItems' = [dlqItems EXCEPT ![TaskOf(w)] = @ + 1]
        /\ pc' = [pc EXCEPT ![w] = "dlqEvent"] /\ UNCHANGED <<completed, dlqEvents>>
        /\ pc[w] \notin Ending
    BY <1>1, <1>6 DEF CreateDLQItem, Goto, Ending
  <2>2. Grows
    BY <1>1, <1>2, <1>3, <1>4, <2>1 DEF Grows, Offsets
  <2>3. "dlqEvent" \in Ending
    BY DEF Ending
  <2> QED
    BY <1>1, <1>2, <2>1, <2>2, <2>3, EndStep
<1>7. CASE WriteDLQ(w)
  <2>1. /\ dlqEvents' = [dlqEvents EXCEPT ![TaskOf(w)] = @ + 1]
        /\ pc' = [pc EXCEPT ![w] = "markDLQ"] /\ UNCHANGED <<completed, dlqItems>>
    BY <1>1, <1>7 DEF WriteDLQ, Outcome, Goto
  <2>2. Grows
    BY <1>1, <1>2, <1>3, <1>4, <2>1 DEF Grows, Offsets
  <2>3. "markDLQ" \in Ending /\ Offsets' = Offsets
    BY <1>1 DEF Ending, Offsets
  <2> SUFFICES ASSUME NEW t \in Tasks PROVE QuietTask(t)'
    BY DEF QuietInv
  <2>4. QuietTask(t)
    BY DEF QuietInv
  <2> QED
    BY <1>1, <2>1, <2>2, <2>3, <2>4, TaskStep
<1> QED
  BY <1>5, <1>6, <1>7

\* The retry is the next attempt of the claim its worker holds.
LEMMA WriteRetryQuiet ==
  ASSUME Inv, CalmInv, QuietInv, Quiet, NEW w \in Workers, WriteRetry(w)
  PROVE  QuietInv'
<1> DEFINE next == Msg(w).attempt + 1
           last == Len(log) + 1
           m == [task |-> TaskOf(w), attempt |-> next,
                 dueAt |-> now + RetryBackoff(BackoffBase, next)]
<1>1. /\ pc[w] \in Busy /\ pc[w] \notin Ending /\ pc[w] = "retry"
      /\ pc' = [pc EXCEPT ![w] = "markFailed"] /\ log' = Append(log, m)
      /\ UNCHANGED <<now, execs, claims, at, claimOf, completed, dlqItems, dlqEvents>>
  <2>1. ~May("write")
    BY DEF Quiet, May
  <2> QED
    BY <2>1 DEF WriteRetry, Outcome, Goto, Busy, Handling, Ending, table, local, outputs
<1>2. /\ InHand(pc[w]) /\ TaskOf(w) \in Tasks /\ at[w] \in Offsets
      /\ Msg(w).attempt \in Nat /\ next < MaxAttempts
  <2>1. InHand(pc[w])
    BY <1>1, HandlingInHand DEF Busy
  <2>2. Entitled(w, pc[w]) /\ Msg(w).attempt \in Nat
    BY <2>1, Working DEF Message
  <2> QED
    BY <1>1, <2>1, <2>2, Working DEF Entitled
<1>3. PICK t \in Tasks : TaskOf(w) = t
  BY <1>2
<1>4. m \in Message /\ m.task = t /\ m.attempt = next
  <2>1. next \in 1..MaxAttempts /\ next \in 0..(MaxAttempts - 1)
    BY <1>2, JobWorkerAssumption
  <2>2. RetryBackoff(BackoffBase, next) \in Nat
    BY <2>1, JobWorkerAssumption
  <2>3. now + RetryBackoff(BackoffBase, next) \in Nat
    BY <2>2 DEF Inv, TypeOK
  <2> QED
    BY <1>2, <1>3, <2>1, <2>3 DEF Message
<1> HIDE DEF m
<1>5. /\ log'[last] = m
      /\ Offsets' = Offsets \cup {last}
      /\ \A o \in Offsets : o \in Offsets' /\ log'[o] = log[o]
  BY <1>1, <1>4, AppendGrows DEF Inv, TypeOK
<1>6. Grows
  BY <1>1, <1>5 DEF Grows
<1>7. TaskOf(w)' = t
  BY <1>1, <1>2, <1>3, <1>6, SameMessage
<1>8. \A u \in Tasks : QuietTask(u)
  BY DEF QuietInv
<1>9. ASSUME NEW u \in Tasks, u # t PROVE QuietTask(u)'
  <2>1. \A o \in Offsets' : log'[o].task = u => o \in Offsets
    BY <1>4, <1>5, <1>9
  <2> QED
    BY <1>1, <1>3, <1>6, <1>7, <1>8, <1>9, <2>1, TaskStep
<1>10. /\ HoldsClaim(w, t) /\ execs[t].status = "processing"
       /\ execs[t].attempt = Msg(w).attempt
  <2>1. HoldsClaim(w, t)
    BY <1>1, <1>3, <1>8 DEF QuietTask, WorkIsCurrent
  <2> QED
    BY <1>1, <1>3, <2>1 DEF CalmInv, ClaimsAreTrue, HoldsClaim, Busy
<1>11. LeaseRuns(t)'
  BY <1>1, <1>8 DEF QuietTask, LeaseRuns
<1>12. \A v \in Workers : pc'[v] \in Busy => v # w /\ pc[v] \in Busy /\ TaskOf(v)' = TaskOf(v)
  <2> SUFFICES ASSUME NEW v \in Workers, pc'[v] \in Busy
               PROVE  v # w /\ pc[v] \in Busy /\ TaskOf(v)' = TaskOf(v)
    OBVIOUS
  <2>1. v # w /\ pc[v] = pc'[v]
    BY <1>1 DEF Busy, Inv, TypeOK
  <2>2. InHand(pc[v])
    BY <2>1, HandlingInHand DEF Busy
  <2> QED
    BY <1>1, <1>6, <2>1, <2>2, SameMessage
<1>13. WorkIsCurrent(t)'
  <2>1. \A v \in Workers : pc'[v] \in Busy => TaskOf(v)' # t
    BY <1>8, <1>10, <1>12, HolderAlone
  <2> QED
    BY <2>1 DEF WorkIsCurrent
<1>14. RetryIsNext(t)'
  <2>1. NoneBeyond(t, execs[t].attempt + 1)
    BY <1>8, <1>10 DEF QuietTask, RetryIsNext
  <2>2. ASSUME NEW o \in Offsets', log'[o].task = t
        PROVE  log'[o].attempt <= execs[t].attempt + 1
    <3>1. CASE o \in Offsets
      BY <1>5, <2>1, <2>2, <3>1 DEF NoneBeyond
    <3>2. CASE o = last
      BY <1>2, <1>4, <1>5, <1>10, <3>2
    <3> QED
      BY <1>5, <3>1, <3>2
  <2> QED
    BY <1>1, <1>10, <2>2 DEF RetryIsNext, NoneBeyond
<1>15. EndsOnce(t)'
  <2>1. completed'[t] = 0 /\ dlqItems'[t] = 0
    BY <1>1, <1>8, <1>10, HolderAlone
  <2> QED
    BY <2>1 DEF EndsOnce
<1> QED
  BY <1>9, <1>11, <1>13, <1>14, <1>15 DEF QuietInv, QuietTask

\* A claim is for the latest attempt, of a task nobody is at work on.
LEMMA ClaimRowQuiet ==
  ASSUME Inv, CalmInv, QuietInv, NEW w \in Workers, pc[w] = "received",
         NEW t \in Tasks, TaskOf(w) = t, ShouldProcess(execs[t], Msg(w)),
         ClaimRow(w), pc' = [pc EXCEPT ![w] = "collect"],
         UNCHANGED <<now, log, outputs, at>>
  PROVE  QuietInv'
<1> DEFINE row == [status |-> "processing", attempt |-> Msg(w).attempt,
                   claimId |-> claims + 1, lockedUntil |-> now + ClaimTTL]
<1>1. /\ execs' = [execs EXCEPT ![t] = row]
      /\ claimOf' = [claimOf EXCEPT ![w] = claims + 1]
  BY DEF ClaimRow
<1>2. /\ row.status = "processing" /\ row.attempt = Msg(w).attempt
      /\ row.claimId = claims + 1 /\ row.lockedUntil = now + ClaimTTL
  OBVIOUS
<1> HIDE DEF row
<1>3. /\ execs'[t] = row /\ \A u \in Tasks \ {t} : execs'[u] = execs[u]
      /\ claimOf'[w] = claims + 1 /\ pc'[w] = "collect"
      /\ \A v \in Workers \ {w} : claimOf'[v] = claimOf[v] /\ pc'[v] = pc[v]
  BY <1>1 DEF Inv, TypeOK
<1>4. /\ Grows /\ Offsets' = Offsets /\ completed' = completed /\ dlqItems' = dlqItems
      /\ \A v \in Workers : Msg(v)' = Msg(v) /\ TaskOf(v)' = TaskOf(v)
  BY SameGrows DEF Offsets, Msg, TaskOf, outputs
<1>5. \A u \in Tasks : QuietTask(u)
  BY DEF QuietInv
<1>6. ASSUME NEW u \in Tasks, u # t PROVE QuietTask(u)'
  BY <1>1, <1>3, <1>4, <1>5, <1>6, TaskStep
<1>7. Msg(w) \in Message /\ Msg(w).attempt \in Nat /\ at[w] \in Offsets
  <2>1. InHand(pc[w])
    BY DEF InHand
  <2> QED
    BY <2>1, Working DEF Message
<1>8. /\ now \in Nat /\ execs[t].lockedUntil \in Nat /\ execs[t].attempt \in Nat
      /\ execs[t].status \in Statuses
      /\ \A o \in Offsets : log[o].attempt \in Nat
  <2>1. execs[t] \in Exec /\ \A o \in Offsets : log[o] \in Message
    BY ElementOfSeq DEF Inv, TypeOK, Offsets
  <2> QED
    BY <2>1 DEF Inv, TypeOK, Exec, Message
<1>9. \/ execs[t].status = "none"
      \/ /\ execs[t].status \in {"processing", "failed"}
         /\ Msg(w).attempt > execs[t].attempt
  <2>1. execs[t].status = "processing" => ~(execs[t].lockedUntil <= now)
    BY <1>5, <1>8 DEF QuietTask, LeaseRuns
  <2>2. \/ execs[t].status = "none"
        \/ /\ execs[t].status = "processing"
           /\ Msg(w).attempt > execs[t].attempt \/ execs[t].lockedUntil <= now
        \/ execs[t].status = "failed" /\ Msg(w).attempt > execs[t].attempt
    BY Zenon DEF ShouldProcess
  <2> QED
    BY <2>1, <2>2
<1>10. NoneBeyond(t, Msg(w).attempt)
  <2>1. CASE execs[t].status = "none"
    BY <1>5, <1>7, <1>8, <2>1 DEF QuietTask, RetryIsNext, NoneBeyond
  <2>2. CASE /\ execs[t].status \in {"processing", "failed"}
             /\ Msg(w).attempt > execs[t].attempt
    <3>1. NoneBeyond(t, execs[t].attempt + 1)
      BY <1>5, <2>2 DEF QuietTask, RetryIsNext
    <3>2. execs[t].attempt + 1 <= Msg(w).attempt
      BY <1>7, <1>8, <2>2
    <3> QED
      BY <1>7, <1>8, <3>1, <3>2 DEF NoneBeyond
  <2> QED
    BY <1>9, <2>1, <2>2
<1>11. ASSUME NEW v \in Workers, pc[v] \in Busy PROVE TaskOf(v) # t
  <2> SUFFICES ASSUME TaskOf(v) = t PROVE FALSE
    OBVIOUS
  <2>1. HoldsClaim(v, t) /\ NoneBeyond(t, execs[t].attempt)
    BY <1>5, <1>11 DEF QuietTask, WorkIsCurrent
  <2>2. Msg(w).attempt <= execs[t].attempt
    BY <1>7, <2>1 DEF NoneBeyond, TaskOf, Msg
  <2> QED
    BY <1>7, <1>8, <1>9, <2>1, <2>2 DEF HoldsClaim
<1>12. LeaseRuns(t)'
  BY <1>2, <1>3, <1>8, JobWorkerAssumption DEF LeaseRuns
<1>13. WorkIsCurrent(t)'
  <2>1. ASSUME NEW v \in Workers, pc'[v] \in Busy, TaskOf(v)' = t PROVE v = w
    BY <1>3, <1>4, <1>11, <2>1
  <2>2. HoldsClaim(w, t)'
    BY <1>2, <1>3 DEF HoldsClaim
  <2>3. NoneBeyond(t, execs[t].attempt)'
    BY <1>2, <1>3, <1>4, <1>10 DEF NoneBeyond
  <2> QED
    BY <2>1, <2>2, <2>3 DEF WorkIsCurrent
<1>14. RetryIsNext(t)'
  <2>1. NoneBeyond(t, Msg(w).attempt + 1)
    BY <1>7, <1>8, <1>10 DEF NoneBeyond
  <2> QED
    BY <1>2, <1>3, <1>4, <2>1 DEF RetryIsNext, NoneBeyond
<1>15. EndsOnce(t)'
  <2>1. execs[t].status \notin Terminal
    BY <1>9 DEF Terminal
  <2>2. \A v \in Workers : pc[v] \in Ending => ~Handles(v, t)
    BY <1>11 DEF Handles, Ending, Busy, Handling
  <2>3. ~(completed[t] + dlqItems[t] > 0)
    BY <1>5, <2>1, <2>2 DEF QuietTask, EndsOnce
  <2>4. completed[t] \in Nat /\ dlqItems[t] \in Nat
    BY DEF Inv, TypeOK
  <2>5. completed'[t] + dlqItems'[t] = 0
    BY <1>4, <2>3, <2>4
  <2> QED
    BY <2>5 DEF EndsOnce
<1> QED
  BY <1>6, <1>12, <1>13, <1>14, <1>15 DEF QuietInv, QuietTask

LEMMA ClaimQuiet ==
  ASSUME Inv, CalmInv, QuietInv, Quiet, NEW w \in Workers, Claim(w)
  PROVE  QuietInv'
<1>1. /\ pc[w] = "received" /\ UNCHANGED <<now, log, outputs, at>> /\ ~May("db")
  BY DEF Claim, topic, Quiet, May
<1>2. TaskOf(w) \in Tasks
  BY <1>1, Working DEF InHand
<1>3. CASE /\ ShouldProcess(execs[TaskOf(w)], Msg(w))
           /\ ClaimRow(w) /\ Goto(w, "collect")
  BY <1>1, <1>2, <1>3, ClaimRowQuiet DEF Goto
<1>4. CASE Goto(w, "commit") /\ UNCHANGED <<table, claimOf>>
  <2>1. /\ pc' = [pc EXCEPT ![w] = "commit"] /\ execs' = execs /\ claimOf' = claimOf
        /\ "received" \notin Ending /\ "commit" \notin Busy
    BY <1>4 DEF Goto, table, Ending, Busy, Handling
  <2> QED
    BY <1>1, <2>1, MoveQuiet
<1> QED
  BY <1>1, <1>3, <1>4 DEF Claim

\* The worker that holds the claim of t marks what it has announced.
LEMMA MarkHeldQuiet ==
  ASSUME Inv, CalmInv, QuietInv, NEW w \in Workers, pc[w] \in Handling,
         NEW t \in Tasks, TaskOf(w) = t, HoldsClaim(w, t),
         NEW status \in {"succeeded", "failed", "dlq"}, NEW attempt,
         status = "failed" => pc[w] = "markFailed" /\ attempt = Msg(w).attempt,
         execs' = [execs EXCEPT ![t] =
           [status |-> status, attempt |-> attempt, claimId |-> 0, lockedUntil |-> 0]],
         pc' = [pc EXCEPT ![w] = "commit"],
         UNCHANGED <<now, log, claimOf, at, outputs>>
  PROVE  QuietInv'
<1> DEFINE row == [status |-> status, attempt |-> attempt, claimId |-> 0, lockedUntil |-> 0]
<1>1. row.status = status /\ row.attempt = attempt
  OBVIOUS
<1>2. /\ execs'[t] = row /\ \A u \in Tasks \ {t} : execs'[u] = execs[u]
      /\ pc'[w] = "commit" /\ \A v \in Workers \ {w} : pc'[v] = pc[v]
  BY DEF Inv, TypeOK
<1> HIDE DEF row
<1>3. /\ Grows /\ Offsets' = Offsets /\ completed' = completed /\ dlqItems' = dlqItems
      /\ \A v \in Workers : TaskOf(v)' = TaskOf(v)
  BY SameGrows DEF Offsets, Msg, TaskOf, outputs
<1>4. \A u \in Tasks : QuietTask(u)
  BY DEF QuietInv
<1>5. ASSUME NEW u \in Tasks, u # t PROVE QuietTask(u)'
  BY <1>2, <1>3, <1>4, <1>5, TaskStep
<1>6. LeaseRuns(t)'
  BY <1>1, <1>2 DEF LeaseRuns
<1>7. WorkIsCurrent(t)'
  <2>1. "commit" \notin Busy
    BY DEF Busy, Handling
  <2>2. \A v \in Workers : pc'[v] \in Busy => TaskOf(v)' # t
    BY <1>2, <1>3, <1>4, <2>1, HolderAlone
  <2> QED
    BY <2>2 DEF WorkIsCurrent
<1>8. RetryIsNext(t)'
  <2>1. ASSUME status = "failed" PROVE NoneBeyond(t, attempt + 1)
    <3>1. attempt = execs[t].attempt
      BY <2>1 DEF CalmInv, ClaimsAreTrue
    <3>2. execs[t].status = "processing"
      BY DEF HoldsClaim
    <3> QED
      BY <1>4, <3>1, <3>2 DEF QuietTask, RetryIsNext
  <2> QED
    BY <1>1, <1>2, <1>3, <2>1 DEF RetryIsNext, NoneBeyond
<1>9. EndsOnce(t)'
  <2>1. CASE status = "failed"
    <3>1. completed[t] = 0 /\ dlqItems[t] = 0
      BY <1>4, <2>1, HolderAlone DEF Ending
    <3> QED
      BY <1>3, <3>1 DEF EndsOnce
  <2>2. CASE status # "failed"
    <3>1. execs'[t].status \in Terminal
      BY <1>1, <1>2, <2>2 DEF Terminal
    <3> QED
      BY <1>3, <1>4, <3>1 DEF QuietTask, EndsOnce
  <2> QED
    BY <2>1, <2>2
<1> QED
  BY <1>5, <1>6, <1>7, <1>8, <1>9 DEF QuietInv, QuietTask

LEMMA MarkQuiet ==
  ASSUME Inv, CalmInv, QuietInv, Quiet, NEW w \in Workers,
         MarkSucceeded(w) \/ MarkDLQ(w) \/ MarkFailed(w)
  PROVE  QuietInv'
<1>1. PICK status \in {"succeeded", "failed", "dlq"}, attempt \in Int :
        /\ UpdateClaimed(w, status, attempt)
        /\ status = "failed" => pc[w] = "markFailed" /\ attempt = Msg(w).attempt
  <2>1. InHand(pc[w])
    BY DEF MarkSucceeded, MarkDLQ, MarkFailed, InHand
  <2>2. Msg(w).attempt \in Int
    BY <2>1, Working DEF Message
  <2>3. execs[TaskOf(w)] \in Exec
    BY <2>1, Working DEF Inv, TypeOK
  <2>4. execs[TaskOf(w)].attempt \in Int
    BY <2>3 DEF Exec
  <2> QED
    BY <2>2, <2>4 DEF MarkSucceeded, MarkDLQ, MarkFailed
<1>2. /\ pc[w] \in Handling /\ UNCHANGED <<now, log, claimOf, at, outputs>>
      /\ pc[w] \in Busy \/ (pc[w] = "markFailed" /\ pc[w] \notin Ending)
  BY DEF MarkSucceeded, MarkDLQ, MarkFailed, UpdateClaimed, Handling, Busy, Ending,
         topic, local
<1>3. TaskOf(w) \in Tasks /\ ~May("db")
  BY <1>2, HandlingInHand, Working DEF Quiet, May
<1>4. CASE HoldsClaim(w, TaskOf(w))
  <2>1. /\ execs' = [execs EXCEPT ![TaskOf(w)] =
             [status |-> status, attempt |-> attempt, claimId |-> 0, lockedUntil |-> 0]]
        /\ pc' = [pc EXCEPT ![w] = "commit"]
    BY <1>1, <1>3, <1>4 DEF UpdateClaimed, Goto
  <2> QED
    BY <1>1, <1>2, <1>3, <1>4, <2>1, MarkHeldQuiet
<1>5. CASE ~HoldsClaim(w, TaskOf(w))
  <2>1. pc[w] \notin Ending
    BY <1>2, <1>3, <1>5 DEF QuietInv, QuietTask, WorkIsCurrent
  <2>2. pc' = [pc EXCEPT ![w] = "poll"] /\ execs' = execs /\ "poll" \notin Busy
    BY <1>1, <1>3, <1>5 DEF UpdateClaimed, Skip, Goto, Busy, Handling
  <2> QED
    BY <1>2, <2>1, <2>2, MoveQuiet
<1> QED
  BY <1>4, <1>5

LEMMA NextQuiet ==
  ASSUME Inv, CalmInv, QuietInv, Quiet, [Next]_vars
  PROVE  QuietInv'
<1>1. ASSUME NEW t \in Tasks, Deliver(t) PROVE QuietInv'
  BY <1>1, DeliverQuiet
<1>2. ASSUME NEW w \in Workers, Run(w) PROVE QuietInv'
  <2>1. CASE HandleMessage(w)
    BY <2>1, ClaimQuiet, WorkQuiet, OutputQuiet, WriteRetryQuiet, MarkQuiet
       DEF HandleMessage
  <2> QED
    BY <1>2, <2>1, GroupQuiet DEF Run
<1>3. ASSUME NEW w \in Workers, Crash(w) \/ Restart(w) PROVE QuietInv'
  <2>1. ~Crash(w)
    BY DEF Crash, Quiet, May
  <2> QED
    BY <1>3, <2>1, GroupQuiet
<1>4. ASSUME UNCHANGED vars PROVE QuietInv'
  <2>1. UNCHANGED <<now, log, execs, pc, at, claimOf, outputs, completed, dlqItems>>
    BY <1>4 DEF vars, topic, table, local, outputs
  <2> QED
    BY <2>1, SameGrows, StillQuiet DEF Offsets
<1> QED
  BY <1>1, <1>2, <1>3, <1>4, AssignQuiet, TickQuiet DEF Next

\* However often the outbox delivers a message and however the partition is
\* moved, a task is completed or dead-lettered once as long as no call fails, no
\* process dies and no work outlasts its lease (Claim, job_execution.go).
THEOREM TasksEndOnce == Spec => []EndsOnceWithoutFaults
<1> DEFINE AllInv == Quiet => CalmInv /\ QuietInv
<1>1. Init => AllInv
  BY CalmInvInit, QuietInvInit
<1>2. Inv /\ AllInv /\ [Next]_vars => AllInv'
  <2> SUFFICES ASSUME Inv, AllInv, [Next]_vars, Quiet' PROVE CalmInv' /\ QuietInv'
    OBVIOUS
  <2>1. Quiet
    BY FaultsStay DEF Quiet
  <2>2. Calm
    BY <2>1 DEF Quiet, Calm
  <2> QED
    BY <2>1, <2>2, NextCalm, NextQuiet
<1>3. AllInv => EndsOnceWithoutFaults
  BY DEF Quiet, QuietInv, QuietTask, EndsOnce, EndsOnceWithoutFaults
<1> QED
  BY <1>1, <1>2, <1>3, Invariance, PTL DEF Spec
=============================================================================
