------------------------- MODULE SummaryQueueProofs -------------------------
(***************************************************************************)
(* The safety properties of SummaryQueue for every number of requesters,   *)
(* workers, articles, attempts, requests and faults.                       *)
(*                                                                         *)
(* A row that can be claimed, or was answered, is a token: every request   *)
(* adds at most one, a claim turns it into a worker and a worker turns     *)
(* itself into at most one token again.  Tokens and workers together are   *)
(* never more than the requests.                                           *)
(***************************************************************************)
EXTENDS SummaryQueue, FiniteSetTheorems, TLAPS

Tokens(a) == IF rows[a].status \in Waiting \cup {"succeeded"} THEN 1 ELSE 0

\* Claims and requests at work name an article.
PlacesAgree ==
  /\ \A w \in Workers : wpc[w] = "idle" <=> job[w] = Nothing
  /\ \A r \in Requesters : rpc[r] = "enqueue" => wanted[r].article \in Articles

Balanced(a) == Cardinality(WorkersOn(a)) + Tokens(a) <= asked[a]

\* The attempts left to a row are part of its budget.
Budgeted(a) ==
  claimed[a] + (MaxAttempts - rows[a].attempts) <= MaxAttempts * (1 + renewed[a])

Held(a) ==
  rows[a].status = "processing" /\ WorkersOn(a) = {} => faults > 0 \/ a \in deleted

Sound(a) == Balanced(a) /\ Budgeted(a) /\ Held(a)

IInv ==
  /\ TypeOK
  /\ PlacesAgree
  /\ \A a \in Articles : Sound(a)

-----------------------------------------------------------------------------
(* Sets of workers.                                                        *)

LEMMA WorkersFinite ==
  ASSUME NEW a \in Articles
  PROVE  IsFiniteSet(WorkersOn(a)) /\ Cardinality(WorkersOn(a)) \in Nat
<1>1. WorkersOn(a) \subseteq Workers
  BY DEF WorkersOn
<1>2. IsFiniteSet(WorkersOn(a))
  BY <1>1, FS_Subset, SummaryAssumption DEF SummaryAssumption
<1> QED
  BY <1>2, FS_CardinalityType

\* A worker that claims a joins those at it, and only those.
LEMMA Joining ==
  ASSUME NEW w \in Workers, NEW a \in Articles,
         job \in [Workers -> Articles \cup {Nothing}],
         job[w] = Nothing, job' = [job EXCEPT ![w] = a]
  PROVE  /\ Cardinality(WorkersOn(a)') = Cardinality(WorkersOn(a)) + 1
         /\ w \in WorkersOn(a)'
         /\ \A b \in Articles : b # a => WorkersOn(b)' = WorkersOn(b)
<1>1. WorkersOn(a)' = WorkersOn(a) \cup {w}
  BY DEF WorkersOn
<1>2. w \notin WorkersOn(a)
  BY SummaryAssumption DEF WorkersOn, SummaryAssumption
<1>3. Cardinality(WorkersOn(a) \cup {w}) = Cardinality(WorkersOn(a)) + 1
  BY <1>2, WorkersFinite, FS_AddElement
<1>4. \A b \in Articles : b # a => WorkersOn(b)' = WorkersOn(b)
  BY SummaryAssumption DEF WorkersOn, SummaryAssumption
<1> QED
  BY <1>1, <1>3, <1>4

\* A worker that is done leaves those at its article, and only those.
LEMMA Leaving ==
  ASSUME NEW w \in Workers, NEW a \in Articles,
         job \in [Workers -> Articles \cup {Nothing}],
         job[w] = a, job' = [job EXCEPT ![w] = Nothing]
  PROVE  /\ Cardinality(WorkersOn(a)') = Cardinality(WorkersOn(a)) - 1
         /\ \A b \in Articles : b # a => WorkersOn(b)' = WorkersOn(b)
<1>1. WorkersOn(a)' = WorkersOn(a) \ {w}
  BY SummaryAssumption DEF WorkersOn, SummaryAssumption
<1>2. w \in WorkersOn(a)
  BY DEF WorkersOn
<1>3. Cardinality(WorkersOn(a) \ {w}) = Cardinality(WorkersOn(a)) - 1
  BY <1>2, WorkersFinite, FS_RemoveElement
<1>4. \A b \in Articles : b # a => WorkersOn(b)' = WorkersOn(b)
  BY SummaryAssumption DEF WorkersOn, SummaryAssumption
<1> QED
  BY <1>1, <1>3, <1>4

-----------------------------------------------------------------------------
(* Types and places.                                                       *)

LEMMA InitIInv == Init => IInv
<1> SUFFICES ASSUME Init PROVE IInv
  OBVIOUS
<1> USE SummaryAssumption DEF SummaryAssumption
<1>1. TypeOK
  BY DEF Init, TypeOK, NoRow, Row, Statuses, Waiting
<1>2. PlacesAgree
  BY DEF Init, PlacesAgree
<1>3. ASSUME NEW a \in Articles
      PROVE  Cardinality(WorkersOn(a)) + Tokens(a) <= asked[a]
  <2>1. WorkersOn(a) = {}
    BY DEF Init, WorkersOn
  <2>2. Tokens(a) = 0 /\ asked[a] = 0
    BY DEF Init, Tokens, NoRow, Waiting
  <2> QED
    BY <2>1, <2>2, FS_EmptySet
<1>4. \A a \in Articles : Budgeted(a)
  BY DEF Init, Budgeted, NoRow
<1>5. \A a \in Articles : Held(a)
  BY DEF Init, Held, NoRow
<1> QED
  BY <1>1, <1>2, <1>3, <1>4, <1>5 DEF IInv, Sound, Balanced

LEMMA DelayIsInt == ASSUME NEW n \in Nat PROVE Delay(n) \in Int
  BY SummaryAssumption DEF Delay, SummaryAssumption

\* The row of one article is replaced by another row.
LEMMA ReopenIsRow ==
  ASSUME NEW row \in Row, NEW regenerate \in BOOLEAN
  PROVE  /\ Reopen(row, regenerate) \in Row
         /\ Reopen(row, regenerate).status = "pending"
         /\ Reopen(row, regenerate).attempts =
              IF regenerate THEN 0 ELSE row.attempts
<1> DEFINE pending == [row EXCEPT !.status = "pending"]
           kept == [pending EXCEPT !.wait = 0]
           renewedRow == [kept EXCEPT !.attempts = 0]
           fresh == [renewedRow EXCEPT !.text = FALSE]
<1>1. pending \in Row /\ pending.status = "pending" /\ pending.attempts = row.attempts
  BY DEF Row, Statuses, Waiting
<1>2. Reopen(row, regenerate) = IF regenerate THEN fresh ELSE kept
  BY DEF Reopen
<1> HIDE DEF pending
<1>3. kept \in Row /\ kept.status = "pending" /\ kept.attempts = row.attempts
  BY <1>1 DEF Row
<1> HIDE DEF kept
<1>4. renewedRow \in Row /\ renewedRow.status = "pending" /\ renewedRow.attempts = 0
  BY <1>3, SummaryAssumption DEF Row, SummaryAssumption
<1> HIDE DEF renewedRow
<1>5. fresh \in Row /\ fresh.status = "pending" /\ fresh.attempts = 0
  BY <1>4 DEF Row
<1> HIDE DEF fresh
<1> QED
  BY <1>2, <1>3, <1>5, Zenon

LEMMA RequestTypes ==
  ASSUME TypeOK, PlacesAgree, NEW r \in Requesters, Request(r)
  PROVE  TypeOK' /\ PlacesAgree'
<1> USE DEF Returns, rvars, wvars, counts
<1>1. ASSUME NEW a \in Articles, NEW regenerate \in BOOLEAN, Ask(r, a, regenerate)
      PROVE  TypeOK' /\ PlacesAgree'
  BY <1>1 DEF Ask, TypeOK, PlacesAgree
<1>2. ASSUME EnqueueSummary(r)
      PROVE  TypeOK' /\ PlacesAgree'
  <2> DEFINE a == wanted[r].article
             regenerate == wanted[r].regenerate
  <2>1. a \in Articles /\ regenerate \in BOOLEAN /\ rows[a] \in Row
    BY <1>2 DEF EnqueueSummary, PlacesAgree, TypeOK
  <2>2. Reopen(rows[a], regenerate) \in Row
    BY <2>1, ReopenIsRow
  <2>3. rows' = [rows EXCEPT ![a] = Reopen(rows[a], regenerate)]
    BY <1>2 DEF EnqueueSummary
  <2>4. rows' \in [Articles -> Row]
    BY <2>1, <2>2, <2>3 DEF TypeOK
  <2>5. asked' \in [Articles -> 0..MaxRequests] /\ renewed' \in [Articles -> Nat]
    BY <1>2, <2>1, SummaryAssumption DEF EnqueueSummary, TypeOK, SummaryAssumption
  <2>6. /\ rpc' \in [Requesters -> {"idle", "enqueue"}]
        /\ wanted' \in
             [Requesters -> [article : Articles \cup {Nothing}, regenerate : BOOLEAN]]
        /\ PlacesAgree'
    BY <1>2 DEF EnqueueSummary, TypeOK, PlacesAgree
  <2> QED
    BY <1>2, <2>4, <2>5, <2>6 DEF EnqueueSummary, TypeOK
<1>3. ASSUME RequestFails(r)
      PROVE  TypeOK' /\ PlacesAgree'
  BY <1>3 DEF RequestFails, TypeOK, PlacesAgree
<1> QED
  BY <1>1, <1>2, <1>3 DEF Request

\* What a worker at an article knows of its variables.
LEMMA AtWork ==
  ASSUME TypeOK, PlacesAgree, NEW w \in Workers, wpc[w] # "idle"
  PROVE  job[w] \in Articles /\ rows[job[w]] \in Row
  BY DEF TypeOK, PlacesAgree

\* A worker that returns leaves a well-typed state.
LEMMA IdleTypes ==
  ASSUME TypeOK, PlacesAgree, NEW w \in Workers, Idle(w)
  PROVE  /\ wpc' \in [Workers -> {"idle", "find", "summarize", "complete", "fail"}]
         /\ job' \in [Workers -> Articles \cup {Nothing}]
         /\ seen' \in [Workers -> 0..MaxAttempts]
         /\ \A v \in Workers : wpc'[v] = "idle" <=> job'[v] = Nothing
  BY SummaryAssumption DEF Idle, TypeOK, PlacesAgree, SummaryAssumption

LEMMA ClaimTypes ==
  ASSUME TypeOK, PlacesAgree, NEW w \in Workers, NEW a \in Articles,
         wpc[w] = "idle", Claimable(a),
         rows' = [rows EXCEPT ![a].status = "processing", ![a].attempts = @ + 1],
         job' = [job EXCEPT ![w] = a],
         claimed' = [claimed EXCEPT ![a] = @ + 1],
         wpc' = [wpc EXCEPT ![w] = "find"],
         UNCHANGED <<deleted, rvars, seen, asked, renewed, faults>>
  PROVE  TypeOK' /\ PlacesAgree'
<1> USE SummaryAssumption DEF SummaryAssumption, rvars
<1>1. rows[a] \in Row /\ rows[a].attempts + 1 \in 0..MaxAttempts
  BY DEF TypeOK, Row, Claimable
<1>2. rows' \in [Articles -> Row]
  BY <1>1 DEF TypeOK, Row, Statuses, Waiting
<1>3. job' \in [Workers -> Articles \cup {Nothing}] /\ claimed' \in [Articles -> Nat]
  BY DEF TypeOK
<1>4. PlacesAgree'
  BY DEF TypeOK, PlacesAgree
<1> QED
  BY <1>2, <1>3, <1>4 DEF TypeOK

LEMMA WorkerTypes ==
  ASSUME TypeOK, PlacesAgree, NEW w \in Workers, Process(w) \/ Abandon(w)
  PROVE  TypeOK' /\ PlacesAgree'
<1> USE DEF rvars, wvars, counts
<1>1. ASSUME ClaimNextSummary(w) PROVE TypeOK' /\ PlacesAgree'
  BY <1>1, ClaimTypes DEF ClaimNextSummary
<1>2. ASSUME FindSummary(w) PROVE TypeOK' /\ PlacesAgree'
  <2>1. CASE job[w] \in deleted /\ Idle(w)
    BY <1>2, <2>1, IdleTypes DEF FindSummary, TypeOK, PlacesAgree
  <2>2. CASE /\ job[w] \notin deleted
             /\ seen' = [seen EXCEPT ![w] = rows[job[w]].attempts]
             /\ wpc' = [wpc EXCEPT ![w] = "summarize"]
             /\ UNCHANGED job
    <3>1. rows[job[w]].attempts \in 0..MaxAttempts
      BY <1>2, AtWork DEF FindSummary, Row
    <3> QED
      BY <1>2, <2>2, <3>1 DEF FindSummary, TypeOK, PlacesAgree
  <2> QED
    BY <1>2, <2>1, <2>2 DEF FindSummary
<1>3. ASSUME Summarize(w) PROVE TypeOK' /\ PlacesAgree'
  BY <1>3 DEF Summarize, TypeOK, PlacesAgree
<1>4. ASSUME CompleteSummary(w) PROVE TypeOK' /\ PlacesAgree'
  <2>1. rows' \in [Articles -> Row]
    BY <1>4, AtWork DEF CompleteSummary, TypeOK, Row, Statuses
  <2> QED
    BY <1>4, <2>1, IdleTypes DEF CompleteSummary, TypeOK, PlacesAgree
<1>5. ASSUME FailSummary(w) PROVE TypeOK' /\ PlacesAgree'
  <2>1. Delay(seen[w]) \in Int
    BY DelayIsInt DEF TypeOK
  <2>2. FailedRow(w) \in Row
    BY <1>5, <2>1, AtWork DEF FailSummary, FailedRow, Row, Statuses, Waiting
  <2>3. rows' \in [Articles -> Row]
    BY <1>5, <2>2 DEF FailSummary, TypeOK
  <2> QED
    BY <1>5, <2>3, IdleTypes DEF FailSummary, TypeOK, PlacesAgree
<1>6. ASSUME Abandon(w) PROVE TypeOK' /\ PlacesAgree'
  BY <1>6, IdleTypes DEF Abandon, TypeOK, PlacesAgree
<1> QED
  BY <1>1, <1>2, <1>3, <1>4, <1>5, <1>6 DEF Process

\* Time changes nothing but next_attempt_at.
LEMMA TickRows ==
  ASSUME TypeOK, Tick
  PROVE  /\ rows' \in [Articles -> Row]
         /\ \A a \in Articles : /\ rows'[a].status = rows[a].status
                                /\ rows'[a].attempts = rows[a].attempts
<1>1. \A a \in Articles : rows[a] \in Row
  BY DEF TypeOK
<1>2. \A a \in Articles :
        rows'[a] = [rows[a] EXCEPT !.wait = IF @ > -MaxLate THEN @ - 1 ELSE @]
  BY DEF Tick
<1>3. \A a \in Articles : /\ rows'[a] \in Row
                          /\ rows'[a].status = rows[a].status
                          /\ rows'[a].attempts = rows[a].attempts
  <2> TAKE a \in Articles
  <2>1. CASE rows[a].wait > -MaxLate
    <3>1. rows'[a] = [rows[a] EXCEPT !.wait = rows[a].wait - 1]
      BY <1>2, <2>1
    <3> QED
      BY <1>1, <3>1 DEF Row
  <2>2. CASE ~(rows[a].wait > -MaxLate)
    BY <1>1, <1>2, <2>2 DEF Row
  <2> QED
    BY <2>1, <2>2
<1> QED
  BY <1>3 DEF Tick

-----------------------------------------------------------------------------
(* What a step does to the requests, claims and workers of an article.     *)

\* Nothing that counts changes for article a.
Same(a) ==
  /\ rows'[a].status = rows[a].status
  /\ rows'[a].attempts = rows[a].attempts
  /\ WorkersOn(a)' = WorkersOn(a)
  /\ asked'[a] = asked[a]
  /\ renewed'[a] = renewed[a]
  /\ claimed'[a] = claimed[a]

LEMMA SameKeeps ==
  ASSUME NEW a \in Articles, Sound(a), Same(a),
         faults \in Nat, faults' \in Nat, faults <= faults', deleted \subseteq deleted'
  PROVE  Sound(a)'
<1>1. Balanced(a)'
  BY DEF Sound, Balanced, Same, Tokens
<1>2. Budgeted(a)'
  BY DEF Sound, Budgeted, Same
<1>3. Held(a)'
  BY DEF Sound, Held, Same
<1> QED
  BY <1>1, <1>2, <1>3 DEF Sound

\* Cardinalities and counters are naturals.
LEMMA Numbers ==
  ASSUME TypeOK, NEW a \in Articles
  PROVE  /\ asked[a] \in Nat /\ renewed[a] \in Nat /\ claimed[a] \in Nat
         /\ rows[a] \in Row /\ rows[a].attempts \in 0..MaxAttempts
         /\ Tokens(a) \in {0, 1}
         /\ Cardinality(WorkersOn(a)) \in Nat
         /\ MaxAttempts \in Nat
  BY WorkersFinite, SummaryAssumption DEF TypeOK, Row, Tokens, SummaryAssumption

\* MaxAttempts more for one regeneration more.
LEMMA OneMore ==
  ASSUME NEW n \in Nat, NEW m \in Nat
  PROVE  m * (1 + (n + 1)) = m * (1 + n) + m /\ m * (1 + n) \in Nat
  OBVIOUS

LEMMA EnqueueSound ==
  ASSUME IInv, NEW r \in Requesters, EnqueueSummary(r), TypeOK'
  PROVE  \A b \in Articles : Sound(b)'
<1>0. PICK a \in Articles, regenerate \in BOOLEAN :
        a = wanted[r].article /\ regenerate = wanted[r].regenerate
  BY DEF IInv, EnqueueSummary, PlacesAgree, TypeOK
<1>1. a \in Articles /\ regenerate \in BOOLEAN
  OBVIOUS
<1>2. /\ rows[a] \in Row
      /\ rows' = [rows EXCEPT ![a] = Reopen(rows[a], regenerate)]
      /\ rows \in [Articles -> Row]
      /\ asked' = [asked EXCEPT ![a] = asked[a] + 1]
      /\ asked \in [Articles -> 0..MaxRequests]
      /\ renewed' = [renewed EXCEPT ![a] = IF regenerate THEN renewed[a] + 1 ELSE renewed[a]]
      /\ renewed \in [Articles -> Nat]
      /\ UNCHANGED <<deleted, job, claimed, faults>>
  BY <1>0 DEF IInv, EnqueueSummary, TypeOK, wvars
<1>3. /\ rows'[a].status = "pending"
      /\ rows'[a].attempts = IF regenerate THEN 0 ELSE rows[a].attempts
  BY <1>1, <1>2, ReopenIsRow
<1>4. \A b \in Articles : WorkersOn(b)' = WorkersOn(b)
  BY <1>2 DEF WorkersOn
<1>5. Sound(a)'
  <2>1. Sound(a)
    BY <1>1 DEF IInv
  <2>2. Balanced(a)'
    <3>1. Tokens(a)' <= 1 /\ Tokens(a)' \in Nat /\ Tokens(a) \in Nat
      BY DEF Tokens
    <3>2. asked'[a] = asked[a] + 1
      BY <1>1, <1>2
    <3>3. Cardinality(WorkersOn(a))' = Cardinality(WorkersOn(a))
      BY <1>1, <1>4
    <3> QED
      BY <1>1, <2>1, <3>1, <3>2, <3>3, Numbers DEF IInv, Sound, Balanced
  <2>3. Budgeted(a)'
    <3>1. CASE regenerate
      <4>1. renewed'[a] = renewed[a] + 1 /\ rows'[a].attempts = 0 /\ claimed'[a] = claimed[a]
        BY <1>1, <1>2, <1>3, <3>1
      <4>2. MaxAttempts * (1 + renewed'[a]) = MaxAttempts * (1 + renewed[a]) + MaxAttempts
        BY <1>1, <4>1, OneMore, Numbers DEF IInv
      <4>3. MaxAttempts * (1 + renewed[a]) \in Nat
        BY <1>1, OneMore, Numbers DEF IInv
      <4> DEFINE budget == MaxAttempts * (1 + renewed[a])
      <4>4. claimed[a] + (MaxAttempts - rows[a].attempts) <= budget
        BY <2>1 DEF Sound, Budgeted
      <4> HIDE DEF budget
      <4>5. claimed[a] + (MaxAttempts - 0) <= budget + MaxAttempts
        BY <1>1, <4>3, <4>4, Numbers DEF IInv, budget
      <4> QED
        BY <4>1, <4>2, <4>5 DEF Budgeted, budget
    <3>2. CASE ~regenerate
      <4>1. renewed'[a] = renewed[a] /\ rows'[a].attempts = rows[a].attempts
            /\ claimed'[a] = claimed[a]
        BY <1>1, <1>2, <1>3, <3>2
      <4> QED
        BY <2>1, <4>1 DEF Sound, Budgeted
    <3> QED
      BY <3>1, <3>2
  <2>4. Held(a)'
    BY <1>3 DEF Held
  <2> QED
    BY <2>2, <2>3, <2>4 DEF Sound
<1>6. ASSUME NEW b \in Articles, b # a PROVE Sound(b)'
  <2>1. Same(b)
    BY <1>1, <1>2, <1>4, <1>6 DEF Same
  <2> QED
    BY <1>2, <2>1, SameKeeps DEF IInv, TypeOK
<1> QED
  BY <1>5, <1>6

LEMMA ClaimSound ==
  ASSUME IInv, NEW w \in Workers, ClaimNextSummary(w)
  PROVE  \A b \in Articles : Sound(b)'
<1>1. PICK a \in Articles :
        /\ Claimable(a)
        /\ rows' = [rows EXCEPT ![a].status = "processing", ![a].attempts = @ + 1]
        /\ job' = [job EXCEPT ![w] = a]
        /\ claimed' = [claimed EXCEPT ![a] = @ + 1]
  BY DEF ClaimNextSummary
<1>2. /\ wpc[w] = "idle" /\ UNCHANGED <<asked, renewed, faults, deleted>>
      /\ TypeOK /\ PlacesAgree /\ Sound(a)
  BY DEF ClaimNextSummary, IInv
<1>3. rows'[a].status = "processing" /\ rows'[a].attempts = rows[a].attempts + 1
  <2> DEFINE mid == [rows[a] EXCEPT !.status = "processing"]
             row == [mid EXCEPT !.attempts = mid.attempts + 1]
  <2>1. rows' = [rows EXCEPT ![a] = row]
    BY <1>1
  <2>2. mid \in Row /\ mid.status = "processing" /\ mid.attempts = rows[a].attempts
    BY <1>2 DEF TypeOK, Row, Statuses
  <2> HIDE DEF mid
  <2>3. row.status = "processing" /\ row.attempts = rows[a].attempts + 1
    BY <2>2 DEF Row
  <2> HIDE DEF row
  <2> QED
    BY <1>2, <2>1, <2>3 DEF TypeOK
<1>4. claimed'[a] = claimed[a] + 1
  BY <1>1, <1>2 DEF TypeOK
<1>5. /\ Cardinality(WorkersOn(a)') = Cardinality(WorkersOn(a)) + 1
      /\ w \in WorkersOn(a)'
      /\ \A b \in Articles : b # a => WorkersOn(b)' = WorkersOn(b)
  BY <1>1, <1>2, Joining DEF TypeOK, PlacesAgree
<1>6. Balanced(a)'
  <2>1. Tokens(a) = 1
    BY <1>1 DEF Tokens, Claimable
  <2>2. Tokens(a)' = 0
    BY <1>3 DEF Tokens, Waiting
  <2> QED
    BY <1>2, <1>5, <2>1, <2>2, Numbers DEF Sound, Balanced
<1>7. Budgeted(a)'
  BY <1>2, <1>3, <1>4, Numbers DEF Sound, Budgeted
<1>8. Held(a)'
  BY <1>5 DEF Held
<1>9. ASSUME NEW b \in Articles, b # a PROVE Sound(b)'
  <2>1. Same(b)
    BY <1>1, <1>2, <1>5, <1>9 DEF Same, TypeOK
  <2> QED
    BY <1>2, <2>1, SameKeeps DEF IInv, TypeOK
<1> QED
  BY <1>6, <1>7, <1>8, <1>9 DEF Sound

\* A worker returns and leaves the row of its article waiting or answered.
LEMMA AnswerSound ==
  ASSUME IInv, NEW w \in Workers, NEW a \in Articles, NEW row,
         wpc[w] # "idle", job[w] = a,
         rows' = [rows EXCEPT ![a] = row],
         row.status \in Waiting \cup {"succeeded"}, row.attempts = rows[a].attempts,
         Idle(w), UNCHANGED <<deleted, counts>>
  PROVE  \A b \in Articles : Sound(b)'
<1>1. TypeOK /\ Sound(a) /\ rows'[a] = row
  BY DEF IInv, TypeOK
<1>2. /\ Cardinality(WorkersOn(a)') = Cardinality(WorkersOn(a)) - 1
      /\ \A b \in Articles : b # a => WorkersOn(b)' = WorkersOn(b)
  BY <1>1, Leaving DEF TypeOK, Idle
<1>3. Balanced(a)'
  <2>1. Tokens(a)' = 1
    BY <1>1 DEF Tokens
  <2> QED
    BY <1>1, <1>2, <2>1, Numbers DEF Sound, Balanced, counts
<1>4. Budgeted(a)'
  BY <1>1 DEF Sound, Budgeted, counts
<1>5. Held(a)'
  BY <1>1 DEF Held, Waiting
<1>6. ASSUME NEW b \in Articles, b # a PROVE Sound(b)'
  <2>1. Same(b)
    BY <1>1, <1>2, <1>6 DEF Same, TypeOK, counts
  <2> QED
    BY <1>1, <2>1, SameKeeps DEF IInv, TypeOK, counts
<1> QED
  BY <1>3, <1>4, <1>5, <1>6 DEF Sound

\* A worker is lost at its article, by a fault or by the deletion of the source.
LEMMA LossSound ==
  ASSUME IInv, NEW w \in Workers, wpc[w] # "idle", Idle(w),
         UNCHANGED <<rows, deleted, asked, renewed, claimed>>,
         faults' \in Nat, faults <= faults',
         faults' > 0 \/ job[w] \in deleted
  PROVE  \A b \in Articles : Sound(b)'
<1>1. PICK a \in Articles : a = job[w]
  BY AtWork DEF IInv
<1>2. TypeOK /\ Sound(a)
  BY DEF IInv
<1>3. /\ Cardinality(WorkersOn(a)') = Cardinality(WorkersOn(a)) - 1
      /\ \A b \in Articles : b # a => WorkersOn(b)' = WorkersOn(b)
  BY <1>1, <1>2, Leaving DEF TypeOK, Idle
<1>4. Balanced(a)'
  <2>1. Tokens(a)' = Tokens(a)
    BY DEF Tokens
  <2> QED
    BY <1>2, <1>3, <2>1, Numbers DEF Sound, Balanced
<1>5. Budgeted(a)'
  BY <1>2 DEF Sound, Budgeted
<1>6. Held(a)'
  BY <1>1 DEF Held
<1>7. ASSUME NEW b \in Articles, b # a PROVE Sound(b)'
  <2>1. Same(b)
    BY <1>3, <1>7 DEF Same
  <2> QED
    BY <1>2, <2>1, SameKeeps DEF IInv, TypeOK
<1> QED
  BY <1>4, <1>5, <1>6, <1>7 DEF Sound

\* The workers and the counters stay, and the rows up to next_attempt_at.
LEMMA QuietSound ==
  ASSUME IInv, UNCHANGED <<job, counts>>, deleted \subseteq deleted',
         \A a \in Articles : /\ rows'[a].status = rows[a].status
                             /\ rows'[a].attempts = rows[a].attempts
  PROVE  \A b \in Articles : Sound(b)'
<1>1. ASSUME NEW b \in Articles PROVE Sound(b)'
  <2>1. Same(b)
    BY DEF Same, WorkersOn, counts
  <2> QED
    BY <2>1, SameKeeps DEF IInv, TypeOK, counts
<1> QED
  BY <1>1

LEMMA WorkerSound ==
  ASSUME IInv, NEW w \in Workers, Process(w) \/ Abandon(w)
  PROVE  \A b \in Articles : Sound(b)'
<1>0. TypeOK /\ PlacesAgree
  BY DEF IInv
<1>1. ASSUME ClaimNextSummary(w) PROVE \A b \in Articles : Sound(b)'
  BY <1>1, ClaimSound
<1>2. ASSUME FindSummary(w) PROVE \A b \in Articles : Sound(b)'
  <2>1. CASE job[w] \in deleted /\ Idle(w)
    BY <1>0, <1>2, <2>1, LossSound DEF FindSummary, counts, TypeOK
  <2>2. CASE UNCHANGED job
    BY <1>2, <2>2, QuietSound DEF FindSummary
  <2> QED
    BY <1>2, <2>1, <2>2 DEF FindSummary
<1>3. ASSUME Summarize(w) PROVE \A b \in Articles : Sound(b)'
  BY <1>3, QuietSound DEF Summarize
<1>4. ASSUME CompleteSummary(w) PROVE \A b \in Articles : Sound(b)'
  <2>1. PICK a \in Articles : a = job[w]
    BY <1>0, <1>4, AtWork DEF CompleteSummary
  <2> DEFINE mid == [rows[a] EXCEPT !.status = "succeeded"]
             row == [mid EXCEPT !.text = TRUE]
  <2>2. rows' = [rows EXCEPT ![a] = row]
    BY <1>4, <2>1 DEF CompleteSummary
  <2>3. rows[a] \in Row
    BY <1>0 DEF TypeOK
  <2>4. mid \in Row /\ mid.status = "succeeded" /\ mid.attempts = rows[a].attempts
    BY <2>3 DEF Row, Statuses
  <2> HIDE DEF mid
  <2>5. row.status = "succeeded" /\ row.attempts = rows[a].attempts
    BY <2>4 DEF Row
  <2> HIDE DEF row
  <2> QED
    BY <1>4, <2>1, <2>2, <2>5, AnswerSound DEF CompleteSummary
<1>5. ASSUME FailSummary(w) PROVE \A b \in Articles : Sound(b)'
  <2>1. PICK a \in Articles : a = job[w]
    BY <1>0, <1>5, AtWork DEF FailSummary
  <2> DEFINE mid == [rows[a] EXCEPT !.status = "failed"]
             row == [mid EXCEPT !.wait = Delay(seen[w])]
  <2>2. rows' = [rows EXCEPT ![a] = row]
    BY <1>5, <2>1 DEF FailSummary, FailedRow
  <2>3. rows[a] \in Row
    BY <1>0 DEF TypeOK
  <2>4. mid \in Row /\ mid.status = "failed" /\ mid.attempts = rows[a].attempts
    BY <2>3 DEF Row, Statuses, Waiting
  <2> HIDE DEF mid
  <2>5. row.status = "failed" /\ row.attempts = rows[a].attempts
    BY <2>4 DEF Row
  <2> HIDE DEF row
  <2> QED
    BY <1>5, <2>1, <2>2, <2>5, AnswerSound DEF FailSummary, Waiting
<1>6. ASSUME Abandon(w) PROVE \A b \in Articles : Sound(b)'
  BY <1>0, <1>6, LossSound DEF Abandon, TypeOK
<1> QED
  BY <1>1, <1>2, <1>3, <1>4, <1>5, <1>6 DEF Process

-----------------------------------------------------------------------------
(* The theorems.                                                           *)

LEMMA StepIInv == IInv /\ [Next]_vars => IInv'
<1> SUFFICES ASSUME IInv, [Next]_vars PROVE IInv'
  OBVIOUS
<1>0. TypeOK /\ PlacesAgree
  BY DEF IInv
<1>1. ASSUME NEW r \in Requesters, Request(r) PROVE IInv'
  <2>1. TypeOK' /\ PlacesAgree'
    BY <1>0, <1>1, RequestTypes
  <2>2. ASSUME NEW a \in Articles, NEW regenerate \in BOOLEAN, Ask(r, a, regenerate)
        PROVE  \A b \in Articles : Sound(b)'
    BY <2>2, QuietSound DEF Ask, wvars
  <2>3. ASSUME RequestFails(r) PROVE \A b \in Articles : Sound(b)'
    BY <2>3, QuietSound DEF RequestFails, wvars
  <2> QED
    BY <1>1, <2>1, <2>2, <2>3, EnqueueSound DEF IInv, Request
<1>2. ASSUME NEW w \in Workers, Process(w) \/ Abandon(w) PROVE IInv'
  BY <1>0, <1>2, WorkerTypes, WorkerSound DEF IInv
<1>3. ASSUME NEW a \in Articles, DeleteSource(a) PROVE IInv'
  <2>1. TypeOK' /\ PlacesAgree'
    BY <1>0, <1>3 DEF DeleteSource, TypeOK, PlacesAgree, rvars, wvars, counts
  <2>2. \A b \in Articles : Sound(b)'
    BY <1>3, QuietSound DEF DeleteSource, wvars
  <2> QED
    BY <2>1, <2>2 DEF IInv
<1>4. CASE Tick
  <2>1. TypeOK' /\ PlacesAgree'
    BY <1>0, <1>4, TickRows DEF Tick, TypeOK, PlacesAgree, rvars, wvars, counts
  <2>2. \A b \in Articles : Sound(b)'
    BY <1>0, <1>4, TickRows, QuietSound DEF Tick, wvars
  <2> QED
    BY <2>1, <2>2 DEF IInv
<1>5. CASE UNCHANGED vars
  <2>1. TypeOK' /\ PlacesAgree'
    BY <1>0, <1>5 DEF vars, TypeOK, PlacesAgree, rvars, wvars, counts
  <2>2. \A b \in Articles : Sound(b)'
    BY <1>5, QuietSound DEF vars, wvars
  <2> QED
    BY <2>1, <2>2 DEF IInv
<1> QED
  BY <1>1, <1>2, <1>3, <1>4, <1>5 DEF Next

LEMMA IInvHolds == Spec => []IInv
  BY InitIInv, StepIInv, PTL DEF Spec

\* No worker takes a summary past its attempts, and every variable keeps its
\* domain.
THEOREM TypeCorrect == Spec => []TypeOK
<1>1. IInv => TypeOK
  BY DEF IInv
<1> QED
  BY <1>1, IInvHolds, PTL

\* EnqueueSummary is the only way to a second worker at one summary.
THEOREM WorkersBounded == Spec => []OneWorkerPerRequest
<1>1. IInv => OneWorkerPerRequest
  <2> SUFFICES ASSUME IInv, NEW a \in Articles
               PROVE  Cardinality(WorkersOn(a)) <= asked[a]
    BY DEF OneWorkerPerRequest
  <2> QED
    BY Numbers DEF IInv, Sound, Balanced
<1> QED
  BY <1>1, IInvHolds, PTL

\* The attempts of ClaimNextSummary bound the calls of the assistant for good.
THEOREM CallsBounded == Spec => []CallBudget
<1>1. IInv => CallBudget
  <2> SUFFICES ASSUME IInv, NEW a \in Articles
               PROVE  claimed[a] <= MaxAttempts * (1 + renewed[a])
    BY DEF CallBudget
  <2> DEFINE budget == MaxAttempts * (1 + renewed[a])
  <2>1. budget \in Nat
    BY OneMore, Numbers DEF IInv
  <2>2. claimed[a] + (MaxAttempts - rows[a].attempts) <= budget
    BY DEF IInv, Sound, Budgeted
  <2> HIDE DEF budget
  <2>3. claimed[a] <= budget
    BY <2>1, <2>2, Numbers DEF IInv
  <2> QED
    BY <2>3 DEF budget
<1> QED
  BY <1>1, IInvHolds, PTL

\* Results written by id alone never leave a summary in processing without a
\* worker.
THEOREM ProcessingHeld == Spec => []ProcessingIsHeld
<1>1. IInv => ProcessingIsHeld
  BY DEF IInv, Sound, Held, ProcessingIsHeld
<1> QED
  BY <1>1, IInvHolds, PTL

\* The answer of a summary requested once is final: no worker is at it.
THEOREM AnswerFinal == Spec => AnswerIsFinal
<1>1. ASSUME IInv, [Next]_vars, NEW a \in Articles,
             rows[a].status = "succeeded", asked'[a] = 1
      PROVE  rows'[a].status = "succeeded"
  <2>0. TypeOK /\ PlacesAgree
    BY <1>1 DEF IInv
  <2>1. Tokens(a) = 1 /\ Balanced(a)
    BY <1>1 DEF Tokens, IInv, Sound
  <2>2. asked[a] = 1 => WorkersOn(a) = {}
    <3>1. asked[a] = 1 => Cardinality(WorkersOn(a)) = 0
      BY <2>0, <2>1, Numbers DEF Balanced
    <3> QED
      BY <3>1, WorkersFinite, FS_EmptySet
  <2>3. asked[a] >= 1
    BY <2>0, <2>1, Numbers DEF Balanced
  <2>4. ASSUME NEW r \in Requesters, Request(r) PROVE rows'[a].status = "succeeded"
    <3>1. ASSUME EnqueueSummary(r) PROVE rows'[a].status = "succeeded"
      <4>1. wanted[r].article # a
        <5>1. wanted[r].article = a => asked'[a] = asked[a] + 1
          BY <2>0, <3>1 DEF EnqueueSummary, TypeOK
        <5> QED
          BY <1>1, <2>0, <2>3, <5>1, Numbers
      <4> QED
        BY <1>1, <2>0, <3>1, <4>1 DEF EnqueueSummary, TypeOK
    <3> QED
      BY <1>1, <2>4, <3>1 DEF Request, Ask, RequestFails
  <2>5. ASSUME NEW w \in Workers, Process(w) \/ Abandon(w)
        PROVE  rows'[a].status = "succeeded"
    <3>1. asked'[a] = asked[a]
      BY <2>5 DEF Process, Abandon, ClaimNextSummary, FindSummary, Summarize,
                  CompleteSummary, FailSummary, counts
    <3>2. job[w] # a
      BY <1>1, <2>2, <3>1 DEF WorkersOn
    <3>3. ASSUME ClaimNextSummary(w) PROVE rows'[a].status = "succeeded"
      BY <1>1, <2>0, <3>3 DEF ClaimNextSummary, Claimable, Waiting, TypeOK
    <3>4. ASSUME CompleteSummary(w) PROVE rows'[a].status = "succeeded"
      BY <1>1, <2>0, <3>2, <3>4 DEF CompleteSummary, TypeOK
    <3>5. ASSUME FailSummary(w) PROVE rows'[a].status = "succeeded"
      BY <1>1, <2>0, <3>2, <3>5 DEF FailSummary, TypeOK
    <3> QED
      BY <1>1, <2>5, <3>3, <3>4, <3>5 DEF Process, Abandon, FindSummary, Summarize
  <2>6. CASE Tick
    BY <1>1, <2>0, <2>6, TickRows
  <2> QED
    BY <1>1, <2>4, <2>5, <2>6 DEF Next, DeleteSource, vars
<1>2. IInv /\ [Next]_vars =>
        [\A a \in Articles :
           rows[a].status = "succeeded" /\ asked'[a] = 1 =>
             rows'[a].status = "succeeded"]_vars
  BY <1>1
<1> QED
  BY <1>2, IInvHolds, PTL DEF Spec, AnswerIsFinal
=============================================================================
