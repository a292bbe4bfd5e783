---------------------------- MODULE RateLimiter ----------------------------
(***************************************************************************)
(* The fixed-window limiter of internal/ratelimit/limiter.go: one counter  *)
(* with a TTL per key in Redis, moved by one script per request.  Time is  *)
(* relative: a counter has what is left of its TTL, and counts above Limit *)
(* are all Limit + 1.                                                      *)
(***************************************************************************)
EXTENDS Integers

CONSTANTS
  RateKeys,  \* the keys of KeyFunc, one per client address for the login
  Limit,     \* requests admitted per window
  Window     \* in ticks

ASSUME RateLimiterAssumption == Limit \in Nat \ {0} /\ Window \in Nat \ {0}

VARIABLES
  counter,   \* key -> its count and what is left of its TTL
  admitted,  \* key -> requests admitted within the last so many ticks
  refusing   \* key -> ticks since the first request refused in a row

lvars == <<counter, admitted, refusing>>

Absent == [count |-> 0, left |-> 0]

\* A key without a TTL, which Redis keeps for ever.
NoExpiry == 0 - 1

\* The script repairs a counter that lost its TTL: it may find one.
LimiterInit ==
  /\ counter \in
       [RateKeys -> {Absent, [count |-> Limit + 1, left |-> NoExpiry]}]
  /\ admitted = [k \in RateKeys |-> [ticks \in 1..Window |-> 0]]
  /\ refusing = [k \in RateKeys |-> {}]

\* Mutant: off by one.
AdmitsOneMore(k) == counter[k].count <= Limit

Admits(k) == counter[k].count < Limit

\* Mutant: only a new counter gets a TTL.
LeftUnrepaired(k) == IF counter[k].count = 0 THEN Window ELSE counter[k].left

LeftAfter(k) ==
  IF counter[k].count = 0 \/ counter[k].left = NoExpiry
  THEN Window
  ELSE counter[k].left

\* redisRateLimitScript, which Redis runs as one step.
Count(k) ==
  /\ counter' = [counter EXCEPT ![k] =
       [count |-> IF counter[k].count <= Limit THEN counter[k].count + 1 ELSE Limit + 1,
        left |-> LeftAfter(k)]]
  /\ admitted' =
       IF Admits(k)
       THEN [admitted EXCEPT ![k] = [ticks \in 1..Window |-> @[ticks] + 1]]
       ELSE admitted
  /\ refusing' = [refusing EXCEPT ![k] =
       IF Admits(k) THEN {} ELSE IF @ = {} THEN {0} ELSE @]

LimiterTick ==
  /\ counter' = [k \in RateKeys |->
       IF counter[k].left = NoExpiry THEN counter[k]
       ELSE IF counter[k].left <= 1 THEN Absent
       ELSE [counter[k] EXCEPT !.left = @ - 1]]
  /\ admitted' = [k \in RateKeys |->
       [ticks \in 1..Window |-> IF ticks = 1 THEN 0 ELSE admitted[k][ticks - 1]]]
  /\ refusing' = [k \in RateKeys |->
       IF counter'[k] = Absent THEN {} ELSE {t + 1 : t \in refusing[k] \ {Window}}]

LimiterTypeOK ==
  /\ counter \in [RateKeys ->
       [count : 0..(Limit + 1), left : {NoExpiry} \cup 0..Window]]
  /\ admitted \in [RateKeys -> [1..Window -> Nat]]
  /\ refusing \in [RateKeys -> {{}} \cup {{t} : t \in 0..Window}]

\* Windows start with a key's first request, so that two of them may meet in
\* any interval of that length: it sees at most twice the limit admitted.
BurstBound ==
  \A k \in RateKeys : admitted[k][Window] <= 2 * Limit

\* A client that is refused is admitted again within one window, however often
\* it asks meanwhile, even if its counter had lost its TTL: it waits for
\* the end of the window (docs/troubleshooting.md:17) and no longer.
RefusalsEnd == \A k \in RateKeys : Window \notin refusing[k]
=============================================================================
