------------------------------ MODULE Requests ------------------------------
(***************************************************************************)
(* The requests of the HTTP API whose handlers race each other: sessions   *)
(* (Sessions), the lists of sources and articles (Catalog), the dead       *)
(* letters (DeadLetters) and the assistant (Assistant).  What one of them  *)
(* writes, no other reads, but for the deletion of a source, which each    *)
(* has as a step of its own.  A behaviour here is one of the four, chosen  *)
(* by part, beside the initial state of the other three: their             *)
(* interleavings would show nothing more.                                  *)
(***************************************************************************)
EXTENDS Sessions

CONSTANTS Sources, Flags, CacheTTL, Letters, MaxReplays, Articles, ApiKeys, MaxCalls

ASSUME RequestsAssumption == CacheTTL \in Nat \ {0} /\ MaxReplays \in Nat

VARIABLES
  sources, articles, cache, stranded, at, target, rows, todo,  \* of Catalog
  status, stamped, written, answered, open, work,              \* of DeadLetters
  settings, given, crossed, gone, vectors, digest, task,       \* of Assistant
  part  \* the requests this behaviour is about

Lists == INSTANCE Catalog
Dead == INSTANCE DeadLetters
AI == INSTANCE Assistant

listVars == <<sources, articles, cache, stranded, at, target, rows, todo>>
deadVars == <<status, stamped, written, answered, open, work>>
aiVars == <<settings, given, crossed, gone, vectors, digest, task>>
requestVars == <<vars, listVars, deadVars, aiVars, part>>

RequestsInit ==
  /\ Init /\ Lists!Init /\ Dead!Init /\ AI!Init
  /\ part \in {"sessions", "lists", "dead letters", "assistant"}
  /\ part # "sessions" => \A k \in RateKeys : counter[k] = Absent

SessionStep ==
  part = "sessions" /\ Next /\ UNCHANGED <<listVars, deadVars, aiVars, part>>

ListStep ==
  part = "lists" /\ Lists!Next /\ UNCHANGED <<vars, deadVars, aiVars, part>>

DeadLetterStep ==
  part = "dead letters" /\ Dead!Next /\ UNCHANGED <<vars, listVars, aiVars, part>>

AssistantStep ==
  part = "assistant" /\ AI!Next /\ UNCHANGED <<vars, listVars, deadVars, part>>

RequestsNext == SessionStep \/ ListStep \/ DeadLetterStep \/ AssistantStep

RequestsSpec == RequestsInit /\ [][RequestsNext]_requestVars

\* The type invariants of the four.
RequestsTypeOK == TypeOK /\ Lists!TypeOK /\ Dead!TypeOK /\ AI!TypeOK

\* See Catalog: a stale list is about to be deleted, or was missed in one of the
\* known ways.
StaleIsPending == Lists!StaleIsPending

\* See DeadLetters: a replay answered with success is in the topic.
ReplaysAreWritten == Dead!ReplaysAreWritten

\* See Assistant: neither a removed key nor an article of a deleted source is put
\* to use again.
NothingComesBack == AI!NothingComesBack
=============================================================================
