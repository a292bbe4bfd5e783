------------------------------ MODULE Backoff ------------------------------
(***************************************************************************)
(* The exponential backoff shared by the outbox dispatcher and the         *)
(* collection worker (outbox.go retryBackoff, worker.go retryBackoff): the *)
(* base delay for the first attempt, doubled once per further attempt.     *)
(***************************************************************************)
EXTENDS Integers

\* The loop "for i := 1; i < attempt; i++ { backoff *= 2 }" in closed form.
RetryBackoff(base, attempt) ==
  IF attempt <= 1 THEN base ELSE base * 2 ^ (attempt - 1)
=============================================================================
