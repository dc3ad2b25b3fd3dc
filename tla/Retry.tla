------------------------------- MODULE Retry --------------------------------
(***************************************************************************)
(* RetryPolicy and the decisions of SeppClient._with_retry (client.py).    *)
(* Delays are whole ticks.                                                 *)
(***************************************************************************)
EXTENDS Integers, Errors

CONSTANTS max_attempts, initial_backoff, max_backoff, multiplier, jitter

ASSUME PolicyAssumption ==
  /\ max_attempts \in Int /\ multiplier \in Int
  /\ initial_backoff \in Nat /\ max_backoff \in Nat
  /\ jitter \in BOOLEAN

\* __post_init__ clamps instead of rejecting.
MaxAttempts == IF max_attempts < 1 THEN 1 ELSE max_attempts
Multiplier == IF multiplier < 1 THEN 1 ELSE multiplier

\* Mutant of Retries: one attempt too many.
RetriesOnceMore(code, attempt, retryable) == attempt <= MaxAttempts /\ code \in retryable

\* A failed attempt is followed by another one.
Retries(code, attempt, retryable) == attempt < MaxAttempts /\ code \in retryable

\* `backoff` after the next sleep; the first one is not capped.
NextBackoff(backoff) ==
  IF backoff * Multiplier < max_backoff THEN backoff * Multiplier ELSE max_backoff

\* The sleep before the next attempt; jitter takes off up to half.
Delays(backoff) == IF jitter THEN ((backoff + 1) \div 2) .. backoff ELSE {backoff}
=============================================================================
