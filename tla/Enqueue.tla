------------------------------ MODULE Enqueue -------------------------------
(***************************************************************************)
(* One call of SeppClient.enqueue, enqueue_batch or enqueue_atomic         *)
(* (client.py), with its retries, and what it leaves at the server.        *)
(* The server, which drops a job whose idempotency key it has seen, is     *)
(* external.                                                               *)
(***************************************************************************)
EXTENDS Retry

CONSTANTS MaxBatch,        \* bound on the jobs of a call
          Failures,        \* codes an attempt may fail with, unexecuted
          AmbiguousCodes   \* codes it may also fail with once executed; the
                           \* client takes them to be DEADLINE_EXCEEDED and ABORTED

ASSUME EnqueueAssumption ==
  MaxBatch \in Nat /\ Failures \subseteq StatusCodes /\ AmbiguousCodes \subseteq StatusCodes

\* What the client counts on: a call that fails with a code it retries for
\* keyless jobs was not executed (tests/test_client.py:366-368, 393-395).  gRPC does
\* not guarantee this.
ASSUME AmbiguityAssumption == AmbiguousCodes \cap KEYLESS_ENQUEUE_RETRYABLE_CODES = {}

VARIABLES op,       \* the method called
          n,        \* how many jobs it got, 1..n
          keyed,    \* those with an idempotency key
          pc,       \* where the call is
          attempt,  \* of _with_retry
          stored,   \* copies of each job the server has enqueued
          answer,   \* the server's answer, on its way or received
          error     \* the exception it raised

vars == <<op, n, keyed, pc, attempt, stored, answer, error>>

Jobs == 1..n
None == [shape |-> "none", accepted |-> {}]

Init ==
  /\ op \in {"enqueue", "enqueue_batch", "enqueue_atomic"}
  /\ n \in IF op = "enqueue" THEN {1} ELSE 0..MaxBatch
  /\ keyed \in SUBSET (1..n)
  /\ pc = "called" /\ attempt = 1
  /\ stored = [j \in 1..n |-> 0]
  /\ answer = None /\ error = "none"

Raise(exception) == pc' = "raised" /\ error' = exception

Call ==
  /\ pc = "called"
  /\ IF n = 0 THEN Raise("EmptyBatchError") ELSE pc' = "request" /\ UNCHANGED error
  /\ UNCHANGED <<op, n, keyed, attempt, stored, answer>>

\* Mutant of _enqueue_retryable_codes: no regard for the keys.
RetryableForAll == RETRYABLE_CODES

\* Mutant of _enqueue_retryable_codes: `any` for `all`.
RetryableIfAnyKey ==
  IF keyed # {} THEN RETRYABLE_CODES ELSE KEYLESS_ENQUEUE_RETRYABLE_CODES

_enqueue_retryable_codes ==
  IF keyed = Jobs THEN RETRYABLE_CODES ELSE KEYLESS_ENQUEUE_RETRYABLE_CODES

\* The server executes the request (external): a keyed job it has already is
\* acknowledged again, a batch is taken job by job, an atomic one as a whole.
\* Its answer may break the protocol: too few results, one without an outcome,
\* or a rejection whose instant is none.
ServerExecutes ==
  /\ pc = "request"
  /\ \E accepted \in IF op = "enqueue_atomic" THEN {{}, Jobs} ELSE SUBSET Jobs,
       shape \in {"results", "miscounted", "missing", "unreadable"} :
       /\ {j \in keyed : stored[j] > 0} \subseteq accepted
       /\ shape = "unreadable" => accepted # Jobs
       /\ stored' = [j \in Jobs |->
                       IF j \in accepted /\ (j \notin keyed \/ stored[j] = 0)
                         THEN stored[j] + 1 ELSE stored[j]]
       /\ answer' = [shape |-> shape, accepted |-> accepted]
  /\ pc' = "reply"
  /\ UNCHANGED <<op, n, keyed, attempt, error>>

\* _with_retry: a failed attempt is retried or raises its error.
AttemptFails ==
  /\ \E code \in StatusCodes :
       /\ \/ pc = "request" /\ code \in Failures
          \/ pc = "reply" /\ code \in AmbiguousCodes
       /\ IF Retries(code, attempt, _enqueue_retryable_codes)
            THEN pc' = "backoff" /\ UNCHANGED error
            ELSE Raise(client_error_from_rpc(code))
  /\ answer' = None
  /\ UNCHANGED <<op, n, keyed, attempt, stored>>

NextAttempt ==
  /\ pc = "backoff"
  /\ pc' = "request"
  /\ attempt' = attempt + 1
  /\ UNCHANGED <<op, n, keyed, stored, answer, error>>

\* A rejection is a result of enqueue_batch, and an exception of the other two.
Exception ==
  CASE answer.shape = "missing" -> "MalformedResponseError"
    [] answer.shape = "unreadable" -> "ValueError"
    [] answer.shape = "miscounted" /\ ~(op = "enqueue_atomic" /\ answer.accepted = {}) ->
         "BatchResultCountMismatchError"
    [] answer.shape \in {"results", "miscounted"} /\ op = "enqueue_atomic" /\ answer.accepted = {} ->
         "BatchValidationError"
    [] op = "enqueue" /\ answer.accepted = {} /\ answer.shape = "results" -> "JobRejectedError"
    [] OTHER -> "none"

Answered ==
  /\ pc = "reply"
  /\ IF Exception = "none" THEN pc' = "returned" /\ UNCHANGED error ELSE Raise(Exception)
  /\ UNCHANGED <<op, n, keyed, attempt, stored, answer>>

Over == pc \in {"returned", "raised"} /\ UNCHANGED vars

Steps == Call \/ ServerExecutes \/ AttemptFails \/ NextAttempt \/ Answered

Next == Steps \/ Over

Spec == Init /\ [][Next]_vars

-----------------------------------------------------------------------------
TypeOK ==
  /\ op \in {"enqueue", "enqueue_batch", "enqueue_atomic"}
  /\ n \in 0..MaxBatch \cup {1} /\ keyed \subseteq Jobs
  /\ pc \in {"called", "request", "reply", "backoff", "returned", "raised"}
  /\ attempt \in 1..MaxAttempts
  /\ stored \in [Jobs -> Nat]
  /\ answer \in [shape : {"none", "results", "miscounted", "missing", "unreadable"},
                 accepted : SUBSET Jobs]

\* However often the call is retried, no job is enqueued twice, keyed or not:
\* this is why the ambiguous codes are not retried for a batch with a keyless
\* job (client.py:651-658).  True on the premise of AmbiguityAssumption.
EnqueuedAtMostOnce == \A j \in Jobs : stored[j] <= 1

\* An ack stands for a job the server has; a rejection, returned or raised, for
\* one it has not, whatever became of earlier attempts, on the same premise.
ResultsAreTrue ==
  /\ pc = "returned" => \A j \in Jobs : (j \in answer.accepted) = (stored[j] > 0)
  /\ error \in {"BatchValidationError", "JobRejectedError"} => \A j \in Jobs : stored[j] = 0
=============================================================================
