--------------------------- MODULE EnqueueProofs ----------------------------
(***************************************************************************)
(* No retry policy makes an enqueue call store a job twice, whatever fails *)
(* and whatever the mix of keyed and keyless jobs, and what the call       *)
(* reports of a job is true.                                               *)
(***************************************************************************)
EXTENDS Enqueue, TLAPS

\* A call with a keyless job that has been executed is never sent again.
ResendOK ==
  pc \in {"called", "request", "backoff"} /\ keyed # Jobs => \A j \in Jobs : stored[j] = 0

\* Another attempt is left to a call that waits for it.
AttemptOK == pc = "backoff" => attempt < MaxAttempts

\* An answer accepts exactly the jobs the server has.
AnswerOK ==
  pc \in {"reply", "returned"} => \A j \in Jobs : (j \in answer.accepted) = (stored[j] > 0)

\* An exception that rejects the batch is raised of an answer that accepts none.
ErrorOK ==
  error \in {"BatchValidationError", "JobRejectedError"} =>
    pc = "raised" /\ \A j \in Jobs : stored[j] = 0

Inv ==
  /\ TypeOK
  /\ EnqueuedAtMostOnce
  /\ ResendOK
  /\ AttemptOK
  /\ AnswerOK
  /\ ErrorOK

USE DEF Jobs

\* RetryPolicy leaves a call at least one attempt.
LEMMA SomeAttempt == MaxAttempts \in Nat /\ MaxAttempts >= 1
BY PolicyAssumption DEF MaxAttempts

\* A failed call never rejects a job.
LEMMA NoRejection ==
  ASSUME NEW code
  PROVE  client_error_from_rpc(code) \notin {"BatchValidationError", "JobRejectedError"}
BY DEF client_error_from_rpc

\* Nothing is stored before the first attempt.
LEMMA InitInv == Init => Inv
<1> SUFFICES ASSUME Init PROVE Inv
  OBVIOUS
<1>1. n \in 0..MaxBatch \cup {1} /\ n \in Nat
  BY EnqueueAssumption DEF Init
<1>2. TypeOK
  BY <1>1, SomeAttempt DEF Init, TypeOK, None
<1> QED
  BY <1>2 DEF Init, Inv, EnqueuedAtMostOnce, ResendOK, AttemptOK, AnswerOK, ErrorOK

\* The server executes a request: keyed jobs it has are acknowledged again.
LEMMA ExecuteInv ==
  ASSUME Inv, ServerExecutes
  PROVE  Inv'
<1>1. PICK accepted \in SUBSET Jobs,
           shape \in {"results", "miscounted", "missing", "unreadable"} :
        /\ {j \in keyed : stored[j] > 0} \subseteq accepted
        /\ stored' = [j \in Jobs |-> IF j \in accepted /\ (j \notin keyed \/ stored[j] = 0)
                                       THEN stored[j] + 1 ELSE stored[j]]
        /\ answer' = [shape |-> shape, accepted |-> accepted]
  <2>1. {{}, Jobs} \subseteq SUBSET Jobs
    OBVIOUS
  <2> QED
    BY <2>1 DEF ServerExecutes
<1>2. stored \in [Jobs -> Nat] /\ keyed \subseteq Jobs
  BY DEF Inv, TypeOK
<1>3. \A j \in Jobs : j \notin keyed => stored[j] = 0
  BY <1>2 DEF Inv, ResendOK, ServerExecutes
<1>4. stored' \in [Jobs -> Nat] /\ \A j \in Jobs : stored'[j] <= 1
  BY <1>1, <1>2, <1>3 DEF Inv, EnqueuedAtMostOnce
<1>5. \A j \in Jobs : (j \in accepted) = (stored'[j] > 0)
  BY <1>1, <1>2, <1>3
<1>6. TypeOK'
  BY <1>1, <1>4 DEF Inv, TypeOK, ServerExecutes
<1> QED
  BY <1>1, <1>4, <1>5, <1>6
  DEF Inv, ServerExecutes, EnqueuedAtMostOnce, ResendOK, AttemptOK, AnswerOK, ErrorOK

\* A failed attempt is repeated only where it was not executed or all are keyed.
LEMMA FailInv ==
  ASSUME Inv, AttemptFails
  PROVE  Inv'
<1>1. PICK code \in StatusCodes :
        /\ \/ pc = "request" /\ code \in Failures
           \/ pc = "reply" /\ code \in AmbiguousCodes
        /\ IF Retries(code, attempt, _enqueue_retryable_codes)
             THEN pc' = "backoff" /\ UNCHANGED error
             ELSE Raise(client_error_from_rpc(code))
  BY DEF AttemptFails
<1>2. pc' = "backoff" /\ keyed # Jobs => pc = "request"
  BY <1>1, AmbiguityAssumption DEF Retries, _enqueue_retryable_codes, Raise
<1>3. AttemptOK'
  BY <1>1 DEF AttemptOK, AttemptFails, Retries, Raise, MaxAttempts
<1>4. TypeOK'
  BY <1>1 DEF Inv, TypeOK, AttemptFails, Raise, None
<1>5. ErrorOK'
  <2>1. CASE pc' = "backoff" /\ UNCHANGED error
    BY <1>1, <2>1 DEF Inv, ErrorOK, AttemptFails
  <2>2. CASE Raise(client_error_from_rpc(code))
    BY <2>2, NoRejection DEF ErrorOK, Raise
  <2> QED
    BY <1>1, <2>1, <2>2
<1> QED
  BY <1>1, <1>2, <1>3, <1>4, <1>5
  DEF Inv, AttemptFails, Raise, EnqueuedAtMostOnce, ResendOK, AnswerOK

\* Only an answer that accepts nothing rejects the batch.
LEMMA RejectionOfNone ==
  ASSUME Exception \in {"BatchValidationError", "JobRejectedError"}
  PROVE  answer.accepted = {}
BY DEF Exception

\* An answer is returned as it came, or raised.
LEMMA AnsweredInv ==
  ASSUME Inv, Answered
  PROVE  Inv'
<1>1. pc' \in {"returned", "raised"}
  BY DEF Answered, Raise
<1>2. ErrorOK'
  <2>1. CASE error' = error
    BY <2>1 DEF Inv, ErrorOK, Answered
  <2>2. CASE Raise(Exception) /\ Exception \in {"BatchValidationError", "JobRejectedError"}
    BY <2>2, RejectionOfNone DEF Inv, AnswerOK, TypeOK, ErrorOK, Raise, Answered
  <2>3. CASE Raise(Exception) /\ Exception \notin {"BatchValidationError", "JobRejectedError"}
    BY <2>3 DEF ErrorOK, Raise
  <2> QED
    BY <2>1, <2>2, <2>3 DEF Answered
<1> QED
  BY <1>1, <1>2
  DEF Inv, Answered, TypeOK, EnqueuedAtMostOnce, ResendOK, AttemptOK, AnswerOK

\* Each action keeps the invariant.
LEMMA NextInv ==
  ASSUME Inv, [Next]_vars
  PROVE  Inv'
<1>1. CASE Call
  BY <1>1
  DEF Inv, TypeOK, Call, Raise, EnqueuedAtMostOnce, ResendOK, AttemptOK, AnswerOK, ErrorOK
<1>2. CASE ServerExecutes
  BY <1>2, ExecuteInv
<1>3. CASE AttemptFails
  BY <1>3, FailInv
<1>4. CASE NextAttempt
  BY <1>4, SomeAttempt
  DEF Inv, TypeOK, NextAttempt, EnqueuedAtMostOnce, ResendOK, AttemptOK, AnswerOK, ErrorOK
<1>5. CASE Answered
  BY <1>5, AnsweredInv
<1>6. CASE UNCHANGED vars
  BY <1>6
  DEF Inv, TypeOK, EnqueuedAtMostOnce, ResendOK, AttemptOK, AnswerOK, ErrorOK, vars
<1> QED
  BY <1>1, <1>2, <1>3, <1>4, <1>5, <1>6 DEF Next, Steps, Over

\* The inductive invariant of an enqueue call.
THEOREM Invariance == Spec => []Inv
BY InitInv, NextInv, PTL DEF Spec

\* Types; in particular no call makes more attempts than its policy allows.
THEOREM TypeCorrect == Spec => []TypeOK
BY Invariance, PTL DEF Inv

\* However often a call is retried, no job is enqueued twice (client.py:651-658), if
\* the codes retried for keyless jobs mean not executed (AmbiguityAssumption).
THEOREM NoDuplicates == Spec => []EnqueuedAtMostOnce
<1>1. Inv => EnqueuedAtMostOnce
  BY DEF Inv
<1> QED
  BY <1>1, Invariance, PTL

\* What enqueue, enqueue_batch and enqueue_atomic return or raise of a job is
\* true of the server, whatever became of earlier attempts, on the same premise.
THEOREM ResultsTrue == Spec => []ResultsAreTrue
<1>1. Inv => ResultsAreTrue
  BY DEF Inv, AnswerOK, ErrorOK, ResultsAreTrue
<1> QED
  BY <1>1, Invariance, PTL
=============================================================================
