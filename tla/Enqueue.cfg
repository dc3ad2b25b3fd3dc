\* All three methods, up to two jobs, up to three attempts.
CONSTANTS
  max_attempts = 3
  initial_backoff = 1
  max_backoff = 2
  multiplier = 2
  jitter = TRUE
  MaxBatch = 2
  Failures = {"UNAVAILABLE", "RESOURCE_EXHAUSTED", "DEADLINE_EXCEEDED", "INVALID_ARGUMENT"}
  AmbiguousCodes = {"DEADLINE_EXCEEDED", "ABORTED"}
SPECIFICATION Spec
INVARIANTS
  TypeOK
  EnqueuedAtMostOnce
  ResultsAreTrue
