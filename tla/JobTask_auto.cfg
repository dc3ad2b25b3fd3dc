\* With auto-extension or without: calls are lost, refused and retried, the event loop may lag.
CONSTANTS
  max_attempts = 3
  initial_backoff = 1
  max_backoff = 2
  multiplier = 2
  jitter = FALSE
  AutoExtend = {TRUE, FALSE}
  explicit_interval = 0
  lease_duration = 4
  ServerMaxLease = 3
  handler_extension = 4
  HandlerExtends = "ctx"
  Skew = 0
  rpc_timeout = 1
  Failures = {"UNAVAILABLE", "INTERNAL", "closed"}
  Responsive = FALSE
SPECIFICATION Spec
INVARIANTS
  TypeOK
  VerdictIsFinal
  ReportsMatchTheHandler
  NothingOutlivesTheJob
  KnownExpiryIsSafe
PROPERTIES
  AbortIsJustified
  ImplementsDelivery
