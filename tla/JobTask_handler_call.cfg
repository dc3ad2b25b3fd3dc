\* Calling the handler may raise.
CONSTANTS
  max_attempts = 1
  initial_backoff = 1
  max_backoff = 2
  multiplier = 2
  jitter = FALSE
  AutoExtend = {TRUE}
  explicit_interval = 0
  lease_duration = 3
  ServerMaxLease = 3
  handler_extension = 3
  HandlerExtends = "never"
  Skew = 0
  rpc_timeout = 1
  Failures = {"UNAVAILABLE"}
  Responsive = FALSE
SPECIFICATION Spec
PROPERTIES
  FailuresAreNacked
