\* A responsive event loop and a server that answers, which clamps the lease; this host
\* reads expiries one tick late.
CONSTANTS
  max_attempts = 1
  initial_backoff = 1
  max_backoff = 2
  multiplier = 2
  jitter = FALSE
  AutoExtend = {TRUE}
  explicit_interval = 0
  lease_duration = 12
  ServerMaxLease = 5
  handler_extension = 12
  HandlerExtends = "client"
  Skew = 1
  rpc_timeout = 1
  Failures = {}
  Responsive = TRUE
SPECIFICATION Spec
INVARIANTS
  LeaseIsKept
