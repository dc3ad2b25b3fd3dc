\* Every extend may fail, the handler extends by less than the heartbeat, and this host reads expiries one tick late.
CONSTANTS
  max_attempts = 2
  initial_backoff = 1
  max_backoff = 2
  multiplier = 2
  jitter = FALSE
  AutoExtend = {TRUE}
  explicit_interval = 2
  lease_duration = 3
  ServerMaxLease = 3
  handler_extension = 1
  HandlerExtends = "ctx"
  Skew = 1
  rpc_timeout = 1
  Failures = {"UNAVAILABLE", "INTERNAL"}
  Responsive = FALSE
SPECIFICATION FairSpec
PROPERTIES
  ReassignmentIsNoticed
