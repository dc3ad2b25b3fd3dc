\* One coroutine that calls and one that closes; every way to ask for TLS.
CONSTANTS
  max_attempts = 2
  initial_backoff = 1
  max_backoff = 2
  multiplier = 2
  jitter = FALSE
  Callers = {a1}
  Methods = {"reserve", "get_server_info", "ack", "extend", "enqueue", "drain_dead_letters"}
  TlsChoices = {{}, {"https"}, {"tls"}, {"tls_ca_cert"}, {"tls_domain"}}
  wait_timeout = 2
  Slack = 3
  rpc_timeout = 1
  Latency = 1
  Failures = {"DEADLINE_EXCEEDED", "UNAVAILABLE", "FAILED_PRECONDITION"}
SPECIFICATION FairSpec
INVARIANTS
  TypeOK
  FailedConnectLeavesNothing
  PlaintextKeysAreWarnedOf
  RaisesAsDocumented
  LongPollsAreNotCutShort
PROPERTIES
  CallsEnd
