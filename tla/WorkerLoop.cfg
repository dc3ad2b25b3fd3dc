\* Three permits, requests for at most two jobs, four deliveries, and a server that may
\* answer with more jobs than it was asked for.
CONSTANTS
  Deliveries = {d1, d2, d3, d4}
  max_in_flight = 3
  max_jobs = 2
SPECIFICATION FairSpec
INVARIANTS
  TypeOK
  PermitConservation
  BoundedConcurrency
  NothingLeaks
PROPERTIES
  WholeBatchStarts
  ReturnedJobsAreProcessed
  CancellationIsNotMasked
  ImplementsPool
  HandedJobsLeave
  StopEndsRun
  KeepsReserving
