\* The documented promise of ShutdownHandle.shutdown, of a worker whose
\* max_in_flight is clamped to one.
CONSTANTS
  Deliveries = {d1}
  max_in_flight = 0
  max_jobs = 1
SPECIFICATION Spec
PROPERTIES
  ShutdownStopsReservations
