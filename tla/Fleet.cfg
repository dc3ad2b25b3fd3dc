\* Two workers, one with auto_extend, and a job that may be delivered twice.
CONSTANTS
  Jobs = {j1}
  Workers = {w1, w2}
  Nobody = Nobody
  AutoExtend = {w1}
  QueueAttempts = 2
  MaxStops = 1
SPECIFICATION FairSpec
INVARIANTS
  TypeOK
  DeadLettersAreDeserved
  CountsAreTrue
PROPERTIES
  EveryDeliveryIsALeasedJob
  EveryJobSettles
