\* The values of JobLife.cfg, against what the client says of a malformed job.
CONSTANTS
  Unset = Unset
  FirstInstant <- MCFirstInstant
  LastInstant = 5000
  ValidTraceparents = {"producer", "current"}
  N = 2
  Requests <- MCRequests
  Foreign <- MCForeign
  Drainers = {d1, d2}
  Maxima = {0, 2}
  Headers = {"current"}
  Defaults <- MCDefaults

SPECIFICATION Spec
INVARIANTS
  MalformedIsSkipped
