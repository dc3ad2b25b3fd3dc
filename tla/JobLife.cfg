\* Two jobs, of every kind of request and of foreign job, and two drainers.
CONSTANTS
  Unset = Unset
  FirstInstant <- MCFirstInstant
  LastInstant = 5000
  ValidTraceparents = {"producer", "current"}
  N = 2
  Requests <- MCRequests
  Foreign <- MCForeign
  Drainers = {d1, d2}
  Maxima = {0, 2}
  Headers = {"current"}
  Defaults <- MCDefaults
SYMMETRY DrainerSymmetry
SPECIFICATION Spec
INVARIANTS
  TypeOK
  NothingInvalidIsSent
  HandlerSeesTheRequest
  ReplayIsFaithful
  LossesHaveACause
  OneBatchPerCall
