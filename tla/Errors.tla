------------------------------- MODULE Errors -------------------------------
(***************************************************************************)
(* errors.py: how the status code of a failed call becomes an exception of *)
(* the client, and which codes a RetryPolicy may retry.                    *)
(***************************************************************************)

\* grpc.StatusCode without OK (external).
StatusCodes ==
  {"CANCELLED", "UNKNOWN", "INVALID_ARGUMENT", "DEADLINE_EXCEEDED", "NOT_FOUND",
   "ALREADY_EXISTS", "PERMISSION_DENIED", "RESOURCE_EXHAUSTED",
   "FAILED_PRECONDITION", "ABORTED", "OUT_OF_RANGE", "UNIMPLEMENTED", "INTERNAL",
   "UNAVAILABLE", "DATA_LOSS", "UNAUTHENTICATED"}

\* The subclasses of ClientError, LeaseError and ReserveError.
ClientErrors ==
  {"ConnectError", "InvalidApiKeyError", "TransportError", "UnauthenticatedError",
   "OverloadedError", "InvalidRequestError", "ServerInternalError",
   "UnexpectedStatusError", "EmptyBatchError", "BatchResultCountMismatchError",
   "MalformedResponseError", "MalformedJobError", "MalformedServerInfoError"}
LeaseErrors == {"JobNotFoundError", "AttemptMismatchError"}
ReserveErrors == {"UnknownQueuesError"}

TRANSPORT_CODES == {"UNAVAILABLE", "DEADLINE_EXCEEDED", "ABORTED", "CANCELLED"}

RETRYABLE_CODES == {"UNAVAILABLE", "DEADLINE_EXCEEDED", "ABORTED", "RESOURCE_EXHAUSTED"}

KEYLESS_ENQUEUE_RETRYABLE_CODES == {"UNAVAILABLE", "RESOURCE_EXHAUSTED"}

client_error_from_rpc(code) ==
  CASE code \in TRANSPORT_CODES -> "TransportError"
    [] code \in {"UNAUTHENTICATED", "PERMISSION_DENIED"} -> "UnauthenticatedError"
    [] code = "RESOURCE_EXHAUSTED" -> "OverloadedError"
    [] code = "INVALID_ARGUMENT" -> "InvalidRequestError"
    [] code \in {"INTERNAL", "DATA_LOSS", "UNKNOWN"} -> "ServerInternalError"
    [] OTHER -> "UnexpectedStatusError"

\* Errors of ack, nack and extend.
lease_error_from_rpc(code) ==
  CASE code = "NOT_FOUND" -> "JobNotFoundError"
    [] code = "FAILED_PRECONDITION" -> "AttemptMismatchError"
    [] OTHER -> client_error_from_rpc(code)

reserve_error_from_rpc(code) ==
  IF code = "FAILED_PRECONDITION" THEN "UnknownQueuesError" ELSE client_error_from_rpc(code)
=============================================================================
