----------------------------- MODULE MCJobLife ------------------------------
(***************************************************************************)
(* Values for JobLife: every request and every foreign job differs from an *)
(* ordinary one in what the conversions tell apart.                        *)
(***************************************************************************)
EXTENDS JobLife, TLC

Value(type) == [type |-> type, value |-> 1]

Plain == [queue |-> "q", job_type |-> "t", payload |-> Unset, idempotency_key |-> "k",
          priority |-> Unset, max_attempts |-> Unset, custom |-> << >>,
          trace_context |-> Unset, scheduled_at |-> Unset]

MCRequests ==
  {Plain,
   [Plain EXCEPT !.queue = "r", !.payload = "p", !.priority = 0, !.max_attempts = 2,
                 !.custom = [k |-> Value("bool")], !.trace_context = "producer",
                 !.scheduled_at = 1500],
   [Plain EXCEPT !.priority = 9, !.custom = [k |-> Value("int"), l |-> Value("str")],
                 !.scheduled_at = -1],
   [Plain EXCEPT !.priority = 10],
   [Plain EXCEPT !.job_type = Unset],
   [Plain EXCEPT !.custom = [k |-> Value("list")]]}

Delivered == [id |-> "f", queue |-> "q", job_type |-> "t", payload |-> "p", priority |-> 3,
              max_attempts |-> 0, custom |-> [k |-> primitive_to_pb(Value("float"))],
              trace_context |-> "garbage", enqueued_at |-> 0, lease_expires_at |-> 0,
              failed_at |-> 0, scheduled_at |-> -1]

\* Instants before the epoch, and out of range on either side.
MCForeign ==
  {Delivered,
   [Delivered EXCEPT !.enqueued_at = 1000 * (LastInstant + 1), !.queue = "r"],
   [Delivered EXCEPT !.lease_expires_at = -1, !.failed_at = 1000 * (LastInstant + 1)],
   [Delivered EXCEPT !.lease_expires_at = 1000 * FirstInstant - 1, !.failed_at = -1],
   [Delivered EXCEPT !.custom = [k |-> [which |-> Unset, value |-> 0]]],
   [Delivered EXCEPT !.priority = 10],
   [Delivered EXCEPT !.id = Unset]}

\* Negative, which a configuration cannot say.
MCFirstInstant == -5000

MCDefaults == [priority |-> 5, max_attempts |-> 3]

DrainerSymmetry == Permutations(Drainers)
=============================================================================
