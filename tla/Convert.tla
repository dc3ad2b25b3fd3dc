------------------------------ MODULE Convert -------------------------------
(***************************************************************************)
(* _convert.py and types.py: what the client's values become on the wire   *)
(* and what the server's messages become for the application.              *)
(*                                                                         *)
(* A datetime is an instant in microseconds from the epoch, its zone       *)
(* forgotten (a naive one is UTC); a protobuf Timestamp is an instant in   *)
(* nanoseconds.  An optional field that is None, absent or empty is Unset. *)
(***************************************************************************)
EXTENDS Integers

CONSTANTS Unset,              \* no value
          FirstInstant,       \* the first and the last instant that a datetime
          LastInstant,        \* and a Timestamp's text can hold
          ValidTraceparents   \* what _validate_traceparent lets through

ASSUME InstantsAssumption == FirstInstant \in Int /\ FirstInstant < 0 /\ LastInstant \in Nat

-----------------------------------------------------------------------------
\* Instants.

\* Mutant of datetime_to_millis: rounded towards the epoch, as int() does.
TowardsEpoch(dt) == IF dt < 0 THEN -((-dt) \div 1000) ELSE dt \div 1000

datetime_to_millis(dt) == dt \div 1000

\* Timestamp.FromDatetime is exact (external).
FromDatetime(dt) == dt * 1000

timestamp_to_datetime(ts) ==
  IF ts >= 0 /\ ts \div 1000 <= LastInstant THEN ts \div 1000 ELSE Unset

-----------------------------------------------------------------------------
\* Custom values: a Python value has a type, a PrimitiveValue a field set.

FieldOf == [bool |-> "bool_value", int |-> "int_value",
            float |-> "double_value", str |-> "string_value"]

\* None is no instant, no number, no traceparent and no field.
ASSUME UnsetAssumption ==
  Unset \notin Int \cup ValidTraceparents \cup {FieldOf[t] : t \in DOMAIN FieldOf}

isinstance(x, type) == x.type = type \/ (x.type = "bool" /\ type = "int")

SetField(x, type) == [which |-> FieldOf[type], value |-> x.value]

\* Mutant of primitive_to_pb: int is tested before bool.
PrimitiveIntFirst(x) ==
  SetField(x, IF isinstance(x, "int") THEN "int" ELSE x.type)

primitive_to_pb(x) ==
  SetField(x, IF isinstance(x, "bool") THEN "bool"
              ELSE IF isinstance(x, "int") THEN "int" ELSE x.type)

\* A value of another type is a TypeError.
Encodable(x) == x.type \in DOMAIN FieldOf

\* None is returned for a message without a value.
HasValue(pv) == pv.which # Unset

primitive_from_pb(pv) ==
  IF HasValue(pv)
    THEN [type |-> CHOOSE t \in DOMAIN FieldOf : FieldOf[t] = pv.which,
          value |-> pv.value]
    ELSE Unset

-----------------------------------------------------------------------------
\* Requests.

Priorities == 0..9

\* EnqueueRequest and its conversion raise for a request that is not Sendable.
Sendable(req) ==
  /\ req.queue # Unset /\ req.job_type # Unset
  /\ req.priority \in Priorities \cup {Unset}
  /\ \A k \in DOMAIN req.custom : Encodable(req.custom[k])

\* A pre-epoch schedule is dropped.
enqueue_request_to_pb(req) ==
  [queue |-> req.queue, job_type |-> req.job_type, payload |-> req.payload,
   idempotency_key |-> req.idempotency_key, priority |-> req.priority,
   max_attempts |-> req.max_attempts,
   custom |-> [k \in DOMAIN req.custom |-> primitive_to_pb(req.custom[k])],
   trace_context |-> req.trace_context,
   scheduled_at |->
     IF req.scheduled_at # Unset /\ datetime_to_millis(req.scheduled_at) >= 0
       THEN FromDatetime(req.scheduled_at) ELSE Unset]

\* The current span's context goes to a request that has none.
_inject_trace_into_jobs(m, headers) ==
  IF m.trace_context # Unset \/ headers = Unset THEN m
  ELSE [m EXCEPT !.trace_context = headers]

-----------------------------------------------------------------------------
\* Jobs and dead-letter records.

trace_context_from_pb(t) == IF t \in ValidTraceparents THEN t ELSE Unset

_scheduled_at_from_pb(j) ==
  IF j.scheduled_at = Unset THEN Unset ELSE timestamp_to_datetime(j.scheduled_at)

\* Timestamp.ToJsonString raises ValueError out of its range (external).  A
\* Timestamp whose nanoseconds are none stands with those out of range.
Printable(ts) == ts \div 1000 \in FirstInstant .. LastInstant

\* A required instant that is no datetime is a JobConversionError whose message
\* prints it, and printing may raise first.
InstantError(ts) ==
  IF timestamp_to_datetime(ts) # Unset THEN "nothing"
  ELSE IF Printable(ts) THEN "JobConversionError" ELSE "ValueError"

\* What both conversions raise, in the order of their tests; at is the expiry of
\* the lease or the instant of the failure.  A record without a job is one
\* without an id.
ConversionError(j, at) ==
  IF j.id = Unset \/ j.job_type = Unset \/ j.priority \notin Priorities
    THEN "JobConversionError"
  ELSE IF InstantError(j.enqueued_at) # "nothing" THEN InstantError(j.enqueued_at)
  ELSE IF InstantError(at) # "nothing" THEN InstantError(at)
  ELSE IF \E k \in DOMAIN j.custom : ~HasValue(j.custom[k]) THEN "JobConversionError"
  ELSE "nothing"

Converted(j) ==
  [id |-> j.id, queue |-> j.queue, job_type |-> j.job_type, payload |-> j.payload,
   priority |-> j.priority, max_attempts |-> j.max_attempts,
   custom |-> [k \in DOMAIN j.custom |-> primitive_from_pb(j.custom[k])],
   trace_context |-> trace_context_from_pb(j.trace_context),
   enqueued_at |-> timestamp_to_datetime(j.enqueued_at),
   scheduled_at |-> _scheduled_at_from_pb(j)]

\* The JobCtx and payload of a reserved job.
job_from_pb(j) == Converted(j)

\* The parts of a DeadLetterRecord that a replay can use.
dead_letter_record_from_pb(j) == Converted(j)

Replayed(r, scheduled_at) ==
  [queue |-> r.queue, job_type |-> r.job_type, payload |-> r.payload,
   idempotency_key |-> Unset, priority |-> r.priority,
   max_attempts |-> IF r.max_attempts = 0 THEN Unset ELSE r.max_attempts,
   custom |-> r.custom, trace_context |-> r.trace_context,
   scheduled_at |-> scheduled_at]

\* Mutant of to_enqueue_request: the schedule is carried over.
ReplayOnSchedule(r) == Replayed(r, r.scheduled_at)

\* A replay runs now.
to_enqueue_request(r) == Replayed(r, Unset)
=============================================================================
