------------------------------ MODULE JobLife -------------------------------
(***************************************************************************)
(* The life of a job as the client's values see it: enqueued, delivered,   *)
(* dead-lettered, drained by SeppClient.drain_dead_letters (client.py) and *)
(* replayed through DeadLetterRecord.to_enqueue_request (types.py).        *)
(* Each drainer is a coroutine that drains now and then.  The server's     *)
(* store is external: it keeps what it got, and fills in its defaults.     *)
(* It may also hold jobs of other producers, and jobs or instants that     *)
(* this client cannot convert.                                             *)
(*                                                                         *)
(* What is there of a job is a function on the jobs that have it.          *)
(***************************************************************************)
EXTENDS Convert, FiniteSets

CONSTANTS N,           \* how many jobs
          Requests,    \* what the application may try to enqueue
          Foreign,     \* other jobs, as the server holds them
          Drainers,    \* coroutines that drain
          Maxima,      \* the max_records they ask for
          Headers,     \* trace context of the current span, or Unset
          Defaults     \* the server's priority and max_attempts of a queue

\* A dict of custom values, as a request and as a message hold it.
Customs(custom) ==
  custom = [k \in DOMAIN custom |-> [type |-> custom[k].type, value |-> custom[k].value]]
PbCustoms(custom) ==
  /\ custom = [k \in DOMAIN custom |-> [which |-> custom[k].which, value |-> custom[k].value]]
  /\ \A k \in DOMAIN custom :
       custom[k].which = Unset \/ \E t \in DOMAIN FieldOf : custom[k].which = FieldOf[t]

\* What the types of EnqueueRequest and of the messages allow.
ASSUME JobsAssumption ==
  /\ N \in Nat /\ Maxima \subseteq Int
  /\ \A r \in Requests :
       /\ Customs(r.custom)
       /\ r.trace_context = Unset \/ r.trace_context \in ValidTraceparents
       /\ \/ r.scheduled_at = Unset
          \/ r.scheduled_at \in Int /\ r.scheduled_at <= LastInstant
  /\ \A f \in Foreign : PbCustoms(f.custom)
  /\ Defaults.priority \in Priorities

VARIABLES request,   \* of each job, but of the foreign ones
          stored,    \* the job at the server, when it got there
          stage,     \* where the job is
          ctx,       \* what its handler was given
          call,      \* each drainer's call, if it makes one
          lost,      \* drained by a call whose answer did not arrive
          spoiled,   \* drained by a call that raised over its answer: the jobs
                     \* of that answer
          record,    \* the DeadLetterRecord the application got
          replay     \* the request a replay sent

vars == <<request, stored, stage, ctx, call, lost, spoiled, record, replay>>

Jobs == 1..N

NoDrain == [queue |-> Unset, max |-> 0]
Idle == [pc |-> "idle", asked |-> NoDrain, req |-> NoDrain, batch |-> {}, removed |-> {}]

\* The function on one more job.
With(f, j, v) == [i \in DOMAIN f \cup {j} |-> IF i = j THEN v ELSE f[i]]

Init ==
  /\ \E ours \in SUBSET Jobs :
       /\ request \in [ours -> Requests]
       /\ stored \in [Jobs \ ours -> Foreign]
       /\ stage = [j \in Jobs |-> IF j \in ours THEN "new" ELSE "queued"]
  /\ ctx = [j \in {} |-> Unset] /\ spoiled = ctx /\ record = ctx /\ replay = ctx
  /\ call = [d \in Drainers |-> Idle]
  /\ lost = {}

\* The server takes a request (external).
Stores(j, m) ==
  [id |-> j, queue |-> m.queue, job_type |-> m.job_type, payload |-> m.payload,
   priority |-> IF m.priority = Unset THEN Defaults.priority ELSE m.priority,
   max_attempts |->
     IF m.max_attempts = Unset THEN Defaults.max_attempts ELSE m.max_attempts,
   custom |-> m.custom, trace_context |-> m.trace_context,
   enqueued_at |-> 0, lease_expires_at |-> 0, failed_at |-> 0,
   scheduled_at |-> m.scheduled_at]

\* Mutant of Enqueue: a priority out of range is noticed once the job was sent.
EnqueueChecksLate(j) ==
  /\ stage[j] = "new"
  /\ stage' = [stage EXCEPT ![j] = IF Sendable(request[j]) THEN "queued" ELSE "refused"]
  /\ IF Sendable([request[j] EXCEPT !.priority = Unset])
       THEN stored' = With(stored, j, Stores(j, enqueue_request_to_pb(request[j])))
       ELSE UNCHANGED stored
  /\ UNCHANGED <<request, ctx, call, lost, spoiled, record, replay>>

\* A request that cannot be built or converted raises before anything is sent.
Enqueue(j) ==
  /\ stage[j] = "new"
  /\ IF Sendable(request[j])
       THEN /\ stage' = [stage EXCEPT ![j] = "queued"]
            /\ \E headers \in Headers :
                 stored' = With(stored, j,
                   Stores(j, _inject_trace_into_jobs(
                               enqueue_request_to_pb(request[j]), headers)))
       ELSE stage' = [stage EXCEPT ![j] = "refused"] /\ UNCHANGED stored
  /\ UNCHANGED <<request, ctx, call, lost, spoiled, record, replay>>

\* What job_from_pb raises.
JobError(j) == ConversionError(stored[j], stored[j].lease_expires_at)
Deliverable(j) == JobError(j) = "nothing"

\* reserve: a malformed job is skipped, but one with an instant out of range makes
\* the call raise.  What the client does not return stays leased, and stranded.
Reserve ==
  /\ \E batch \in SUBSET {j \in Jobs : stage[j] = "queued"} \ {{}} :
       LET jobs == IF \E j \in batch : JobError(j) = "ValueError" THEN {}
                   ELSE {j \in batch : Deliverable(j)}
       IN /\ stage' = [j \in Jobs |-> IF j \in jobs THEN "leased"
                                      ELSE IF j \in batch THEN "stranded" ELSE stage[j]]
          /\ ctx' = [j \in DOMAIN ctx \cup jobs |->
                       IF j \in jobs THEN job_from_pb(stored[j]) ELSE ctx[j]]
  /\ UNCHANGED <<request, stored, call, lost, spoiled, record, replay>>

\* A rejection, the expiry of the last attempt's lease, or an operator (external).
DeadLetter(j) ==
  /\ stage[j] \in {"queued", "leased", "stranded"}
  /\ stage' = [stage EXCEPT ![j] = "dead"]
  /\ UNCHANGED <<request, stored, ctx, call, lost, spoiled, record, replay>>

LargerOf(a, b) == IF a > b THEN a ELSE b

\* The queues an application may know of.
Queues == {r.queue : r \in Requests \cup Foreign} \ {Unset}

\* drain_dead_letters is called: at least one record is asked for.
Drain(d) ==
  /\ call[d].pc = "idle"
  /\ \E max \in Maxima, queue \in Queues \cup {Unset} :
       call' = [call EXCEPT ![d] =
         [pc |-> "request", asked |-> [queue |-> queue, max |-> max],
          req |-> [queue |-> queue, max |-> LargerOf(max, 1)],
          batch |-> {}, removed |-> {}]]
  /\ UNCHANGED <<request, stored, stage, ctx, lost, spoiled, record, replay>>

\* The server hands out dead letters of the queue, no more than it was asked for,
\* and removes them (external).  That it takes the oldest makes no difference here.
ServerDrains(d) ==
  /\ call[d].pc = "request"
  /\ LET req == call[d].req
         fitting == {j \in Jobs : /\ stage[j] = "dead"
                                  /\ req.queue = Unset \/ stored[j].queue = req.queue}
     IN \E batch \in SUBSET fitting :
          /\ Cardinality(batch) <= req.max
          /\ stage' = [j \in Jobs |-> IF j \in batch THEN "drained" ELSE stage[j]]
          /\ call' = [call EXCEPT ![d].pc = "reply", ![d].batch = batch,
                                  ![d].removed = @ \cup batch]
  /\ UNCHANGED <<request, stored, ctx, lost, spoiled, record, replay>>

\* Mutant of DrainFails: the call is retried, as the others are.
DrainRetried(d) ==
  /\ call[d].pc \in {"request", "reply"}
  /\ lost' = lost \cup call[d].batch
  /\ call' = [call EXCEPT ![d].pc = "request", ![d].batch = {}]
  /\ UNCHANGED <<request, stored, stage, ctx, spoiled, record, replay>>

\* The call fails, before or after the server drained, and raises.
DrainFails(d) ==
  /\ call[d].pc \in {"request", "reply"}
  /\ lost' = lost \cup call[d].batch
  /\ call' = [call EXCEPT ![d] = Idle]
  /\ UNCHANGED <<request, stored, stage, ctx, spoiled, record, replay>>

\* The call ends with its answer: it returns the records of jobs, or raises and
\* spoils what it got.
AnswerEnds(d, jobs, spoils) ==
  /\ call[d].pc = "reply"
  /\ record' = [j \in DOMAIN record \cup jobs |->
                  IF j \in jobs THEN dead_letter_record_from_pb(stored[j]) ELSE record[j]]
  /\ spoiled' = [j \in DOMAIN spoiled \cup spoils |->
                   IF j \in spoils THEN spoils ELSE spoiled[j]]
  /\ call' = [call EXCEPT ![d] = Idle]
  /\ UNCHANGED <<request, stored, stage, ctx, lost, replay>>

\* What dead_letter_record_from_pb raises.
RecordError(j) == ConversionError(stored[j], stored[j].failed_at)
Drainable(j) == RecordError(j) = "nothing"

\* Mutant of DrainAnswered: any malformed record fails the whole call.
DrainRaises(d) ==
  IF \A j \in call[d].batch : Drainable(j)
    THEN AnswerEnds(d, call[d].batch, {})
    ELSE AnswerEnds(d, {}, call[d].batch)

\* Malformed records are skipped and the others returned, but an instant out of
\* range raises past the `except JobConversionError`.
DrainAnswered(d) ==
  IF \E j \in call[d].batch : RecordError(j) = "ValueError"
    THEN AnswerEnds(d, {}, call[d].batch)
    ELSE AnswerEnds(d, {j \in call[d].batch : Drainable(j)}, {})

\* The application replays a record.
Replay(j) ==
  /\ j \in DOMAIN record \ DOMAIN replay
  /\ LET req == to_enqueue_request(record[j])
     IN /\ Sendable(req)
        /\ \E headers \in Headers :
             replay' = With(replay, j,
               _inject_trace_into_jobs(enqueue_request_to_pb(req), headers))
  /\ UNCHANGED <<request, stored, stage, ctx, call, lost, spoiled, record>>

Next ==
  \/ Reserve
  \/ \E j \in Jobs : Enqueue(j) \/ DeadLetter(j) \/ Replay(j)
  \/ \E d \in Drainers :
       Drain(d) \/ ServerDrains(d) \/ DrainFails(d) \/ DrainAnswered(d)

Spec == Init /\ [][Next]_vars

-----------------------------------------------------------------------------
Drained == {j \in Jobs : stage[j] = "drained"}

\* Jobs that a drain took and that nobody has.
Gone == lost \cup DOMAIN spoiled

\* Where jobs, records and calls may be; a drained job is in the batch of one
\* call at most, and then nowhere else.
TypeOK ==
  /\ stage \in [Jobs -> {"new", "refused", "queued", "leased", "stranded", "dead", "drained"}]
  /\ DOMAIN request \subseteq Jobs
  /\ DOMAIN stored = {j \in Jobs : stage[j] \notin {"new", "refused"}}
  /\ DOMAIN ctx \subseteq DOMAIN stored
  /\ Gone \subseteq Drained /\ DOMAIN record \subseteq Drained \ Gone
  /\ DOMAIN replay \subseteq DOMAIN record
  /\ \A d \in Drainers :
       /\ call[d].pc \in {"idle", "request", "reply"}
       /\ call[d].batch # {} => call[d].pc = "reply"
       /\ call[d].batch \subseteq Drained \ (Gone \cup DOMAIN record)
       /\ \A e \in Drainers \ {d} : call[d].batch \cap call[e].batch = {}

\* What the client sends keeps to the protocol: no priority out of range, no
\* instant before the epoch ("dropped rather than sent as a negative instant",
\* _convert.py:149), at first and when a job is replayed.
NothingInvalidIsSent ==
  LET sent == {stored[j] : j \in DOMAIN stored \cap DOMAIN request}
                \cup {replay[j] : j \in DOMAIN replay}
  IN \A m \in sent :
       /\ m.queue # Unset /\ m.job_type # Unset
       /\ m.priority \in Priorities \cup {Unset}
       /\ m.scheduled_at = Unset \/ m.scheduled_at >= 0
       /\ \A k \in DOMAIN m.custom : HasValue(m.custom[k])

\* A handler gets what the producer asked for, in value and in type, except a
\* schedule before the epoch; and no job of this client is malformed to it, so that
\* only other jobs can strand it.
HandlerSeesTheRequest ==
  \A j \in DOMAIN request :
    /\ j \in DOMAIN stored => Deliverable(j)
    /\ j \in DOMAIN ctx =>
         /\ \A f \in {"queue", "job_type", "payload", "custom"} : ctx[j][f] = request[j][f]
         /\ \A f \in {"priority", "trace_context", "max_attempts"} :
              request[j][f] # Unset => ctx[j][f] = request[j][f]
         /\ ctx[j].scheduled_at = IF request[j].scheduled_at = Unset \/ request[j].scheduled_at < 0
                                    THEN Unset ELSE request[j].scheduled_at

\* A replay asks for the job that died, for now and as a new job: same queue,
\* type, payload, priority, attempts, custom values and, if it was valid, trace
\* (to_enqueue_request, types.py:396-410).
ReplayIsFaithful ==
  \A j \in DOMAIN replay :
    /\ \A f \in {"queue", "job_type", "payload", "priority", "custom"} :
         replay[j][f] = stored[j][f]
    /\ replay[j].max_attempts = IF stored[j].max_attempts = 0 THEN Unset
                                                             ELSE stored[j].max_attempts
    /\ stored[j].trace_context \in ValidTraceparents =>
         replay[j].trace_context = stored[j].trace_context
    /\ replay[j].scheduled_at = Unset /\ replay[j].idempotency_key = Unset

\* A drained record is held by the application, on its way to it, malformed, or
\* lost with a whole batch, of a call that failed or of one whose answer had an
\* instant out of range; a record that is malformed in any other way takes no
\* other along (client.py:587-593).
LossesHaveACause ==
  \A j \in Jobs : stage[j] = "drained" =>
    \/ j \in DOMAIN record \cup lost
    \/ \E d \in Drainers : j \in call[d].batch
    \/ ~Drainable(j)
    \/ j \in DOMAIN spoiled /\ \E i \in spoiled[j] : RecordError(i) = "ValueError"

\* "A malformed job in the response is logged and skipped rather than failing the
\* whole batch" (client.py:413-414, and the warning at 592 for drained records):
\* what a call does not return of its answer could not be converted itself.
MalformedIsSkipped ==
  /\ \A j \in Jobs : stage[j] = "stranded" => ~Deliverable(j)
  /\ \A j \in DOMAIN spoiled : ~Drainable(j)

\* One call removes no more than one batch of the queue it was asked to drain,
\* whatever fails ("a dropped response loses exactly that batch", client.py:564).
OneBatchPerCall ==
  \A d \in Drainers :
    /\ Cardinality(call[d].removed) <= LargerOf(call[d].asked.max, 1)
    /\ call[d].asked.queue # Unset =>
         \A j \in call[d].removed : stored[j].queue = call[d].asked.queue
=============================================================================
