# Verification of the sepp Python client

This directory specifies and checks the client library of this repository
(`src/sepp`): a gRPC client of a job-queue server, and a `Worker` that runs the
loop *reserve → process → ack or nack* on top of it. The specifications are
translated from the source; the server, asyncio and the application's handlers
are external and modelled from how the code uses them.

## The system

| Component | State | Operations | Hard behaviour |
| --- | --- | --- | --- |
| Worker loop (`worker.py`: `run`, `_or_shutdown`, `_spawn`, `ShutdownHandle`) | shutdown event, semaphore, set of job tasks, `_in_flight` | reserve round, backoff, batch spawn, drain, unwinding | every await races shutdown and the cancellation of `run()`; the capacity is read before a long poll |
| Job task (`worker.py`: `_run_job`, `_run_with_auto_extend`, `_heartbeat`, `_dispose`) | handler task, heartbeat task, `lease_lost`, known expiry | run the handler, extend the lease, ack or nack | the heartbeat's verdict races the handler's end; cancellations are swallowed; extends are lost or late |
| Client calls (`client.py`) | retry policy, stub, metadata | enqueue (3 methods), reserve, ack, nack, extend, server info, dead letters | an executed call whose answer is lost; which codes may be retried |
| Error mapping (`errors.py`) | none | status code to exception, sets of retryable codes | the heartbeat and the retries decide by it |
| Conversions (`_convert.py`) | none | values to and from the protocol | floors to milliseconds, invalid instants, malformed jobs |
| Types (`types.py`) | none | validation | boundaries |
| Handler registry (`worker.py`: `handle`, `replace_handler`, ...) | two fields | register, replace, remove | changes while jobs run |
| Connection (`client.py`: `connect`, `from_channel`, `close`) | channel, its TLS options, API key | open with a time limit, close, get server info | a connect that fails or is cancelled half way; closing under calls in flight or under a running worker |
| Telemetry (`_otel.py`) | counters | processed, retried, dead-lettered | counted from an answer that may be lost, late or to a repeated request |
| Generated code (`v1/`) | none | | |

The worker reserves through the client, holds each reserved job in a task of
its own, and gives the job's fate back through ack or nack. All coroutines of a
process share one event loop: two pieces of code never run at the same time,
and interleave only where an `await` suspends. The job tasks give their
semaphore permit back to the loop in a done callback. The server sees only
calls, and may lease, expire and reassign jobs at any time.

What makes each component correct:

- worker loop: permits are conserved on every path, no more tasks than permits,
  jobs that were handed over are processed, shutdown and cancellation end it,
  nothing is left behind;
- job task: a job is acked only if its handler returned, never after its lease
  was declared lost; the lease is kept while it can be; a loss is noticed;
- several workers: a report of an earlier delivery never settles a later one,
  what is counted has happened, every job is settled in the end, whatever
  crashes;
- enqueue: no duplicates through retries, results that are true;
- connection: a failed connect leaves no channel, the warning about a key in
  plaintext agrees with the channel, calls raise what they document and end, long
  polls are not cut short;
- conversions: what a handler or a replay gets is what was asked for;
- dead letters: a destructive call loses no more than it must, one malformed
  record takes no other along.

## Modules

| Module | Models |
| --- | --- |
| `WorkerLoop` | `Worker.run` and all it calls up to the job tasks |
| `BoundedPool` | the abstract promise of a worker: jobs are taken over only with room for one, start within a bound, are dropped only by a cancellation |
| `WorkerLoopProofs` | the inductive invariant and the theorems of `WorkerLoop` |
| `WorkerLoopRefinement` | the proof that `WorkerLoop` implements `BoundedPool` |
| `JobTask` | one job task: handler, heartbeat, `Lease.extend`, ack or nack, over the client's retried calls |
| `LeasedJob` | the abstract promise of one delivery: one handler, one lease, at most one report, a true one |
| `JobTaskProofs` | the inductive invariant and the theorems of `JobTask`, and that it implements `LeasedJob` |
| `Fleet` | several workers on one server: reserves, reports, redelivery, dead letters, crashes, restarts, and what is counted |
| `FleetProofs` | its invariant and theorems, and that each delivery implements `LeasedJob` |
| `Client` | `SeppClient` as the owner of its channel, and the deadlines, retries and errors of its calls |
| `ClientProofs` | its invariant and theorems |
| `Retry` | `RetryPolicy` and the decisions of `_with_retry`; used by `JobTask`, `Enqueue` and `Client` |
| `Errors` | the exception classes, the status-code sets and the three error maps; used by `Retry` and `Fleet` |
| `Enqueue` | one call of `enqueue`, `enqueue_batch` or `enqueue_atomic` |
| `EnqueueProofs` | no duplicates and true results, for any batch and any retry policy |
| `Convert` | the conversions of `_convert.py` and the validation and replay of `types.py`, as operators |
| `JobLife` | a job from its request to its handler, the dead-letter store, a drain and a replay, over `Convert`; `MCJobLife` lists the kinds of requests and jobs |
| `JobLifeProofs` | what the conversions preserve of any value, and the invariant and theorems of `JobLife` |

How they compose: `WorkerLoop` and `JobTask` are the inside of one worker and of
one job task. `Fleet` sees both from the server's side, with the loop reduced to
"a task is created or the lease is stranded" and the heartbeat to "the lease may
be kept while the handler runs"; that each of its deliveries, and `JobTask`
itself, implement the same `LeasedJob` is what holds the two views together.

The definitions called "Mutant of ..." are plausible bugs of the definition
that follows them. They are in no specification; replacing the definition by its
mutant must break the property that is about it.

### WorkerLoop

`pc` says where `run()` is suspended: `start` (its task has not run yet),
`wait` (the `asyncio.wait` of `_or_shutdown`), `reap_task`, `reap_sd`,
`reap_both` (the three `gather`s of `_or_shutdown`), `batch` (the
`await sem.acquire()` between two jobs of a batch), `drain`, `reap_jobs` (the
gather of the `CancelledError` handler), and the three ends `returned`,
`cancelled`, `raised`. `op` is the awaitable that races shutdown, `child` its
completion, `sd` the shutdown waiter's. `value` is `sem._value`.

An action is the code between two awaits that really suspend, so the check
`while not shutdown.is_shutdown`, a `continue` and the creation of the next pair
of children are in one action, and `sem.acquire()` on a free semaphore spawns
several jobs of a batch at once. Three facts of asyncio shape the model:

- `asyncio.wait` resumes later than the first completion and looks again at what
  is done, so both children may be done; the awaited result then wins;
- after the result wins, `run()` reaps the shutdown waiter at a real suspension,
  and does not look at the event again before it goes on;
- a done callback of a task runs before the gather that waits for the task
  resumes, so drain and unwinding end with no task and no count left.

`Deliveries` are slots: a slot is `free`, on the `wire` (leased by the answer to
the pending Reserve), in the `batch`, has a task (`created`, `running`,
`finished`), or is `stranded` (leased to this worker, which has no trace of it).
A slot is free again when its task is done or its lease expires, and then stands
for any later delivery, so the model needs no bound on how many jobs pass.

The mapping to `BoundedPool` hides the loop: `handed` are the jobs of the batch
that wait, `tasks` those with a task, and `mode` follows the cancellation and the
end of `run()`. A `run()` that an unexpected exception ends (a closed channel)
leaves its job tasks going, which the pool calls `crashed`.

### JobTask

`pc` is where `_run_job` is suspended, `handler` and `hb` are the two tasks of
`_run_with_auto_extend` (without auto-extension the handler runs inside the job
task and `hb` stays `none`). A cancellation in transit is `hCancel` (to the
handler, from the heartbeat or from `run()` through the job task's await) or
`jobCancel` (to the job task itself). `call` holds the call each coroutine is
making: sent, executed at the server with the answer on its way, or between two
attempts. An attempt may fail before or after its execution.

Times are what is left of a timer, in ticks of a millisecond, the unit the code
computes in; a third of a lease that is not whole is rounded up. Nothing depends
on absolute time, so there is no horizon. `told` and `refused` are history
variables: the last expiry any call reported to this process, and whether the
server refused an extension.

`auto_extend` is chosen by `Init` among `AutoExtend`, so one run covers both
ways. Calling the handler may itself raise (a wrong signature, a plain function):
without auto-extension the `try` of `_run_plain` catches that and the job is
nacked, with it nothing does and the task ends. `handler_extension` is the
duration the handler asks for in its own extends, which may be shorter than the
heartbeat's; the known expiry is then not a lower bound of the server's, and
`KnownExpiryIsSafe` says so in its premise. A failure `closed` is an exception
that is not a `SeppError`: it ends the heartbeat silently.

To `LeasedJob` a handler whose task has not run is one that has not started, and
an expired or reassigned lease is lapsed.

### Fleet

A delivery is a pair of a job and the number of its attempt, which is also what
every report carries. `stage`, `cause` and `attempt` are the server's, `phase`,
`result` and `told` the worker's. `cause` is the `DeadLetterCause` of `types.py`
with its four ways to die: rejected by the handler, attempts exhausted, lease
expired on the last attempt, and an operator (`AdminDeadLetters`), who may take a
job that waits or one that a worker holds, whose reports are then refused. `requests` is the set of ack and nack requests ever
sent: `Executed` may take any of them at any time, again or never, which covers
lost, late and repeated requests as well as `_with_retry`. `answer` is what came
back to the call that is still waiting. `Recorded` is the end of `_dispose`: a
counter, a log line, or nothing for a job without handler.

`Stranded` stands for every way in which a leased job gets no task: a Reserve
that fails, is cancelled by shutdown, crosses a crash or raises over an instant
out of range, or a job that cannot be converted. `Abandoned` is a job task that ends without a report. `Crash` takes a
worker's tasks with it, `Shutdown` and `Drained` are the graceful end, `Restart`
starts a new `Worker` in the same place.

### Client

`connect` says where `SeppClient.connect` is and how it ended, `channel` what it
opened. `connect` reads its options three times, and so does the model: `UseTls`,
the warning (`Warns`) and the choice of the channel (`OpensSecure`). Only the last
one decides `secure`, what the channel really is, and the property about the
warning is stated over it; a channel of the caller's own may be of either kind.
A call is a record of its method, attempt, phase and two timers: what
is left of the attempt's deadline and of the message under way. Time passes only
when neither is due. `lost` collects the codes with which a reserve failed after
the server had leased jobs to it (history). `Close` ends calls in flight with a
`CancelledError`; a call in its backoff finds the channel closed when it goes on.
What the calls do at the server is in the other modules. `Replies` are the shapes
of an answer that a method tells apart and `Raised` what its conversion raises of
them. An answer with an instant or a duration out of range raises a bare
`ValueError` (or `OverflowError`, which is the same here) from every method that
reads one but `extend`: from the printing of the instant in the message of the
error that was meant (`_convert.py` 229, 275, 281, 349, 355), or from
`ToTimedelta` and `ToDatetime` (187-189, 245-250).

### Enqueue

The inputs (method, number of jobs, which ones have a key) are chosen by `Init`.
The server stores accepted jobs and recognises keys; its answer may have the
wrong number of results, miss an outcome, or carry a rejection whose instant is
none, which the conversion turns into a `ValueError`. A failed attempt may have been
executed if its code is in `AmbiguousCodes`. The assumption
`AmbiguityAssumption` is the client's own premise, stated in the comments of
`errors.py` and `_enqueue_retryable_codes` and in `tests/test_client.py`: a code
it retries for keyless jobs (`UNAVAILABLE`, `RESOURCE_EXHAUSTED`) means the
request was not executed. gRPC does not guarantee that: a connection that breaks
after the server has executed a call is `UNAVAILABLE` too. `EnqueuedAtMostOnce`
and `ResultsAreTrue`, and the theorems `NoDuplicates` and `ResultsTrue`, are true
of the client on its premise (`tests/test_client.py` 366-368, 393-395) and say
nothing of a server or a network that breaks it.

### Convert and JobLife

A datetime is an instant in microseconds and a protobuf timestamp one in
nanoseconds; names, payloads and contexts are opaque. A custom value keeps its
Python type, because `bool` is a subclass of `int` and the order of the tests
decides which field carries it. `ConversionError` is what `job_from_pb` and
`dead_letter_record_from_pb` raise, in the order of their tests: a
`JobConversionError` for what is missing, a priority out of range, or an instant
before the epoch, and a `ValueError` for an instant that cannot even be printed
(`Printable`: from `FirstInstant` to `LastInstant`; nanos out of range count as
outside). A bad trace context or schedule is dropped instead. The two conversions agree on the fields of a job, and the
model keeps those a replay uses (not the cause, the reason and the final
attempt). A foreign job is one another producer stored, whatever its shape.

`stage` follows a job; the other variables about jobs are functions on the jobs
that have such a thing (a request, a context, a record). A drain takes any dead
letters of the queue, not the oldest: the order is the server's, and no property
is about it. `call[d]` is the last call of a drainer: what the application
asked, what went into the request, the batch in the answer, and what the call
has removed from the server. `Reserve` converts a whole answer, as
`DrainAnswered` does: a `JobConversionError` skips one of it, a `ValueError`
ends the call and leaves the jobs `stranded`, or the records `spoiled` (which
notes the batch a record was lost with). `Enqueue` here is one undisturbed call;
retries are in module `Enqueue`.

## Runs

| Run | Instance | Shows |
| --- | --- | --- |
| `worker` | 4 deliveries, 3 permits, requests for at most 2 jobs, a server that may send more than that, fairness | batches no larger than asked for start at once, permits are conserved, concurrency stays bounded, nothing leaks, returned jobs are processed, cancellation is not masked, the bounded pool is implemented, jobs handed over start in the end, shutdown and cancellation end `run()`, otherwise it keeps reserving |
| `worker_shutdown_reserves` | 1 delivery, `max_in_flight = 0` clamped to 1 | violated: a Reserve is sent after shutdown |
| `job_auto` | with and without auto-extension; requested lease 4, granted 3, three attempts, lagging event loop | verdict, reports, no orphans, safe known expiry, justified aborts, and the leased job is implemented |
| `job_timely` | requested lease 12, granted 5, clock skew 1, no failures, no lag, a handler that extends with `SeppClient.extend` | the lease is kept |
| `job_live` | explicit interval 2, skew 1, two attempts, handler extends by 1, every extend may fail, fairness | a reassignment is noticed |
| `job_client_extend` | the handler uses `SeppClient.extend` | violated: an abort before the expiry the server reported |
| `job_handler_call` | calling the handler may raise, auto-extension | violated: a failed handler is not nacked |
| `fleet` | 2 workers, one with auto-extension, 1 job, 2 attempts, one crash or shutdown, an operator, fairness | dead letters are deserved, counts are true, each delivery is a leased job, the job is settled |
| `enqueue` | up to 2 jobs, 3 attempts, all mixes of keys | at most once, true results |
| `client` | 1 coroutine that calls and one that connects and closes, 6 methods, 5 ways to ask for TLS, with and without credentials, 2 attempts, latency 1, slack 3, fairness | no channel left, a warning exactly where a key meets a plaintext channel, documented errors, long polls return, calls end |
| `job_life` | 2 jobs, 2 drainers, 6 kinds of request, 7 of foreign job, a current span | nothing invalid is sent, handlers see the request, replays are faithful, a failed drain loses one batch, and every lost record has a cause |
| `job_life_malformed` | the same values | violated: a job or record with an instant out of range takes the others of its answer along |

Bounds. With three permits and requests for two jobs a request is cut both by
`max_jobs` and by the capacity, and a batch can be partly started while another
task runs; four deliveries let an over-delivering server fill the permits and
keep a job waiting. A permit leaked once per round stops the loop after three
rounds. In `JobTask` a lease of three ticks and a call deadline of one leave
room for a heartbeat that succeeds, one that fails in time and one that fails
too late. In `Fleet` two attempts are a first and a last one, two workers let a
redelivery meet the worker that left, and one stop (`MaxStops`) can hit at any
step of either; jobs share nothing but the workers. In `Client` a message takes
one tick and the slack is three, the least with `2 * Latency < Slack`; calls of
several coroutines share only the channel, which `Close` takes from any of them
at every step of a call. A job's values do not depend on other jobs, so
`job_life` needs every value the code treats differently but only two jobs,
which make a batch of two, a good one beside a bad one, or a second batch of
one. The theorems remove the bounds for safety.

A run that ended may be called again, drainers and workers never stop, and
`JobTask`, `Enqueue` and a client that was never opened stutter once they are
over. Deadlock is checked everywhere.

Fairness. The event loop runs every ready coroutine: weak fairness of each step
of the loop, its children, the cancellation path, the job tasks' start and their
callbacks. A sleep ends. A Reserve ends because it carries a deadline
(`client.py`, `wait_timeout` plus slack), so its answer or its failure is fair.
`worker` also assumes that job tasks end, which the documentation of `run()`
names as a condition of the drain. `job_live` assumes nothing of the handler
beyond its task being started: it may hang. `client` assumes that time passes,
which it does until a message or a deadline is due, and that a due step is
taken; it assumes nothing of the code an attempt fails with nor of what is
answered. `fleet` assumes that handlers end, that tasks run and drains finish,
that a worker that is down is started again, that a lease nobody extends lapses,
and that a server with a ready job leases it to some worker; it assumes nothing
of reports, which may all be lost, nor of the operator. Elsewhere the server is
never assumed to lease or to answer well.

### Disagreements with the documentation

- `ShutdownHandle.shutdown` is documented to stop new reservations. If it is
  called after the round's permit was acquired and before `run()` resumed, a
  Reserve is still sent. It is cancelled at once, and whatever the server leased
  to it waits for its lease to expire (`worker_shutdown_reserves`).
- `SeppClient.extend(ctx, ...)` is documented as equivalent to `JobCtx.extend`.
  Only the latter tells the heartbeat the new expiry, so a handler that uses the
  former is aborted by the first failed extend after the old expiry
  (`job_client_extend`).
- The documentation of the worker says that any other exception of a handler
  nacks the job for retry. With auto-extension an exception of the call itself,
  before there is a coroutine, is raised outside every `try` of
  `_run_with_auto_extend`, and the job waits for its lease to expire
  (`job_handler_call`).
- A malformed job is documented to be skipped rather than to fail the whole batch,
  and a malformed dead-letter record is logged as skipped. An instant before the
  epoch is, but one out of range is not: the message of the `JobConversionError`
  prints it with `ToJsonString`, which raises `ValueError`, and `reserve` and
  `drain_dead_letters` catch only `JobConversionError`. One such job strands the
  others of its Reserve and ends `Worker.run`; one such record loses the others of
  a drain, which the server no longer has (`job_life_malformed`). What does hold
  is `LossesHaveACause`: no other kind of malformed record does this.

Four smaller ones have no run. The same `ValueError` leaves `get_server_info`,
which means to wrap a bad answer in `MalformedServerInfoError`, although
`errors.py` calls `SeppError` the base of every error the library raises; it is
the exception `RaisesAsDocumented` names. `drain_dead_letters` is documented to
return, and remove, up to `max_records`; it asks the server for at least one, so
a drain of zero records removes one (`Drain` of `JobLife`). A rejection whose
instant is none makes the enqueue methods raise a `ValueError` as well, where
the documentation promises a `ClientError` for an answer that breaks the
protocol (`Exception` of `Enqueue`). A `connect` that is cancelled closes
nothing and leaves its channel to the garbage collector (`CancelConnect` of
`Client`).

## Proofs

Every theorem holds for all values of the constants that satisfy the named
assumptions of the modules: any finite set of deliveries, any limit, any retry
policy, any durations and clock skew, any set of jobs, workers and coroutines.

`WorkerLoopProofs`: `TypeOK`, `PermitConservation`, `WholeBatchStarts`,
`BoundedConcurrency`, `NothingLeaks`, `ReturnedJobsAreProcessed` and
`CancellationIsNotMasked`. The properties speak of counters that follow sets, and
are not inductive. `Inv` adds that `_in_flight` is the number of tasks; which
awaitable, completion and control point go together (so that "the permit `run()`
holds" is determined); that jobs are on the wire or in a batch only in the
matching control states; and that what was asked for is at most one more than the
free permits. The last part is the argument of `WholeBatchStarts`:
`value + 1 + _in_flight = max_in_flight` when a permit is held, so the capacity
computed from `_in_flight` is exactly the number of permits the batch can use,
and tasks that end meanwhile only add to it. After a cancellation conservation
turns into an inequality, since the permit of `run()` is lost with its semaphore;
that is enough for `BoundedConcurrency`.

`WorkerLoopRefinement`: `ImplementsPool`. Most steps of the loop are stutters of
the pool. The invariant places the visible ones: jobs arrive only while `run()`
holds a permit, so with room for one; tasks start only against a permit; and
`run()` ends only where no task and no waiting job can be left.

`JobTaskProofs`: `TypeOK`, `VerdictIsFinal`, `ReportsMatchTheHandler`,
`NothingOutlivesTheJob`, `KnownExpiryIsSafe`, `AbortIsJustified` (unless the
handler extends through `SeppClient.extend`, which is the disagreement above) and
`ImplementsDelivery`. The invariant has five parts beside the types. `WhereOK`
says which of the job task, its handler and its heartbeat are alive together.
`CallsOK` says that only a coroutine that waits for it has a call under way.
`OutcomeOK` says that a verdict or a cancellation leads away from the report and
what the report will be. `ExpiriesOK` bounds the expiries that travel in answers,
and so the known one, by the server's: the lease only grows by extensions of the
same length, and every timer, also that of an answer under way, counts down with
it. `ToldOK` says that the heartbeat knows what the process was told. With
`OutcomeOK` the only step that settles a lease is an executed ack or nack of a
handler that ended that way, which is `LeasedJob!Report`.

`FleetProofs`: `TypeOK`, `DeadLettersAreDeserved`, `CountsAreTrue` and
`EveryDeliveryIsALeasedJob`. `JobOK` says that a job has a cause exactly when it
is dead. `RequestOK` says that a request carries the attempt
of its own delivery and what its handler did, whatever has become of the worker
since. `LeaseOK` says that a lease is held only by the last delivery of a leased
job, and what a settled one tells of the job, of the result and of the cause. An
operator ends a lease as its expiry does (`LapseEnds`), or takes a job between two
deliveries, which the counts tell from a nack's dead letter by the cause. So a request that
the server accepts comes from the delivery that holds the lease. `AnswerOK` and
`ToldOK` carry this to the answer that is waiting and to what is counted from it;
they stay true because a job that is done or dead never changes again.

`EnqueueProofs`: `TypeOK`, `EnqueuedAtMostOnce` and `ResultsAreTrue`, from
`AmbiguityAssumption`. Its invariant: a call with a keyless job that was executed
is never sent again (`ResendOK`), a call that waits has an attempt left, an answer
accepts exactly what the server has (`AnswerOK`), and an exception that rejects a
batch is raised only of an answer that accepts nothing (`ErrorOK`).

`ClientProofs`: `TypeOK`, `FailedConnectLeavesNothing`,
`PlaintextKeysAreWarnedOf`, `RaisesAsDocumented` and `LongPollsAreNotCutShort`.
`ChannelOK` and `WarnedOK` follow connect, the latter both the warning and the
channel's security from the options, `AttemptsOK` counts, and `DeadlinesOK`
says for each phase of a reserve how much of its deadline is left beyond what the
request, the wait at the server and the answer may still take: at the answer that
is `Slack - 2 * Latency`.

`LeaseIsKept` (`LeaseKept`, in `JobTaskProofs`) is proved under `Timely`, since
the code alone does not guarantee it: auto-extension, an event loop that does not
lag, calls that do not fail, a handler that never asks for less than the heartbeat
does, and an interval that, for every remainder of a lease the heartbeat may learn
of, ends more than one call's deadline before the lease does. `job_timely` is an
instance. The inductive part is `Ahead`: wherever the heartbeat is (not started,
asleep, with an extend on its way to the server or the answer on its way back),
what is left of its timer and of the call after it is less than what is left of
the lease at the server. An answer sets the next interval by the expiry it
carries, which is at most the server's and at most one deadline old (`ExtendOK`),
and an extend of the handler moves the server's only further.

`JobLifeProofs`: all of `JobLife`, for any requests the types allow, any jobs of
other producers, any trace context of the current span and any drainers. Its
invariant says where each value came from: a stored job from its request
(`StoredOK`), a context and a record from the stored job, a replay from the
record (`ConvertedOK`), so that the properties become facts about two conversions
in a row. The lemmas on those hold for every value: a custom value comes back
with its type, since the field chosen for it determines it (`PrimitiveComesBack`);
the custom values of a record go back as the server held them (`CustomGoesBack`);
and an instant is negative in milliseconds exactly when it is negative, survives
nanoseconds, and is never mistaken for none (`Instants`). `CallsOK` says that a
call removes nothing before its one answer, and removes from the queue it was
asked for; this with the disjoint batches of `TypeOK` gives the properties of the
drains. For `LossesHaveACause` the invariant keeps with each spoiled record the
batch it was in, one of which had an instant out of range. The assumptions are
those of the types: `UnsetAssumption`, that `None` is none of the values it stands
beside, `InstantsAssumption`, that the epoch is among the instants, and
`JobsAssumption`, that a schedule is not after the last datetime, that a trace
context is a valid one, that a oneof has one of its fields or none, and that the
server's default priority is in range.

Checked by TLC only: all liveness, which the provers do not reason about
(`HandedJobsLeave`, `StopEndsRun`, `KeepsReserving`, `ReassignmentIsNoticed`,
`EveryJobSettles`, `CallsEnd`). Every safety property of a passing run is stated
by a theorem. The four properties that the code violates are about the runs
above.

## What is not modelled

- Two concurrent `run()` calls on one worker: they would share `_in_flight` but
  not a semaphore, and nothing in the code provides for it.
- The length of the loop's backoffs.
- The registry's methods, which assign two fields without an await: a job sees
  only whether it has a handler when its task starts.
- Spans, histograms and log events, which change nothing the client or the worker
  reads; the generated protocol code.
- The validation of `ReserveOptions`, the fields of `ServerInfo`, and the
  conversions of rejections but for an instant that is none: they copy fields.
- The format of a traceparent and the range of integers in protobuf fields.
- Authentication beyond the API key and the TLS options.
- In `Enqueue` and `JobTask` a call that times out at the client while its request
  is still on its way is taken either as executed or as lost; one executed even
  later is in `Fleet`, for acks and nacks.

An `extend` that raises something else than a `SeppError` is modelled (`closed`),
but no property can hold of it: the heartbeat ends, and nothing in the code
notices.

## Plan

1. `Fleet` and `Enqueue` with an abstract specification of the server's queue, so
   that "at most once" and "acked or dead-lettered" are one promise.
2. Time in the worker loop, to bound the rate at which it polls a server that
   answers empty at once; the validation of `ReserveOptions`.
