----------------------------- MODULE WorkerLoop -----------------------------
(***************************************************************************)
(* Worker.run (worker.py): the reserve loop, its race against shutdown,    *)
(* the semaphore that bounds the jobs in flight, the job tasks it spawns,  *)
(* the drain at shutdown and the unwinding when run() is cancelled.        *)
(*                                                                         *)
(* asyncio runs one coroutine at a time, so an action is the code between  *)
(* two awaits that really suspend.  Actions of the children of             *)
(* _or_shutdown, of the job tasks and of the server interleave with them.  *)
(* What a job task does while it runs is module JobTask.                   *)
(***************************************************************************)
EXTENDS Integers, FiniteSets

CONSTANTS Deliveries,       \* slots for deliveries of jobs, reused when free
          max_in_flight,    \* the constructor's argument
          max_jobs          \* the constructor's argument; None is any number
                            \* that is at least MaxInFlight

ASSUME DeliveriesAssumption == IsFiniteSet(Deliveries)
ASSUME LimitsAssumption == max_in_flight \in Int /\ max_jobs \in Nat \ {0}

VARIABLES shutdown,    \* the event of the ShutdownHandle is set
          cancelReq,   \* run()'s task has been cancelled by its owner
          pc,          \* where run() is suspended
          op,          \* the awaitable that _or_shutdown races
          child,       \* that awaitable: pending, or how it completed
          sd,          \* the _wait() it races against
          value,       \* sem._value
          asked,       \* max_jobs of the pending Reserve request
          st,          \* where each delivery is
          cancelled,   \* tasks cancelled and not yet over
          in_flight    \* self._in_flight

vars == <<shutdown, cancelReq, pc, op, child, sd, value, asked, st, cancelled,
          in_flight>>

-----------------------------------------------------------------------------
LesserOf(a, b) == IF a < b THEN a ELSE b
GreaterOf(a, b) == IF a < b THEN b ELSE a

MaxInFlight == GreaterOf(1, max_in_flight)

\* free: not with this worker (another worker's, not enqueued yet, or over).
\* wire: leased to this worker by the answer to its pending Reserve.
\* batch: in the list run() got, without a task.
\* created, running, finished: has a task, which has not run its first step,
\*   is inside _process_job, is over with its done callback still to come.
\* stranded: leased to this worker, which holds no trace of it any more.
Stages == {"free", "wire", "batch", "created", "running", "finished", "stranded"}

Free == {d \in Deliveries : st[d] = "free"}
OnWire == {d \in Deliveries : st[d] = "wire"}
Batch == {d \in Deliveries : st[d] = "batch"}
\* The set `tasks` of run().
Tasks == {d \in Deliveries : st[d] \in {"created", "running", "finished"}}

Move(S, stage) == [d \in Deliveries |-> IF d \in S THEN stage ELSE st[d]]

Outcomes == {"acquired", "slept",                          \* acquire, sleep
             "jobs", "early", "late", "error",           \* reserve
             "dropped", "crash"}
ChildDone == child \in Outcomes

Ended == pc \in {"returned", "cancelled", "raised"}

-----------------------------------------------------------------------------
(* Pieces of a step of run().                                              *)

NoRace == op' = "none" /\ child' = "none" /\ sd' = "none"

\* The first half of _or_shutdown: both children exist, run() waits for one.
OrShutdown(awaitable) ==
  /\ pc' = "wait"
  /\ op' = awaitable
  /\ child' = "pending"
  /\ sd' = "pending"

\* The loop is over: wait for the job tasks, if there are any.
LeaveLoop ==
  /\ pc' = IF Tasks = {} THEN "returned" ELSE "drain"
  /\ NoRace

\* Mutant of EnterLoop: `while True`.
EnterLoopAlways == OrShutdown("acquire")

\* `while not shutdown.is_shutdown`, and the permit of the next round.
EnterLoop == IF shutdown THEN LeaveLoop ELSE OrShutdown("acquire")

\* Mutant of RequestedJobs: forgets the jobs in flight.
RequestedJobsOfIdleWorker == LesserOf(max_jobs, MaxInFlight)

\* _reserve_opts_with_capacity
RequestedJobs == LesserOf(max_jobs, GreaterOf(1, MaxInFlight - in_flight))

\* run() starts tasks for as many jobs of its batch as there are permits, n,
\* without suspending; `spare` of them are taken from the semaphore now.
SpawnSome(n, spare) ==
  \E S \in SUBSET Batch :
    /\ Cardinality(S) = n
    /\ st' = Move(S, "created")
    /\ in_flight' = in_flight + n
    /\ value' = value - spare
    /\ IF S = Batch
         THEN IF shutdown
                THEN pc' = "drain" /\ NoRace
                ELSE OrShutdown("acquire")
         ELSE pc' = "batch" /\ NoRace

-----------------------------------------------------------------------------
Init ==
  /\ shutdown = FALSE
  /\ cancelReq = FALSE
  /\ pc = "start"
  /\ op = "none" /\ child = "none" /\ sd = "none"
  /\ value = MaxInFlight
  /\ asked = 0
  /\ st = [d \in Deliveries |-> "free"]
  /\ cancelled = {}
  /\ in_flight = 0

RunStart ==
  /\ pc = "start" /\ ~cancelReq
  /\ EnterLoop
  /\ UNCHANGED <<shutdown, cancelReq, value, asked, st, cancelled, in_flight>>

\* run()'s task is cancelled before its first step: its body never runs.
NeverStarted ==
  /\ pc = "start" /\ cancelReq
  /\ pc' = "cancelled"
  /\ UNCHANGED <<shutdown, cancelReq, op, child, sd, value, asked, st, cancelled,
                 in_flight>>

-----------------------------------------------------------------------------
(* The two children of _or_shutdown.                                       *)

SdDone ==
  /\ pc = "wait" /\ sd = "pending" /\ shutdown
  /\ sd' = "done"
  /\ UNCHANGED <<shutdown, cancelReq, pc, op, child, value, asked, st, cancelled,
                 in_flight>>

Racing(awaitable) == pc = "wait" /\ op = awaitable /\ child = "pending"

\* Mutant of AcquireDone: a semaphore that does not block at zero.
AcquireNeverBlocks ==
  /\ Racing("acquire")
  /\ child' = "acquired"
  /\ value' = value - 1
  /\ UNCHANGED <<shutdown, cancelReq, pc, op, sd, asked, st, cancelled, in_flight>>

AcquireDone ==
  /\ Racing("acquire") /\ value > 0
  /\ child' = "acquired"
  /\ value' = value - 1
  /\ UNCHANGED <<shutdown, cancelReq, pc, op, sd, asked, st, cancelled, in_flight>>

SleepDone ==
  /\ Racing("backoff")
  /\ child' = "slept"
  /\ UNCHANGED <<shutdown, cancelReq, pc, op, sd, value, asked, st, cancelled,
                 in_flight>>

\* The server leases deliveries to the pending request, perhaps more than asked for.
ServerLeases ==
  /\ Racing("reserve")
  /\ OnWire = {}
  /\ \E S \in SUBSET Free \ {{}} : st' = Move(S, "wire")
  /\ UNCHANGED <<shutdown, cancelReq, pc, op, child, sd, value, asked, cancelled,
                 in_flight>>

\* client.reserve returns: malformed jobs are skipped, and a list that is
\* empty is None.  run() will tell an early None from one at the timeout.
ReserveAnswered ==
  /\ Racing("reserve")
  /\ \E malformed \in SUBSET OnWire :
       LET jobs == OnWire \ malformed IN
       /\ st' = [d \in Deliveries |-> IF d \in malformed THEN "stranded"
                                      ELSE IF d \in jobs THEN "batch" ELSE st[d]]
       /\ child' \in IF jobs = {} THEN {"early", "late"} ELSE {"jobs"}
  /\ UNCHANGED <<shutdown, cancelReq, pc, op, sd, value, asked, cancelled, in_flight>>

\* client.reserve raises: a SeppError for any failed call (also one whose
\* answer was lost), CancelledError when the client is closed under it, and
\* something else when it had been closed before or when an instant of a job is
\* out of range, which fails the whole answer.
ReserveFailed ==
  /\ Racing("reserve")
  /\ child' \in {"error", "dropped", "crash"}
  /\ st' = Move(OnWire, "stranded")
  /\ UNCHANGED <<shutdown, cancelReq, pc, op, sd, value, asked, cancelled, in_flight>>

-----------------------------------------------------------------------------
(* run() resumes from asyncio.wait.                                        *)

\* Mutant of ShutdownWins: shutdown is preferred when both are done.
ShutdownPreferred ==
  /\ pc = "wait" /\ ~cancelReq /\ sd = "done"
  /\ pc' = "reap_task"
  /\ st' = Move(OnWire \cup Batch, "stranded")
  /\ asked' = 0
  /\ UNCHANGED <<shutdown, cancelReq, op, child, sd, value, cancelled, in_flight>>

\* Shutdown won: _or_shutdown cancels the awaitable and waits for it.  The
\* answer of a cancelled Reserve is never seen.
ShutdownWins ==
  /\ pc = "wait" /\ ~cancelReq /\ sd = "done" /\ child = "pending"
  /\ pc' = "reap_task"
  /\ st' = Move(OnWire, "stranded")
  /\ asked' = 0
  /\ UNCHANGED <<shutdown, cancelReq, op, child, sd, value, cancelled, in_flight>>

\* `if shutdown_won: break`, after the release of a reserve's permit.
BreakOut ==
  /\ pc = "reap_task" /\ ~cancelReq
  /\ value' = IF op = "reserve" THEN value + 1 ELSE value
  /\ LeaveLoop
  /\ UNCHANGED <<shutdown, cancelReq, asked, st, cancelled, in_flight>>

\* The awaitable won: the wait for shutdown is cancelled and reaped.
ResultWins ==
  /\ pc = "wait" /\ ~cancelReq /\ ChildDone /\ sd = "pending"
  /\ pc' = "reap_sd"
  /\ UNCHANGED <<shutdown, cancelReq, op, child, sd, value, asked, st, cancelled,
                 in_flight>>

\* Mutant of Returns: `suppress(CancelledError)` around the reaped child.
ReturnsMaskingCancel(result) ==
  /\ \/ pc = "wait" /\ sd = "done" /\ ~cancelReq
     \/ pc = "reap_sd"
  /\ child = result

\* _or_shutdown returns (result, False): at once if both children are done.
\* is_shutdown is not looked at again before the code that follows.
Returns(result) ==
  /\ ~cancelReq
  /\ \/ pc = "wait" /\ sd = "done"
     \/ pc = "reap_sd"
  /\ child = result

GotPermit ==
  /\ Returns("acquired")
  /\ asked' = RequestedJobs
  /\ OrShutdown("reserve")
  /\ UNCHANGED <<shutdown, cancelReq, value, st, cancelled, in_flight>>

\* A reserve error, or an answer with no jobs well before the wait timeout.
BackOff ==
  /\ Returns("error") \/ Returns("early")
  /\ value' = value + 1
  /\ asked' = 0
  /\ OrShutdown("backoff")
  /\ UNCHANGED <<shutdown, cancelReq, st, cancelled, in_flight>>

\* Mutant of NothingAvailable: no release when a wait ends empty.
NothingAvailableKeepingPermit ==
  /\ Returns("late")
  /\ asked' = 0
  /\ EnterLoop
  /\ UNCHANGED <<shutdown, cancelReq, value, st, cancelled, in_flight>>

NothingAvailable ==
  /\ Returns("late")
  /\ value' = value + 1
  /\ asked' = 0
  /\ EnterLoop
  /\ UNCHANGED <<shutdown, cancelReq, st, cancelled, in_flight>>

BackedOff ==
  /\ Returns("slept")
  /\ EnterLoop
  /\ UNCHANGED <<shutdown, cancelReq, value, asked, st, cancelled, in_flight>>

\* Mutant of GotJobs: the whole batch starts on the one permit.
GotJobsUnthrottled ==
  /\ Returns("jobs")
  /\ asked' = 0
  /\ SpawnSome(Cardinality(Batch), 0)
  /\ UNCHANGED <<shutdown, cancelReq, cancelled>>

\* The first job inherits the permit run() holds, the others take their own.
GotJobs ==
  /\ Returns("jobs")
  /\ asked' = 0
  /\ LET n == LesserOf(Cardinality(Batch), 1 + value)
     IN  SpawnSome(n, n - 1)
  /\ UNCHANGED <<shutdown, cancelReq, cancelled>>

\* Only CancelledError is handled: any other exception leaves run() with its
\* job tasks still going.
Crash ==
  /\ Returns("crash")
  /\ pc' = "raised"
  /\ NoRace
  /\ asked' = 0
  /\ UNCHANGED <<shutdown, cancelReq, value, st, cancelled, in_flight>>

\* Mutant of BatchAcquire: one permit too few is taken.
BatchAcquireMiscounting ==
  /\ pc = "batch" /\ ~cancelReq /\ value > 0
  /\ LET n == LesserOf(Cardinality(Batch), value)
     IN  SpawnSome(n, n - 1)
  /\ UNCHANGED <<shutdown, cancelReq, asked, cancelled>>

\* The `await sem.acquire()` between two jobs of a batch; shutdown does not
\* interrupt it.
BatchAcquire ==
  /\ pc = "batch" /\ ~cancelReq /\ value > 0
  /\ LET n == LesserOf(Cardinality(Batch), value)
     IN  SpawnSome(n, n)
  /\ UNCHANGED <<shutdown, cancelReq, asked, cancelled>>

DrainDone ==
  /\ pc = "drain" /\ Tasks = {}
  /\ pc' = IF cancelReq THEN "cancelled" ELSE "returned"
  /\ UNCHANGED <<shutdown, cancelReq, op, child, sd, value, asked, st, cancelled,
                 in_flight>>

-----------------------------------------------------------------------------
(* Cancellation of run().                                                  *)

\* The owner of run() cancels its task.  In the drain the gather passes the
\* cancellation on to the job tasks; anywhere else it is delivered when run()
\* resumes.
CancelRun ==
  /\ ~Ended /\ ~cancelReq
  /\ cancelReq' = TRUE
  /\ cancelled' = IF pc = "drain" THEN Tasks ELSE cancelled
  /\ UNCHANGED <<shutdown, pc, op, child, sd, value, asked, st, in_flight>>

\* CancelledError out of asyncio.wait: both children are cancelled, what the
\* awaitable had already returned is dropped.
CancelledInWait ==
  /\ pc = "wait" /\ cancelReq
  /\ pc' = "reap_both"
  /\ st' = Move(OnWire \cup Batch, "stranded")
  /\ asked' = 0
  /\ UNCHANGED <<shutdown, cancelReq, op, child, sd, value, cancelled, in_flight>>

\* Mutant of Unwind: the job tasks are cancelled but not waited for.
UnwindWithoutReaping ==
  /\ \/ pc = "reap_both" \/ Returns("dropped")
     \/ pc \in {"reap_task", "reap_sd", "batch"} /\ cancelReq
  /\ st' = Move(Batch, "stranded")
  /\ cancelled' = Tasks
  /\ pc' = "cancelled"
  /\ NoRace
  /\ asked' = 0
  /\ UNCHANGED <<shutdown, cancelReq, value, in_flight>>

\* CancelledError out of the reaping of a child, of the batch's acquire or of
\* the Reserve itself reaches the handler of run(): it cancels the job tasks and
\* waits for them.
Unwind ==
  /\ \/ pc = "reap_both" \/ Returns("dropped")
     \/ pc \in {"reap_task", "reap_sd", "batch"} /\ cancelReq
  /\ st' = Move(Batch, "stranded")
  /\ cancelled' = Tasks
  /\ pc' = IF Tasks = {} THEN "cancelled" ELSE "reap_jobs"
  /\ NoRace
  /\ asked' = 0
  /\ UNCHANGED <<shutdown, cancelReq, value, in_flight>>

JobsReaped ==
  /\ pc = "reap_jobs" /\ Tasks = {}
  /\ pc' = "cancelled"
  /\ UNCHANGED <<shutdown, cancelReq, op, child, sd, value, asked, st, cancelled,
                 in_flight>>

-----------------------------------------------------------------------------
(* Job tasks, leases, and the owner of the worker.                         *)

\* A task cancelled before its first step never runs the job.
TaskStart(d) ==
  /\ st[d] = "created"
  /\ st' = [st EXCEPT ![d] = IF d \in cancelled THEN "finished" ELSE "running"]
  /\ UNCHANGED <<shutdown, cancelReq, pc, op, child, sd, value, asked, cancelled,
                 in_flight>>

TaskFinish(d) ==
  /\ st[d] = "running"
  /\ st' = [st EXCEPT ![d] = "finished"]
  /\ UNCHANGED <<shutdown, cancelReq, pc, op, child, sd, value, asked, cancelled,
                 in_flight>>

\* Mutant of Done: the callback forgets to release the permit.
DoneKeepingPermit(d) ==
  /\ st[d] = "finished"
  /\ st' = [st EXCEPT ![d] = "free"]
  /\ cancelled' = cancelled \ {d}
  /\ UNCHANGED value
  /\ in_flight' = in_flight - 1
  /\ UNCHANGED <<shutdown, cancelReq, pc, op, child, sd, asked>>

\* The done callback that _spawn adds.
Done(d) ==
  /\ st[d] = "finished"
  /\ st' = [st EXCEPT ![d] = "free"]
  /\ cancelled' = cancelled \ {d}
  /\ value' = value + 1
  /\ in_flight' = in_flight - 1
  /\ UNCHANGED <<shutdown, cancelReq, pc, op, child, sd, asked>>

LeaseExpires(d) ==
  /\ st[d] = "stranded"
  /\ st' = [st EXCEPT ![d] = "free"]
  /\ UNCHANGED <<shutdown, cancelReq, pc, op, child, sd, value, asked, cancelled,
                 in_flight>>

Shutdown ==
  /\ ~shutdown
  /\ shutdown' = TRUE
  /\ UNCHANGED <<cancelReq, pc, op, child, sd, value, asked, st, cancelled, in_flight>>

\* run() is called again on the same Worker: a new semaphore, but the same
\* _in_flight and the same shutdown event.  After a crash the owner first lets
\* the tasks that were left behind end.
RunAgain ==
  /\ Ended /\ Tasks = {}
  /\ pc' = "start"
  /\ cancelReq' = FALSE
  /\ value' = MaxInFlight
  /\ UNCHANGED <<shutdown, op, child, sd, asked, st, cancelled, in_flight>>

-----------------------------------------------------------------------------
Children == SdDone \/ AcquireDone \/ SleepDone \/ ServerLeases
              \/ ReserveAnswered \/ ReserveFailed

Loop == RunStart \/ ShutdownWins \/ BreakOut \/ ResultWins \/ GotPermit \/ BackOff
          \/ NothingAvailable \/ BackedOff \/ GotJobs \/ Crash \/ BatchAcquire
          \/ DrainDone

Cancelling == NeverStarted \/ CancelledInWait \/ Unwind \/ JobsReaped

JobSteps == \E d \in Deliveries :
              TaskStart(d) \/ TaskFinish(d) \/ Done(d) \/ LeaseExpires(d)

Owner == Shutdown \/ CancelRun \/ RunAgain

Next == Children \/ Loop \/ Cancelling \/ JobSteps \/ Owner

Spec == Init /\ [][Next]_vars

\* The event loop runs every ready coroutine; sleeps end, a Reserve call ends
\* at its deadline at the latest, and a job task ends (its handler returns).
Fairness ==
  /\ WF_vars(Loop) /\ WF_vars(Cancelling)
  /\ WF_vars(SdDone) /\ WF_vars(AcquireDone) /\ WF_vars(SleepDone)
  /\ WF_vars(ReserveAnswered \/ ReserveFailed)
  /\ \A d \in Deliveries : /\ WF_vars(TaskStart(d))
                           /\ WF_vars(TaskFinish(d))
                           /\ WF_vars(Done(d))

FairSpec == Spec /\ Fairness

-----------------------------------------------------------------------------
Pcs == {"start", "wait", "reap_task", "reap_sd", "reap_both", "batch", "drain",
        "reap_jobs", "returned", "cancelled", "raised"}

TypeOK ==
  /\ shutdown \in BOOLEAN /\ cancelReq \in BOOLEAN
  /\ pc \in Pcs
  /\ op \in {"none", "acquire", "reserve", "backoff"}
  /\ child \in {"none", "pending"} \cup Outcomes
  /\ sd \in {"none", "pending", "done"}
  /\ value \in Nat
  /\ asked \in Nat
  /\ st \in [Deliveries -> Stages]
  /\ cancelled \in SUBSET Deliveries
  /\ in_flight \in Nat

-----------------------------------------------------------------------------
(* Safety.                                                                 *)

\* The permit that run() itself holds: the one it acquired and has neither
\* released nor handed to the first job of a batch.
Held == IF \/ op = "acquire" /\ child = "acquired"
           \/ op = "reserve"
          THEN 1 ELSE 0

\* Until run() is cancelled or crashes, no permit is lost or made up: on every
\* path through the loop (error, empty answer, shutdown, batch) each permit is
\* in the semaphore, with run(), or with a job task (worker.py:282, 291, 297,
\* 311, 348).
PermitConservation ==
  pc \in {"start", "wait", "reap_task", "reap_sd", "batch", "drain", "returned"}
    => value + Held + Cardinality(Tasks) = MaxInFlight

\* run() waits in the middle of a batch, where shutdown is not looked at and jobs
\* hold leases without running, only when the server sent more jobs than it was
\* asked for: the capacity asked for is still free when the answer comes, whatever
\* tasks ended in between (worker.py:331-338, 313-315).
WholeBatchStarts ==
  [][pc # "batch" /\ pc' = "batch" => Cardinality(Batch) > asked]_vars

\* Whatever the server hands over, at most max_in_flight jobs have tasks.
BoundedConcurrency == Cardinality(Tasks) <= MaxInFlight

\* When run() returns or raises CancelledError nothing of it is left: no job
\* task, no job it was given and forgot, no count that would shrink the next
\* run's capacity (worker.py:316-328).
NothingLeaks ==
  pc \in {"returned", "cancelled"}
    => OnWire \cup Batch \cup Tasks = {} /\ in_flight = 0

\* Jobs that a reserve returned are processed: only the cancellation of run()
\* drops them, never a shutdown that fires at the same moment (the comment of
\* _or_shutdown, worker.py:364-366).
ReturnedJobsAreProcessed ==
  [][\A d \in Deliveries :
       st[d] = "batch" /\ st'[d] # "batch" => st'[d] = "created" \/ cancelReq]_vars

\* A cancellation of run() is never masked, wherever it strikes, the reaping of
\* a child included: nothing is started or reserved after it, and run() ends by
\* raising it (the comment at worker.py:369-374).
CancellationIsNotMasked ==
  [][cancelReq =>
       /\ \A d \in Deliveries : st'[d] = "created" => st[d] = "created"
       /\ op' = "reserve" => op = "reserve"
       /\ Ended' /\ ~Ended => pc' = "cancelled"]_vars

-----------------------------------------------------------------------------
(* Liveness.                                                               *)

\* Shutdown or cancellation ends run(), from any state (drain and unwinding
\* wait for the job tasks, so this needs handlers that return).
StopEndsRun == shutdown \/ cancelReq ~> Ended

\* Until it is told to stop, run() always comes back to reserving: no sequence
\* of errors, empty answers and batches uses up the permits.
KeepsReserving == []<>(op = "reserve" \/ shutdown \/ cancelReq \/ Ended)

-----------------------------------------------------------------------------
(* The abstract worker.                                                    *)

PoolMode ==
  CASE pc = "raised" -> "crashed"
    [] pc \in {"returned", "cancelled"} -> "ended"
    [] OTHER -> IF cancelReq THEN "cancelled" ELSE "open"

Pool == INSTANCE BoundedPool WITH
          Capacity <- MaxInFlight, handed <- Batch, tasks <- Tasks, mode <- PoolMode

\* The loop with its races, permits and children is a bounded pool: jobs are
\* taken over only with a permit in hand, all start within the bound whatever
\* shutdown does, and none is left when run() ends (worker.py:238-250, 316-328).
ImplementsPool == Pool!Spec

\* Under an over-delivering server a batch waits for permits in the middle of
\* run(), deaf to shutdown: each of its jobs still starts or is given up.
HandedJobsLeave == Pool!HandedJobsLeave

-----------------------------------------------------------------------------
\* "Calling shutdown stops new reservations" (worker.py:97): once the event is
\* set no Reserve call is made.
ShutdownStopsReservations ==
  [][shutdown /\ op' = "reserve" => op = "reserve"]_vars
=============================================================================
