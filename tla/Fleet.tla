-------------------------------- MODULE Fleet --------------------------------
(***************************************************************************)
(* Several worker processes on one server: reserves, job tasks, reports    *)
(* with their RetryDirective (client.py), shutdown, and what is recorded   *)
(* of a report (worker.py, _otel.py).  Workers crash and restart, answers  *)
(* are lost, requests arrive late or twice, leases lapse.  The inside of a *)
(* worker's loop is module WorkerLoop, that of a job task and its          *)
(* heartbeat module JobTask.                                               *)
(*                                                                         *)
(* A delivery is one attempt of a job.  The server is external: it counts  *)
(* attempts, guards every report by them and dead-letters a job that has   *)
(* used them up; an operator may dead-letter one at any time.              *)
(***************************************************************************)
EXTENDS Integers, Errors

CONSTANTS Jobs,
          Workers, Nobody,
          AutoExtend,     \* those that run with auto_extend
          QueueAttempts,  \* max_attempts of the queue
          MaxStops        \* bound: how often workers crash or shut down

ASSUME FleetAssumption ==
  /\ AutoExtend \subseteq Workers /\ Nobody \notin Workers
  /\ QueueAttempts \in Nat \ {0} /\ MaxStops \in Nat

Deliveries == Jobs \X (1 .. QueueAttempts)

VARIABLES stage,      \* of each job at the server
          cause,      \* its DeadLetterCause, "none" unless it is dead
          attempt,    \* the number of its last delivery, 0 before the first
          lease,      \* what became of each delivery's lease
          mode,       \* up, draining after a shutdown, or down
          stops,
          owner,      \* the worker a delivery was made to
          phase,      \* of the delivery at that worker
          result,     \* what its handler did
          requests,   \* ack and nack requests sent; each may be executed at any
                      \* later time, never or more than once
          answer,     \* to the report of a delivery
          told        \* what the worker recorded of it: a metric or a log line

server == <<stage, cause, attempt, lease>>
reports == <<requests, answer, told>>
vars == <<server, mode, stops, owner, phase, result, reports>>

-----------------------------------------------------------------------------
Active == {"wire", "created", "running", "reporting"}
OwnedBy(w) == {d \in Deliveries : owner[d] = w /\ phase[d] \in Active}
Latest(j) == <<j, attempt[j]>>

Set(f, d, v) == f' = [f EXCEPT ![d] = v]

-----------------------------------------------------------------------------
Init ==
  /\ stage = [j \in Jobs |-> "ready"] /\ cause = [j \in Jobs |-> "none"]
  /\ attempt = [j \in Jobs |-> 0]
  /\ lease = [d \in Deliveries |-> "none"]
  /\ mode = [w \in Workers |-> "up"] /\ stops = 0
  /\ owner = [d \in Deliveries |-> Nobody]
  /\ phase = [d \in Deliveries |-> "none"]
  /\ result = [d \in Deliveries |-> "none"]
  /\ requests = {}
  /\ answer = [d \in Deliveries |-> "none"]
  /\ told = [d \in Deliveries |-> "none"]

-----------------------------------------------------------------------------
(* Reserving.                                                              *)

\* The server leases a job to a worker's pending Reserve (external).
Leased(w, j) ==
  /\ mode[w] = "up" /\ stage[j] = "ready"
  /\ LET d == <<j, attempt[j] + 1>> IN
     /\ Set(attempt, j, attempt[j] + 1)
     /\ Set(stage, j, "leased") /\ Set(lease, d, "held")
     /\ Set(owner, d, w) /\ Set(phase, d, "wire")
  /\ UNCHANGED <<cause, mode, stops, result, reports>>

\* The answer reaches run(), which creates a task for the job.
Reserved(d) ==
  /\ phase[d] = "wire"
  /\ Set(phase, d, "created")
  /\ UNCHANGED <<server, mode, stops, owner, result, reports>>

\* The Reserve failed, was cancelled by a shutdown, or raised over an instant out of
\* range, or the job was malformed: the server holds a lease of which the worker
\* knows nothing.
Stranded(d) ==
  /\ phase[d] = "wire"
  /\ Set(phase, d, "over")
  /\ UNCHANGED <<server, mode, stops, owner, result, reports>>

-----------------------------------------------------------------------------
(* Job tasks and their reports.                                            *)

\* Mutant of Directive: a job nobody handles is a permanent failure.
DirectiveGivingUp(end) ==
  IF end \in {"permanent", "unhandled"} THEN "dead_letter" ELSE "default"

\* The RetryDirective of a nack: HandlerError.permanent asks for the dead-letter
\* queue; HandlerError.retry, retry_after, any other exception and a job without
\* handler ask for another attempt, now or later.
Directive(end) == IF end = "permanent" THEN "dead_letter" ELSE "default"

\* Mutant of Request: the attempt is looked up by job instead of kept in the ctx.
RequestForJob(d, end) ==
  [from |-> d, attempt |-> attempt[d[1]],
   report |-> IF end = "returned" THEN "ack" ELSE Directive(end)]

\* The request that ack and nack build from the job's ctx.
Request(d, end) ==
  [from |-> d, attempt |-> d[2],
   report |-> IF end = "returned" THEN "ack" ELSE Directive(end)]

\* Mutant of Reports: counts the job before the ack is answered.
ReportsCounted(d, end) ==
  /\ Set(result, d, end) /\ Set(phase, d, "reporting")
  /\ requests' = requests \cup {Request(d, end)}
  /\ Set(told, d, IF end = "returned" THEN "processed" ELSE "none")
  /\ UNCHANGED answer

\* The call of ack or nack begins.
Reports(d, end) ==
  /\ Set(result, d, end) /\ Set(phase, d, "reporting")
  /\ requests' = requests \cup {Request(d, end)}
  /\ UNCHANGED <<answer, told>>

\* The task runs: its worker has a handler for the job's type by now, or not.
TaskStarts(d) ==
  /\ phase[d] = "created"
  /\ \/ Set(phase, d, "running") /\ UNCHANGED <<result, reports>>
     \/ Reports(d, "unhandled")
  /\ UNCHANGED <<server, mode, stops, owner>>

HandlerEnds(d) ==
  /\ phase[d] = "running"
  /\ \E end \in {"returned", "retry", "permanent"} : Reports(d, end)
  /\ UNCHANGED <<server, mode, stops, owner>>

\* The task ends without a report: run() was cancelled, the heartbeat declared
\* the lease lost, the handler let a CancelledError out, or calling the client
\* raised something else than a SeppError.
Abandoned(d) ==
  /\ phase[d] \in {"created", "running", "reporting"}
  /\ Set(phase, d, "over")
  /\ IF phase[d] = "running" THEN Set(result, d, "cancelled") ELSE UNCHANGED result
  /\ UNCHANGED <<server, mode, stops, owner, reports>>

\* The server executes a report, perhaps late or again (external): it counts
\* only for the attempt that holds the lease.
Executed(r) ==
  /\ r \in requests
  /\ LET j == r.from[1]
         holds == stage[j] = "leased" /\ attempt[j] = r.attempt
         after == IF r.report = "ack" THEN "done"
                  ELSE IF r.report = "dead_letter" \/ attempt[j] = QueueAttempts THEN "dead"
                  ELSE "ready"
         why == IF after # "dead" THEN "none"
                ELSE IF r.report = "dead_letter" THEN "rejected" ELSE "attempts_exhausted"
         codes == IF ~holds THEN {"NOT_FOUND", "FAILED_PRECONDITION"}
                  ELSE IF after = "dead" THEN {"OK dead_lettered"} ELSE {"OK"}
     IN  /\ IF holds
              THEN /\ Set(stage, j, after) /\ Set(cause, j, why)
                   /\ Set(lease, Latest(j), IF r.report = "ack" THEN "acked" ELSE "nacked")
              ELSE UNCHANGED <<stage, cause, lease>>
         /\ IF phase[r.from] = "reporting"
              THEN \E code \in codes : Set(answer, r.from, code)
              ELSE UNCHANGED answer
  /\ UNCHANGED <<attempt, mode, stops, owner, phase, result, requests, told>>

\* The answer is lost, and _with_retry sends the same request again.
SentAgain(d) ==
  /\ phase[d] = "reporting" /\ answer[d] # "none"
  /\ Set(answer, d, "none")
  /\ UNCHANGED <<server, mode, stops, owner, phase, result, requests, told>>

\* What _dispose records of an answer; for a job without handler _run_job
\* records nothing.
Recorded(d, code) ==
  IF result[d] = "unhandled" THEN "none"
  ELSE CASE code = "OK" -> (IF result[d] = "returned" THEN "processed" ELSE "retry")
         [] code = "OK dead_lettered" -> "dead_letter"
         [] OTHER -> IF lease_error_from_rpc(code) = "JobNotFoundError"
                       THEN "not found" ELSE "failed"

ReportEnds(d, code) ==
  /\ Set(told, d, Recorded(d, code)) /\ Set(phase, d, "over")
  /\ Set(answer, d, "none")
  /\ UNCHANGED <<server, mode, stops, owner, result, requests>>

Answered(d) ==
  /\ phase[d] = "reporting" /\ answer[d] # "none"
  /\ ReportEnds(d, answer[d])

\* Mutant of CallFails: _dispose counts the job in a finally.
CallFailsCounted(d) ==
  /\ phase[d] = "reporting"
  /\ ReportEnds(d, "OK")

\* The last attempt of the call fails, whether it was executed or not.
CallFails(d) ==
  /\ phase[d] = "reporting"
  /\ ReportEnds(d, "UNAVAILABLE")

-----------------------------------------------------------------------------
(* Leases, and the life of a worker.                                       *)

\* Mutant of Kept: the heartbeat outlives its job.
KeptForGood(d) == owner[d] \in AutoExtend /\ phase[d] \in {"running", "reporting", "over"}

\* The heartbeat extends the lease while the handler runs, and no longer.
Kept(d) == owner[d] \in AutoExtend /\ phase[d] = "running"

\* A lease lapses when nobody extended it in time (external); a heartbeat may
\* fail to.
Lapses(j) ==
  /\ stage[j] = "leased"
  /\ Set(stage, j, IF attempt[j] = QueueAttempts THEN "dead" ELSE "ready")
  /\ Set(cause, j, IF attempt[j] = QueueAttempts THEN "lease_expired" ELSE "none")
  /\ Set(lease, Latest(j), "lapsed")
  /\ UNCHANGED <<attempt, mode, stops, owner, phase, result, reports>>

LapsesUnkept(j) == stage[j] = "leased" /\ ~Kept(Latest(j)) /\ Lapses(j)

\* An operator dead-letters a job through the admin API (external); a lease it has
\* is void.
AdminDeadLetters(j) ==
  /\ stage[j] \in {"ready", "leased"}
  /\ Set(stage, j, "dead") /\ Set(cause, j, "admin")
  /\ IF stage[j] = "leased" THEN Set(lease, Latest(j), "lapsed") ELSE UNCHANGED lease
  /\ UNCHANGED <<attempt, mode, stops, owner, phase, result, reports>>

Crash(w) ==
  /\ mode[w] # "down" /\ stops < MaxStops
  /\ Set(mode, w, "down") /\ stops' = stops + 1
  /\ phase' = [d \in Deliveries |-> IF d \in OwnedBy(w) THEN "over" ELSE phase[d]]
  /\ result' = [d \in Deliveries |-> IF d \in OwnedBy(w) /\ phase[d] = "running"
                                       THEN "cancelled" ELSE result[d]]
  /\ UNCHANGED <<server, owner, reports>>

\* A graceful stop, or run() raised and left its job tasks going.
Shutdown(w) ==
  /\ mode[w] = "up" /\ stops < MaxStops
  /\ Set(mode, w, "draining") /\ stops' = stops + 1
  /\ UNCHANGED <<server, owner, phase, result, reports>>

\* run() returns when the job tasks are over.
Drained(w) ==
  /\ mode[w] = "draining" /\ OwnedBy(w) = {}
  /\ Set(mode, w, "down")
  /\ UNCHANGED <<server, stops, owner, phase, result, reports>>

\* The program starts again, with a new Worker.
Restart(w) ==
  /\ mode[w] = "down"
  /\ Set(mode, w, "up")
  /\ UNCHANGED <<server, stops, owner, phase, result, reports>>

-----------------------------------------------------------------------------
Reserving == \/ \E w \in Workers, j \in Jobs : Leased(w, j)
             \/ \E d \in Deliveries : Reserved(d) \/ Stranded(d)
Tasks == \E d \in Deliveries : TaskStarts(d) \/ HandlerEnds(d) \/ Abandoned(d)
Reporting == \/ \E r \in requests : Executed(r)
             \/ \E d \in Deliveries : SentAgain(d) \/ Answered(d) \/ CallFails(d)
Processes == \E w \in Workers : Crash(w) \/ Shutdown(w) \/ Drained(w) \/ Restart(w)

\* Workers go on polling.
AllSettled == (\A j \in Jobs : stage[j] \in {"done", "dead"}) /\ UNCHANGED vars

Next == Reserving \/ Tasks \/ Reporting \/ Processes
          \/ (\E j \in Jobs : Lapses(j) \/ AdminDeadLetters(j)) \/ AllSettled

Spec == Init /\ [][Next]_vars

\* Calls end at their deadline, tasks are run, handlers end, an unkept lease
\* lapses, a worker that is down is started again, and the server leases what is
\* ready to a worker that reserves.  Nothing is assumed of the reports, nor of an
\* operator.
Fairness ==
  /\ \A j \in Jobs : /\ WF_vars(LapsesUnkept(j))
                     /\ WF_vars(\E w \in Workers : Leased(w, j))
  /\ \A d \in Deliveries : /\ WF_vars(Reserved(d) \/ Stranded(d))
                           /\ WF_vars(TaskStarts(d))
                           /\ WF_vars(HandlerEnds(d) \/ Abandoned(d))
  /\ \A w \in Workers : WF_vars(Drained(w)) /\ WF_vars(Restart(w))

FairSpec == Spec /\ Fairness

-----------------------------------------------------------------------------
Ends == {"returned", "retry", "permanent", "unhandled"}

TypeOK ==
  /\ stage \in [Jobs -> {"ready", "leased", "done", "dead"}]
  /\ cause \in [Jobs -> {"none", "rejected", "attempts_exhausted", "lease_expired", "admin"}]
  /\ attempt \in [Jobs -> 0 .. QueueAttempts]
  /\ lease \in [Deliveries -> {"none", "held", "lapsed", "acked", "nacked"}]
  /\ mode \in [Workers -> {"up", "draining", "down"}] /\ stops \in 0 .. MaxStops
  /\ owner \in [Deliveries -> Workers \cup {Nobody}]
  /\ phase \in [Deliveries -> {"none", "over"} \cup Active]
  /\ result \in [Deliveries -> {"none", "cancelled"} \cup Ends]
  /\ requests \subseteq [from : Deliveries, attempt : 1 .. QueueAttempts,
                         report : {"ack", "default", "dead_letter"}]
  /\ answer \in [Deliveries -> {"none", "OK", "OK dead_lettered", "NOT_FOUND",
                                "FAILED_PRECONDITION"}]
  /\ told \in [Deliveries -> {"none", "processed", "retry", "dead_letter", "not found",
                              "failed"}]
  /\ \A d \in Deliveries : told[d] # "none" => phase[d] = "over"

-----------------------------------------------------------------------------
\* A delivery as one leased job: its handler, and what became of its lease, which
\* nobody sees before the job is delivered.
HandlerOf(d) ==
  IF phase[d] = "running" THEN "running"
  ELSE IF result[d] \in {"retry", "permanent"} THEN "failed"
  ELSE IF result[d] \in {"returned", "cancelled"} THEN result[d]
  ELSE "none"

LeaseOf(d) == IF lease[d] = "none" THEN "held" ELSE lease[d]

Job(d) == INSTANCE LeasedJob WITH handler <- HandlerOf(d), lease <- LeaseOf(d)

\* Among crashes, redeliveries and late or repeated requests of other attempts,
\* every delivery is still one leased job: the attempt in the ctx keeps a report
\* of an earlier delivery from settling a later one (client.py:439-443, 466-474).
EveryDeliveryIsALeasedJob ==
  /\ \A d \in Deliveries : Job(d)!Init
  /\ [][\A d \in Deliveries : [Job(d)!Next]_(Job(d)!vars)]_vars

\* A job is dead-lettered before its attempts are used up only because its last
\* handler asked for it, or by an operator; a cause that blames a worker
\* ("nacked with RetryDirective.DEAD_LETTER", types.py:361-363) is right; and a
\* handler that asked for it is not given the job again (worker.py:410-414,
\* client.py:469-474).
DeadLettersAreDeserved ==
  \A d \in Deliveries :
    LET j == d[1] IN
    /\ d = Latest(j) /\ stage[j] = "dead" /\ d[2] < QueueAttempts /\ cause[j] # "admin"
         => result[d] = "permanent"
    /\ d = Latest(j) /\ cause[j] = "rejected" => result[d] = "permanent"
    /\ lease[d] = "nacked" /\ result[d] = "permanent"
         => stage[j] = "dead" /\ cause[j] = "rejected" /\ d = Latest(j)

\* What a worker counts has happened: a job counted as processed was acked by
\* that delivery, and by no other; one counted as nacked was nacked, and it was
\* that nack that dead-lettered it, not an operator, iff it was counted so.  A lost
\* answer, a retried report or a redelivery counts nothing twice (worker.py:471,
\* 475, 481).
CountsAreTrue ==
  \A d \in Deliveries :
    /\ told[d] = "processed" => lease[d] = "acked" /\ stage[d[1]] = "done" /\ d = Latest(d[1])
    /\ told[d] \in {"retry", "dead_letter"} =>
         /\ lease[d] = "nacked"
         /\ told[d] = "dead_letter" <=>
              d = Latest(d[1]) /\ stage[d[1]] = "dead" /\ cause[d[1]] # "admin"

\* Whatever crashes, strands or drops a job, it is delivered again until it is
\* acked or dead-lettered: nothing a worker leaves behind keeps it leased
\* (worker.py:316-328, 455-458).
EveryJobSettles == \A j \in Jobs : <>(stage[j] \in {"done", "dead"})
=============================================================================
