------------------------------ MODULE JobTask -------------------------------
(***************************************************************************)
(* What one job task does between Worker._spawn and its done callback:     *)
(* _run_job with its handler, the heartbeat that keeps the lease alive and *)
(* the ack or nack (worker.py), over the client's calls with their retries *)
(* and Lease.extend (client.py).  The server and the time are external.    *)
(*                                                                         *)
(* Time is counted in ticks of the clock the code reads, milliseconds.     *)
(* Every timer is the time it has left: nothing depends on what time it    *)
(* is, and the reachable states are finite without a horizon.              *)
(***************************************************************************)
EXTENDS Retry

CONSTANTS AutoExtend,       \* the values of the constructor's auto_extend
          explicit_interval,\* auto_extend_interval in ticks, 0 for None
          lease_duration,   \* the constructor's argument, also _AutoExtend.extend_by
          ServerMaxLease,   \* the server clamps a longer lease to this
          handler_extension,\* what the handler asks for when it extends
          HandlerExtends,   \* how the handler extends its lease itself:
                            \* "never", by "ctx" (JobCtx.extend) or by "client"
          Skew,             \* this host's reading of an expiry minus the server's
          rpc_timeout,      \* deadline of one attempt of a call
          Failures,         \* how an attempt may fail: codes, or "closed"
          Responsive        \* the event loop runs what is due before time passes

ASSUME JobAssumption ==
  /\ AutoExtend \subseteq BOOLEAN /\ Responsive \in BOOLEAN
  /\ explicit_interval \in Nat /\ lease_duration \in Nat \ {0}
  /\ handler_extension \in Nat \ {0}
  /\ ServerMaxLease \in Nat \ {0} /\ rpc_timeout \in Nat \ {0}
  /\ HandlerExtends \in {"never", "ctx", "client"}
  /\ Skew \in Int
  /\ Failures \subseteq StatusCodes \cup {"closed"}

VARIABLES auto_extend,\* self._auto_extend is set
          pc,         \* where _run_job is suspended
          handler,    \* the handler: a task of its own with auto_extend
          hCancel,    \* a CancelledError is on its way to the handler
          jobCancel,  \* one is on its way to the job task itself
          outcome,    \* what the await of the handler ended with
          hb,         \* the heartbeat task
          sleepLeft,  \* of the heartbeat's sleep
          leaseLost,  \* lease_lost[0]
          known,      \* Lease._known_expiry_ms minus now, 0 when past
          call,       \* the call each coroutine is making
          srv,        \* the job at the server
          srvLeft,    \* left of the lease at the server
          told,       \* left of the last expiry any call of this process
                      \* reported to it (history)
          refused     \* the server refused an extension (history)

vars == <<auto_extend, pc, handler, hCancel, jobCancel, outcome, hb, sleepLeft, leaseLost,
          known, call, srv, srvLeft, told, refused>>

-----------------------------------------------------------------------------
AtLeast(n, low) == IF n < low THEN low ELSE n
Lesser(a, b) == IF a < b THEN a ELSE b

Callers == {"hb", "handler", "job"}

\* request: sent, not yet executed; reply: executed, answer on its way.
Idle == [phase |-> "idle", attempt |-> 0, backoff |-> 0, left |-> 0,
         code |-> "OK", exp |-> 0]
Sent(attempt, backoff) == [phase |-> "request", attempt |-> attempt, backoff |-> backoff,
                           left |-> rpc_timeout, code |-> "OK", exp |-> 0]
Call == Sent(1, initial_backoff)

InFlight(c) == call[c].phase \in {"request", "reply"}

HandlerEnds == {"returned", "failed", "cancelled"}
HandlerDone == handler \in HandlerEnds

Local(left) == AtLeast(left + Skew, 0)     \* the server's time on this host

\* The lease the server grants (external).
Granted(by) == Lesser(by, ServerMaxLease)

\* Mutant of _heartbeat_interval: a third of the lease that was asked for.
RequestedInterval(lease) == AtLeast((lease_duration + 2) \div 3, 1)

\* The heartbeat's sleep; a third of a lease ends within the tick it rounds to.
_heartbeat_interval(lease) == AtLeast((lease + 2) \div 3, 1)
Interval(remaining) == IF explicit_interval > 0 THEN explicit_interval
                       ELSE _heartbeat_interval(remaining)

-----------------------------------------------------------------------------
Init ==
  /\ auto_extend \in AutoExtend
  /\ pc = "start"
  /\ handler = "none" /\ hCancel = FALSE /\ jobCancel = FALSE
  /\ outcome = "none"
  /\ hb = "none" /\ sleepLeft = 0 /\ leaseLost = FALSE
  /\ call = [c \in Callers |-> Idle]
  /\ srv = "leased" /\ srvLeft = Granted(lease_duration)
  /\ known = Local(srvLeft) /\ told = known /\ refused = FALSE

-----------------------------------------------------------------------------
(* The job task.                                                           *)

\* Acking a handler that returned, nacking one that failed or is not there.
Dispose == pc' = "dispose" /\ call' = [call EXCEPT !["job"] = Call]

\* The handler is looked up when the task starts: the registry may have changed
\* since the job was reserved.  Calling it may raise before there is a coroutine
\* (it takes other arguments, or is not async): with auto_extend nothing catches
\* that, and the job task ends.
StartJob ==
  /\ pc = "start"
  /\ \/ /\ outcome' = "failed" /\ Dispose
        /\ handler' \in {"none", "failed"} /\ (auto_extend => handler' = "none")
        /\ UNCHANGED hb
     \/ /\ auto_extend
        /\ handler' = "failed" /\ pc' = "over"
        /\ UNCHANGED <<hb, outcome, call>>
     \/ /\ pc' = "handler"
        /\ handler' = IF auto_extend THEN "created" ELSE "running"
        /\ hb' = IF auto_extend THEN "created" ELSE "none"
        /\ UNCHANGED <<outcome, call>>
  /\ UNCHANGED <<auto_extend, hCancel, jobCancel, sleepLeft, leaseLost, known, srv, srvLeft, told,
                 refused>>

\* Mutant of HandlerAwaited: a cancelled handler counts as a failed one.
HandlerAwaitedAnyError ==
  /\ pc = "handler" /\ auto_extend /\ HandlerDone
  /\ outcome' = IF handler = "cancelled" THEN "failed" ELSE handler
  /\ jobCancel' = FALSE
  /\ pc' = "reap_hb"
  /\ UNCHANGED <<auto_extend, handler, hCancel, hb, sleepLeft, leaseLost, known, call, srv, srvLeft,
                 told, refused>>

\* _run_with_auto_extend resumes: CancelledError propagates unless it is the
\* heartbeat's; the heartbeat is cancelled and reaped in any case.
HandlerAwaited ==
  /\ pc = "handler" /\ auto_extend /\ HandlerDone
  /\ outcome' = IF jobCancel \/ handler = "cancelled"
                  THEN IF leaseLost THEN "lost" ELSE "cancelled"
                  ELSE handler
  /\ jobCancel' = FALSE
  /\ pc' = "reap_hb"
  /\ UNCHANGED <<auto_extend, handler, hCancel, hb, sleepLeft, leaseLost, known, call, srv, srvLeft,
                 told, refused>>

\* Mutant of HeartbeatReaped: goes by how the handler resolved, not by the verdict.
HeartbeatReapedByHandler ==
  /\ pc = "reap_hb" /\ hb = "ended"
  /\ IF jobCancel \/ outcome \in {"lost", "cancelled"}
       THEN pc' = "over" /\ UNCHANGED call
       ELSE Dispose
  /\ UNCHANGED <<auto_extend, handler, hCancel, jobCancel, outcome, hb, sleepLeft, leaseLost, known,
                 srv, srvLeft, told, refused>>

\* Mutant of HeartbeatReaped: does not wait for the heartbeat's task.
HeartbeatNotReaped ==
  /\ pc = "reap_hb"
  /\ IF jobCancel \/ leaseLost \/ outcome = "cancelled"
       THEN pc' = "over" /\ UNCHANGED call
       ELSE Dispose
  /\ UNCHANGED <<auto_extend, handler, hCancel, jobCancel, outcome, hb, sleepLeft, leaseLost, known,
                 srv, srvLeft, told, refused>>

HeartbeatReaped ==
  /\ pc = "reap_hb" /\ hb = "ended"
  /\ IF jobCancel \/ leaseLost \/ outcome = "cancelled"
       THEN pc' = "over" /\ UNCHANGED call
       ELSE Dispose
  /\ UNCHANGED <<auto_extend, handler, hCancel, jobCancel, outcome, hb, sleepLeft, leaseLost, known,
                 srv, srvLeft, told, refused>>

\* run() cancels the job task.  While it awaits the handler the cancellation
\* goes to the handler; a call under way is given up.
CancelJob ==
  /\ pc \in {"start", "handler", "reap_hb", "dispose"} /\ ~jobCancel /\ ~hCancel
  /\ CASE pc \in {"start", "dispose"} ->
            /\ pc' = "over" /\ call' = [call EXCEPT !["job"] = Idle]
            /\ UNCHANGED <<hCancel, jobCancel>>
       [] pc = "handler" /\ ~HandlerDone ->
            hCancel' = TRUE /\ UNCHANGED <<pc, call, jobCancel>>
       [] OTHER ->
            jobCancel' = TRUE /\ UNCHANGED <<pc, call, hCancel>>
  /\ UNCHANGED <<auto_extend, handler, outcome, hb, sleepLeft, leaseLost, known, srv, srvLeft, told,
                 refused>>

-----------------------------------------------------------------------------
(* The handler (the application's code).                                   *)

\* Its task takes its first step; one cancelled before that never runs.
HandlerStart ==
  /\ handler = "created"
  /\ handler' = IF hCancel THEN "cancelled" ELSE "running"
  /\ hCancel' = FALSE
  /\ UNCHANGED <<auto_extend, pc, jobCancel, outcome, hb, sleepLeft, leaseLost, known, call, srv,
                 srvLeft, told, refused>>

\* Mutant of HandlerEnd: `except BaseException` in _run_plain.
HandlerEndCatchingAll(end) ==
  /\ handler = "running" /\ (hCancel \/ call["handler"].phase = "idle")
  /\ handler' = end
  /\ hCancel' = FALSE
  /\ LET calls == [call EXCEPT !["handler"] = Idle] IN
     IF auto_extend
       THEN call' = calls /\ UNCHANGED <<pc, outcome>>
       ELSE /\ outcome' = end
            /\ pc' = "dispose"
            /\ call' = [calls EXCEPT !["job"] = Call]
  /\ UNCHANGED <<auto_extend, jobCancel, hb, sleepLeft, leaseLost, known, srv, srvLeft, told, refused>>

\* It returns, raises an Exception, or lets a CancelledError out: one that was
\* injected, or one of its own making.  An injected one also ends the call it
\* awaits.  Without auto_extend _run_job goes on in the same step.
HandlerEnd(end) ==
  /\ handler = "running" /\ (hCancel \/ call["handler"].phase = "idle")
  /\ handler' = end
  /\ hCancel' = FALSE
  /\ LET calls == [call EXCEPT !["handler"] = Idle] IN
     IF auto_extend
       THEN call' = calls /\ UNCHANGED <<pc, outcome>>
       ELSE /\ outcome' = end
            /\ IF end = "cancelled"
                 THEN pc' = "over" /\ call' = calls
                 ELSE pc' = "dispose" /\ call' = [calls EXCEPT !["job"] = Call]
  /\ UNCHANGED <<auto_extend, jobCancel, hb, sleepLeft, leaseLost, known, srv, srvLeft, told, refused>>

\* It catches the CancelledError and carries on.
HandlerSwallows ==
  /\ handler = "running" /\ hCancel
  /\ hCancel' = FALSE
  /\ call' = [call EXCEPT !["handler"] = Idle]
  /\ UNCHANGED <<auto_extend, pc, handler, jobCancel, outcome, hb, sleepLeft, leaseLost, known, srv,
                 srvLeft, told, refused>>

HandlerExtend ==
  /\ handler = "running" /\ ~hCancel /\ HandlerExtends # "never"
  /\ call["handler"].phase = "idle"
  /\ call' = [call EXCEPT !["handler"] = Call]
  /\ UNCHANGED <<auto_extend, pc, handler, hCancel, jobCancel, outcome, hb, sleepLeft, leaseLost,
                 known, srv, srvLeft, told, refused>>

-----------------------------------------------------------------------------
(* The heartbeat, up to its call.                                          *)

HeartbeatStart ==
  /\ hb = "created" /\ pc = "handler"
  /\ hb' = "sleeping" /\ sleepLeft' = Interval(known)
  /\ UNCHANGED <<auto_extend, pc, handler, hCancel, jobCancel, outcome, leaseLost, known, call, srv,
                 srvLeft, told, refused>>

HeartbeatWakes ==
  /\ hb = "sleeping" /\ sleepLeft = 0 /\ pc = "handler"
  /\ hb' = "extending"
  /\ call' = [call EXCEPT !["hb"] = Call]
  /\ UNCHANGED <<auto_extend, pc, handler, hCancel, jobCancel, outcome, sleepLeft, leaseLost, known,
                 srv, srvLeft, told, refused>>

\* hb_task.cancel() in the finally takes effect; a call is given up.
HeartbeatCancelled ==
  /\ pc = "reap_hb" /\ hb # "ended"
  /\ hb' = "ended"
  /\ call' = [call EXCEPT !["hb"] = Idle]
  /\ UNCHANGED <<auto_extend, pc, handler, hCancel, jobCancel, outcome, sleepLeft, leaseLost, known,
                 srv, srvLeft, told, refused>>

-----------------------------------------------------------------------------
(* Calls: extend for the heartbeat and the handler, ack or nack for the job. *)

\* Only the job itself and a heartbeat that is not being reaped can still
\* receive an answer; a handler that is being cancelled cannot.
Listening(c) ==
  CASE c = "hb" -> pc = "handler" /\ hb = "extending"
    [] c = "handler" -> handler = "running" /\ ~hCancel
    [] c = "job" -> pc = "dispose"

\* The server executes the request of c if this attempt still holds the lease
\* (external).
ServerExecutes(c) ==
  /\ call[c].phase = "request"
  /\ \E code \in CASE srv = "leased" -> {"OK"}
                   [] srv = "reassigned" -> {"FAILED_PRECONDITION", "NOT_FOUND"}
                   [] OTHER -> {"NOT_FOUND"} :
       LET ok == code = "OK"
           extends == ok /\ c # "job"
           by == IF c = "handler" THEN handler_extension ELSE lease_duration
           left == IF extends THEN Granted(by) ELSE srvLeft
       IN  /\ srvLeft' = left
           /\ srv' = IF ok /\ c = "job"
                       THEN IF outcome = "returned" THEN "acked" ELSE "nacked"
                       ELSE srv
           /\ call' = [call EXCEPT ![c].phase = "reply", ![c].code = code,
                                   ![c].exp = IF extends THEN left ELSE 0]
  /\ UNCHANGED <<auto_extend, pc, handler, hCancel, jobCancel, outcome, hb, sleepLeft, leaseLost,
                 known, told, refused>>

\* Mutant of ExtensionGranted: notes the lease asked for.
ExtensionAssumed(c) ==
  /\ told' = Local(call[c].exp)
  /\ known' = IF c = "hb" \/ HandlerExtends = "ctx" THEN Local(lease_duration) ELSE known
  /\ UNCHANGED refused

\* Lease.extend notes the new expiry; client.extend(ctx, ...) does not.
ExtensionGranted(c) ==
  /\ told' = Local(call[c].exp)
  /\ known' = IF c = "hb" \/ HandlerExtends = "ctx" THEN told' ELSE known
  /\ UNCHANGED refused

NothingGranted(code) ==
  /\ UNCHANGED <<told, known>>
  /\ refused' = (refused \/ lease_error_from_rpc(code)
                              \in {"AttemptMismatchError", "JobNotFoundError"})

\* The heartbeat's verdict: the job must not be acked or nacked, and the
\* handler is cancelled (in vain if it is over).
DeclareLost ==
  /\ leaseLost' = TRUE
  /\ hb' = "ended"
  /\ hCancel' = ~HandlerDone
  /\ UNCHANGED sleepLeft

NextBeat(remaining) ==
  /\ hb' = "sleeping"
  /\ sleepLeft' = Interval(remaining)
  /\ UNCHANGED <<leaseLost, hCancel>>

\* Mutant of HeartbeatHears: any failed extend aborts the handler.
HeartbeatAborts(code) ==
  /\ CASE code = "OK" -> NextBeat(Local(call["hb"].exp))
       [] code = "closed" -> hb' = "ended" /\ UNCHANGED <<sleepLeft, leaseLost, hCancel>>
       [] OTHER -> DeclareLost
  /\ UNCHANGED pc

\* Mutant of HeartbeatHears: only a refusal aborts it, not the expiry.
HeartbeatTrusts(code) ==
  LET error == lease_error_from_rpc(code) IN
  /\ CASE code = "OK" -> NextBeat(Local(call["hb"].exp))
       [] code = "closed" -> hb' = "ended" /\ UNCHANGED <<sleepLeft, leaseLost, hCancel>>
       [] OTHER -> IF error \in {"AttemptMismatchError", "JobNotFoundError"}
                     THEN DeclareLost
                     ELSE NextBeat(known)
  /\ UNCHANGED pc

\* The call of c comes back to it with this code, after the last attempt.
HeartbeatHears(code) ==
  LET error == lease_error_from_rpc(code) IN
  /\ CASE code = "OK" -> NextBeat(Local(call["hb"].exp))
       [] code = "closed" -> hb' = "ended" /\ UNCHANGED <<sleepLeft, leaseLost, hCancel>>
       [] OTHER -> IF error \in {"AttemptMismatchError", "JobNotFoundError"} \/ known = 0
                     THEN DeclareLost
                     ELSE NextBeat(known)
  /\ UNCHANGED pc

CallEnds(c, code) ==
  /\ call' = [call EXCEPT ![c] = Idle]
  /\ CASE c = "hb" -> HeartbeatHears(code)
       [] c = "handler" -> UNCHANGED <<pc, hb, sleepLeft, leaseLost, hCancel>>
       [] c = "job" -> pc' = "over" /\ UNCHANGED <<hb, sleepLeft, leaseLost, hCancel>>
  /\ IF code = "OK" /\ c # "job" THEN ExtensionGranted(c) ELSE NothingGranted(code)

\* _with_retry gets a code for this attempt.
AttemptEnds(c, code) ==
  /\ IF code # "OK" /\ Retries(code, call[c].attempt, RETRYABLE_CODES)
       THEN /\ \E delay \in Delays(call[c].backoff) :
                 call' = [call EXCEPT ![c].phase = "backoff", ![c].left = delay,
                                      ![c].code = "OK", ![c].exp = 0]
            /\ UNCHANGED <<auto_extend, pc, hb, sleepLeft, leaseLost, hCancel, known, told, refused>>
       ELSE CallEnds(c, code)
  /\ UNCHANGED <<auto_extend, handler, jobCancel, outcome, srv, srvLeft>>

Answered(c) == Listening(c) /\ call[c].phase = "reply" /\ AttemptEnds(c, call[c].code)

\* The request or its answer is lost, the server refuses to execute it, or the
\* channel is closed.
Fails(c) == Listening(c) /\ InFlight(c) /\ \E code \in Failures : AttemptEnds(c, code)

NextAttempt(c) ==
  /\ Listening(c) /\ call[c].phase = "backoff" /\ call[c].left = 0
  /\ call' = [call EXCEPT ![c] = Sent(call[c].attempt + 1, NextBackoff(call[c].backoff))]
  /\ UNCHANGED <<auto_extend, pc, handler, hCancel, jobCancel, outcome, hb, sleepLeft, leaseLost,
                 known, srv, srvLeft, told, refused>>

-----------------------------------------------------------------------------
(* The server's clock and this host's (external).                          *)

Expire ==
  /\ srv = "leased" /\ srvLeft = 0
  /\ srv' = "expired"
  /\ UNCHANGED <<auto_extend, pc, handler, hCancel, jobCancel, outcome, hb, sleepLeft, leaseLost,
                 known, call, srvLeft, told, refused>>

Reassign ==
  /\ srv = "expired"
  /\ srv' = "reassigned"
  /\ UNCHANGED <<auto_extend, pc, handler, hCancel, jobCancel, outcome, hb, sleepLeft, leaseLost,
                 known, call, srvLeft, told, refused>>

\* A coroutine that a responsive event loop runs before time passes; a call
\* past its deadline is one.
Due ==
  \/ pc \in {"start", "reap_hb"}
  \/ pc = "handler" /\ HandlerDone /\ auto_extend
  \/ handler = "created" \/ hCancel
  \/ hb = "created"
  \/ hb = "sleeping" /\ sleepLeft = 0
  \/ \E c \in Callers : call[c].phase # "idle" /\ call[c].left = 0

Less(n) == AtLeast(n - 1, 0)

Tick ==
  /\ pc # "over"
  /\ Responsive => ~Due
  /\ srvLeft' = Less(srvLeft) /\ known' = Less(known) /\ told' = Less(told)
  /\ sleepLeft' = Less(sleepLeft)
  /\ call' = [c \in Callers |-> [call[c] EXCEPT !.left = Less(call[c].left),
                                                !.exp = Less(call[c].exp)]]
  /\ UNCHANGED <<auto_extend, pc, handler, hCancel, jobCancel, outcome, hb, leaseLost, srv, refused>>

\* The job task is over; what the server does then is not followed.
Over == pc = "over" /\ UNCHANGED vars

-----------------------------------------------------------------------------
HandlerSteps == HandlerStart \/ HandlerSwallows \/ HandlerExtend
                  \/ \E end \in HandlerEnds : HandlerEnd(end)
JobSteps == StartJob \/ HandlerAwaited \/ HeartbeatReaped
HeartbeatSteps == HeartbeatStart \/ HeartbeatWakes \/ HeartbeatCancelled
CallSteps(c) == ServerExecutes(c) \/ Answered(c) \/ Fails(c) \/ NextAttempt(c)

Next == JobSteps \/ CancelJob \/ HandlerSteps \/ HeartbeatSteps
          \/ (\E c \in Callers : CallSteps(c)) \/ Expire \/ Reassign \/ Tick \/ Over

Spec == Init /\ [][Next]_vars

\* Every coroutine but the handler is run when it can be; calls end, time
\* passes, and a handler's task is started.
Fairness ==
  /\ WF_vars(JobSteps) /\ WF_vars(HeartbeatSteps) /\ WF_vars(HandlerStart)
  /\ \A c \in Callers : WF_vars(CallSteps(c))
  /\ WF_vars(Tick)

FairSpec == Spec /\ Fairness

-----------------------------------------------------------------------------
TypeOK ==
  /\ auto_extend \in BOOLEAN
  /\ pc \in {"start", "handler", "reap_hb", "dispose", "over"}
  /\ handler \in {"none", "created", "running"} \cup HandlerEnds
  /\ hCancel \in BOOLEAN /\ jobCancel \in BOOLEAN
  /\ outcome \in {"none", "lost"} \cup HandlerEnds
  /\ hb \in {"none", "created", "sleeping", "extending", "ended"}
  /\ sleepLeft \in Nat /\ known \in Nat /\ told \in Nat /\ srvLeft \in Nat
  /\ leaseLost \in BOOLEAN /\ refused \in BOOLEAN
  /\ srv \in {"leased", "expired", "reassigned", "acked", "nacked"}
  /\ call \in [Callers -> [phase : {"idle", "request", "reply", "backoff"},
                           attempt : 0..MaxAttempts, backoff : Nat, left : Nat,
                           code : {"OK"} \cup StatusCodes, exp : Nat]]

\* No job is acked or nacked once the heartbeat has declared its lease lost,
\* however the handler took its cancellation: another worker may own the job
\* (worker.py:462-466).
VerdictIsFinal == leaseLost => pc # "dispose" /\ call["job"] = Idle

\* The server only ever learns what the handler did: an ack means it returned,
\* a nack that it failed or that there is none; a handler that was cancelled is
\* reported as neither (worker.py:443-454).
ReportsMatchTheHandler ==
  /\ srv = "acked" => handler = "returned"
  /\ srv = "nacked" => handler \in {"failed", "none"}

\* A job task that is over leaves no handler, heartbeat or call behind
\* (worker.py:455-458).
NothingOutlivesTheJob ==
  pc = "over" => /\ handler \notin {"created", "running"}
                 /\ hb \in {"none", "ended"}
                 /\ \A c \in Callers : call[c] = Idle

\* The worker never takes its lease for longer than the server's, whatever is
\* lost or delayed, when every extension asks for the same duration: it goes by
\* the lease granted, not the one asked for (worker.py:119-125, client.py:167).
KnownExpiryIsSafe ==
  handler_extension = lease_duration /\ srv \in {"leased", "expired", "reassigned"} => known <= Local(srvLeft)

\* A handler is aborted only after the server refused an extension or the last
\* expiry it reported has passed; a failed extend alone does not (worker.py:528-536).
\* JobCtx.extend and client.extend are documented as equivalent (client.py:506-508),
\* so an expiry reported through either counts.
AbortIsJustified == [][leaseLost' /\ ~leaseLost => refused' \/ told = 0]_vars

\* The heartbeat keeps the lease: with a responsive event loop and a server that
\* answers, the lease of a job whose handler runs never runs out, even when the
\* server clamped it (worker.py:119-125).
LeaseIsKept == handler = "running" => srv = "leased" /\ srvLeft > 0

-----------------------------------------------------------------------------
(* What one delivery promises.                                             *)

DeliveryHandler == IF handler = "created" THEN "none" ELSE handler
DeliveryLease == IF srv = "leased" THEN "held"
                 ELSE IF srv \in {"acked", "nacked"} THEN srv
                 ELSE "lapsed"

Delivery == INSTANCE LeasedJob WITH handler <- DeliveryHandler, lease <- DeliveryLease

\* Heartbeats, cancellations, retries and lost answers do not show: a handler
\* starts at most once and never for a job that was reported, and at most one
\* report is made, a true one, while the lease is held (worker.py:399-497).
ImplementsDelivery == Delivery!Spec

-----------------------------------------------------------------------------
\* When the server has given the job to another worker, a handler that still
\* runs is told to stop, even if every extend fails (worker.py:517-536).
ReassignmentIsNoticed ==
  srv = "reassigned" /\ handler = "running" ~> leaseLost \/ HandlerDone

-----------------------------------------------------------------------------
\* "raising any other exception nacks it for retry" (worker.py:13): a job whose
\* handler failed is over only after a nack, unless its lease was lost or its
\* task cancelled.
FailuresAreNacked ==
  [][pc' = "over" /\ handler' = "failed"
       => pc \in {"dispose", "over"} \/ leaseLost \/ jobCancel]_vars
=============================================================================
