--------------------------- MODULE JobTaskProofs ----------------------------
(***************************************************************************)
(* Safety of JobTask for every policy, duration and skew, and that a job   *)
(* task is a leased job.                                                   *)
(*                                                                         *)
(* The invariant says which of the job task, its handler and its heartbeat *)
(* are alive together, that only a live one has a call under way, that a   *)
(* verdict or a cancellation leads away from the report, and how the       *)
(* expiries that travel in answers bound the one the worker goes by.  A    *)
(* second one, for a server that answers in time, says by how much the     *)
(* lease outlasts the heartbeat's sleep and its call.                      *)
(***************************************************************************)
EXTENDS JobTask, TLAPS

Live == {"created", "running"}

\* Which of the tasks are there at each place of the job task.
WhereOK ==
  /\ pc = "start" => handler = "none" /\ hb = "none"
  /\ pc = "handler" => /\ handler # "none"
                       /\ auto_extend \/ handler = "running"
                       /\ auto_extend <=> hb # "none"
  /\ pc = "reap_hb" => auto_extend /\ hb # "none"
  /\ pc \in {"reap_hb", "dispose", "over"} => handler \notin Live
  /\ pc \in {"dispose", "over"} => hb \in {"none", "ended"}

\* A call belongs to a coroutine that waits for it.
CallsOK ==
  /\ hb # "extending" => call["hb"] = Idle
  /\ handler # "running" => call["handler"] = Idle
  /\ pc # "dispose" => call["job"] = Idle
  /\ HandlerExtends = "never" => call["handler"] = Idle
  /\ \A c \in Callers : call[c].phase = "backoff" => call[c].attempt < MaxAttempts

\* What the report will say, and when there is none.
OutcomeOK ==
  /\ leaseLost => pc \notin {"start", "dispose"} /\ auto_extend
  /\ pc = "reap_hb" =>
       /\ outcome = "lost" => leaseLost
       /\ outcome \in {"returned", "failed"} => outcome = handler
       /\ outcome # "none"
  /\ pc = "dispose" => \/ outcome = "returned" /\ handler = "returned"
                       \/ outcome = "failed" /\ handler \in {"failed", "none"}
  /\ srv \in {"acked", "nacked"} => pc \in {"dispose", "over"}
  /\ ReportsMatchTheHandler

\* Every expiry this process has or will be told is one the lease outlives.
ExpiriesOK ==
  handler_extension = lease_duration =>
    /\ srvLeft <= Granted(lease_duration)
    /\ \A c \in Callers : call[c].exp <= srvLeft
    /\ known <= Local(srvLeft)

\* JobCtx.extend leaves the heartbeat nothing it has not been told.
ToldOK == HandlerExtends # "client" => known = told

Inv == TypeOK /\ WhereOK /\ CallsOK /\ OutcomeOK /\ ExpiriesOK /\ ToldOK
-----------------------------------------------------------------------------
\* Timers count down to zero and expiries of the past are zero.
LEMMA Timers ==
  /\ \A n \in Nat : Less(n) \in Nat
  /\ \A n \in Nat : Local(n) \in Nat
  /\ \A n \in Nat : Interval(n) \in Nat
  /\ Granted(lease_duration) \in Nat /\ Granted(handler_extension) \in Nat
BY JobAssumption DEF Less, Local, Interval, _heartbeat_interval, AtLeast, Granted, Lesser

\* A longer lease at the server is read as one that is no shorter.
LEMMA LocalGrows ==
  ASSUME NEW a \in Nat, NEW b \in Nat, a <= b
  PROVE  Local(a) \in Nat /\ Local(b) \in Nat /\ Local(a) <= Local(b)
<1>1. Skew \in Int
  BY JobAssumption
<1> QED
  BY <1>1 DEF Local, AtLeast

\* The retry policy keeps delays and attempts in their ranges.
LEMMA Policy ==
  /\ MaxAttempts \in Nat \ {0} /\ initial_backoff \in Nat /\ rpc_timeout \in Nat
  /\ \A b \in Nat : NextBackoff(b) \in Nat
  /\ \A b \in Nat : Delays(b) \in SUBSET Nat
<1>1. MaxAttempts \in Nat \ {0} /\ initial_backoff \in Nat /\ rpc_timeout \in Nat
  BY PolicyAssumption, JobAssumption DEF MaxAttempts
<1>2. Multiplier \in Nat \ {0}
  BY PolicyAssumption DEF Multiplier
<1>3. ASSUME NEW b \in Nat PROVE b * Multiplier \in Nat
  BY <1>2
<1>4. \A b \in Nat : NextBackoff(b) \in Nat
  BY <1>3, PolicyAssumption DEF NextBackoff
<1>5. \A b \in Nat : Delays(b) \in SUBSET Nat
  BY DEF Delays
<1> QED
  BY <1>1, <1>4, <1>5

Phases == {"idle", "request", "reply", "backoff"}
Codes == {"OK"} \cup StatusCodes
Calls == [phase : Phases, attempt : 0..MaxAttempts, backoff : Nat, left : Nat,
          code : Codes, exp : Nat]

\* The records a call goes through.
LEMMA CallRecords ==
  /\ Idle \in Calls /\ Call \in Calls
  /\ \A x \in Calls : x.phase = "backoff" /\ x.attempt < MaxAttempts
                       => Sent(x.attempt + 1, NextBackoff(x.backoff)) \in Calls
<1>1. Idle \in Calls /\ Call \in Calls
  BY Policy DEF Idle, Call, Sent, Calls, Phases, Codes
<1>2. ASSUME NEW x \in Calls, x.attempt < MaxAttempts
      PROVE  Sent(x.attempt + 1, NextBackoff(x.backoff)) \in Calls
  <2>1. x.attempt + 1 \in 0..MaxAttempts /\ NextBackoff(x.backoff) \in Nat
    BY <1>2, Policy DEF Calls
  <2> QED
    BY <2>1, Policy DEF Sent, Calls, Phases, Codes
<1> QED
  BY <1>1, <1>2

\* A call that is answered or fails ends its attempt with a code.
LEMMA AttemptsEnd ==
  ASSUME NEW c \in Callers, Answered(c) \/ Fails(c)
  PROVE  \E code : Listening(c) /\ call[c].phase # "idle" /\ AttemptEnds(c, code)
<1>1. CASE Answered(c)
  BY <1>1 DEF Answered
<1>2. CASE Fails(c)
  BY <1>2 DEF Fails, InFlight
<1> QED
  BY <1>1, <1>2

\* A fresh delivery satisfies the invariant.
LEMMA InitInv == Init => Inv
<1> SUFFICES ASSUME Init PROVE Inv
  OBVIOUS
<1>1. TypeOK
  BY JobAssumption, Timers, CallRecords DEF Init, TypeOK, HandlerEnds, Calls, Phases, Codes
<1>2. WhereOK /\ CallsOK /\ OutcomeOK /\ ToldOK
  BY DEF Init, WhereOK, CallsOK, OutcomeOK, ToldOK, ReportsMatchTheHandler, Live, Idle, Callers
<1>3. ExpiriesOK
  BY Timers DEF Init, ExpiriesOK, Idle
<1> QED
  BY <1>1, <1>2, <1>3 DEF Inv

\* Calls are set up or given up.
LEMMA CallsReset ==
  ASSUME Inv, DOMAIN call' = Callers, call' = [c \in Callers |-> call'[c]],
         \A c \in Callers : call'[c] = call[c] \/ call'[c] \in {Idle, Call}
  PROVE  /\ call' \in [Callers -> Calls]
         /\ \A c \in Callers : call'[c].phase = "backoff" => call'[c] = call[c]
         /\ \A c \in Callers : call'[c].exp <= call[c].exp
<1>1. call \in [Callers -> Calls]
  BY DEF Inv, TypeOK, Calls, Phases, Codes
<1>2. \A c \in Callers : call[c].exp \in Nat
  BY <1>1 DEF Calls
<1>3. \A x \in {Idle, Call} : x.exp = 0 /\ x.phase # "backoff"
  BY DEF Idle, Call, Sent
<1>4. call' \in [Callers -> Calls]
  BY <1>1, CallRecords
<1> QED
  BY <1>2, <1>3, <1>4

\* The job's own call is set up or given up.
LEMMA JobCall ==
  ASSUME Inv, call' = call \/ \E x \in {Idle, Call} : call' = [call EXCEPT !["job"] = x]
  PROVE  /\ call' \in [Callers -> Calls]
         /\ call'["hb"] = call["hb"] /\ call'["handler"] = call["handler"]
         /\ \A c \in Callers : call'[c].phase = "backoff" => call'[c] = call[c]
         /\ \A c \in Callers : call'[c].exp <= call[c].exp
<1>1. call \in [Callers -> Calls]
  BY DEF Inv, TypeOK, Calls, Phases, Codes
<1>2. /\ DOMAIN call' = Callers /\ call' = [c \in Callers |-> call'[c]]
      /\ \A c \in Callers : call'[c] = call[c] \/ call'[c] \in {Idle, Call}
      /\ call'["hb"] = call["hb"] /\ call'["handler"] = call["handler"]
  BY <1>1 DEF Callers
<1> QED
  BY <1>2, CallsReset

\* A step that hears nothing and brings no time keeps what is said of expiries.
LEMMA NothingHeard ==
  ASSUME Inv, call' \in [Callers -> Calls],
         \A c \in Callers : call'[c].exp <= call[c].exp,
         UNCHANGED <<known, told, srvLeft>>
  PROVE  ExpiriesOK' /\ ToldOK'
<1>1. \A c \in Callers : call[c].exp \in Nat /\ call'[c].exp \in Nat
  BY DEF Inv, TypeOK, Calls
<1>2. srvLeft \in Nat
  BY DEF Inv, TypeOK
<1> QED
  BY <1>1, <1>2 DEF Inv, ExpiriesOK, ToldOK, Local

-----------------------------------------------------------------------------
(* One lemma per group of actions.                                         *)

\* The handler is looked up, and a coroutine of it made or not.
LEMMA StartInv ==
  ASSUME Inv, StartJob
  PROVE  Inv'
<1>1. call' = call \/ \E x \in {Idle, Call} : call' = [call EXCEPT !["job"] = x]
  BY DEF StartJob, Dispose
<1>2. TypeOK'
  BY <1>1, JobCall DEF Inv, TypeOK, StartJob, Dispose, HandlerEnds, Calls, Phases, Codes
<1>3. WhereOK'
  BY DEF Inv, TypeOK, WhereOK, Live, StartJob, Dispose
<1>4. CallsOK'
  BY <1>1, JobCall DEF Inv, WhereOK, CallsOK, StartJob, Dispose
<1>5. OutcomeOK'
  BY DEF Inv, WhereOK, OutcomeOK, ReportsMatchTheHandler, StartJob, Dispose
<1>6. ExpiriesOK' /\ ToldOK'
  BY <1>1, JobCall, NothingHeard DEF StartJob
<1> QED
  BY <1>2, <1>3, <1>4, <1>5, <1>6 DEF Inv

\* _run_with_auto_extend resumes after its handler.
LEMMA HandlerAwaitedInv ==
  ASSUME Inv, HandlerAwaited
  PROVE  Inv'
<1>1. call' = call
  BY DEF HandlerAwaited
<1>2. TypeOK'
  BY DEF Inv, TypeOK, HandlerAwaited, HandlerEnds, HandlerDone
<1>3. WhereOK' /\ CallsOK' /\ OutcomeOK'
  BY DEF Inv, TypeOK, WhereOK, CallsOK, OutcomeOK, ReportsMatchTheHandler, Live, HandlerAwaited, HandlerEnds,
         HandlerDone
<1>4. ExpiriesOK' /\ ToldOK'
  BY <1>1, JobCall, NothingHeard DEF HandlerAwaited
<1> QED
  BY <1>2, <1>3, <1>4 DEF Inv

\* It resumes after its heartbeat: a report, or none.
LEMMA HeartbeatReapedInv ==
  ASSUME Inv, HeartbeatReaped
  PROVE  Inv'
<1>1. call' = call \/ \E x \in {Idle, Call} : call' = [call EXCEPT !["job"] = x]
  BY DEF HeartbeatReaped, Dispose
<1>2. TypeOK'
  BY <1>1, JobCall DEF Inv, TypeOK, HeartbeatReaped, Dispose, Calls, Phases, Codes
<1>3. WhereOK'
  BY DEF Inv, WhereOK, Live, HeartbeatReaped, Dispose
<1>4. CallsOK'
  BY <1>1, JobCall DEF Inv, CallsOK, HeartbeatReaped, Dispose
<1>5. OutcomeOK'
  BY DEF Inv, TypeOK, OutcomeOK, ReportsMatchTheHandler, HeartbeatReaped, Dispose, HandlerEnds
<1>6. ExpiriesOK' /\ ToldOK'
  BY <1>1, JobCall, NothingHeard DEF HeartbeatReaped
<1> QED
  BY <1>2, <1>3, <1>4, <1>5, <1>6 DEF Inv

\* run() cancels the job task.
LEMMA CancelJobInv ==
  ASSUME Inv, CancelJob
  PROVE  Inv'
<1>1. \/ /\ pc \in {"start", "dispose"} /\ pc' = "over"
         /\ call' = [call EXCEPT !["job"] = Idle]
      \/ pc \in {"handler", "reap_hb"} /\ UNCHANGED <<pc, call>>
  BY DEF CancelJob
<1>2. call' \in [Callers -> Calls]
  BY <1>1, JobCall
<1>3. UNCHANGED <<auto_extend, handler, outcome, hb, sleepLeft, leaseLost, known, srv, srvLeft,
                  told, refused>>
  BY DEF CancelJob
<1>4. TypeOK'
  <2>1. hCancel' \in BOOLEAN /\ jobCancel' \in BOOLEAN
    BY DEF Inv, TypeOK, CancelJob
  <2> QED
    BY <1>1, <1>2, <1>3, <2>1 DEF Inv, TypeOK, Calls, Phases, Codes
<1>5. WhereOK' /\ OutcomeOK'
  BY <1>1, <1>3 DEF Inv, WhereOK, OutcomeOK, ReportsMatchTheHandler, Live
<1>6. CallsOK'
  <2>1. pc' # "dispose" => call'["job"] = Idle
    BY <1>1 DEF Inv, TypeOK, CallsOK, Callers
  <2> QED
    BY <1>1, <1>3, <2>1, JobCall DEF Inv, CallsOK
<1>7. ExpiriesOK' /\ ToldOK'
  BY <1>1, <1>3, JobCall, NothingHeard
<1> QED
  BY <1>4, <1>5, <1>6, <1>7 DEF Inv

\* Steps of the handler.
LEMMA HandlerStepsInv ==
  ASSUME Inv, HandlerSteps
  PROVE  Inv'
<1>1. PICK end \in HandlerEnds : HandlerStart \/ HandlerSwallows \/ HandlerExtend \/ HandlerEnd(end)
  BY DEF HandlerSteps, HandlerEnds
<1>2. call \in [Callers -> Calls] /\ call["job"] \in Calls
  BY DEF Inv, TypeOK, Calls, Phases, Codes, Callers
<1>3. /\ call' \in [Callers -> Calls]
      /\ \A c \in Callers : call'[c].phase = "backoff" => call'[c] = call[c]
      /\ \A c \in Callers : call'[c].exp <= call[c].exp
      /\ call'["hb"] = call["hb"]
      /\ handler' # "running" => call'["handler"] = Idle
      /\ HandlerExtends = "never" => call'["handler"] = Idle
      /\ pc' # "dispose" => call'["job"] = call["job"]
  <2>1. /\ DOMAIN call' = Callers /\ call' = [c \in Callers |-> call'[c]]
        /\ \A c \in Callers : call'[c] = call[c] \/ call'[c] \in {Idle, Call}
        /\ call'["hb"] = call["hb"]
        /\ pc' # "dispose" => call'["job"] = call["job"]
    BY <1>1, <1>2 DEF HandlerStart, HandlerSwallows, HandlerExtend, HandlerEnd, Callers
  <2>2. /\ handler' # "running" => call'["handler"] = Idle
        /\ HandlerExtends = "never" => call'["handler"] = Idle
    BY <1>1, <1>2 DEF Inv, CallsOK, HandlerStart, HandlerSwallows, HandlerExtend, HandlerEnd, HandlerEnds, Callers
  <2> QED
    BY <2>1, <2>2, CallsReset
<1>4. /\ handler \in Live /\ pc = "handler"
      /\ hb' = hb /\ leaseLost' = leaseLost /\ srv' = srv /\ auto_extend' = auto_extend
      /\ UNCHANGED <<known, told, srvLeft, sleepLeft, refused, jobCancel>>
  BY <1>1 DEF Inv, TypeOK, WhereOK, HandlerStart, HandlerSwallows, HandlerExtend, HandlerEnd, Live
<1>5. \/ /\ pc' = pc /\ outcome' = outcome
         /\ handler' \in {"running"} \cup HandlerEnds
         /\ auto_extend \/ handler' = "running"
      \/ /\ ~auto_extend /\ pc' = "dispose" /\ handler' \in {"returned", "failed"}
         /\ outcome' = handler'
      \/ ~auto_extend /\ pc' = "over" /\ outcome' = "cancelled" /\ handler' = "cancelled"
  BY <1>1, <1>4 DEF Inv, WhereOK, HandlerStart, HandlerSwallows, HandlerExtend, HandlerEnd, HandlerEnds
<1>6. TypeOK'
  <2>1. hCancel' = FALSE \/ hCancel' = hCancel
    BY <1>1 DEF HandlerStart, HandlerSwallows, HandlerExtend, HandlerEnd
  <2>2. hCancel' \in BOOLEAN
    BY <2>1 DEF Inv, TypeOK
  <2> QED
    BY <1>3, <1>4, <1>5, <2>2 DEF Inv, TypeOK, HandlerEnds, Calls, Phases, Codes
<1>7. WhereOK'
  BY <1>4, <1>5 DEF Inv, WhereOK, Live, HandlerEnds
<1>8. CallsOK'
  BY <1>3, <1>4, <1>5 DEF Inv, CallsOK
<1>9. OutcomeOK'
  BY <1>4, <1>5 DEF Inv, OutcomeOK, ReportsMatchTheHandler
<1>10. ExpiriesOK' /\ ToldOK'
  BY <1>3, <1>4, NothingHeard
<1> QED
  BY <1>6, <1>7, <1>8, <1>9, <1>10 DEF Inv

\* Steps of the heartbeat up to its call.
LEMMA HeartbeatStepsInv ==
  ASSUME Inv, HeartbeatSteps
  PROVE  Inv'
<1>1. call \in [Callers -> Calls]
  BY DEF Inv, TypeOK, Calls, Phases, Codes
<1>2. /\ pc \in {"handler", "reap_hb"} /\ hb # "none"
      /\ UNCHANGED <<auto_extend, pc, handler, hCancel, jobCancel, outcome, leaseLost, known,
                     srv, srvLeft, told, refused>>
  BY DEF Inv, WhereOK, HeartbeatSteps, HeartbeatStart, HeartbeatWakes, HeartbeatCancelled
<1>3. /\ hb' \in {"sleeping", "extending", "ended"}
      /\ hb' # "extending" => call'["hb"] = Idle
      /\ call'["job"] = call["job"] /\ call'["handler"] = call["handler"]
      /\ DOMAIN call' = Callers /\ call' = [c \in Callers |-> call'[c]]
      /\ \A c \in Callers : call'[c] = call[c] \/ call'[c] \in {Idle, Call}
  BY <1>1 DEF Inv, CallsOK, HeartbeatSteps, HeartbeatStart, HeartbeatWakes, HeartbeatCancelled, Callers
<1>4. sleepLeft' \in Nat
  BY Timers DEF Inv, TypeOK, HeartbeatSteps, HeartbeatStart, HeartbeatWakes, HeartbeatCancelled
<1>5. TypeOK'
  BY <1>2, <1>3, <1>4, CallsReset DEF Inv, TypeOK, Calls, Phases, Codes
<1>6. WhereOK' /\ OutcomeOK'
  BY <1>2, <1>3 DEF Inv, WhereOK, OutcomeOK, ReportsMatchTheHandler, Live
<1>7. CallsOK'
  BY <1>2, <1>3, CallsReset DEF Inv, CallsOK
<1>8. ExpiriesOK' /\ ToldOK'
  BY <1>2, <1>3, CallsReset, NothingHeard
<1> QED
  BY <1>5, <1>6, <1>7, <1>8 DEF Inv

\* The server executes a request: an extension, an ack or a nack.
LEMMA ServerExecutesInv ==
  ASSUME Inv, NEW c \in Callers, ServerExecutes(c)
  PROVE  Inv'
<1>1. call \in [Callers -> Calls]
  BY DEF Inv, TypeOK, Calls, Phases, Codes
<1> DEFINE by == IF c = "handler" THEN handler_extension ELSE lease_duration
<1>2. PICK code \in {"OK", "FAILED_PRECONDITION", "NOT_FOUND"} :
        /\ code = "OK" => srv = "leased"
        /\ srvLeft' = IF code = "OK" /\ c # "job" THEN Granted(by) ELSE srvLeft
        /\ srv' = IF code = "OK" /\ c = "job"
                    THEN IF outcome = "returned" THEN "acked" ELSE "nacked"
                    ELSE srv
        /\ call' = [call EXCEPT ![c].phase = "reply", ![c].code = code,
                                ![c].exp = IF code = "OK" /\ c # "job" THEN Granted(by) ELSE 0]
  BY DEF ServerExecutes
<1>3. /\ call[c].phase = "request"
      /\ UNCHANGED <<auto_extend, pc, handler, hCancel, jobCancel, outcome, hb, sleepLeft,
                     leaseLost, known, told, refused>>
  BY DEF ServerExecutes
<1>4. Granted(by) \in Nat /\ (handler_extension = lease_duration => by = lease_duration)
  BY Timers
<1> HIDE DEF by
<1>5. code \in Codes
  BY <1>2 DEF Codes, StatusCodes
<1>6. /\ call'[c] = [call[c] EXCEPT !.phase = "reply", !.code = code,
                           !.exp = IF code = "OK" /\ c # "job" THEN Granted(by) ELSE 0]
      /\ \A b \in Callers \ {c} : call'[b] = call[b]
      /\ DOMAIN call' = Callers /\ call' = [b \in Callers |-> call'[b]]
  BY <1>1, <1>2
<1>7. call'[c] \in Calls /\ call'[c].phase = "reply"
  <2> DEFINE x == call[c]
             exp == IF code = "OK" /\ c # "job" THEN Granted(by) ELSE 0
  <2>1. x \in Calls /\ exp \in Nat
    BY <1>1, <1>4
  <2>2. call'[c] = [x EXCEPT !.phase = "reply", !.code = code, !.exp = exp]
    BY <1>6
  <2> HIDE DEF x, exp
  <2> QED
    BY <1>5, <2>1, <2>2 DEF Calls, Phases
<1>8. call' \in [Callers -> Calls]
  BY <1>1, <1>6, <1>7
<1>9. TypeOK'
  BY <1>2, <1>3, <1>4, <1>8 DEF Inv, TypeOK, Calls, Phases, Codes
<1>10. call[c] # Idle
  BY <1>3 DEF Idle
<1>11. WhereOK' /\ CallsOK'
  BY <1>3, <1>6, <1>7, <1>10 DEF Inv, WhereOK, CallsOK, Callers
<1>12. OutcomeOK'
  BY <1>2, <1>3, <1>10 DEF Inv, CallsOK, OutcomeOK, ReportsMatchTheHandler
<1>13. ExpiriesOK'
  <2> SUFFICES ASSUME handler_extension = lease_duration
               PROVE  /\ srvLeft' <= Granted(lease_duration)
                      /\ \A b \in Callers : call'[b].exp <= srvLeft'
                      /\ known' <= Local(srvLeft)'
    BY DEF ExpiriesOK
  <2>1. /\ srvLeft <= Granted(lease_duration) /\ known <= Local(srvLeft)
        /\ \A b \in Callers : call[b].exp <= srvLeft
    BY DEF Inv, ExpiriesOK
  <2>2. srvLeft \in Nat /\ known \in Nat /\ \A b \in Callers : call[b].exp \in Nat
    BY <1>1 DEF Inv, TypeOK, Calls
  <2>3. srvLeft' \in Nat /\ srvLeft <= srvLeft' /\ srvLeft' <= Granted(lease_duration)
    BY <1>2, <1>4, <2>1, <2>2
  <2>4. call'[c].exp <= srvLeft'
    BY <1>1, <1>2, <1>4, <1>6, <2>2 DEF Calls
  <2>5. ASSUME NEW b \in Callers PROVE call'[b].exp <= srvLeft'
    <3>1. CASE b = c
      BY <2>4, <3>1
    <3>2. CASE b # c
      <4>1. call'[b] = call[b] /\ call[b].exp \in Nat /\ call[b].exp <= srvLeft
        BY <1>6, <2>1, <2>2, <3>2
      <4> QED
        BY <2>2, <2>3, <4>1
    <3> QED
      BY <3>1, <3>2
  <2>6. known' <= Local(srvLeft)'
    <3>1. known' = known
      BY <1>3
    <3>2. srvLeft \in Nat /\ srvLeft' \in Nat /\ known \in Nat
      BY <2>2, <2>3
    <3>3. Local(srvLeft) \in Nat /\ Local(srvLeft') \in Nat /\ Local(srvLeft) <= Local(srvLeft')
      BY <2>3, <3>2, LocalGrows
    <3>4. known' <= Local(srvLeft')
      BY <2>1, <3>1, <3>2, <3>3
    <3> QED
      BY <3>4 DEF Local
  <2> QED
    BY <2>3, <2>5, <2>6
<1>14. ToldOK'
  BY <1>3 DEF Inv, ToldOK
<1> QED
  BY <1>9, <1>11, <1>12, <1>13, <1>14 DEF Inv

\* An attempt that is followed by another one, and that other one.
LEMMA RetriesInv ==
  ASSUME Inv, NEW c \in Callers, NEW x \in Calls, call[c].phase # "idle",
         call' = [call EXCEPT ![c] = x], x.exp = 0,
         x.phase = "backoff" => x.attempt < MaxAttempts,
         UNCHANGED <<auto_extend, pc, handler, hCancel, jobCancel, outcome, hb, sleepLeft,
                     leaseLost, known, srv, srvLeft, told, refused>>
  PROVE  Inv'
<1>1. call \in [Callers -> Calls]
  BY DEF Inv, TypeOK, Calls, Phases, Codes
<1>2. /\ call' \in [Callers -> Calls] /\ call'[c] = x
      /\ \A b \in Callers \ {c} : call'[b] = call[b]
  BY <1>1
<1>3. call[c] # Idle
  BY DEF Idle
<1>4. TypeOK'
  BY <1>2 DEF Inv, TypeOK, Calls, Phases, Codes
<1>5. WhereOK' /\ OutcomeOK'
  BY DEF Inv, WhereOK, OutcomeOK, ReportsMatchTheHandler
<1>6. CallsOK'
  BY <1>2, <1>3 DEF Inv, CallsOK, Callers
<1>7. \A b \in Callers : call'[b].exp <= call[b].exp
  BY <1>1, <1>2 DEF Calls
<1> QED
  BY <1>2, <1>4, <1>5, <1>6, <1>7, NothingHeard DEF Inv

\* A further attempt of a call is sent.
LEMMA NextAttemptInv ==
  ASSUME Inv, NEW c \in Callers, NextAttempt(c)
  PROVE  Inv'
<1>1. call[c] \in Calls
  BY DEF Inv, TypeOK, Calls, Phases, Codes
<1>2. call[c].phase = "backoff" /\ call[c].attempt < MaxAttempts
  BY DEF NextAttempt, Inv, CallsOK
<1> DEFINE x == Sent(call[c].attempt + 1, NextBackoff(call[c].backoff))
<1>3. x \in Calls /\ x.exp = 0 /\ x.phase = "request"
  BY <1>1, <1>2, CallRecords DEF Sent
<1>4. call' = [call EXCEPT ![c] = x]
  BY DEF NextAttempt
<1> HIDE DEF x
<1> QED
  BY <1>2, <1>3, <1>4, RetriesInv DEF NextAttempt

\* An attempt fails, and another one will follow.
LEMMA AttemptRetriedInv ==
  ASSUME Inv, NEW c \in Callers, NEW code, call[c].phase # "idle", AttemptEnds(c, code),
         code # "OK" /\ Retries(code, call[c].attempt, RETRYABLE_CODES)
  PROVE  Inv'
<1>1. call[c] \in Calls
  BY DEF Inv, TypeOK, Calls, Phases, Codes
<1>2. PICK delay \in Delays(call[c].backoff) :
        call' = [call EXCEPT ![c].phase = "backoff", ![c].left = delay,
                             ![c].code = "OK", ![c].exp = 0]
  BY DEF AttemptEnds
<1>3. delay \in Nat
  BY <1>1, Policy DEF Calls
<1> DEFINE y == call[c]
           x == [y EXCEPT !.phase = "backoff", !.left = delay, !.code = "OK", !.exp = 0]
<1>4. call' = [call EXCEPT ![c] = x]
  BY <1>2
<1>5. y \in Calls /\ y.attempt < MaxAttempts
  BY <1>1 DEF Retries
<1> HIDE DEF y
<1>6. x \in Calls /\ x.exp = 0 /\ x.attempt < MaxAttempts
  BY <1>3, <1>5 DEF Calls, Phases, Codes
<1> HIDE DEF x
<1> QED
  BY <1>4, <1>6, RetriesInv DEF AttemptEnds

\* A call ends: only the heartbeat draws conclusions from it.
LEMMA CallEndsInv ==
  ASSUME Inv, NEW c \in Callers, NEW code, Listening(c), call[c].phase # "idle", CallEnds(c, code),
         UNCHANGED <<auto_extend, handler, jobCancel, outcome, srv, srvLeft>>
  PROVE  Inv'
<1>1. call \in [Callers -> Calls]
  BY DEF Inv, TypeOK, Calls, Phases, Codes
<1>2. call' = [call EXCEPT ![c] = Idle]
  BY DEF CallEnds
<1>3. /\ DOMAIN call' = Callers /\ call' = [b \in Callers |-> call'[b]]
      /\ \A b \in Callers : call'[b] = call[b] \/ call'[b] \in {Idle, Call}
      /\ call'[c] = Idle /\ \A b \in Callers : b # c => call'[b] = call[b]
  BY <1>1, <1>2
<1>4. call[c].exp \in Nat /\ Local(call[c].exp) \in Nat
  BY <1>1, Timers DEF Calls
<1>5. \/ UNCHANGED <<told, known>>
      \/ /\ told' = Local(call[c].exp) /\ known' \in {told', known}
         /\ HandlerExtends # "client" => known' = told'
  <2>1. NothingGranted(code) \/ (c # "job" /\ ExtensionGranted(c))
    <3>1. CASE code = "OK" /\ c # "job"
      BY <3>1 DEF CallEnds
    <3>2. CASE ~(code = "OK" /\ c # "job")
      BY <3>2 DEF CallEnds
    <3> QED
      BY <3>1, <3>2
  <2>2. /\ HandlerExtends \in {"never", "ctx", "client"} /\ c \in {"hb", "handler", "job"}
        /\ HandlerExtends = "never" => c # "handler"
    BY JobAssumption DEF Callers, Inv, CallsOK, Idle
  <2> QED
    BY <2>1, <2>2 DEF ExtensionGranted, NothingGranted
<1>6. /\ told' \in Nat /\ known' \in Nat /\ refused' \in BOOLEAN
  <2>1. refused' = refused \/ refused' \in BOOLEAN
    BY DEF CallEnds, ExtensionGranted, NothingGranted
  <2> QED
    BY <1>4, <1>5, <2>1 DEF Inv, TypeOK
<1>7. \/ UNCHANGED <<pc, hb, sleepLeft, leaseLost, hCancel>>
      \/ /\ c = "job" /\ pc = "dispose" /\ pc' = "over"
         /\ UNCHANGED <<hb, sleepLeft, leaseLost, hCancel>>
      \/ /\ c = "hb" /\ pc = "handler" /\ pc' = pc /\ hb = "extending"
         /\ hb' \in {"sleeping", "ended"} /\ sleepLeft' \in Nat
         /\ leaseLost' \in BOOLEAN /\ hCancel' \in BOOLEAN
  <2>1. CASE c = "hb"
    <3>1. HeartbeatHears(code) /\ pc = "handler" /\ hb = "extending"
      BY <2>1 DEF CallEnds, Listening
    <3>2. Interval(known) \in Nat /\ Interval(Local(call["hb"].exp)) \in Nat
      BY <1>4, <2>1, Timers DEF Inv, TypeOK
    <3>3. \/ NextBeat(Local(call["hb"].exp)) \/ NextBeat(known) \/ DeclareLost
          \/ hb' = "ended" /\ UNCHANGED <<sleepLeft, leaseLost, hCancel>>
      BY <3>1 DEF HeartbeatHears
    <3>4. hb' \in {"sleeping", "ended"} /\ sleepLeft' \in Nat
      BY <3>2, <3>3 DEF Inv, TypeOK, NextBeat, DeclareLost
    <3>5. leaseLost' \in BOOLEAN /\ hCancel' \in BOOLEAN
      BY <3>3 DEF Inv, TypeOK, NextBeat, DeclareLost
    <3> QED
      BY <2>1, <3>1, <3>4, <3>5 DEF HeartbeatHears
  <2>2. CASE c = "handler"
    BY <2>2 DEF CallEnds
  <2>3. CASE c = "job"
    BY <2>3 DEF CallEnds, Listening
  <2> QED
    BY <2>1, <2>2, <2>3 DEF Callers
<1>8. TypeOK'
  BY <1>3, <1>6, <1>7, CallsReset DEF Inv, TypeOK, Calls, Phases, Codes
<1>9. WhereOK'
  BY <1>7 DEF Inv, WhereOK, Live
<1>10. CallsOK'
  BY <1>3, <1>7, CallsReset DEF Inv, CallsOK, Callers
<1>11. OutcomeOK'
  BY <1>7 DEF Inv, WhereOK, OutcomeOK, ReportsMatchTheHandler
<1>12. ExpiriesOK'
  <2> SUFFICES ASSUME handler_extension = lease_duration
               PROVE  /\ srvLeft <= Granted(lease_duration)
                      /\ \A b \in Callers : call'[b].exp <= srvLeft
                      /\ known' <= Local(srvLeft)
    BY DEF ExpiriesOK, Local
  <2>1. /\ srvLeft <= Granted(lease_duration) /\ known <= Local(srvLeft)
        /\ \A b \in Callers : call[b].exp <= srvLeft
    BY DEF Inv, ExpiriesOK
  <2>2. srvLeft \in Nat
    BY DEF Inv, TypeOK
  <2>3. \A b \in Callers : call'[b].exp <= srvLeft
    BY <1>3, <2>1, <2>2 DEF Idle
  <2>4. Local(call[c].exp) <= Local(srvLeft)
    BY <1>4, <2>1, <2>2, JobAssumption DEF Local, AtLeast
  <2>5. known' <= Local(srvLeft)
    BY <1>5, <2>1, <2>4
  <2> QED
    BY <2>1, <2>3, <2>5
<1>13. ToldOK'
  BY <1>5 DEF Inv, ToldOK
<1> QED
  BY <1>8, <1>9, <1>10, <1>11, <1>12, <1>13 DEF Inv

\* Time and the server's clock.
LEMMA TimeInv ==
  ASSUME Inv, Expire \/ Reassign \/ Tick
  PROVE  Inv'
<1>1. CASE Expire \/ Reassign
  <2>1. /\ UNCHANGED <<auto_extend, pc, handler, hCancel, jobCancel, outcome, hb, sleepLeft, leaseLost,
                       known, call, srvLeft, told, refused>>
        /\ srv' \in {"expired", "reassigned"}
    BY <1>1 DEF Expire, Reassign
  <2>2. TypeOK'
    BY <2>1 DEF Inv, TypeOK
  <2> QED
    BY <2>1, <2>2 DEF Inv, WhereOK, CallsOK, OutcomeOK, ReportsMatchTheHandler, ExpiriesOK, ToldOK,
                      Local
<1>2. CASE Tick
  <2>1. UNCHANGED <<auto_extend, pc, handler, hCancel, jobCancel, outcome, hb, leaseLost, srv, refused>>
    BY <1>2 DEF Tick
  <2>2. /\ srvLeft' = Less(srvLeft) /\ known' = Less(known) /\ told' = Less(told)
        /\ sleepLeft' = Less(sleepLeft)
    BY <1>2 DEF Tick
  <2>0. call' = [c \in Callers |-> [call[c] EXCEPT !.left = Less(call[c].left),
                                                  !.exp = Less(call[c].exp)]]
    BY <1>2 DEF Tick
  <2>3. srvLeft \in Nat /\ known \in Nat /\ told \in Nat /\ sleepLeft \in Nat
    BY DEF Inv, TypeOK
  <2>4. call \in [Callers -> Calls]
    BY DEF Inv, TypeOK, Calls, Phases, Codes
  <2>5. ASSUME NEW c \in Callers
        PROVE  /\ call'[c] \in Calls
               /\ call'[c].phase = call[c].phase /\ call'[c].attempt = call[c].attempt
               /\ call'[c].exp = Less(call[c].exp)
               /\ call[c] = Idle => call'[c] = Idle
    <3> DEFINE x == call[c]
               y == [x EXCEPT !.left = Less(x.left), !.exp = Less(x.exp)]
    <3>1. x \in Calls /\ call'[c] = y
      BY <2>0, <2>4
    <3>2. Less(x.left) \in Nat /\ Less(x.exp) \in Nat
      BY <3>1, Timers DEF Calls
    <3>5. Less(0) = 0
      BY DEF Less, AtLeast
    <3> HIDE DEF x
    <3>3. y \in Calls /\ y.phase = x.phase /\ y.attempt = x.attempt /\ y.exp = Less(x.exp)
      BY <3>1, <3>2 DEF Calls
    <3>4. ASSUME x = Idle PROVE y = Idle
      <4>1. x.left = 0 /\ x.exp = 0
        BY <3>4 DEF Idle
      <4>2. y = [Idle EXCEPT !.left = 0, !.exp = 0]
        BY <3>4, <3>5, <4>1
      <4> HIDE DEF y
      <4> QED
        BY <4>2 DEF Idle
    <3> QED
      BY <3>1, <3>3, <3>4 DEF x
  <2>6. TypeOK'
    <3>1. call' \in [Callers -> Calls]
      BY <2>0, <2>5
    <3> QED
      BY <2>1, <2>2, <2>3, <3>1, Timers DEF Inv, TypeOK, Calls, Phases, Codes
  <2>7. WhereOK' /\ OutcomeOK'
    BY <2>1 DEF Inv, WhereOK, OutcomeOK, ReportsMatchTheHandler
  <2>8. CallsOK'
    BY <2>1, <2>5 DEF Inv, CallsOK, Callers
  <2>9. ExpiriesOK'
    <3> SUFFICES ASSUME handler_extension = lease_duration
                 PROVE  /\ srvLeft' <= Granted(lease_duration)
                        /\ \A c \in Callers : call'[c].exp <= srvLeft'
                        /\ known' <= Local(srvLeft)'
      BY DEF ExpiriesOK
    <3>1. /\ srvLeft <= Granted(lease_duration) /\ known <= Local(srvLeft)
          /\ \A c \in Callers : call[c].exp <= srvLeft
      BY DEF Inv, ExpiriesOK
    <3>2. srvLeft' <= Granted(lease_duration)
      BY <2>2, <2>3, <3>1, Timers DEF Less, AtLeast
    <3>3. ASSUME NEW c \in Callers PROVE call'[c].exp <= srvLeft'
      <4>1. call[c].exp \in Nat /\ call[c].exp <= srvLeft /\ call'[c].exp = Less(call[c].exp)
        BY <2>4, <2>5, <3>1 DEF Calls
      <4> QED
        BY <2>2, <2>3, <4>1 DEF Less, AtLeast
    <3>4. known' <= Local(srvLeft)'
      BY <2>2, <2>3, <3>1, JobAssumption DEF Less, Local, AtLeast
    <3> QED
      BY <3>2, <3>3, <3>4
  <2>10. ToldOK'
    BY <2>2 DEF Inv, ToldOK
  <2> QED
    BY <2>6, <2>7, <2>8, <2>9, <2>10 DEF Inv
<1> QED
  BY <1>1, <1>2
-----------------------------------------------------------------------------
\* Every step keeps the invariant.
LEMMA NextInv ==
  ASSUME Inv, [Next]_vars
  PROVE  Inv'
<1>1. CASE JobSteps \/ CancelJob
  BY <1>1, StartInv, HandlerAwaitedInv, HeartbeatReapedInv, CancelJobInv DEF JobSteps
<1>2. CASE HandlerSteps \/ HeartbeatSteps
  BY <1>2, HandlerStepsInv, HeartbeatStepsInv
<1>3. ASSUME NEW c \in Callers, CallSteps(c) PROVE Inv'
  <2>1. CASE ServerExecutes(c)
    BY <2>1, ServerExecutesInv
  <2>2. CASE Answered(c) \/ Fails(c)
    <3>1. PICK code : Listening(c) /\ call[c].phase # "idle" /\ AttemptEnds(c, code)
      BY <2>2, AttemptsEnd
    <3>2. CASE code # "OK" /\ Retries(code, call[c].attempt, RETRYABLE_CODES)
      BY <3>1, <3>2, AttemptRetriedInv
    <3>3. CASE ~(code # "OK" /\ Retries(code, call[c].attempt, RETRYABLE_CODES))
      BY <3>1, <3>3, CallEndsInv DEF AttemptEnds
    <3> QED
      BY <3>2, <3>3
  <2>3. CASE NextAttempt(c)
    BY <2>3, NextAttemptInv
  <2> QED
    BY <1>3, <2>1, <2>2, <2>3 DEF CallSteps
<1>4. CASE Expire \/ Reassign \/ Tick
  BY <1>4, TimeInv
<1>5. CASE UNCHANGED vars
  BY <1>5 DEF vars, Inv, TypeOK, WhereOK, CallsOK, OutcomeOK, ReportsMatchTheHandler, ExpiriesOK, ToldOK,
              Local, Idle
<1> QED
  BY <1>1, <1>2, <1>3, <1>4, <1>5 DEF Next, Over

\* The inductive invariant of a job task.
LEMMA Invariance == Spec => []Inv
BY InitInv, NextInv, PTL DEF Spec

\* Every variable of the job task keeps its type: no attempt beyond the policy's.
THEOREM TypeCorrect == Spec => []TypeOK
<1>1. Inv => TypeOK
  BY DEF Inv
<1> QED
  BY <1>1, Invariance, PTL

\* A job whose lease the heartbeat declared lost is never acked or nacked.
THEOREM VerdictStands == Spec => []VerdictIsFinal
<1>1. Inv => VerdictIsFinal
  BY DEF Inv, CallsOK, OutcomeOK, VerdictIsFinal
<1> QED
  BY <1>1, Invariance, PTL

\* The server learns what the handler did, or nothing.
THEOREM ReportsAreTrue == Spec => []ReportsMatchTheHandler
<1>1. Inv => ReportsMatchTheHandler
  BY DEF Inv, OutcomeOK
<1> QED
  BY <1>1, Invariance, PTL

\* A job task that is over leaves nothing running.
THEOREM NothingIsLeft == Spec => []NothingOutlivesTheJob
<1>1. Inv => NothingOutlivesTheJob
  BY DEF Inv, WhereOK, CallsOK, NothingOutlivesTheJob, Live, Callers
<1> QED
  BY <1>1, Invariance, PTL

\* Whatever is lost, delayed or clamped, the worker never believes in a lease
\* that is over.
THEOREM LeaseIsNotOverestimated == Spec => []KnownExpiryIsSafe
<1>1. Inv => KnownExpiryIsSafe
  BY DEF Inv, ExpiriesOK, KnownExpiryIsSafe
<1> QED
  BY <1>1, Invariance, PTL

\* Unless the handler extends behind the heartbeat's back, it is aborted only
\* after a refusal or the expiry.
THEOREM AbortsAreJustified == HandlerExtends # "client" => (Spec => AbortIsJustified)
<1> SUFFICES ASSUME HandlerExtends # "client" PROVE Spec => AbortIsJustified
  OBVIOUS
<1>1. ASSUME Inv, [Next]_vars, leaseLost', ~leaseLost PROVE refused' \/ told = 0
  <2>0. PICK c \in Callers :
          \E code : Listening(c) /\ call[c].phase # "idle" /\ AttemptEnds(c, code)
    <3>1. CASE \E c \in Callers : Answered(c) \/ Fails(c)
      BY <3>1, AttemptsEnd
    <3>2. CASE ~\E c \in Callers : Answered(c) \/ Fails(c)
      BY <1>1, <3>2 DEF Next, vars, JobSteps, CancelJob, HandlerSteps, HeartbeatSteps, CallSteps, Expire,
           Reassign, Tick, Over, StartJob, HandlerAwaited, HeartbeatReaped, HandlerStart, HandlerSwallows,
           HandlerExtend, HandlerEnd, HeartbeatStart, HeartbeatWakes, HeartbeatCancelled, ServerExecutes,
           NextAttempt
    <3> QED
      BY <3>1, <3>2
  <2>1. PICK code : Listening(c) /\ call[c].phase # "idle" /\ AttemptEnds(c, code)
    BY <2>0
  <2>2. CallEnds(c, code)
    BY <1>1, <2>1 DEF AttemptEnds
  <2>3. c = "hb" /\ HeartbeatHears(code) /\ code # "OK"
    BY <1>1, <2>2 DEF CallEnds, Callers, HeartbeatHears, NextBeat
  <2>4. lease_error_from_rpc(code) \in {"AttemptMismatchError", "JobNotFoundError"} \/ known = 0
    BY <1>1, <2>3 DEF HeartbeatHears, NextBeat
  <2>5. NothingGranted(code)
    BY <2>2, <2>3 DEF CallEnds
  <2> QED
    BY <1>1, <2>4, <2>5 DEF NothingGranted, Inv, ToldOK
<1>2. Inv /\ [Next]_vars => [leaseLost' /\ ~leaseLost => refused' \/ told = 0]_vars
  BY <1>1
<1> QED
  BY <1>2, Invariance, PTL DEF Spec, AbortIsJustified

-----------------------------------------------------------------------------
(* A job task is a leased job.                                             *)

\* The steps of a leased job, by what they change of the handler and the server.
DeliveryStep ==
  \/ /\ handler' = handler \/ (handler = "none" /\ handler' = "created")
     /\ srv' = srv \/ (srv = "expired" /\ srv' = "reassigned")
  \/ /\ handler \in {"none", "created"} /\ handler' = "running"
     /\ srv' = srv /\ srv \notin {"acked", "nacked"}
  \/ /\ handler \in {"none", "created"} /\ handler' \in {"failed", "cancelled"}
     /\ srv' = srv
  \/ /\ handler = "running" /\ handler' \in {"returned", "failed", "cancelled"}
     /\ srv' = srv
  \/ /\ handler' = handler /\ srv = "leased"
     /\ \/ srv' = "expired"
        \/ srv' = "acked" /\ handler = "returned"
        \/ srv' = "nacked" /\ handler \in {"failed", "none"}

\* Each of them is a step of LeasedJob.
LEMMA DeliverySteps ==
  ASSUME DeliveryStep
  PROVE  [Delivery!Next]_(Delivery!vars)
<1> DEFINE h == DeliveryHandler
           l == DeliveryLease
<1>1. CASE /\ handler' = handler \/ (handler = "none" /\ handler' = "created")
           /\ srv' = srv \/ (srv = "expired" /\ srv' = "reassigned")
  <2>1. h' = h /\ l' = l
    BY <1>1 DEF DeliveryHandler, DeliveryLease
  <2> QED
    BY <2>1 DEF Delivery!vars
<1>2. CASE /\ handler \in {"none", "created"} /\ handler' = "running"
           /\ srv' = srv /\ srv \notin {"acked", "nacked"}
  <2>1. h = "none" /\ h' = "running" /\ l' = l /\ l \notin {"acked", "nacked"}
    BY <1>2 DEF DeliveryHandler, DeliveryLease
  <2> QED
    BY <2>1 DEF Delivery!Next, Delivery!Start, Delivery!Settled
<1>3. CASE /\ handler \in {"none", "created"} /\ handler' \in {"failed", "cancelled"}
           /\ srv' = srv
  <2>1. h = "none" /\ h' \in {"failed", "cancelled"} /\ l' = l
    BY <1>3 DEF DeliveryHandler, DeliveryLease
  <2> QED
    BY <2>1 DEF Delivery!Next, Delivery!Stop, Delivery!HandlerEnds
<1>4. CASE /\ handler = "running" /\ handler' \in {"returned", "failed", "cancelled"}
           /\ srv' = srv
  <2>1. h = "running" /\ h' \in {"returned", "failed", "cancelled"} /\ l' = l
    BY <1>4 DEF DeliveryHandler, DeliveryLease
  <2> QED
    BY <2>1 DEF Delivery!Next, Delivery!Stop, Delivery!HandlerEnds
<1>5. CASE /\ handler' = handler /\ srv = "leased"
           /\ \/ srv' = "expired"
              \/ srv' = "acked" /\ handler = "returned"
              \/ srv' = "nacked" /\ handler \in {"failed", "none"}
  <2>1. /\ h' = h /\ l = "held"
        /\ \/ l' = "lapsed"
           \/ l' = "acked" /\ h = "returned"
           \/ l' = "nacked" /\ h \in {"none", "failed"}
    BY <1>5 DEF DeliveryHandler, DeliveryLease
  <2> QED
    BY <2>1 DEF Delivery!Next, Delivery!Lapse, Delivery!Report
<1> QED
  BY <1>1, <1>2, <1>3, <1>4, <1>5 DEF DeliveryStep

\* A job that is settled has no handler to start or to end.
LEMMA LiveMeansUnsettled ==
  ASSUME Inv, pc = "start" \/ handler \in Live
  PROVE  srv \notin {"acked", "nacked"}
BY DEF Inv, OutcomeOK, WhereOK, Live

\* The server's report is the one the handler's end calls for.
LEMMA ReportIsDelivery ==
  ASSUME Inv, NEW c \in Callers, ServerExecutes(c)
  PROVE  DeliveryStep
<1>1. /\ handler' = handler
      /\ \/ srv' = srv
         \/ /\ c = "job" /\ srv = "leased"
            /\ srv' = IF outcome = "returned" THEN "acked" ELSE "nacked"
  BY DEF ServerExecutes
<1>2. CASE srv' = srv
  BY <1>1, <1>2 DEF DeliveryStep
<1>3. CASE /\ c = "job" /\ srv = "leased"
           /\ srv' = IF outcome = "returned" THEN "acked" ELSE "nacked"
  <2>1. pc = "dispose"
    <3>1. call["job"] # Idle
      BY <1>3 DEF ServerExecutes, Idle
    <3> QED
      BY <3>1 DEF Inv, CallsOK
  <2>2. \/ outcome = "returned" /\ handler = "returned"
        \/ outcome = "failed" /\ handler \in {"failed", "none"}
    BY <2>1 DEF Inv, OutcomeOK
  <2> QED
    BY <1>1, <1>3, <2>2 DEF DeliveryStep
<1> QED
  BY <1>1, <1>2, <1>3

\* The handler's steps, and the others that leave it and the server alone.
LEMMA NextIsDelivery ==
  ASSUME Inv, Next
  PROVE  DeliveryStep
<1>1. CASE StartJob
  <2>1. pc = "start" /\ handler = "none" /\ srv' = srv
    BY <1>1 DEF StartJob, Inv, WhereOK
  <2>2. handler' \in {"none", "created", "running", "failed"}
    BY <1>1 DEF StartJob
  <2> QED
    BY <2>1, <2>2, LiveMeansUnsettled DEF DeliveryStep
<1>2. CASE HandlerStart
  <2>1. handler = "created" /\ handler' \in {"cancelled", "running"} /\ srv' = srv
    BY <1>2 DEF HandlerStart
  <2> QED
    BY <2>1, LiveMeansUnsettled DEF DeliveryStep, Live
<1>3. CASE \E end \in HandlerEnds : HandlerEnd(end)
  <2>1. handler = "running" /\ handler' \in HandlerEnds /\ srv' = srv
    BY <1>3 DEF HandlerEnd
  <2> QED
    BY <2>1 DEF DeliveryStep, HandlerEnds
<1>4. ASSUME NEW c \in Callers, CallSteps(c) PROVE DeliveryStep
  <2>1. CASE ServerExecutes(c)
    BY <2>1, ReportIsDelivery
  <2>2. CASE ~ServerExecutes(c)
    <3>1. handler' = handler /\ srv' = srv
      BY <1>4, <2>2 DEF CallSteps, Answered, Fails, NextAttempt, AttemptEnds
    <3> QED
      BY <3>1 DEF DeliveryStep
  <2> QED
    BY <2>1, <2>2
<1>5. CASE Expire \/ Reassign
  BY <1>5 DEF Expire, Reassign, DeliveryStep
<1>6. CASE \/ HandlerAwaited \/ HeartbeatReaped \/ CancelJob \/ HandlerSwallows \/ HandlerExtend
           \/ HeartbeatSteps \/ Tick \/ Over
  <2>1. handler' = handler /\ srv' = srv
    BY <1>6 DEF HandlerAwaited, HeartbeatReaped, CancelJob, HandlerSwallows, HandlerExtend,
           HeartbeatSteps, HeartbeatStart, HeartbeatWakes, HeartbeatCancelled, Tick, Over, vars
  <2> QED
    BY <2>1 DEF DeliveryStep
<1> QED
  BY <1>1, <1>2, <1>3, <1>4, <1>5, <1>6 DEF Next, JobSteps, HandlerSteps

\* To the server and the application a job task is one leased job, for every
\* policy, duration and failure: the handler starts once and not after a report,
\* and at most one report is made, a true one (worker.py:399-497).
THEOREM DeliveryImplemented == Spec => ImplementsDelivery
<1>1. Init => Delivery!Init
  BY DEF Init, Delivery!Init, DeliveryHandler, DeliveryLease
<1>2. Inv /\ [Next]_vars => [Delivery!Next]_(Delivery!vars)
  <2> SUFFICES ASSUME Inv, [Next]_vars PROVE [Delivery!Next]_(Delivery!vars)
    OBVIOUS
  <2>1. CASE Next
    BY <2>1, NextIsDelivery, DeliverySteps
  <2>2. CASE UNCHANGED vars
    BY <2>2, DeliverySteps DEF DeliveryStep, vars
  <2> QED
    BY <2>1, <2>2
<1> QED
  BY <1>1, <1>2, Invariance, PTL DEF Spec, ImplementsDelivery, Delivery!Spec

-----------------------------------------------------------------------------
(* The heartbeat keeps the lease.                                          *)

\* Calls are answered in time, the event loop is responsive, the handler does not
\* shorten the lease, and a heartbeat that goes by a lease which one slow call has
\* eaten into is back before that lease and the next call run out.
Timely ==
  /\ AutoExtend = {TRUE} /\ Responsive /\ Failures = {}
  /\ lease_duration <= handler_extension
  /\ \A left \in (Granted(lease_duration) - rpc_timeout)..ServerMaxLease :
       Interval(Local(left)) + rpc_timeout < left

\* A job task before its first beat, asleep, or in an extend that the server
\* will execute in time or has executed.
FirstBeatOK ==
  pc = "start" \/ hb = "created" =>
    /\ \E left \in {Granted(lease_duration), Granted(handler_extension)} :
         left <= srvLeft /\ known = Local(left)
    /\ call["handler"].phase = "reply" /\ call["handler"].code = "OK" =>
         /\ call["handler"].exp = Granted(handler_extension)
         /\ Granted(handler_extension) <= srvLeft

SleepOK ==
  hb = "sleeping" => /\ sleepLeft + rpc_timeout < srvLeft
                     /\ sleepLeft + rpc_timeout < Granted(handler_extension)

ExtendOK ==
  /\ hb = "extending" => call["hb"].phase \in {"request", "reply"}
  /\ call["hb"].phase = "request" =>
       call["hb"].left < srvLeft /\ call["hb"].left <= rpc_timeout
  /\ call["hb"].phase = "reply" =>
       /\ call["hb"].code = "OK"
       /\ call["hb"].exp <= srvLeft /\ call["hb"].exp <= Granted(lease_duration)
       /\ Granted(lease_duration) + call["hb"].left <= call["hb"].exp + rpc_timeout

\* The lease stays ahead of the heartbeat until the handler is over.
Ahead ==
  /\ auto_extend
  /\ pc \in {"start", "handler"} =>
       /\ srv = "leased" /\ (pc = "handler" => hb # "ended")
       /\ FirstBeatOK /\ SleepOK /\ ExtendOK

\* What the lengths of the leases are to each other.
LEMMA Lengths ==
  ASSUME Timely
  PROVE  /\ Granted(lease_duration) \in Nat /\ Granted(handler_extension) \in Nat
         /\ Granted(lease_duration) <= Granted(handler_extension)
         /\ Granted(handler_extension) <= ServerMaxLease
         /\ rpc_timeout < Granted(lease_duration)
         /\ rpc_timeout \in Nat
         /\ \A left \in Nat :
              Granted(lease_duration) <= left + rpc_timeout /\ left <= ServerMaxLease =>
                /\ Interval(Local(left)) \in Nat
                /\ Interval(Local(left)) + rpc_timeout < left
<1>1. /\ Granted(lease_duration) \in Nat /\ Granted(handler_extension) \in Nat
      /\ Granted(lease_duration) <= Granted(handler_extension)
      /\ Granted(handler_extension) <= ServerMaxLease
      /\ rpc_timeout \in Nat /\ ServerMaxLease \in Nat
  BY JobAssumption DEF Timely, Granted, Lesser
<1>2. ASSUME NEW left \in Nat,
             Granted(lease_duration) <= left + rpc_timeout, left <= ServerMaxLease
      PROVE  /\ Interval(Local(left)) \in Nat
             /\ Interval(Local(left)) + rpc_timeout < left
  <2>1. left \in (Granted(lease_duration) - rpc_timeout)..ServerMaxLease
    BY <1>1, <1>2
  <2>2. Interval(Local(left)) + rpc_timeout < left
    BY <2>1 DEF Timely
  <2> QED
    BY <2>2, Timers
<1>3. rpc_timeout < Granted(lease_duration)
  <2> DEFINE G == Granted(lease_duration)
  <2>1. Granted(lease_duration) <= G + rpc_timeout /\ G <= ServerMaxLease /\ G \in Nat
    BY <1>1
  <2>2. Interval(Local(G)) \in Nat /\ Interval(Local(G)) + rpc_timeout < G
    BY <1>2, <2>1
  <2> HIDE DEF G
  <2>3. rpc_timeout < G
    BY <1>1, <2>1, <2>2
  <2> QED
    BY <2>3 DEF G
<1> QED
  BY <1>1, <1>2, <1>3

\* A job task starts with the lease it was granted.
LEMMA InitAhead ==
  ASSUME Timely, Init
  PROVE  Ahead
<1>1. auto_extend /\ pc = "start" /\ hb = "none" /\ srv = "leased"
  BY DEF Timely, Init
<1>2. /\ srvLeft = Granted(lease_duration) /\ known = Local(Granted(lease_duration))
      /\ call["hb"] = Idle /\ call["handler"] = Idle
  BY DEF Init, Callers, Local
<1>3. FirstBeatOK
  <2>1. call["handler"].phase = "idle"
    BY <1>2 DEF Idle
  <2>2. Granted(lease_duration) <= srvLeft
    BY <1>2, Lengths
  <2> QED
    BY <1>2, <2>1, <2>2 DEF FirstBeatOK
<1>4. SleepOK /\ ExtendOK
  BY <1>1, <1>2 DEF SleepOK, ExtendOK, Idle
<1> QED
  BY <1>1, <1>3, <1>4 DEF Ahead

\* A step that is neither time's nor the heartbeat's nor the server's.
LEMMA AheadKept ==
  ASSUME Ahead, pc' \in {"start", "handler"} => pc' = pc,
         UNCHANGED <<auto_extend, hb, sleepLeft, known, srv, srvLeft>>,
         call'["hb"] = call["hb"],
         call'["handler"] = call["handler"] \/ call'["handler"].phase # "reply"
  PROVE  Ahead'
<1> SUFFICES ASSUME pc' \in {"start", "handler"}
             PROVE  Ahead'
  BY DEF Ahead
<1>1. FirstBeatOK' /\ SleepOK' /\ ExtendOK'
  BY DEF Ahead, FirstBeatOK, SleepOK, ExtendOK, Local
<1> QED
  BY <1>1 DEF Ahead

\* The steps of the job task and its handler.
LEMMA TasksAhead ==
  ASSUME Timely, Inv, Ahead, JobSteps \/ CancelJob \/ HandlerSteps
  PROVE  Ahead'
<1>1. call \in [Callers -> Calls]
  BY DEF Inv, TypeOK, Calls, Phases, Codes
<1>2. CASE StartJob
  <2>1. pc = "start" /\ hb = "none" /\ call["handler"] = Idle /\ call["hb"] = Idle
    BY <1>2 DEF StartJob, Inv, WhereOK, CallsOK
  <2>2. CASE pc' = "handler"
    <3>1. /\ call' = call /\ hb' \in {"created", "none"}
          /\ UNCHANGED <<auto_extend, sleepLeft, known, srv, srvLeft>>
      BY <1>2, <2>2 DEF StartJob, Dispose
    <3>2. FirstBeatOK' /\ SleepOK' /\ ExtendOK'
      BY <2>1, <3>1 DEF Ahead, FirstBeatOK, SleepOK, ExtendOK, Local, Idle
    <3> QED
      BY <2>1, <3>1, <3>2 DEF Ahead
  <2>3. CASE pc' # "handler"
    BY <1>2, <2>3 DEF StartJob, Dispose, Ahead
  <2> QED
    BY <2>2, <2>3
<1>3. CASE HandlerAwaited \/ HeartbeatReaped
  <2>1. pc' \notin {"start", "handler"} /\ auto_extend' = auto_extend
    BY <1>3 DEF HandlerAwaited, HeartbeatReaped, Dispose
  <2> QED
    BY <2>1 DEF Ahead
<1>4. CASE CancelJob
  <2>1. \/ pc' = "over"
        \/ UNCHANGED <<pc, call>>
    BY <1>4 DEF CancelJob
  <2>2. UNCHANGED <<auto_extend, hb, sleepLeft, known, srv, srvLeft>>
    BY <1>4 DEF CancelJob
  <2>3. CASE pc' = "over"
    BY <2>2, <2>3 DEF Ahead
  <2>4. CASE UNCHANGED <<pc, call>>
    BY <2>2, <2>4, AheadKept
  <2> QED
    BY <2>1, <2>3, <2>4
<1>5. CASE HandlerSteps
  <2>1. PICK end \in HandlerEnds : HandlerStart \/ HandlerSwallows \/ HandlerExtend \/ HandlerEnd(end)
    BY <1>5 DEF HandlerSteps, HandlerEnds
  <2>2. /\ UNCHANGED <<auto_extend, hb, sleepLeft, known, srv, srvLeft>>
        /\ pc' = pc \/ pc' \notin {"start", "handler"}
    BY <2>1 DEF HandlerStart, HandlerSwallows, HandlerExtend, HandlerEnd
  <2>3. /\ call'["hb"] = call["hb"]
        /\ call'["handler"] = call["handler"] \/ call'["handler"] \in {Idle, Call}
    BY <1>1, <2>1 DEF HandlerStart, HandlerSwallows, HandlerExtend, HandlerEnd, Callers
  <2>4. \A x \in {Idle, Call} : x.phase # "reply"
    BY DEF Idle, Call, Sent
  <2> QED
    BY <2>2, <2>3, <2>4, AheadKept
<1> QED
  BY <1>2, <1>3, <1>4, <1>5 DEF JobSteps

\* A heartbeat sleeps for less than what a lease it was told of lasts.
LEMMA BeatInTime ==
  ASSUME Timely, NEW left \in Nat, srvLeft \in Nat,
         Granted(lease_duration) <= left + rpc_timeout,
         left <= srvLeft, left <= Granted(handler_extension),
         sleepLeft' = Interval(Local(left)), srvLeft' = srvLeft
  PROVE  SleepOK'
<1>1. left <= ServerMaxLease
  BY Lengths, JobAssumption
<1>2. Interval(Local(left)) \in Nat /\ Interval(Local(left)) + rpc_timeout < left
  BY <1>1, Lengths
<1>3. /\ sleepLeft' + rpc_timeout < srvLeft'
      /\ sleepLeft' + rpc_timeout < Granted(handler_extension)
  BY <1>2, Lengths
<1> QED
  BY <1>3 DEF SleepOK, Granted, Lesser

\* The heartbeat's own steps.
LEMMA HeartbeatAhead ==
  ASSUME Timely, Inv, Ahead, HeartbeatSteps
  PROVE  Ahead'
<1>1. call \in [Callers -> Calls] /\ srvLeft \in Nat /\ sleepLeft \in Nat
  BY DEF Inv, TypeOK, Calls, Phases, Codes
<1>2. CASE HeartbeatStart
  <2>1. /\ hb = "created" /\ pc = "handler" /\ hb' = "sleeping" /\ pc' = pc
        /\ UNCHANGED <<auto_extend, call, srv, srvLeft>>
        /\ sleepLeft' = Interval(known)
    BY <1>2 DEF HeartbeatStart
  <2>2. call'["hb"] = Idle
    BY <2>1 DEF Inv, CallsOK
  <2>3. PICK left \in {Granted(lease_duration), Granted(handler_extension)} :
           left <= srvLeft /\ known = Local(left)
    BY <2>1 DEF Ahead, FirstBeatOK
  <2>4. /\ left \in Nat /\ Granted(lease_duration) <= left + rpc_timeout
        /\ left <= Granted(handler_extension)
    BY Lengths
  <2>5. SleepOK'
    BY <1>1, <2>1, <2>3, <2>4, BeatInTime
  <2>6. FirstBeatOK' /\ ExtendOK'
    BY <2>1, <2>2 DEF FirstBeatOK, ExtendOK, Idle
  <2> QED
    BY <2>1, <2>5, <2>6 DEF Ahead
<1>3. CASE HeartbeatWakes
  <2>1. /\ hb = "sleeping" /\ sleepLeft = 0 /\ pc = "handler" /\ hb' = "extending"
        /\ pc' = pc /\ UNCHANGED <<auto_extend, srv, srvLeft>>
        /\ call' = [call EXCEPT !["hb"] = Call]
    BY <1>3 DEF HeartbeatWakes
  <2>2. call'["hb"].phase = "request" /\ call'["hb"].left = rpc_timeout
    BY <1>1, <2>1 DEF Call, Sent, Callers
  <2>3. rpc_timeout < srvLeft
    BY <1>1, <2>1, Lengths DEF Ahead, SleepOK
  <2>4. FirstBeatOK' /\ SleepOK'
    BY <2>1 DEF FirstBeatOK, SleepOK
  <2>5. ExtendOK'
    BY <2>1, <2>2, <2>3, Lengths DEF ExtendOK
  <2> QED
    BY <2>1, <2>4, <2>5 DEF Ahead
<1>4. CASE HeartbeatCancelled
  BY <1>4 DEF HeartbeatCancelled, Ahead
<1> QED
  BY <1>2, <1>3, <1>4 DEF HeartbeatSteps

\* The server executes a request.
LEMMA ServerAhead ==
  ASSUME Timely, Inv, Ahead, NEW c \in Callers, ServerExecutes(c)
  PROVE  Ahead'
<1>1. call \in [Callers -> Calls] /\ srvLeft \in Nat /\ sleepLeft \in Nat
  BY DEF Inv, TypeOK, Calls, Phases, Codes
<1>2. /\ call[c].phase = "request"
      /\ UNCHANGED <<auto_extend, pc, handler, hb, sleepLeft, known>>
  BY DEF ServerExecutes
<1> SUFFICES ASSUME pc \in {"start", "handler"}
             PROVE  Ahead'
  BY <1>2 DEF Ahead
<1>3. srv = "leased" /\ c # "job" /\ auto_extend
  <2>1. call[c] # Idle
    BY <1>2 DEF Idle
  <2> QED
    BY <2>1 DEF Ahead, Inv, CallsOK
<1> DEFINE by == IF c = "handler" THEN handler_extension ELSE lease_duration
<1>4. /\ srvLeft' = Granted(by) /\ srv' = srv
      /\ call' = [call EXCEPT ![c].phase = "reply", ![c].code = "OK", ![c].exp = Granted(by)]
  BY <1>3 DEF ServerExecutes
<1>5. /\ call'[c].phase = "reply" /\ call'[c].code = "OK" /\ call'[c].exp = Granted(by)
      /\ call'[c].left = call[c].left
      /\ \A b \in Callers : b # c => call'[b] = call[b]
  <2> DEFINE x == call[c]
             g == Granted(by)
  <2>1. x \in Calls
    BY <1>1
  <2>2. call'[c] = [x EXCEPT !.phase = "reply", !.code = "OK", !.exp = g]
    BY <1>1, <1>4
  <2>3. \A b \in Callers : b # c => call'[b] = call[b]
    BY <1>1, <1>4
  <2> HIDE DEF x, g
  <2>4. /\ call'[c].phase = "reply" /\ call'[c].code = "OK" /\ call'[c].exp = g
        /\ call'[c].left = x.left
    BY <2>1, <2>2 DEF Calls
  <2> QED
    BY <2>3, <2>4 DEF x, g
<1>6. call[c].left \in Nat /\ call["hb"].left \in Nat /\ call["hb"].exp \in Nat
  BY <1>1 DEF Calls, Callers
<1>7. CASE c = "hb"
  <2>1. hb = "extending" /\ call[c] # Idle
    BY <1>2, <1>7 DEF Inv, CallsOK, Idle
  <2>2. pc # "start"
    BY <2>1 DEF Inv, WhereOK
  <2>3. call["hb"].left <= rpc_timeout /\ by = lease_duration
    BY <1>2, <1>7 DEF Ahead, ExtendOK
  <2>4. ExtendOK'
    <3>1. /\ call'["hb"].phase = "reply" /\ call'["hb"].code = "OK"
          /\ call'["hb"].exp = Granted(lease_duration) /\ call'["hb"].left = call["hb"].left
          /\ srvLeft' = Granted(lease_duration)
      BY <1>4, <1>5, <1>7, <2>3
    <3>2. Granted(lease_duration) + call'["hb"].left <= call'["hb"].exp + rpc_timeout
      BY <1>6, <2>3, <3>1, Lengths
    <3>3. call'["hb"].exp <= srvLeft' /\ call'["hb"].exp <= Granted(lease_duration)
      BY <3>1, Lengths
    <3> QED
      BY <3>1, <3>2, <3>3 DEF ExtendOK, Granted, Lesser
  <2>5. FirstBeatOK' /\ SleepOK'
    BY <1>2, <2>1, <2>2 DEF FirstBeatOK, SleepOK
  <2> QED
    BY <1>2, <1>3, <1>4, <2>1, <2>4, <2>5 DEF Ahead
<1>8. CASE c = "handler"
  <2>1. srvLeft' = Granted(handler_extension) /\ call'["hb"] = call["hb"]
    BY <1>4, <1>5, <1>8 DEF Callers
  <2>2. pc = "handler" /\ hb # "ended"
    <3>1. handler = "running"
      BY <1>2, <1>8 DEF Inv, CallsOK, Idle
    <3> QED
      BY <3>1 DEF Inv, WhereOK, Ahead
  <2>3. FirstBeatOK'
    <3> SUFFICES ASSUME hb = "created"
                 PROVE  /\ \E left \in {Granted(lease_duration), Granted(handler_extension)} :
                             left <= srvLeft' /\ known = Local(left)
                        /\ call'["handler"].exp = Granted(handler_extension)
                        /\ Granted(handler_extension) <= srvLeft'
      BY <1>2, <2>2 DEF FirstBeatOK, Local, Granted, Lesser
    <3>1. \E left \in {Granted(lease_duration), Granted(handler_extension)} : known = Local(left)
      BY DEF Ahead, FirstBeatOK
    <3>2. \A left \in {Granted(lease_duration), Granted(handler_extension)} : left <= srvLeft'
      BY <2>1, Lengths
    <3> QED
      BY <1>5, <1>8, <2>1, <3>1, <3>2
  <2>4. SleepOK'
    BY <1>2, <2>1 DEF Ahead, SleepOK, Granted, Lesser
  <2>5. ExtendOK'
    <3>1. ASSUME call["hb"].phase = "request" PROVE call["hb"].left < srvLeft'
      BY <1>6, <2>1, <3>1, Lengths DEF Ahead, ExtendOK
    <3>2. ASSUME call["hb"].phase = "reply" PROVE call["hb"].exp <= srvLeft'
      BY <1>6, <2>1, <3>2, Lengths DEF Ahead, ExtendOK
    <3> QED
      BY <1>2, <2>1, <3>1, <3>2 DEF Ahead, ExtendOK, Granted, Lesser
  <2> QED
    BY <1>2, <1>3, <1>4, <2>2, <2>3, <2>4, <2>5 DEF Ahead
<1> QED
  BY <1>3, <1>7, <1>8 DEF Callers

\* A call that ends: of the heartbeat with the extension, on which it sleeps again.
LEMMA CallEndsAhead ==
  ASSUME Timely, Inv, Ahead, NEW c \in Callers, Listening(c), call[c].phase = "reply",
         CallEnds(c, call[c].code), UNCHANGED <<auto_extend, handler, srv, srvLeft>>
  PROVE  Ahead'
<1>1. call \in [Callers -> Calls] /\ srvLeft \in Nat
  BY DEF Inv, TypeOK, Calls, Phases, Codes
<1>2. /\ call' = [call EXCEPT ![c] = Idle]
      /\ call'[c] = Idle /\ \A b \in Callers : b # c => call'[b] = call[b]
  BY <1>1 DEF CallEnds
<1>3. CASE c = "job"
  BY <1>3 DEF CallEnds, Ahead
<1>4. CASE c = "hb"
  <2>1. pc = "handler" /\ hb = "extending" /\ pc' = pc
    BY <1>4 DEF Listening, CallEnds, HeartbeatHears
  <2> DEFINE left == call["hb"].exp
  <2>2. /\ call["hb"].code = "OK" /\ left <= srvLeft /\ left <= Granted(lease_duration)
        /\ Granted(lease_duration) + call["hb"].left <= left + rpc_timeout
    BY <1>4, <2>1 DEF Ahead, ExtendOK
  <2>3. left \in Nat /\ call["hb"].left \in Nat
    BY <1>1 DEF Calls, Callers
  <2>4. hb' = "sleeping" /\ sleepLeft' = Interval(Local(left))
    BY <1>4, <2>2 DEF CallEnds, HeartbeatHears, NextBeat
  <2> HIDE DEF left
  <2>5. Granted(lease_duration) <= left + rpc_timeout /\ left <= Granted(handler_extension)
    BY <2>2, <2>3, Lengths
  <2>6. SleepOK'
    BY <1>1, <2>2, <2>3, <2>4, <2>5, BeatInTime
  <2>7. FirstBeatOK' /\ ExtendOK'
    BY <1>2, <1>4, <2>1, <2>4 DEF FirstBeatOK, ExtendOK, Idle
  <2> QED
    BY <2>1, <2>4, <2>6, <2>7 DEF Ahead
<1>5. CASE c = "handler"
  <2>1. pc = "handler" /\ pc' = pc /\ UNCHANGED <<hb, sleepLeft>>
    BY <1>5 DEF CallEnds, Listening, Inv, WhereOK, Live, TypeOK
  <2>2. call'["hb"] = call["hb"] /\ call'["handler"].phase # "reply"
    BY <1>2, <1>5 DEF Callers, Idle
  <2>3. SleepOK' /\ ExtendOK'
    BY <2>1, <2>2 DEF Ahead, SleepOK, ExtendOK
  <2>4. FirstBeatOK'
    <3> SUFFICES ASSUME hb = "created"
                 PROVE  \E left \in {Granted(lease_duration), Granted(handler_extension)} :
                          left <= srvLeft' /\ known' = Local(left)
      BY <2>1, <2>2 DEF FirstBeatOK, Local, Granted, Lesser
    <3>1. \/ known' = known
          \/ call["handler"].code = "OK" /\ known' = Local(call["handler"].exp)
      BY <1>5 DEF CallEnds, ExtensionGranted, NothingGranted
    <3>2. /\ \E left \in {Granted(lease_duration), Granted(handler_extension)} :
               left <= srvLeft /\ known = Local(left)
          /\ call["handler"].code = "OK" =>
               /\ call["handler"].exp = Granted(handler_extension)
               /\ Granted(handler_extension) <= srvLeft
      BY <1>5, <2>1 DEF Ahead, FirstBeatOK
    <3> QED
      BY <3>1, <3>2
  <2> QED
    BY <2>1, <2>3, <2>4 DEF Ahead
<1> QED
  BY <1>3, <1>4, <1>5 DEF Callers

\* The calls, none of which fails.
LEMMA CallsAhead ==
  ASSUME Timely, Inv, Ahead, NEW c \in Callers, CallSteps(c)
  PROVE  Ahead'
<1>1. call \in [Callers -> Calls]
  BY DEF Inv, TypeOK, Calls, Phases, Codes
<1>2. ASSUME c # "hb", UNCHANGED <<auto_extend, pc, hb, sleepLeft, known, srv, srvLeft>>,
             \E x : x.phase # "reply" /\ call' = [call EXCEPT ![c] = x]
      PROVE  Ahead'
  <2>1. /\ call'["hb"] = call["hb"]
        /\ call'["handler"] = call["handler"] \/ call'["handler"].phase # "reply"
    BY <1>1, <1>2 DEF Callers
  <2> QED
    BY <1>2, <2>1, AheadKept
<1>3. CASE ServerExecutes(c)
  BY <1>3, ServerAhead
<1>4. CASE Answered(c)
  <2>1. Listening(c) /\ call[c].phase = "reply" /\ AttemptEnds(c, call[c].code)
    BY <1>4 DEF Answered
  <2>2. UNCHANGED <<auto_extend, handler, srv, srvLeft>>
    BY <2>1 DEF AttemptEnds
  <2>3. CASE call[c].code # "OK" /\ Retries(call[c].code, call[c].attempt, RETRYABLE_CODES)
    <3>1. c # "hb"
      BY <2>1, <2>3 DEF Listening, Ahead, ExtendOK
    <3>2. /\ UNCHANGED <<pc, hb, sleepLeft, known>>
          /\ \E delay : call' = [call EXCEPT ![c].phase = "backoff", ![c].left = delay,
                                             ![c].code = "OK", ![c].exp = 0]
      BY <2>1, <2>3 DEF AttemptEnds
    <3>3. PICK delay : call' = [call EXCEPT ![c].phase = "backoff", ![c].left = delay,
                                            ![c].code = "OK", ![c].exp = 0]
      BY <3>2
    <3> DEFINE y == call[c]
               x == [y EXCEPT !.phase = "backoff", !.left = delay, !.code = "OK", !.exp = 0]
    <3>4. y \in Calls /\ call' = [call EXCEPT ![c] = x]
      BY <1>1, <3>3
    <3> HIDE DEF y
    <3>5. x.phase = "backoff"
      BY <3>4 DEF Calls
    <3> HIDE DEF x
    <3> QED
      BY <1>2, <2>2, <3>1, <3>2, <3>4, <3>5
  <2>4. CASE ~(call[c].code # "OK" /\ Retries(call[c].code, call[c].attempt, RETRYABLE_CODES))
    BY <2>1, <2>2, <2>4, CallEndsAhead DEF AttemptEnds
  <2> QED
    BY <2>3, <2>4
<1>5. CASE Fails(c)
  BY <1>5 DEF Fails, Timely
<1>6. CASE NextAttempt(c)
  <2>1. c # "hb"
    BY <1>6 DEF NextAttempt, Listening, Ahead, ExtendOK
  <2> DEFINE x == Sent(call[c].attempt + 1, NextBackoff(call[c].backoff))
  <2>2. x.phase # "reply" /\ call' = [call EXCEPT ![c] = x]
    BY <1>6 DEF NextAttempt, Sent
  <2> HIDE DEF x
  <2> QED
    BY <1>2, <1>6, <2>1, <2>2 DEF NextAttempt
<1> QED
  BY <1>3, <1>4, <1>5, <1>6 DEF CallSteps

\* There is lease left as long as the handler is not over.
LEMMA LeaseIsLeft ==
  ASSUME Timely, Inv, Ahead, pc \in {"start", "handler"}
  PROVE  srvLeft \in Nat /\ srvLeft > 0
<1>1. call["hb"] \in Calls /\ srvLeft \in Nat /\ sleepLeft \in Nat
  BY DEF Inv, TypeOK, Calls, Phases, Codes, Callers
<1>2. call["hb"].left \in Nat /\ call["hb"].exp \in Nat
  BY <1>1 DEF Calls
<1>3. CASE pc = "start" \/ hb = "created"
  <2>1. PICK left \in {Granted(lease_duration), Granted(handler_extension)} : left <= srvLeft
    BY <1>3 DEF Ahead, FirstBeatOK
  <2> QED
    BY <1>1, <2>1, Lengths
<1>4. CASE hb = "sleeping"
  BY <1>1, <1>4, Lengths DEF Ahead, SleepOK
<1>5. CASE hb = "extending"
  <2>1. CASE call["hb"].phase = "request"
    BY <1>1, <1>2, <2>1 DEF Ahead, ExtendOK
  <2>2. CASE call["hb"].phase = "reply"
    BY <1>1, <1>2, <2>2, Lengths DEF Ahead, ExtendOK
  <2> QED
    BY <1>5, <2>1, <2>2 DEF Ahead, ExtendOK
<1>6. pc = "start" \/ hb \in {"created", "sleeping", "extending"}
  BY DEF Ahead, Inv, TypeOK, WhereOK
<1> QED
  BY <1>3, <1>4, <1>5, <1>6

\* Time passes for the heartbeat's timer, its call and the lease alike.
LEMMA TickAhead ==
  ASSUME Timely, Inv, Ahead, Tick
  PROVE  Ahead'
<1>1. UNCHANGED <<auto_extend, pc, handler, hb, srv>>
  BY DEF Tick
<1>2. srvLeft' = Less(srvLeft) /\ sleepLeft' = Less(sleepLeft) /\ ~Due
  BY DEF Tick, Timely
<1>3. /\ call \in [Callers -> Calls] /\ call["hb"] \in Calls
      /\ srvLeft \in Nat /\ sleepLeft \in Nat
  BY DEF Inv, TypeOK, Calls, Phases, Codes, Callers
<1> SUFFICES ASSUME pc \in {"start", "handler"}
             PROVE  Ahead'
  BY <1>1 DEF Ahead
<1>4. srvLeft > 0 /\ srvLeft' = srvLeft - 1
  BY <1>2, <1>3, LeaseIsLeft DEF Less, AtLeast
<1>5. /\ pc = "handler" /\ hb # "created"
      /\ hb = "sleeping" => sleepLeft # 0
      /\ call["hb"].phase # "idle" => call["hb"].left # 0
  BY <1>2 DEF Due, Callers
<1>6. FirstBeatOK'
  BY <1>1, <1>5 DEF FirstBeatOK
<1>7. SleepOK'
  <2> SUFFICES ASSUME hb = "sleeping"
               PROVE  /\ sleepLeft' + rpc_timeout < srvLeft'
                      /\ sleepLeft' + rpc_timeout < Granted(handler_extension)
    BY <1>1 DEF SleepOK, Granted, Lesser
  <2>1. sleepLeft' = sleepLeft - 1
    BY <1>2, <1>3, <1>5 DEF Less, AtLeast
  <2>2. /\ sleepLeft + rpc_timeout < srvLeft
        /\ sleepLeft + rpc_timeout < Granted(handler_extension)
    BY DEF Ahead, SleepOK
  <2> QED
    BY <1>3, <1>4, <2>1, <2>2, Lengths
<1>8. ExtendOK'
  <2> DEFINE x == call["hb"]
             y == call'["hb"]
  <2>1. /\ x \in Calls
        /\ y = [x EXCEPT !.left = Less(x.left), !.exp = Less(x.exp)]
    BY <1>3 DEF Tick, Callers
  <2>2. /\ hb = "extending" => x.phase \in {"request", "reply"}
        /\ x.phase = "request" => x.left < srvLeft /\ x.left <= rpc_timeout
        /\ x.phase = "reply" =>
             /\ x.code = "OK" /\ x.exp <= srvLeft /\ x.exp <= Granted(lease_duration)
             /\ Granted(lease_duration) + x.left <= x.exp + rpc_timeout
        /\ x.phase # "idle" => x.left # 0
    BY <1>5 DEF Ahead, ExtendOK
  <2> HIDE DEF x, y
  <2>3. /\ y.phase = x.phase /\ y.code = x.code
        /\ y.left = Less(x.left) /\ y.exp = Less(x.exp)
        /\ x.left \in Nat /\ x.exp \in Nat
    BY <2>1 DEF Calls
  <2>4. ASSUME y.phase = "request" PROVE y.left < srvLeft' /\ y.left <= rpc_timeout
    BY <1>3, <1>4, <2>2, <2>3, <2>4, Lengths DEF Less, AtLeast
  <2>5. ASSUME y.phase = "reply"
        PROVE  /\ y.code = "OK"
               /\ y.exp <= srvLeft' /\ y.exp <= Granted(lease_duration)
               /\ Granted(lease_duration) + y.left <= y.exp + rpc_timeout
    <3>1. /\ x.exp <= srvLeft /\ x.exp <= Granted(lease_duration)
          /\ Granted(lease_duration) + x.left <= x.exp + rpc_timeout
          /\ x.left # 0 /\ y.code = "OK"
      BY <2>2, <2>3, <2>5
    <3>2. y.left = x.left - 1 /\ x.exp > 0 /\ y.exp = x.exp - 1
      BY <2>3, <3>1, Lengths DEF Less, AtLeast
    <3> QED
      BY <1>3, <1>4, <2>3, <3>1, <3>2, Lengths
  <2>6. hb' = "extending" => y.phase \in {"request", "reply"}
    BY <1>1, <2>2, <2>3
  <2> QED
    BY <2>4, <2>5, <2>6 DEF y, ExtendOK, Granted, Lesser
<1> QED
  BY <1>1, <1>5, <1>6, <1>7, <1>8 DEF Ahead

\* Every step keeps the lease ahead.
LEMMA NextAhead ==
  ASSUME Timely, Inv, Ahead, [Next]_vars
  PROVE  Ahead'
<1>1. CASE JobSteps \/ CancelJob \/ HandlerSteps
  BY <1>1, TasksAhead
<1>2. CASE HeartbeatSteps
  BY <1>2, HeartbeatAhead
<1>3. CASE \E c \in Callers : CallSteps(c)
  BY <1>3, CallsAhead
<1>4. CASE Expire
  <2>1. pc' = pc /\ auto_extend' = auto_extend /\ pc \notin {"start", "handler"}
    BY <1>4, LeaseIsLeft DEF Expire
  <2> QED
    BY <2>1 DEF Ahead
<1>5. CASE Reassign
  <2>1. pc' = pc /\ auto_extend' = auto_extend /\ pc \notin {"start", "handler"}
    BY <1>5 DEF Reassign, Ahead
  <2> QED
    BY <2>1 DEF Ahead
<1>6. CASE Tick
  BY <1>6, TickAhead
<1>7. CASE UNCHANGED vars
  BY <1>7, AheadKept DEF vars
<1> QED
  BY <1>1, <1>2, <1>3, <1>4, <1>5, <1>6, <1>7 DEF Next, Over

\* With a responsive event loop, a server that answers in time and a heartbeat
\* short enough for both, the lease of a job never runs out while its handler
\* runs, however the server clamps it and whatever the skew of this host.
THEOREM LeaseKept == Timely => (Spec => []LeaseIsKept)
<1> SUFFICES ASSUME Timely PROVE Spec => []LeaseIsKept
  OBVIOUS
<1>1. Init => Ahead
  BY InitAhead
<1>2. Inv /\ Ahead /\ [Next]_vars => Ahead'
  BY NextAhead
<1>3. Inv /\ Ahead => LeaseIsKept
  <2> SUFFICES ASSUME Inv, Ahead, handler = "running"
               PROVE  srv = "leased" /\ srvLeft > 0
    BY DEF LeaseIsKept
  <2>1. pc = "handler"
    BY DEF Inv, TypeOK, WhereOK, Live
  <2> QED
    BY <2>1, LeaseIsLeft DEF Ahead
<1> QED
  BY <1>1, <1>2, <1>3, Invariance, PTL DEF Spec
=============================================================================
