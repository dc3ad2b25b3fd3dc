---------------------------- MODULE ClientProofs ----------------------------
(***************************************************************************)
(* The safety of a client and its channel, for any coroutines, methods,    *)
(* retry policy, times and failures.                                       *)
(***************************************************************************)
EXTENDS Client, TLAPS

Records ==
  [method : Methods \cup {"none"}, attempt : 0..MaxAttempts,
   phase : {"idle", "request", "served", "reply", "backoff"},
   left : Nat, due : Nat, reply : ReplyKinds]

Results ==
  [method : Methods \cup {"none"}, reply : ReplyKinds,
   raised : {"nothing", "CancelledError", "UsageError", "ValueError"}
              \cup ClientErrors \cup LeaseErrors \cup ReserveErrors]

\* A result is as documented.
IsDocumented(r) ==
  \/ r.raised \in {"nothing"} \cup ClientErrors
  \/ r.method = "reserve" /\ r.raised \in ReserveErrors
  \/ r.method \in LeaseCalls /\ r.raised \in LeaseErrors
  \/ channel = "closed" /\ r.raised \in {"CancelledError", "UsageError"}
  \/ r.raised = "ValueError" /\ r.reply = "out of range" /\ r.method \notin LeaseCalls

\* The channel follows connect.
ChannelOK ==
  /\ connect = "none" => channel = "none"
  /\ connect = "failed" => channel \in {"none", "closed"}
  /\ connect = "client" => channel \in {"ready", "closed"}

\* connect warns of the channel that it opens.
WarnedOK ==
  /\ connect = "none" => ~warned /\ options.api_key = "none"
  /\ options.api_key = "ascii" /\ ~secure => warned /\ options.tls = {} /\ ~options.credentials
  /\ warned => ~secure

\* A call that waits for its next attempt has one left.
AttemptsOK == \A a \in Callers : call[a].phase = "backoff" => call[a].attempt < MaxAttempts

\* The time left to a reserve covers what its request, the wait at the server
\* and the answer may still take, up to the slack; an answer is one that the method
\* may get.
DeadlineOK(k) ==
  /\ k.phase = "reply" => k.reply \in Replies(k.method)
  /\ k.reply # "none" /\ k.phase # "backoff" => k.phase = "reply"
  /\ k.method = "reserve" =>
       /\ k.phase = "request" => k.left >= k.due + wait_timeout + Slack - Latency
       /\ k.phase = "served" => k.left >= k.due + Slack - Latency
       /\ k.phase = "reply" => k.left >= k.due + Slack - 2 * Latency

DeadlinesOK == \A a \in Callers : DeadlineOK(call[a])

Inv ==
  /\ TypeOK
  /\ ChannelOK
  /\ WarnedOK
  /\ AttemptsOK
  /\ RaisesAsDocumented
  /\ DeadlinesOK
  /\ LongPollsAreNotCutShort

-----------------------------------------------------------------------------
\* RetryPolicy leaves a call at least one attempt.
LEMMA SomeAttempt == MaxAttempts \in Nat /\ MaxAttempts >= 1
BY PolicyAssumption DEF MaxAttempts

\* Times are whole ticks.
LEMMA Times ==
  /\ wait_timeout \in Nat /\ Slack \in Nat /\ rpc_timeout \in Nat /\ Latency \in Nat
  /\ \A method : Deadline(method) \in Nat
BY ClientAssumption DEF Deadline

\* An attempt is a call with its deadline ahead of it.
LEMMA AttemptRecord ==
  ASSUME NEW method \in Methods \cup {"none"}, NEW n \in 1..MaxAttempts
  PROVE  Attempt(method, n) \in Records /\ DeadlineOK(Attempt(method, n))
<1>1. Attempt(method, n) \in Records
  BY Times, SomeAttempt DEF Attempt, Records, ReplyKinds
<1>2. method = "reserve" => Deadline(method) = wait_timeout + Slack
  BY DEF Deadline
<1> QED
  BY <1>1, <1>2, Times DEF Attempt, DeadlineOK

\* No call.
LEMMA IdleRecord == Idle \in Records /\ DeadlineOK(Idle)
BY SomeAttempt DEF Idle, Records, ReplyKinds, DeadlineOK

\* Every code becomes an exception that the method documents.
LEMMA Documented ==
  ASSUME NEW method, NEW code
  PROVE  \/ ErrorOf(method, code) \in ClientErrors
         \/ method = "reserve" /\ ErrorOf(method, code) \in ReserveErrors
         \/ method \in LeaseCalls /\ ErrorOf(method, code) \in LeaseErrors
<1>1. client_error_from_rpc(code) \in ClientErrors
  BY DEF client_error_from_rpc, ClientErrors
<1>2. CASE method = "reserve"
  BY <1>1, <1>2 DEF ErrorOf, reserve_error_from_rpc, ReserveErrors, LeaseCalls
<1>3. CASE method \in LeaseCalls
  BY <1>1, <1>3 DEF ErrorOf, lease_error_from_rpc, LeaseErrors, LeaseCalls
<1>4. CASE method # "reserve" /\ method \notin LeaseCalls
  BY <1>1, <1>4 DEF ErrorOf
<1> QED
  BY <1>2, <1>3, <1>4

\* What the conversion of an answer raises is documented, or a ValueError.
LEMMA AnswerDocumented ==
  ASSUME NEW method, NEW reply
  PROVE  \/ Raised(method, reply) \in {"nothing"} \cup ClientErrors
         \/ Raised(method, reply) = "ValueError" /\ reply = "out of range" /\ method # "extend"
BY DEF Raised, MalformedError, ClientErrors

\* Steps that leave the calls alone keep what is said of them, once the channel
\* stays closed.
LEMMA CallsUntouched ==
  ASSUME Inv, UNCHANGED calls, channel = "closed" => channel' = "closed"
  PROVE  AttemptsOK' /\ RaisesAsDocumented' /\ DeadlinesOK' /\ LongPollsAreNotCutShort'
BY DEF Inv, calls, AttemptsOK, RaisesAsDocumented, DeadlinesOK, DeadlineOK,
       LongPollsAreNotCutShort

\* A step of the channel keeps the invariant.
LEMMA ChannelInv ==
  ASSUME Inv, Channel
  PROVE  Inv'
<1>1. ASSUME NEW tls \in TlsChoices, NEW credentials \in BOOLEAN,
             NEW api_key \in {"none", "ascii", "not ascii"},
             Connect([tls |-> tls, credentials |-> credentials, api_key |-> api_key])
      PROVE  Inv'
  <2> DEFINE o == [tls |-> tls, credentials |-> credentials, api_key |-> api_key]
  <2>1. o \in [tls : SUBSET TlsOptions, credentials : BOOLEAN,
               api_key : {"none", "ascii", "not ascii"}]
    BY ClientAssumption
  <2>2. connect = "none" /\ options' = o /\ UNCHANGED calls
    BY <1>1 DEF Connect
  <2>3. \/ api_key = "not ascii" /\ connect' = "failed" /\ UNCHANGED <<warned, channel, secure>>
        \/ /\ connect' = "waiting" /\ channel' = "connecting"
           /\ warned' = Warns(o) /\ secure' = OpensSecure(o)
    BY <1>1 DEF Connect
  <2>4. TypeOK'
    BY <2>1, <2>2, <2>3 DEF Inv, TypeOK, calls, Warns, OpensSecure, UseTls
  <2>5. ChannelOK' /\ (channel = "closed" => channel' = "closed")
    BY <2>2, <2>3 DEF Inv, ChannelOK
  <2>6. WarnedOK'
    <3>1. options'.api_key = api_key /\ options'.tls = tls /\ options'.credentials = credentials
      BY <2>2
    <3>2. connect' # "none" /\ ~warned
      BY <2>2, <2>3 DEF Inv, WarnedOK
    <3>3. CASE api_key = "not ascii" /\ warned' = warned
      BY <3>1, <3>2, <3>3 DEF WarnedOK
    <3>4. CASE warned' = Warns(o) /\ secure' = OpensSecure(o)
      <4>1. warned' <=> api_key = "ascii" /\ ~(tls # {} \/ credentials)
        BY <3>4 DEF Warns, UseTls
      <4>2. secure' <=> credentials \/ tls # {}
        BY <3>4 DEF OpensSecure, UseTls
      <4> QED
        BY <3>1, <3>2, <4>1, <4>2 DEF WarnedOK
    <3> QED
      BY <2>3, <3>3, <3>4
  <2> QED
    BY <2>2, <2>4, <2>5, <2>6, CallsUntouched DEF Inv
<1>2. ASSUME ChannelReady \/ Connected \/ ConnectFails \/ ConnectRaises \/ CancelConnect
               \/ from_channel
      PROVE  Inv'
  <2>1. UNCHANGED calls /\ UNCHANGED <<options, warned>>
    BY <1>2
    DEF ChannelReady, Connected, ConnectFails, ConnectRaises, CancelConnect, from_channel
  <2>2. ChannelOK' /\ (channel = "closed" => channel' = "closed")
    BY <1>2
    DEF Inv, ChannelOK, ChannelReady, Connected, ConnectFails, ConnectRaises, CancelConnect,
        from_channel
  <2>3. connect' # "none" /\ (secure' = secure \/ (connect = "none" /\ secure' \in BOOLEAN))
    BY <1>2
    DEF Inv, ChannelOK, ChannelReady, Connected, ConnectFails, ConnectRaises, CancelConnect,
        from_channel
  <2>4. TypeOK'
    BY <1>2, <2>1, <2>3
    DEF Inv, TypeOK, calls, ChannelReady, Connected, ConnectFails, ConnectRaises,
        CancelConnect, from_channel
  <2>5. WarnedOK'
    BY <2>1, <2>3 DEF Inv, WarnedOK
  <2> QED
    BY <2>1, <2>2, <2>4, <2>5, CallsUntouched DEF Inv
<1>3. ASSUME Close
      PROVE  Inv'
  <2>1. \A a \in Callers : call'[a] = Idle \/ call'[a] = call[a]
    BY <1>3 DEF Close, Inv, TypeOK
  <2>2. call' \in [Callers -> Records]
    BY <1>3, IdleRecord DEF Close, Inv, TypeOK, Records
  <2>3. TypeOK'
    BY <1>3, <2>2 DEF Close, Inv, TypeOK, Records, ReplyKinds
  <2>4. AttemptsOK' /\ DeadlinesOK'
    <3>1. Idle.phase # "backoff"
      BY DEF Idle
    <3> QED
      BY <2>1, <3>1, IdleRecord DEF Inv, AttemptsOK, DeadlinesOK
  <2>5. RaisesAsDocumented'
    BY <1>3 DEF Close, Inv, RaisesAsDocumented, TypeOK
  <2> QED
    BY <1>3, <2>3, <2>4, <2>5
    DEF Close, Inv, ChannelOK, WarnedOK, LongPollsAreNotCutShort
<1> QED
  BY <1>1, <1>2, <1>3 DEF Channel

\* A step of one call that leaves the channel alone keeps the invariant if the
\* call and its result stay as they should be.
LEMMA CallInv ==
  ASSUME Inv, UNCHANGED client,
         NEW a \in Callers, NEW k \in Records, DeadlineOK(k),
         k.phase = "backoff" => k.attempt < MaxAttempts,
         call' = [call EXCEPT ![a] = k],
         NEW r, result' = [result EXCEPT ![a] = r],
         r \in Results, IsDocumented(r),
         lost' \subseteq Failures, LongPollsAreNotCutShort'
  PROVE  Inv'
<1>1. TypeOK'
  BY DEF Inv, TypeOK, client, Records, Results
<1>2. AttemptsOK' /\ DeadlinesOK'
  BY DEF Inv, TypeOK, AttemptsOK, DeadlinesOK
<1>3. RaisesAsDocumented'
  BY DEF Inv, TypeOK, RaisesAsDocumented, IsDocumented, client
<1>4. ChannelOK' /\ WarnedOK'
  BY DEF Inv, ChannelOK, WarnedOK, client
<1> QED
  BY <1>1, <1>2, <1>3, <1>4 DEF Inv

\* The result of an unfinished call is the one of the call before.
LEMMA ResultKept ==
  ASSUME Inv, UNCHANGED <<client, lost>>,
         NEW a \in Callers, NEW k \in Records, DeadlineOK(k),
         k.phase = "backoff" => k.attempt < MaxAttempts,
         call' = [call EXCEPT ![a] = k], UNCHANGED result
  PROVE  Inv'
<1>1. result' = [result EXCEPT ![a] = result[a]]
  BY DEF Inv, TypeOK
<1>2. lost' \subseteq Failures /\ LongPollsAreNotCutShort'
  BY DEF Inv, TypeOK, LongPollsAreNotCutShort
<1>3. result[a] \in Results /\ IsDocumented(result[a])
  BY DEF Inv, TypeOK, RaisesAsDocumented, Results, IsDocumented
<1> QED
  BY <1>1, <1>2, <1>3, CallInv

\* A call that ends leaves an idle coroutine and a result that is documented.
LEMMA EndsInv ==
  ASSUME Inv, UNCHANGED client,
         NEW a \in Callers, NEW reply \in ReplyKinds, NEW raised, Ends(a, reply, raised),
         \/ raised \in {"nothing"} \cup ClientErrors
         \/ call[a].method = "reserve" /\ raised \in ReserveErrors
         \/ call[a].method \in LeaseCalls /\ raised \in LeaseErrors
         \/ channel = "closed" /\ raised \in {"CancelledError", "UsageError"}
         \/ raised = "ValueError" /\ reply = "out of range" /\ call[a].method \notin LeaseCalls,
         lost' \subseteq Failures, LongPollsAreNotCutShort'
  PROVE  Inv'
<1> DEFINE r == [method |-> call[a].method, reply |-> reply, raised |-> raised]
<1>1. r \in Results /\ IsDocumented(r)
  BY DEF Inv, TypeOK, Results, IsDocumented
<1>2. call' = [call EXCEPT ![a] = Idle] /\ result' = [result EXCEPT ![a] = r]
  BY DEF Ends
<1>3. Idle.phase # "backoff"
  BY DEF Idle
<1> HIDE DEF r
<1> QED
  BY <1>1, <1>2, <1>3, IdleRecord, CallInv

\* A call's own steps keep the invariant.
LEMMA CallStepsInv ==
  ASSUME Inv, NEW a \in Callers, CallSteps(a)
  PROVE  Inv'
<1>1. call[a] \in Records /\ DeadlineOK(call[a]) /\ call \in [Callers -> Records]
  BY DEF Inv, TypeOK, Records, DeadlinesOK
<1>2. lost \subseteq Failures /\ (UNCHANGED lost => LongPollsAreNotCutShort')
  BY DEF Inv, TypeOK, LongPollsAreNotCutShort
<1>3. CASE Arrives(a)
  <2> DEFINE k == [call[a] EXCEPT !.phase = "served",
                                  !.due = IF call[a].method = "reserve" THEN wait_timeout ELSE 0]
  <2>1. k \in Records /\ k.phase = "served"
    BY <1>1, Times DEF Records
  <2>2. DeadlineOK(k)
    BY <1>1, <1>3, Times DEF DeadlineOK, Arrives, Records
  <2>3. call' = [call EXCEPT ![a] = k] /\ UNCHANGED <<client, result, lost>>
    BY <1>1, <1>3 DEF Arrives
  <2> HIDE DEF k
  <2> QED
    BY <2>1, <2>2, <2>3, ResultKept
<1>4. CASE ServerAnswers(a)
  <2>1. PICK reply \in ReplyKinds :
          /\ reply \in Replies(call[a].method)
          /\ call' = [call EXCEPT ![a].phase = "reply", ![a].due = Latency, ![a].reply = reply]
    <3>1. Replies(call[a].method) \subseteq ReplyKinds
      BY DEF Replies, ReplyKinds
    <3> QED
      BY <1>4, <3>1 DEF ServerAnswers
  <2> DEFINE k == [call[a] EXCEPT !.phase = "reply", !.due = Latency, !.reply = reply]
  <2>2. k \in Records /\ k.phase = "reply"
    BY <1>1, Times DEF Records
  <2>3. DeadlineOK(k)
    BY <1>1, <1>4, <2>1, Times DEF DeadlineOK, ServerAnswers, Records
  <2>4. call' = [call EXCEPT ![a] = k] /\ UNCHANGED <<client, result, lost>>
    BY <1>1, <1>4, <2>1 DEF ServerAnswers
  <2> HIDE DEF k
  <2> QED
    BY <2>2, <2>3, <2>4, ResultKept
<1>5. CASE Answered(a)
  <2> DEFINE method == call[a].method
             reply == call[a].reply
  <2>1. /\ Ends(a, reply, Raised(method, reply)) /\ UNCHANGED <<client, lost>>
        /\ reply \in ReplyKinds
    BY <1>1, <1>5 DEF Answered, Records
  <2>2. reply = "out of range" => method \notin {"ack", "nack"}
    BY <1>1, <1>5 DEF DeadlineOK, Answered, Replies
  <2>3. \/ Raised(method, reply) \in {"nothing"} \cup ClientErrors
        \/ Raised(method, reply) = "ValueError" /\ reply = "out of range"
             /\ method \notin LeaseCalls
    BY <2>2, AnswerDocumented DEF LeaseCalls
  <2> QED
    BY <1>2, <2>1, <2>3, EndsInv
<1>6. CASE NextAttempt(a)
  <2>1. CASE channel = "closed"
    <3>1. Ends(a, "none", "UsageError") /\ UNCHANGED <<client, lost>>
      BY <1>6, <2>1 DEF NextAttempt
    <3>2. "none" \in ReplyKinds
      BY DEF ReplyKinds
    <3> QED
      BY <1>2, <2>1, <3>1, <3>2, EndsInv
  <2>2. CASE channel # "closed"
    <3> DEFINE k == Attempt(call[a].method, call[a].attempt + 1)
    <3>1. call[a].attempt + 1 \in 1..MaxAttempts /\ call[a].method \in Methods \cup {"none"}
      BY <1>1, <1>6, SomeAttempt DEF Inv, AttemptsOK, NextAttempt, Records
    <3>2. k \in Records /\ DeadlineOK(k) /\ k.phase = "request"
      BY <3>1, AttemptRecord DEF Attempt
    <3>3. call' = [call EXCEPT ![a] = k] /\ UNCHANGED <<client, result, lost>>
      BY <1>6, <2>2 DEF NextAttempt
    <3> HIDE DEF k
    <3> QED
      BY <3>2, <3>3, ResultKept
  <2> QED
    BY <2>1, <2>2
<1>7. ASSUME NEW code \in Failures, AttemptFails(a, code)
      PROVE  Inv'
  <2>1. lost' \subseteq Failures /\ UNCHANGED client
    BY <1>2, <1>7 DEF AttemptFails
  <2>2. LongPollsAreNotCutShort'
    <3>1. ASSUME 2 * Latency < Slack, Leased(call[a])
          PROVE  code # "DEADLINE_EXCEEDED"
      <4>1. call[a].phase = "reply" /\ call[a].method = "reserve"
        BY <1>1, <1>7, <3>1 DEF DeadlineOK, AttemptFails, InFlight, Leased
      <4>2. call[a].left >= call[a].due + Slack - 2 * Latency
        BY <1>1, <4>1 DEF DeadlineOK
      <4>3. call[a].left # 0
        BY <1>1, <3>1, <4>2, Times DEF Records
      <4> QED
        BY <1>7, <4>3 DEF AttemptFails
    <3> QED
      BY <1>7, <3>1 DEF Inv, AttemptFails, LongPollsAreNotCutShort
  <2>3. CASE Retries(code, call[a].attempt, RetryableCodes(call[a].method))
    <3> DEFINE k == [call[a] EXCEPT !.phase = "backoff"]
    <3>1. k \in Records /\ k.phase = "backoff" /\ k.attempt < MaxAttempts
      BY <1>1, <2>3 DEF Records, Retries
    <3>2. DeadlineOK(k)
      BY <3>1, <1>1 DEF DeadlineOK, Records
    <3>3. call' = [call EXCEPT ![a] = k] /\ UNCHANGED result
      BY <1>1, <1>7, <2>3 DEF AttemptFails
    <3>4. result' = [result EXCEPT ![a] = result[a]]
      BY <3>3 DEF Inv, TypeOK
    <3>5. result[a] \in Results /\ IsDocumented(result[a])
      BY DEF Inv, TypeOK, RaisesAsDocumented, Results, IsDocumented
    <3> HIDE DEF k
    <3> QED
      BY <2>1, <2>2, <3>1, <3>2, <3>3, <3>4, <3>5, CallInv
  <2>4. CASE ~Retries(code, call[a].attempt, RetryableCodes(call[a].method))
    <3>1. Ends(a, "none", ErrorOf(call[a].method, code)) /\ "none" \in ReplyKinds
      BY <1>7, <2>4 DEF AttemptFails, ReplyKinds
    <3> QED
      BY <2>1, <2>2, <3>1, Documented, EndsInv
  <2> QED
    BY <2>3, <2>4
<1> QED
  BY <1>3, <1>4, <1>5, <1>6, <1>7 DEF CallSteps

\* A call begins with its first attempt, or fails at once on a closed channel.
LEMMA StartInv ==
  ASSUME Inv, NEW a \in Callers, NEW method \in Methods, Start(a, method)
  PROVE  Inv'
<1>1. UNCHANGED <<client, lost>>
  BY DEF Start
<1>2. CASE channel = "closed"
  <2> DEFINE r == [method |-> method, reply |-> "none", raised |-> "UsageError"]
  <2>1. r \in Results /\ IsDocumented(r)
    BY <1>2 DEF Results, ReplyKinds, IsDocumented
  <2>2. call' = [call EXCEPT ![a] = Idle] /\ result' = [result EXCEPT ![a] = r]
    BY <1>2 DEF Start, Inv, TypeOK
  <2>3. Idle.phase # "backoff"
    BY DEF Idle
  <2>4. lost' \subseteq Failures /\ LongPollsAreNotCutShort'
    BY <1>1 DEF Inv, TypeOK, LongPollsAreNotCutShort
  <2> HIDE DEF r
  <2> QED
    BY <1>1, <1>2, <2>1, <2>2, <2>3, <2>4, IdleRecord, CallInv
<1>3. CASE channel # "closed"
  <2> DEFINE k == Attempt(method, 1)
  <2>1. k \in Records /\ DeadlineOK(k) /\ k.phase = "request"
    BY SomeAttempt, AttemptRecord DEF Attempt
  <2>2. call' = [call EXCEPT ![a] = k] /\ UNCHANGED result
    BY <1>3 DEF Start
  <2> HIDE DEF k
  <2> QED
    BY <1>1, <2>1, <2>2, ResultKept
<1> QED
  BY <1>2, <1>3

\* Time passes for every call in flight, whose message and deadline it brings
\* nearer by the same.
LEMMA TickInv ==
  ASSUME Inv, Tick
  PROVE  Inv'
<1>1. call \in [Callers -> Records] /\ UNCHANGED <<client, result, lost>>
  BY DEF Inv, TypeOK, Records, Tick
<1>2. ASSUME NEW a \in Callers
      PROVE  /\ call'[a] \in Records /\ DeadlineOK(call'[a])
             /\ call'[a].phase = call[a].phase /\ call'[a].attempt = call[a].attempt
  <2>1. CASE InFlight(a)
    <3>1. call'[a] = [call[a] EXCEPT !.due = call[a].due - 1, !.left = call[a].left - 1]
      BY <1>1, <2>1 DEF Tick
    <3>2. call[a] \in Records /\ DeadlineOK(call[a]) /\ call[a].due > 0 /\ call[a].left > 0
      BY <1>1, <2>1 DEF Inv, DeadlinesOK, Tick
    <3>3. call'[a] \in Records
      <4>1. call[a].due - 1 \in Nat /\ call[a].left - 1 \in Nat
        BY <3>2 DEF Records
      <4> QED
        BY <3>1, <3>2, <4>1 DEF Records
    <3> QED
      BY <3>1, <3>2, <3>3, Times DEF DeadlineOK, Records
  <2>2. CASE ~InFlight(a)
    BY <1>1, <2>2 DEF Tick, Inv, DeadlinesOK
  <2> QED
    BY <2>1, <2>2
<1>3. call' \in [Callers -> Records]
  <2>1. call' = [a \in Callers |-> call'[a]]
    BY DEF Tick
  <2> QED
    BY <1>2, <2>1
<1>4. TypeOK'
  BY <1>1, <1>3 DEF Inv, TypeOK, Records, client
<1> QED
  BY <1>1, <1>2, <1>4
  DEF Inv, client, ChannelOK, WarnedOK, AttemptsOK, DeadlinesOK,
      RaisesAsDocumented, LongPollsAreNotCutShort

-----------------------------------------------------------------------------
\* Before a client connects.
LEMMA InitInv == Init => Inv
<1> SUFFICES ASSUME Init PROVE Inv
  OBVIOUS
<1>1. TypeOK
  BY IdleRecord DEF Init, TypeOK, NoOptions, Records, ReplyKinds
<1>2. AttemptsOK /\ DeadlinesOK
  <2>1. Idle.phase # "backoff"
    BY DEF Idle
  <2> QED
    BY <2>1, IdleRecord DEF Init, AttemptsOK, DeadlinesOK
<1>3. RaisesAsDocumented
  BY DEF Init, RaisesAsDocumented
<1> QED
  BY <1>1, <1>2, <1>3
  DEF Init, Inv, ChannelOK, WarnedOK, NoOptions, LongPollsAreNotCutShort

\* Each action keeps the invariant.
LEMMA NextInv ==
  ASSUME Inv, [Next]_vars
  PROVE  Inv'
<1>1. CASE UNCHANGED vars
  BY <1>1
  DEF Inv, vars, TypeOK, ChannelOK, WarnedOK, AttemptsOK, RaisesAsDocumented,
      DeadlinesOK, DeadlineOK, LongPollsAreNotCutShort
<1> QED
  BY <1>1, ChannelInv, CallStepsInv, StartInv, TickInv DEF Next, NoClient

\* The inductive invariant of a client.
THEOREM Invariance == Spec => []Inv
BY InitInv, NextInv, PTL DEF Spec

\* Types; no call makes more attempts than its policy allows.
THEOREM TypeCorrect == Spec => []TypeOK
BY Invariance, PTL DEF Inv

\* A connect that failed has closed its channel, a client has one that was opened
\* (client.py:257-263).
THEOREM FailuresLeaveNothing == Spec => []FailedConnectLeavesNothing
<1>1. Inv => FailedConnectLeavesNothing
  BY DEF Inv, ChannelOK, FailedConnectLeavesNothing
<1> QED
  BY <1>1, Invariance, PTL

\* No API key travels over a channel that does not encrypt without a warning, none
\* at all for a caller who asked for TLS in any way, and none is warned of in vain
\* (client.py:235-255).
THEOREM PlaintextIsWarnedOf == Spec => []PlaintextKeysAreWarnedOf
<1>1. Inv => PlaintextKeysAreWarnedOf
  BY DEF Inv, WarnedOK, PlaintextKeysAreWarnedOf
<1> QED
  BY <1>1, Invariance, PTL

\* A call raises what its method documents, or a bare ValueError over an instant or
\* a duration out of range, and no lease call does that (errors.py:425-456,
\* _convert.py:186-189, 227-230, 245-250).
THEOREM RaisesDocumented == Spec => []RaisesAsDocumented
BY Invariance, PTL DEF Inv

\* The slack of a reserve's deadline is enough for a message each way
\* (client.py:45, 417).
THEOREM LongPollsReturn == Spec => []LongPollsAreNotCutShort
BY Invariance, PTL DEF Inv
=============================================================================
