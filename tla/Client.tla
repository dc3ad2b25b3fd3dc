------------------------------- MODULE Client -------------------------------
(***************************************************************************)
(* SeppClient as the owner of its channel (client.py): connect, from_channel *)
(* and close, and calls of several coroutines over that channel, with      *)
(* their deadlines, retries and errors, while the client may be closed.    *)
(* What the calls do at the server is in the other modules.  Time is       *)
(* counted in ticks; a message takes at most Latency of them.              *)
(***************************************************************************)
EXTENDS Retry

CONSTANTS Callers, Methods,
          TlsChoices,   \* what of TlsOptions a caller of connect may give
          wait_timeout, \* of a reserve
          Slack,        \* _RESERVE_DEADLINE_SLACK
          rpc_timeout,
          Latency,
          Failures      \* codes with which an attempt may fail

TlsOptions == {"https", "tls", "tls_ca_cert", "tls_domain"}

ASSUME ClientAssumption ==
  /\ TlsChoices \subseteq SUBSET TlsOptions
  /\ {wait_timeout, Slack, rpc_timeout, Latency} \subseteq Nat \ {0}
  /\ Failures \subseteq StatusCodes

VARIABLES options,   \* of connect
          warned,    \* about an API key without TLS
          connect,   \* where connect is, and how it ended
          channel,   \* where the channel is
          secure,    \* whether it encrypts
          call,      \* the call each coroutine makes
          result,    \* of its last call: the answer and what was raised
          lost       \* codes that made a reserve fail after the server had
                     \* leased jobs to it (history)

vars == <<options, warned, connect, channel, secure, call, result, lost>>

-----------------------------------------------------------------------------
NoOptions == [tls |-> {}, credentials |-> FALSE, api_key |-> "none"]

\* http:// and no scheme at all mean the same.
UseTls(o) == o.tls # {}

\* connect warns of a key that it takes to be sent in plaintext.
Warns(o) == o.api_key = "ascii" /\ ~(UseTls(o) \/ o.credentials)

\* Mutant of OpensSecure: `elif tls or scheme_is_tls`.
OpensSecureAsAsked(o) == o.credentials \/ o.tls \cap {"https", "tls"} # {}

\* Whether it opens a secure channel: with the caller's credentials, or its own.
OpensSecure(o) == o.credentials \/ UseTls(o)

\* Mutant of Deadline: reserve gives up when the server would answer.
DeadlineOfWait(method) == IF method = "reserve" THEN wait_timeout ELSE rpc_timeout

Deadline(method) == IF method = "reserve" THEN wait_timeout + Slack ELSE rpc_timeout

\* A reserve and a drain are sent once.
RetryableCodes(method) ==
  CASE method \in {"reserve", "drain_dead_letters"} -> {}
    [] method = "enqueue" -> KEYLESS_ENQUEUE_RETRYABLE_CODES
    [] OTHER -> RETRYABLE_CODES

LeaseCalls == {"ack", "nack", "extend"}

ErrorOf(method, code) ==
  CASE method = "reserve" -> reserve_error_from_rpc(code)
    [] method \in LeaseCalls -> lease_error_from_rpc(code)
    [] OTHER -> client_error_from_rpc(code)

Idle == [method |-> "none", attempt |-> 0, phase |-> "idle", left |-> 0, due |-> 0,
         reply |-> "none"]

\* An attempt: its deadline, and how long its request may still travel.
Attempt(method, n) == [method |-> method, attempt |-> n, phase |-> "request",
                       left |-> Deadline(method), due |-> Latency, reply |-> "none"]

InFlight(a) == call[a].phase \in {"request", "served", "reply"}

\* The call of a ends, with the answer it got, if any.
Ends(a, reply, raised) ==
  /\ result' = [result EXCEPT ![a] = [method |-> call[a].method, reply |-> reply,
                                       raised |-> raised]]
  /\ call' = [call EXCEPT ![a] = Idle]

-----------------------------------------------------------------------------
Init ==
  /\ options = NoOptions /\ warned = FALSE
  /\ connect = "none" /\ channel = "none" /\ secure = FALSE
  /\ call = [a \in Callers |-> Idle]
  /\ result = [a \in Callers |-> [method |-> "none", reply |-> "none", raised |-> "nothing"]]
  /\ lost = {}

calls == <<call, result, lost>>

-----------------------------------------------------------------------------
(* The channel.                                                            *)

\* A key that is no header value is refused before anything is opened.
Connect(o) ==
  /\ connect = "none"
  /\ options' = o
  /\ IF o.api_key = "not ascii"
       THEN connect' = "failed" /\ UNCHANGED <<warned, channel, secure>>
       ELSE /\ connect' = "waiting" /\ channel' = "connecting"
            /\ warned' = Warns(o) /\ secure' = OpensSecure(o)
  /\ UNCHANGED calls

ChannelReady ==
  /\ channel = "connecting"
  /\ channel' = "ready"
  /\ UNCHANGED <<options, warned, connect, secure, calls>>

Connected ==
  /\ connect = "waiting" /\ channel = "ready"
  /\ connect' = "client"
  /\ UNCHANGED <<options, warned, channel, secure, calls>>

\* Mutant of ConnectFails: raises without closing the channel.
ConnectFailsAtOnce ==
  /\ connect = "waiting"
  /\ connect' = "failed"
  /\ UNCHANGED <<options, warned, channel, secure, calls>>

\* connect_timeout is over, perhaps just when the channel is ready, or
\* channel_ready fails.
ConnectFails ==
  /\ connect = "waiting"
  /\ connect' = "closing"
  /\ UNCHANGED <<options, warned, channel, secure, calls>>

ConnectRaises ==
  /\ connect = "closing"
  /\ connect' = "failed" /\ channel' = "closed"
  /\ UNCHANGED <<options, warned, secure, calls>>

\* The caller of connect is cancelled: nothing closes the channel.
CancelConnect ==
  /\ connect \in {"waiting", "closing"}
  /\ connect' = "cancelled"
  /\ UNCHANGED <<options, warned, channel, secure, calls>>

\* The caller's own channel, of either kind; no key is sent over it.
from_channel ==
  /\ connect = "none"
  /\ connect' = "client" /\ channel' = "ready" /\ secure' \in BOOLEAN
  /\ UNCHANGED <<options, warned, calls>>

\* close() or the end of an `async with`, again too: calls in flight are
\* cancelled from below.
Close ==
  /\ connect = "client"
  /\ channel' = "closed"
  /\ call' = [a \in Callers |-> IF InFlight(a) THEN Idle ELSE call[a]]
  /\ result' = [a \in Callers |-> IF InFlight(a)
                                    THEN [method |-> call[a].method, reply |-> "none",
                                          raised |-> "CancelledError"]
                                    ELSE result[a]]
  /\ UNCHANGED <<options, warned, connect, secure, lost>>

-----------------------------------------------------------------------------
(* Calls.                                                                  *)

client == <<options, warned, connect, channel, secure>>

\* On a closed channel grpc raises an error of its own at once.
Start(a, method) ==
  /\ connect = "client" /\ call[a] = Idle
  /\ IF channel = "closed"
       THEN /\ result' = [result EXCEPT ![a] = [method |-> method, reply |-> "none",
                                                 raised |-> "UsageError"]]
            /\ UNCHANGED call
       ELSE call' = [call EXCEPT ![a] = Attempt(method, 1)] /\ UNCHANGED result
  /\ UNCHANGED <<client, lost>>

\* The request reaches the server, which may hold a reserve for a while (external).
Arrives(a) ==
  /\ call[a].phase = "request"
  /\ call' = [call EXCEPT ![a].phase = "served",
                          ![a].due = IF call[a].method = "reserve" THEN wait_timeout ELSE 0]
  /\ UNCHANGED <<client, result, lost>>

\* What a method may be answered (external): a value, which may be a refusal; a
\* reserve with jobs that are now leased, or with none; a message that lacks what is
\* required or has an instant before the epoch, or results for other than the jobs
\* sent; an instant or a duration out of range.
Replies(method) ==
  CASE method = "reserve" -> {"jobs", "empty", "out of range"}
    [] method = "drain_dead_letters" -> {"value", "out of range"}
    [] method = "enqueue" -> {"value", "malformed", "miscounted", "out of range"}
    [] method \in {"extend", "get_server_info"} -> {"value", "malformed", "out of range"}
    [] OTHER -> {"value"}

ServerAnswers(a) ==
  /\ call[a].phase = "served"
  /\ \E reply \in Replies(call[a].method) :
       call' = [call EXCEPT ![a].phase = "reply", ![a].due = Latency, ![a].reply = reply]
  /\ UNCHANGED <<client, result, lost>>

\* Mutant of MalformedError: server_info_from_pb's own error comes through.
MalformedErrorUnwrapped(method) ==
  IF method = "get_server_info" THEN "ServerInfoError" ELSE "MalformedResponseError"

MalformedError(method) ==
  IF method = "get_server_info" THEN "MalformedServerInfoError" ELSE "MalformedResponseError"

\* What the conversion of an answer raises.  Only extend expects an instant out of
\* range; elsewhere printing or converting it raises ValueError (a duration:
\* OverflowError), which nothing catches.
Raised(method, reply) ==
  IF reply = "miscounted" THEN "BatchResultCountMismatchError"
  ELSE IF reply = "out of range" /\ method # "extend" THEN "ValueError"
  ELSE IF reply \in {"malformed", "out of range"} THEN MalformedError(method)
  ELSE "nothing"

Answered(a) ==
  /\ call[a].phase = "reply"
  /\ Ends(a, call[a].reply, Raised(call[a].method, call[a].reply))
  /\ UNCHANGED <<client, lost>>

\* The server has leased jobs to the call.
Leased(k) == k.method = "reserve" /\ k.reply \in {"jobs", "out of range"}

\* The attempt fails at its deadline, or earlier, wherever its request is.
AttemptFails(a, code) ==
  /\ InFlight(a)
  /\ code = "DEADLINE_EXCEEDED" => call[a].left = 0
  /\ lost' = IF Leased(call[a]) THEN lost \cup {code} ELSE lost
  /\ IF Retries(code, call[a].attempt, RetryableCodes(call[a].method))
       THEN call' = [call EXCEPT ![a].phase = "backoff"] /\ UNCHANGED result
       ELSE Ends(a, "none", ErrorOf(call[a].method, code))
  /\ UNCHANGED client

\* Mutant of NextAttempt: attempts are not counted.
NextAttemptUncounted(a) ==
  /\ call[a].phase = "backoff"
  /\ IF channel = "closed"
       THEN Ends(a, "none", "UsageError")
       ELSE call' = [call EXCEPT ![a] = Attempt(call[a].method, call[a].attempt)] /\ UNCHANGED result
  /\ UNCHANGED <<client, lost>>

\* After its backoff, which a close does not cut short.
NextAttempt(a) ==
  /\ call[a].phase = "backoff"
  /\ IF channel = "closed"
       THEN Ends(a, "none", "UsageError")
       ELSE call' = [call EXCEPT ![a] = Attempt(call[a].method, call[a].attempt + 1)] /\ UNCHANGED result
  /\ UNCHANGED <<client, lost>>

\* Time passes (external) while no message and no deadline is due.
Tick ==
  /\ \E a \in Callers : InFlight(a)
  /\ \A a \in Callers : InFlight(a) => call[a].due > 0 /\ call[a].left > 0
  /\ call' = [a \in Callers |-> IF InFlight(a)
                                  THEN [call[a] EXCEPT !.due = call[a].due - 1, !.left = call[a].left - 1]
                                  ELSE call[a]]
  /\ UNCHANGED <<client, result, lost>>

-----------------------------------------------------------------------------
Channel ==
  \/ \E tls \in TlsChoices, credentials \in BOOLEAN, api_key \in {"none", "ascii", "not ascii"} :
       Connect([tls |-> tls, credentials |-> credentials, api_key |-> api_key])
  \/ ChannelReady \/ Connected \/ ConnectFails \/ ConnectRaises \/ CancelConnect
  \/ from_channel \/ Close

CallSteps(a) ==
  Arrives(a) \/ ServerAnswers(a) \/ Answered(a) \/ NextAttempt(a)
    \/ \E code \in Failures : AttemptFails(a, code)

\* No client came of it; the caller may try again, with another channel.
NoClient == connect \in {"failed", "cancelled"} /\ UNCHANGED vars

Next == Channel \/ (\E a \in Callers : CallSteps(a) \/ \E method \in Methods : Start(a, method))
          \/ Tick \/ NoClient

Spec == Init /\ [][Next]_vars

\* Messages arrive, the server answers, sleeps end, deadlines pass.
FairSpec == Spec /\ WF_vars(Tick) /\ \A a \in Callers : WF_vars(CallSteps(a))

-----------------------------------------------------------------------------
ReplyKinds == {"none", "jobs", "empty", "value", "malformed", "miscounted", "out of range"}

TypeOK ==
  /\ options \in [tls : SUBSET TlsOptions, credentials : BOOLEAN,
                  api_key : {"none", "ascii", "not ascii"}]
  /\ warned \in BOOLEAN /\ secure \in BOOLEAN
  /\ connect \in {"none", "waiting", "closing", "failed", "cancelled", "client"}
  /\ channel \in {"none", "connecting", "ready", "closed"}
  /\ call \in [Callers -> [method : Methods \cup {"none"}, attempt : 0..MaxAttempts,
                           phase : {"idle", "request", "served", "reply", "backoff"},
                           left : Nat, due : Nat, reply : ReplyKinds]]
  /\ result \in [Callers -> [method : Methods \cup {"none"}, reply : ReplyKinds,
                             raised : {"nothing", "CancelledError", "UsageError", "ValueError"}
                                        \cup ClientErrors \cup LeaseErrors \cup ReserveErrors]]
  /\ lost \subseteq Failures

\* A connect that raised has closed its channel, and no client has one that was
\* never opened (client.py:257-263).
FailedConnectLeavesNothing ==
  /\ connect = "failed" => channel \in {"none", "closed"}
  /\ connect = "client" => channel \in {"ready", "closed"}

\* What connect says of the channel is true of the channel it opened: an API key
\* travels over one that does not encrypt only with a warning, and only when the
\* caller asked for TLS in no way (scheme, flag, CA, verified name, credentials),
\* and there is no warning about one that does (client.py:235-255).
PlaintextKeysAreWarnedOf ==
  (\E a \in Callers : InFlight(a)) =>
    /\ options.api_key = "ascii" /\ ~secure =>
         warned /\ options.tls = {} /\ ~options.credentials
    /\ warned => ~secure

\* Whatever fails, a call raises what its method documents: a ClientError, or the
\* domain errors of reserve and of the lease calls (errors.py:425-456,
\* client.py:551-554).  There are two exceptions: a client closed under it shows
\* errors of asyncio and grpc, and an instant or a duration out of range in an
\* answer raises a bare ValueError, from no lease call though.
RaisesAsDocumented ==
  \A a \in Callers :
    LET r == result[a] IN
      \/ r.raised \in {"nothing"} \cup ClientErrors
      \/ r.method = "reserve" /\ r.raised \in ReserveErrors
      \/ r.method \in LeaseCalls /\ r.raised \in LeaseErrors
      \/ channel = "closed" /\ r.raised \in {"CancelledError", "UsageError"}
      \/ r.raised = "ValueError" /\ r.reply = "out of range" /\ r.method \notin LeaseCalls

\* A long poll answered at its very end still arrives: when a message takes less
\* than half the slack, no job leased to a reserve is lost to the deadline of the
\* call (client.py:45, 417).
LongPollsAreNotCutShort == 2 * Latency < Slack => "DEADLINE_EXCEEDED" \notin lost

\* Every call ends, also one whose client is closed while it is in flight or
\* between two attempts (client.py:291-293, 612-648).
CallsEnd == \A a \in Callers : call[a] # Idle ~> call[a] = Idle
=============================================================================
