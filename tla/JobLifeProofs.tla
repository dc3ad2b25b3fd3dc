--------------------------- MODULE JobLifeProofs ----------------------------
(***************************************************************************)
(* What the conversions keep of a job, for any requests, any jobs of other *)
(* producers and any number of drainers, and what a destructive drain may  *)
(* lose.                                                                   *)
(*                                                                         *)
(* The invariant says where each value came from: a stored job from the    *)
(* request, a context and a record from the stored job, a replay from the  *)
(* record.  The lemmas on the conversions, which are each other's inverses *)
(* on what can be sent, then relate the two ends.                          *)
(***************************************************************************)
EXTENDS JobLife, FiniteSetTheorems, TLAPS

-----------------------------------------------------------------------------
(* The conversions.                                                        *)

\* None is not a value of the optional fields.
LEMMA NoneIsNoValue ==
  /\ Unset \notin Int /\ Unset \notin ValidTraceparents
  /\ \A t \in DOMAIN FieldOf : FieldOf[t] # Unset
<1>1. Unset \notin {FieldOf[t] : t \in DOMAIN FieldOf}
  BY UnsetAssumption
<1>2. Unset \notin Int /\ Unset \notin ValidTraceparents
  BY UnsetAssumption
<1> QED
  BY <1>1, <1>2

\* A custom value that can be encoded comes back with its value and its type: a
\* bool as a bool, though it is an int as well.
LEMMA PrimitiveComesBack ==
  ASSUME NEW t \in DOMAIN FieldOf, NEW v
  PROVE  /\ primitive_to_pb([type |-> t, value |-> v]) = [which |-> FieldOf[t], value |-> v]
         /\ HasValue([which |-> FieldOf[t], value |-> v])
         /\ primitive_from_pb([which |-> FieldOf[t], value |-> v]) = [type |-> t, value |-> v]
<1>1. \A s, u \in DOMAIN FieldOf : FieldOf[s] = FieldOf[u] => s = u
  BY DEF FieldOf
<1>2. primitive_to_pb([type |-> t, value |-> v]) = [which |-> FieldOf[t], value |-> v]
  BY DEF primitive_to_pb, SetField, isinstance, FieldOf
<1>3. FieldOf[t] # Unset
  BY NoneIsNoValue
<1>4. (CHOOSE s \in DOMAIN FieldOf : FieldOf[s] = FieldOf[t]) = t
  <2> DEFINE c == CHOOSE s \in DOMAIN FieldOf : FieldOf[s] = FieldOf[t]
  <2>1. c \in DOMAIN FieldOf /\ FieldOf[c] = FieldOf[t]
    BY Zenon
  <2> QED
    BY <1>1, <2>1
<1>5. primitive_from_pb([which |-> FieldOf[t], value |-> v]) = [type |-> t, value |-> v]
  BY <1>3, <1>4 DEF primitive_from_pb, HasValue
<1> QED
  BY <1>2, <1>3, <1>5 DEF HasValue

\* The custom values of a request reach the handler as they were.
LEMMA CustomComesBack ==
  ASSUME NEW custom, Customs(custom), \A k \in DOMAIN custom : Encodable(custom[k]),
         NEW sent, sent = [k \in DOMAIN custom |-> primitive_to_pb(custom[k])]
  PROVE  /\ \A k \in DOMAIN sent : HasValue(sent[k])
         /\ [k \in DOMAIN sent |-> primitive_from_pb(sent[k])] = custom
<1>1. ASSUME NEW k \in DOMAIN custom
      PROVE  HasValue(sent[k]) /\ primitive_from_pb(sent[k]) = custom[k]
  <2>1. custom[k] = [type |-> custom[k].type, value |-> custom[k].value]
    BY DEF Customs
  <2>2. custom[k].type \in DOMAIN FieldOf
    BY DEF Encodable
  <2> QED
    BY <2>1, <2>2, PrimitiveComesBack
<1>2. custom = [k \in DOMAIN custom |-> custom[k]]
  BY DEF Customs
<1> QED
  BY <1>1, <1>2

\* The custom values of a record go into a replay as the server held them.
LEMMA CustomGoesBack ==
  ASSUME NEW custom, PbCustoms(custom), \A k \in DOMAIN custom : HasValue(custom[k]),
         NEW got, got = [k \in DOMAIN custom |-> primitive_from_pb(custom[k])]
  PROVE  [k \in DOMAIN got |-> primitive_to_pb(got[k])] = custom
<1>1. ASSUME NEW k \in DOMAIN custom
      PROVE  primitive_to_pb(got[k]) = custom[k]
  <2>1. custom[k] = [which |-> custom[k].which, value |-> custom[k].value]
    BY DEF PbCustoms
  <2>2. PICK t \in DOMAIN FieldOf : custom[k].which = FieldOf[t]
    BY DEF PbCustoms, HasValue
  <2> DEFINE v == custom[k].value
  <2>3. custom[k] = [which |-> FieldOf[t], value |-> v]
    BY <2>1, <2>2
  <2>4. got[k] = primitive_from_pb(custom[k])
    OBVIOUS
  <2> HIDE DEF v
  <2>5. got[k] = [type |-> t, value |-> v]
    BY <2>3, <2>4, PrimitiveComesBack
  <2> QED
    BY <2>3, <2>5, PrimitiveComesBack
<1>2. custom = [k \in DOMAIN custom |-> custom[k]]
  BY DEF PbCustoms
<1> QED
  BY <1>1, <1>2

\* What a request puts on the wire is what a oneof can hold.
LEMMA SentCustom ==
  ASSUME NEW custom, Customs(custom), \A k \in DOMAIN custom : Encodable(custom[k])
  PROVE  PbCustoms([k \in DOMAIN custom |-> primitive_to_pb(custom[k])])
<1> DEFINE sent == [k \in DOMAIN custom |-> primitive_to_pb(custom[k])]
<1>1. ASSUME NEW k \in DOMAIN custom
      PROVE  \E t \in DOMAIN FieldOf : sent[k] = [which |-> FieldOf[t], value |-> custom[k].value]
  <2>1. custom[k] = [type |-> custom[k].type, value |-> custom[k].value]
    BY DEF Customs
  <2>2. custom[k].type \in DOMAIN FieldOf
    BY DEF Encodable
  <2> QED
    BY <2>1, <2>2, PrimitiveComesBack
<1>2. DOMAIN sent = DOMAIN custom /\ sent = [k \in DOMAIN custom |-> sent[k]]
  OBVIOUS
<1> HIDE DEF sent
<1>3. ASSUME NEW k \in DOMAIN custom
      PROVE  /\ sent[k] = [which |-> sent[k].which, value |-> sent[k].value]
             /\ \E t \in DOMAIN FieldOf : sent[k].which = FieldOf[t]
  <2>1. PICK t \in DOMAIN FieldOf : sent[k] = [which |-> FieldOf[t], value |-> custom[k].value]
    BY <1>1
  <2>2. sent[k].which = FieldOf[t] /\ sent[k].value = custom[k].value
    BY <2>1
  <2> QED
    BY <2>1, <2>2
<1>4. PbCustoms(sent)
  BY <1>2, <1>3 DEF PbCustoms
<1> QED
  BY <1>4 DEF sent

\* An instant that a datetime can hold survives the wire, one before the epoch
\* does not get there.
LEMMA Instants ==
  ASSUME NEW dt \in Int
  PROVE  /\ datetime_to_millis(dt) >= 0 <=> dt >= 0
         /\ FromDatetime(dt) \in Int /\ FromDatetime(dt) # Unset
         /\ dt >= 0 => FromDatetime(dt) >= 0
         /\ dt >= 0 /\ dt <= LastInstant => timestamp_to_datetime(FromDatetime(dt)) = dt
<1>1. dt \div 1000 >= 0 <=> dt >= 0
  OBVIOUS
<1>2. (dt * 1000) \div 1000 = dt /\ dt * 1000 \in Int /\ (dt >= 0 => dt * 1000 >= 0)
  OBVIOUS
<1>3. dt * 1000 # Unset
  <2> DEFINE x == dt * 1000
  <2>1. x \in Int
    OBVIOUS
  <2> HIDE DEF x
  <2>2. x # Unset
    BY <2>1, NoneIsNoValue
  <2> QED
    BY <2>2 DEF x
<1> QED
  BY <1>1, <1>2, <1>3 DEF datetime_to_millis, FromDatetime, timestamp_to_datetime

\* A conversion raises nothing for a job that has what is required, in range.
LEMMA NothingRaised ==
  ASSUME NEW j, NEW at
  PROVE  ConversionError(j, at) = "nothing" <=>
           /\ j.id # Unset /\ j.job_type # Unset /\ j.priority \in Priorities
           /\ timestamp_to_datetime(j.enqueued_at) # Unset
           /\ timestamp_to_datetime(at) # Unset
           /\ \A k \in DOMAIN j.custom : HasValue(j.custom[k])
<1>1. \A ts : InstantError(ts) = "nothing" <=> timestamp_to_datetime(ts) # Unset
  BY DEF InstantError
<1> QED
  BY <1>1 DEF ConversionError

\* The current span's context takes the place of none.
LEMMA InjectKeeps ==
  ASSUME NEW req, NEW headers, NEW m, NEW n,
         m = enqueue_request_to_pb(req), n = _inject_trace_into_jobs(m, headers)
  PROVE  /\ n.queue = req.queue /\ n.job_type = req.job_type /\ n.payload = req.payload
         /\ n.idempotency_key = req.idempotency_key /\ n.priority = req.priority
         /\ n.max_attempts = req.max_attempts
         /\ n.custom = [k \in DOMAIN req.custom |-> primitive_to_pb(req.custom[k])]
         /\ n.scheduled_at =
              IF req.scheduled_at # Unset /\ datetime_to_millis(req.scheduled_at) >= 0
                THEN FromDatetime(req.scheduled_at) ELSE Unset
         /\ req.trace_context # Unset => n.trace_context = req.trace_context
<1> DEFINE custom == [k \in DOMAIN req.custom |-> primitive_to_pb(req.custom[k])]
           at == IF req.scheduled_at # Unset /\ datetime_to_millis(req.scheduled_at) >= 0
                   THEN FromDatetime(req.scheduled_at) ELSE Unset
<1>1. m = [queue |-> req.queue, job_type |-> req.job_type, payload |-> req.payload,
           idempotency_key |-> req.idempotency_key, priority |-> req.priority,
           max_attempts |-> req.max_attempts, custom |-> custom,
           trace_context |-> req.trace_context, scheduled_at |-> at]
  BY DEF enqueue_request_to_pb
<1>2. n = IF m.trace_context # Unset \/ headers = Unset THEN m
          ELSE [m EXCEPT !.trace_context = headers]
  BY DEF _inject_trace_into_jobs
<1> HIDE DEF custom, at
<1>3. /\ n.queue = req.queue /\ n.job_type = req.job_type /\ n.payload = req.payload
      /\ n.idempotency_key = req.idempotency_key /\ n.priority = req.priority
      /\ n.max_attempts = req.max_attempts /\ n.custom = custom /\ n.scheduled_at = at
      /\ req.trace_context # Unset => n.trace_context = req.trace_context
  BY <1>1, <1>2
<1> QED
  BY <1>3 DEF custom, at

-----------------------------------------------------------------------------
(* The invariant.                                                          *)

\* A request as it is sent: for the first time, or as a replay.
IsSent(m, req) ==
  \E headers \in Headers : m = _inject_trace_into_jobs(enqueue_request_to_pb(req), headers)

\* What the server holds is what a producer sent.
StoredOK ==
  /\ \A j \in DOMAIN request : request[j] \in Requests
  /\ \A j \in Jobs : stage[j] \in {"new", "refused"} => j \in DOMAIN request
  /\ \A j \in DOMAIN stored :
       IF j \in DOMAIN request
         THEN Sendable(request[j]) /\ \E m : IsSent(m, request[j]) /\ stored[j] = Stores(j, m)
         ELSE stored[j] \in Foreign

\* What the application holds is what the server held.
ConvertedOK ==
  /\ \A j \in DOMAIN ctx : ctx[j] = job_from_pb(stored[j])
  /\ \A j \in DOMAIN record : Drainable(j) /\ record[j] = dead_letter_record_from_pb(stored[j])
  /\ \A j \in DOMAIN replay :
       /\ Sendable(to_enqueue_request(record[j]))
       /\ IsSent(replay[j], to_enqueue_request(record[j]))

\* A call goes for what it was asked for, and removes it once; what it spoils is
\* what it removed.
CallsOK ==
  /\ call = [d \in Drainers |-> call[d]]
  /\ \A d \in Drainers :
       /\ call[d] = [pc |-> call[d].pc, asked |-> call[d].asked, req |-> call[d].req,
                     batch |-> call[d].batch, removed |-> call[d].removed]
       /\ call[d].pc \in {"request", "reply"} =>
            call[d].req = [queue |-> call[d].asked.queue, max |-> LargerOf(call[d].asked.max, 1)]
       /\ call[d].pc = "request" => call[d].removed = {}
       /\ call[d].removed \subseteq Drained
  /\ \A j \in DOMAIN spoiled : spoiled[j] \subseteq Drained

Inv == /\ TypeOK /\ StoredOK /\ ConvertedOK /\ CallsOK
       /\ LossesHaveACause /\ OneBatchPerCall

\* Nothing has happened to the jobs yet.
LEMMA InitInv == Init => Inv
<1> SUFFICES ASSUME Init PROVE Inv
  OBVIOUS
<1>1. PICK ours \in SUBSET Jobs :
        /\ request \in [ours -> Requests] /\ stored \in [Jobs \ ours -> Foreign]
        /\ stage = [j \in Jobs |-> IF j \in ours THEN "new" ELSE "queued"]
  BY DEF Init
<1>2. /\ DOMAIN ctx = {} /\ DOMAIN record = {} /\ DOMAIN replay = {} /\ Gone = {}
      /\ DOMAIN spoiled = {}
  BY DEF Init, Gone
<1>3. ASSUME NEW d \in Drainers
      PROVE  call[d] = [pc |-> "idle", asked |-> NoDrain, req |-> NoDrain,
                        batch |-> {}, removed |-> {}]
  BY DEF Init, Idle
<1>4. TypeOK
  BY <1>1, <1>2, <1>3 DEF TypeOK
<1>5. StoredOK
  BY <1>1 DEF StoredOK
<1>6. ConvertedOK
  BY <1>1, <1>2 DEF ConvertedOK
<1>7. CallsOK
  <2>1. call = [d \in Drainers |-> call[d]]
    BY DEF Init
  <2> QED
    BY <1>2, <1>3, <2>1 DEF CallsOK
<1>8. LossesHaveACause
  BY <1>1 DEF LossesHaveACause
<1>9. OneBatchPerCall
  <2>1. Cardinality({}) = 0 /\ LargerOf(0, 1) = 1
    BY FS_EmptySet DEF LargerOf
  <2> QED
    BY <1>3, <2>1 DEF OneBatchPerCall, NoDrain
<1> QED
  BY <1>4, <1>5, <1>6, <1>7, <1>8, <1>9 DEF Inv

\* A drained job is one the server held, and what it held does not change.
LEMMA DrainedWasStored ==
  ASSUME TypeOK
  PROVE  Drained \subseteq DOMAIN stored
BY DEF TypeOK, Drained

\* Steps that convert nothing.
LEMMA ConvertedKept ==
  ASSUME Inv, \A i \in DOMAIN stored : stored'[i] = stored[i],
         UNCHANGED <<ctx, record, replay>>
  PROVE  ConvertedOK'
<1>1. /\ DOMAIN ctx \subseteq DOMAIN stored /\ DOMAIN record \subseteq DOMAIN stored
      /\ DOMAIN replay \subseteq DOMAIN record
  BY DrainedWasStored DEF Inv, TypeOK
<1>2. \A i \in DOMAIN ctx' : ctx'[i] = job_from_pb(stored'[i])
  BY <1>1 DEF Inv, ConvertedOK
<1>3. \A i \in DOMAIN record' :
        Drainable(i)' /\ record'[i] = dead_letter_record_from_pb(stored'[i])
  BY <1>1 DEF Inv, ConvertedOK, Drainable, RecordError
<1>4. \A i \in DOMAIN replay' :
        /\ Sendable(to_enqueue_request(record'[i]))
        /\ IsSent(replay'[i], to_enqueue_request(record'[i]))
  BY DEF Inv, ConvertedOK
<1> QED
  BY <1>2, <1>3, <1>4 DEF ConvertedOK, IsSent

\* Steps that drain nothing.
LEMMA DrainsKept ==
  ASSUME Inv, \A i \in DOMAIN stored : stored'[i] = stored[i], Drained' = Drained,
         UNCHANGED <<call, lost, spoiled, record>>
  PROVE  CallsOK' /\ LossesHaveACause' /\ OneBatchPerCall'
<1>1. \A i \in Drained : stored'[i] = stored[i]
  BY DrainedWasStored DEF Inv
<1>2. \A i \in Jobs : stage'[i] = "drained" <=> stage[i] = "drained"
  BY DEF Drained
<1>3. CallsOK'
  BY DEF Inv, CallsOK
<1>4. LossesHaveACause'
  BY <1>1, <1>2 DEF Inv, LossesHaveACause, Drainable, RecordError, Drained, CallsOK
<1>5. OneBatchPerCall'
  <2>1. \A d \in Drainers : call[d].removed \subseteq Drained
    BY DEF Inv, CallsOK
  <2> QED
    BY <1>1, <2>1 DEF Inv, OneBatchPerCall
<1> QED
  BY <1>3, <1>4, <1>5

\* A job is enqueued, or refused.
LEMMA EnqueueInv ==
  ASSUME Inv, NEW j \in Jobs, Enqueue(j)
  PROVE  Inv'
<1>1. /\ stage[j] = "new" /\ stage \in [Jobs -> {"new", "refused", "queued", "leased",
                                                "stranded", "dead", "drained"}]
      /\ UNCHANGED <<request, ctx, call, lost, spoiled, record, replay>>
  BY DEF Enqueue, Inv, TypeOK
<1>2. \/ stage' = [stage EXCEPT ![j] = "refused"] /\ stored' = stored
      \/ /\ stage' = [stage EXCEPT ![j] = "queued"] /\ Sendable(request[j])
         /\ \E m : IsSent(m, request[j]) /\ stored' = With(stored, j, Stores(j, m))
  BY DEF Enqueue, IsSent
<1>3. DOMAIN stored = {i \in Jobs : stage[i] \notin {"new", "refused"}}
  BY DEF Inv, TypeOK
<1>4. \A i \in Jobs : i # j => stage'[i] = stage[i]
  BY <1>1, <1>2
<1>5. /\ stage'[j] \in {"queued", "refused"}
      /\ stage' \in [Jobs -> {"new", "refused", "queued", "leased", "stranded", "dead", "drained"}]
  BY <1>1, <1>2
<1>6. /\ j \notin DOMAIN stored
      /\ DOMAIN stored' = IF stage'[j] = "queued" THEN DOMAIN stored \cup {j} ELSE DOMAIN stored
      /\ \A i \in DOMAIN stored : stored'[i] = stored[i]
  <2>1. j \notin DOMAIN stored
    BY <1>1, <1>3
  <2>2. CASE stage' = [stage EXCEPT ![j] = "refused"] /\ stored' = stored
    BY <1>1, <2>1, <2>2
  <2>3. CASE /\ stage' = [stage EXCEPT ![j] = "queued"]
             /\ \E m : stored' = With(stored, j, Stores(j, m))
    <3>1. PICK m : stored' = With(stored, j, Stores(j, m))
      BY <2>3
    <3>2. stage'[j] = "queued"
      BY <1>1, <2>3
    <3>3. DOMAIN stored' = DOMAIN stored \cup {j}
      BY <3>1 DEF With
    <3>4. \A i \in DOMAIN stored : stored'[i] = stored[i]
      BY <2>1, <3>1 DEF With
    <3> QED
      BY <2>1, <3>2, <3>3, <3>4
  <2> QED
    BY <1>2, <2>2, <2>3
<1>7. Drained' = Drained
  BY <1>1, <1>4, <1>5 DEF Drained
<1>8. TypeOK'
  <2>1. DOMAIN stored' = {i \in Jobs : stage'[i] \notin {"new", "refused"}}
    BY <1>3, <1>4, <1>5, <1>6
  <2>2. DOMAIN ctx \subseteq DOMAIN stored'
    BY <1>6 DEF Inv, TypeOK
  <2> QED
    BY <1>1, <1>5, <1>7, <2>1, <2>2 DEF Inv, TypeOK, Gone
<1>9. StoredOK'
  <2>1. \A i \in Jobs : stage'[i] \in {"new", "refused"} => i \in DOMAIN request
    BY <1>1, <1>4 DEF Inv, StoredOK
  <2>2. ASSUME NEW i \in DOMAIN stored'
        PROVE  IF i \in DOMAIN request
                 THEN Sendable(request[i])
                        /\ \E m : IsSent(m, request[i]) /\ stored'[i] = Stores(i, m)
                 ELSE stored'[i] \in Foreign
    <3>1. CASE i \in DOMAIN stored
      BY <1>6, <3>1 DEF Inv, StoredOK
    <3>2. CASE i \notin DOMAIN stored
      <4>1. i = j /\ stage'[j] = "queued" /\ j \in DOMAIN request
        BY <1>1, <1>6, <3>2 DEF Inv, StoredOK
      <4>2. PICK m : IsSent(m, request[j]) /\ stored' = With(stored, j, Stores(j, m))
        BY <1>1, <1>2, <4>1
      <4>3. Sendable(request[j])
        BY <1>1, <1>2, <4>1
      <4>4. stored'[j] = Stores(j, m)
        BY <4>2 DEF With
      <4> QED
        BY <4>1, <4>2, <4>3, <4>4
    <3> QED
      BY <3>1, <3>2
  <2> QED
    BY <1>1, <2>1, <2>2 DEF Inv, StoredOK, IsSent
<1>10. ConvertedOK'
  BY <1>1, <1>6, ConvertedKept
<1>11. CallsOK' /\ LossesHaveACause' /\ OneBatchPerCall'
  BY <1>1, <1>6, <1>7, DrainsKept
<1> QED
  BY <1>8, <1>9, <1>10, <1>11 DEF Inv

\* Jobs the server holds are delivered, stranded or dead-lettered.
LEMMA StageMoves ==
  ASSUME Inv, NEW S \in SUBSET Jobs,
         \A j \in S : stage[j] \in {"queued", "leased", "stranded"},
         DOMAIN stage' = Jobs,
         \A j \in S : stage'[j] \in {"leased", "stranded", "dead"},
         \A j \in Jobs \ S : stage'[j] = stage[j],
         stage' = [j \in Jobs |-> stage'[j]],
         UNCHANGED <<request, stored, call, lost, spoiled, record, replay>>,
         DOMAIN ctx' \subseteq DOMAIN ctx \cup S
  PROVE  /\ TypeOK' /\ StoredOK'
         /\ CallsOK' /\ LossesHaveACause' /\ OneBatchPerCall'
<1>1. stage \in [Jobs -> {"new", "refused", "queued", "leased", "stranded", "dead", "drained"}]
  BY DEF Inv, TypeOK
<1>2. stage' \in [Jobs -> {"new", "refused", "queued", "leased", "stranded", "dead", "drained"}]
  BY <1>1
<1>3. Drained' = Drained
  BY DEF Drained
<1>4. DOMAIN stored = {i \in Jobs : stage[i] \notin {"new", "refused"}}
  BY DEF Inv, TypeOK
<1>5. /\ S \subseteq DOMAIN stored
      /\ DOMAIN stored' = {i \in Jobs : stage'[i] \notin {"new", "refused"}}
  BY <1>4
<1>6. TypeOK'
  <2>1. DOMAIN ctx' \subseteq DOMAIN stored'
    BY <1>5 DEF Inv, TypeOK
  <2> QED
    BY <1>2, <1>3, <1>5, <2>1 DEF Inv, TypeOK, Gone
<1>7. StoredOK'
  <2>1. \A i \in Jobs : stage'[i] \in {"new", "refused"} => i \in DOMAIN request
    BY DEF Inv, StoredOK
  <2> QED
    BY <2>1 DEF Inv, StoredOK, IsSent
<1> QED
  BY <1>3, <1>6, <1>7, DrainsKept

\* A batch is reserved: jobs of it are delivered, and the others stranded.
LEMMA ReserveInv ==
  ASSUME Inv, Reserve
  PROVE  Inv'
<1>1. UNCHANGED <<request, stored, call, lost, spoiled, record, replay>>
  BY DEF Reserve
<1>2. PICK batch \in SUBSET {j \in Jobs : stage[j] = "queued"} \ {{}} :
        LET jobs == IF \E j \in batch : JobError(j) = "ValueError" THEN {}
                    ELSE {j \in batch : Deliverable(j)}
        IN /\ stage' = [j \in Jobs |-> IF j \in jobs THEN "leased"
                                       ELSE IF j \in batch THEN "stranded" ELSE stage[j]]
           /\ ctx' = [j \in DOMAIN ctx \cup jobs |->
                        IF j \in jobs THEN job_from_pb(stored[j]) ELSE ctx[j]]
  BY DEF Reserve
<1> DEFINE jobs == IF \E j \in batch : JobError(j) = "ValueError" THEN {}
                   ELSE {j \in batch : Deliverable(j)}
<1>3. jobs \subseteq batch
  OBVIOUS
<1>4. /\ stage' = [j \in Jobs |-> IF j \in jobs THEN "leased"
                                  ELSE IF j \in batch THEN "stranded" ELSE stage[j]]
      /\ ctx' = [j \in DOMAIN ctx \cup jobs |->
                   IF j \in jobs THEN job_from_pb(stored[j]) ELSE ctx[j]]
  BY <1>2
<1> HIDE DEF jobs
<1>5. /\ batch \in SUBSET Jobs /\ \A j \in batch : stage[j] = "queued"
      /\ \A j \in batch : stage'[j] \in {"leased", "stranded"}
      /\ \A j \in Jobs \ batch : stage'[j] = stage[j]
      /\ DOMAIN stage' = Jobs /\ stage' = [j \in Jobs |-> stage'[j]]
  BY <1>3, <1>4
<1>6. DOMAIN ctx' \subseteq DOMAIN ctx \cup batch
  BY <1>3, <1>4
<1>7. ConvertedOK'
  <2>1. \A i \in DOMAIN ctx' : ctx'[i] = job_from_pb(stored[i])
    BY <1>4 DEF Inv, ConvertedOK
  <2> QED
    BY <1>1, <2>1 DEF Inv, ConvertedOK, Drainable, RecordError, IsSent
<1>8. /\ TypeOK' /\ StoredOK'
      /\ CallsOK' /\ LossesHaveACause' /\ OneBatchPerCall'
  BY <1>1, <1>5, <1>6, StageMoves
<1> QED
  BY <1>7, <1>8 DEF Inv

\* A job is dead-lettered.
LEMMA DeadLetterInv ==
  ASSUME Inv, NEW j \in Jobs, DeadLetter(j)
  PROVE  Inv'
<1>1. /\ stage[j] \in {"queued", "leased", "stranded"} /\ stage' = [stage EXCEPT ![j] = "dead"]
      /\ UNCHANGED <<request, stored, ctx, call, lost, spoiled, record, replay>>
  BY DEF DeadLetter
<1>2. ConvertedOK'
  BY <1>1, ConvertedKept
<1>3. stage \in [Jobs -> {"new", "refused", "queued", "leased", "stranded", "dead", "drained"}]
  BY DEF Inv, TypeOK
<1>4. /\ {j} \in SUBSET Jobs /\ \A i \in {j} : stage[i] \in {"queued", "leased", "stranded"}
      /\ \A i \in {j} : stage'[i] \in {"leased", "stranded", "dead"}
      /\ \A i \in Jobs \ {j} : stage'[i] = stage[i]
      /\ DOMAIN stage' = Jobs /\ stage' = [i \in Jobs |-> stage'[i]]
      /\ DOMAIN ctx' \subseteq DOMAIN ctx \cup {j}
  BY <1>1, <1>3
<1>5. /\ TypeOK' /\ StoredOK'
      /\ CallsOK' /\ LossesHaveACause' /\ OneBatchPerCall'
  BY <1>1, <1>4, StageMoves
<1> QED
  BY <1>2, <1>5 DEF Inv

\* The application replays a record.
LEMMA ReplayInv ==
  ASSUME Inv, NEW j \in Jobs, Replay(j)
  PROVE  Inv'
<1>1. /\ j \in DOMAIN record /\ UNCHANGED <<request, stored, stage, ctx, call, lost, spoiled, record>>
      /\ Sendable(to_enqueue_request(record[j]))
      /\ \E m : IsSent(m, to_enqueue_request(record[j])) /\ replay' = With(replay, j, m)
  BY DEF Replay, IsSent
<1>2. PICK m : IsSent(m, to_enqueue_request(record[j])) /\ replay' = With(replay, j, m)
  BY <1>1
<1>3. Drained' = Drained
  BY <1>1 DEF Drained
<1>4. DOMAIN replay' = DOMAIN replay \cup {j}
  BY <1>2 DEF With
<1>5. TypeOK'
  BY <1>1, <1>3, <1>4 DEF Inv, TypeOK, Gone
<1>6. StoredOK'
  BY <1>1 DEF Inv, StoredOK, IsSent
<1>7. ConvertedOK'
  <2>1. \A i \in DOMAIN replay' :
          /\ Sendable(to_enqueue_request(record[i]))
          /\ IsSent(replay'[i], to_enqueue_request(record[i]))
    BY <1>1, <1>2 DEF With, Inv, ConvertedOK
  <2> QED
    BY <1>1, <2>1 DEF Inv, ConvertedOK, Drainable, RecordError, IsSent
<1> QED
  BY <1>1, <1>3, <1>5, <1>6, <1>7, DrainsKept DEF Inv

\* Steps that leave the jobs, contexts and replays alone.
LEMMA JobsKept ==
  ASSUME Inv, UNCHANGED <<request, stored, stage>>
  PROVE  StoredOK' /\ Drained' = Drained
BY DEF Inv, StoredOK, IsSent, Drained

\* A drainer asks for dead letters.
LEMMA DrainInv ==
  ASSUME Inv, NEW d \in Drainers, Drain(d)
  PROVE  Inv'
<1>1. /\ call[d].pc = "idle" /\ UNCHANGED <<request, stored, stage, ctx, lost, spoiled, record, replay>>
      /\ \E max \in Maxima, queue \in Queues \cup {Unset} :
           call' = [call EXCEPT ![d] =
             [pc |-> "request", asked |-> [queue |-> queue, max |-> max],
              req |-> [queue |-> queue, max |-> LargerOf(max, 1)],
              batch |-> {}, removed |-> {}]]
  BY DEF Drain
<1>2. PICK max \in Maxima, queue \in Queues \cup {Unset} :
        call' = [call EXCEPT ![d] =
          [pc |-> "request", asked |-> [queue |-> queue, max |-> max],
           req |-> [queue |-> queue, max |-> LargerOf(max, 1)],
           batch |-> {}, removed |-> {}]]
  BY <1>1
<1>3. call = [e \in Drainers |-> call[e]]
  BY DEF Inv, CallsOK
<1>4. /\ call'[d] = [pc |-> "request", asked |-> [queue |-> queue, max |-> max],
                     req |-> [queue |-> queue, max |-> LargerOf(max, 1)],
                     batch |-> {}, removed |-> {}]
      /\ call' = [e \in Drainers |-> call'[e]]
      /\ \A e \in Drainers \ {d} : call'[e] = call[e]
  BY <1>2, <1>3
<1>5. /\ call'[d].pc = "request" /\ call'[d].batch = {} /\ call'[d].removed = {}
      /\ call'[d].asked.max = max
      /\ call'[d].req = [queue |-> call'[d].asked.queue, max |-> LargerOf(call'[d].asked.max, 1)]
      /\ call'[d] = [pc |-> call'[d].pc, asked |-> call'[d].asked, req |-> call'[d].req,
                     batch |-> call'[d].batch, removed |-> call'[d].removed]
  BY <1>4
<1>6. call[d].batch = {}
  BY <1>1 DEF Inv, TypeOK
<1>7. StoredOK' /\ Drained' = Drained
  BY <1>1, JobsKept
<1>8. TypeOK'
  BY <1>1, <1>4, <1>5, <1>7 DEF Inv, TypeOK, Gone
<1>9. ConvertedOK'
  BY <1>1, ConvertedKept
<1>10. CallsOK'
  <2>1. \A j \in DOMAIN spoiled' : spoiled'[j] \subseteq Drained'
    BY <1>1, <1>7 DEF Inv, CallsOK
  <2>2. ASSUME NEW e \in Drainers
        PROVE  /\ call'[e] = [pc |-> call'[e].pc, asked |-> call'[e].asked, req |-> call'[e].req,
                              batch |-> call'[e].batch, removed |-> call'[e].removed]
               /\ call'[e].pc \in {"request", "reply"} =>
                    call'[e].req = [queue |-> call'[e].asked.queue,
                                    max |-> LargerOf(call'[e].asked.max, 1)]
               /\ call'[e].pc = "request" => call'[e].removed = {}
               /\ call'[e].removed \subseteq Drained'
    <3>1. CASE e = d
      BY <1>5, <3>1
    <3>2. CASE e # d
      BY <1>4, <1>7, <3>2 DEF Inv, CallsOK
    <3> QED
      BY <3>1, <3>2
  <2>3. call' = [e \in Drainers |-> call'[e]]
    BY <1>4
  <2> QED
    BY <2>1, <2>2, <2>3 DEF CallsOK
<1>11. LossesHaveACause'
  BY <1>1, <1>4, <1>6 DEF Inv, LossesHaveACause, Drainable, RecordError
<1>12. OneBatchPerCall'
  <2>1. Cardinality(call'[d].removed) <= LargerOf(call'[d].asked.max, 1)
    <3>1. max \in Int
      BY JobsAssumption
    <3> QED
      BY <1>5, <3>1, FS_EmptySet DEF LargerOf
  <2>2. \A j \in call'[d].removed : FALSE
    BY <1>5
  <2> QED
    BY <1>1, <1>4, <2>1, <2>2 DEF Inv, OneBatchPerCall
<1> QED
  BY <1>7, <1>8, <1>9, <1>10, <1>11, <1>12 DEF Inv

\* The server hands out a batch.
LEMMA ServerDrainsInv ==
  ASSUME Inv, NEW d \in Drainers, ServerDrains(d)
  PROVE  Inv'
<1> DEFINE req == call[d].req
           fitting == {j \in Jobs : /\ stage[j] = "dead"
                                    /\ req.queue = Unset \/ stored[j].queue = req.queue}
<1>1. PICK batch \in SUBSET fitting :
        /\ Cardinality(batch) <= req.max
        /\ stage' = [j \in Jobs |-> IF j \in batch THEN "drained" ELSE stage[j]]
        /\ call' = [call EXCEPT ![d].pc = "reply", ![d].batch = batch,
                                ![d].removed = @ \cup batch]
  BY DEF ServerDrains
<1>2. call[d].pc = "request" /\ UNCHANGED <<request, stored, ctx, lost, spoiled, record, replay>>
  BY DEF ServerDrains
<1>3. /\ batch \subseteq Jobs /\ \A j \in batch : stage[j] = "dead"
      /\ \A j \in batch : req.queue = Unset \/ stored[j].queue = req.queue
  OBVIOUS
<1>4. /\ call = [e \in Drainers |-> call[e]] /\ call[d].removed = {}
      /\ req = [queue |-> call[d].asked.queue, max |-> LargerOf(call[d].asked.max, 1)]
      /\ call[d] = [pc |-> call[d].pc, asked |-> call[d].asked, req |-> call[d].req,
                    batch |-> call[d].batch, removed |-> call[d].removed]
  BY <1>2 DEF Inv, CallsOK
<1>5. /\ call'[d] = [pc |-> "reply", asked |-> call[d].asked, req |-> call[d].req,
                     batch |-> batch, removed |-> batch]
      /\ call' = [e \in Drainers |-> call'[e]]
      /\ \A e \in Drainers \ {d} : call'[e] = call[e]
  BY <1>1, <1>4
<1>6. /\ call'[d].pc = "reply" /\ call'[d].batch = batch /\ call'[d].removed = batch
      /\ call'[d].asked = call[d].asked /\ call'[d].req = req
      /\ call'[d] = [pc |-> call'[d].pc, asked |-> call'[d].asked, req |-> call'[d].req,
                     batch |-> call'[d].batch, removed |-> call'[d].removed]
  BY <1>5
<1>7. \A j \in Jobs : stage'[j] = IF j \in batch THEN "drained" ELSE stage[j]
  BY <1>1
<1>8. Drained' = Drained \cup batch /\ Drained \cap batch = {}
  BY <1>3, <1>7 DEF Drained
<1>9. req.queue = call[d].asked.queue /\ req.max = LargerOf(call[d].asked.max, 1)
  BY <1>4
<1>10. Cardinality(batch) <= req.max
  BY <1>1
<1> HIDE DEF req, fitting
<1>11. TypeOK'
  <2>1. stage' \in [Jobs -> {"new", "refused", "queued", "leased", "stranded", "dead", "drained"}]
    BY <1>1, <1>7 DEF Inv, TypeOK
  <2>2. DOMAIN stored = {j \in Jobs : stage'[j] \notin {"new", "refused"}}
    BY <1>3, <1>7 DEF Inv, TypeOK
  <2>3. /\ Gone' = Gone
        /\ Gone \subseteq Drained' /\ DOMAIN record \subseteq Drained' \ Gone
    BY <1>2, <1>8 DEF Inv, TypeOK, Gone
  <2>4. ASSUME NEW e \in Drainers
        PROVE  /\ call'[e].pc \in {"idle", "request", "reply"}
               /\ call'[e].batch # {} => call'[e].pc = "reply"
               /\ call'[e].batch \subseteq Drained' \ (Gone \cup DOMAIN record)
    <3>1. CASE e = d
      BY <1>6, <1>8, <3>1 DEF Inv, TypeOK
    <3>2. CASE e # d
      BY <1>5, <1>8, <3>2 DEF Inv, TypeOK
    <3> QED
      BY <3>1, <3>2
  <2>5. ASSUME NEW e \in Drainers, NEW f \in Drainers \ {e}
        PROVE  call'[e].batch \cap call'[f].batch = {}
    <3>1. call[e].batch \subseteq Drained /\ call[f].batch \subseteq Drained
      BY DEF Inv, TypeOK
    <3>2. CASE e = d
      BY <1>5, <1>6, <1>8, <3>1, <3>2
    <3>3. CASE f = d
      BY <1>5, <1>6, <1>8, <3>1, <3>3
    <3>4. CASE e # d /\ f # d
      BY <1>5, <3>4 DEF Inv, TypeOK
    <3> QED
      BY <3>2, <3>3, <3>4
  <2>6. /\ DOMAIN request \subseteq Jobs /\ DOMAIN ctx \subseteq DOMAIN stored
        /\ DOMAIN replay \subseteq DOMAIN record
    BY DEF Inv, TypeOK
  <2> QED
    BY <1>2, <2>1, <2>2, <2>3, <2>4, <2>5, <2>6 DEF TypeOK
<1>12. StoredOK'
  <2>1. \A j \in Jobs : stage'[j] \in {"new", "refused"} => j \in DOMAIN request
    BY <1>7 DEF Inv, StoredOK
  <2> QED
    BY <1>2, <2>1 DEF Inv, StoredOK, IsSent
<1>13. ConvertedOK'
  BY <1>2, ConvertedKept
<1>14. CallsOK'
  BY <1>2, <1>4, <1>5, <1>6, <1>8, <1>9 DEF Inv, CallsOK
<1>15. LossesHaveACause'
  <2>1. ASSUME NEW j \in Jobs, stage'[j] = "drained"
        PROVE  \/ j \in DOMAIN record \cup lost
               \/ \E e \in Drainers : j \in call'[e].batch
               \/ ~Drainable(j)
               \/ j \in DOMAIN spoiled /\ \E i \in spoiled[j] : RecordError(i) = "ValueError"
    <3>1. CASE j \in batch
      BY <1>6, <3>1
    <3>2. CASE j \notin batch
      <4>1. stage[j] = "drained"
        BY <1>7, <2>1, <3>2
      <4>2. call[d].batch = {}
        BY <1>2 DEF Inv, TypeOK
      <4> QED
        BY <1>5, <4>1, <4>2 DEF Inv, LossesHaveACause
    <3> QED
      BY <3>1, <3>2
  <2> QED
    BY <1>2, <2>1 DEF LossesHaveACause, Drainable, RecordError
<1>16. OneBatchPerCall'
  <2>1. /\ Cardinality(call'[d].removed) <= LargerOf(call'[d].asked.max, 1)
        /\ call'[d].asked.queue # Unset =>
             \A j \in call'[d].removed : stored[j].queue = call'[d].asked.queue
    BY <1>3, <1>6, <1>9, <1>10
  <2> QED
    BY <1>2, <1>5, <2>1 DEF Inv, OneBatchPerCall
<1> QED
  BY <1>11, <1>12, <1>13, <1>14, <1>15, <1>16 DEF Inv

\* A call ends: it gives up its batch.
LEMMA CallEnds ==
  ASSUME Inv, NEW d \in Drainers, call' = [call EXCEPT ![d] = Idle],
         UNCHANGED <<request, stored, stage>>,
         \A j \in DOMAIN spoiled' : spoiled'[j] \subseteq Drained
  PROVE  /\ StoredOK' /\ CallsOK' /\ OneBatchPerCall' /\ Drained' = Drained
         /\ call'[d].pc = "idle" /\ call'[d].batch = {}
         /\ \A e \in Drainers \ {d} : call'[e] = call[e]
<1>1. call = [e \in Drainers |-> call[e]]
  BY DEF Inv, CallsOK
<1>2. /\ call'[d] = Idle
      /\ call' = [e \in Drainers |-> call'[e]]
      /\ \A e \in Drainers \ {d} : call'[e] = call[e]
  BY <1>1
<1>3. /\ call'[d].pc = "idle" /\ call'[d].batch = {} /\ call'[d].removed = {}
      /\ call'[d].asked = NoDrain
      /\ call'[d] = [pc |-> call'[d].pc, asked |-> call'[d].asked, req |-> call'[d].req,
                     batch |-> call'[d].batch, removed |-> call'[d].removed]
  BY <1>2 DEF Idle
<1>4. StoredOK' /\ Drained' = Drained
  BY JobsKept
<1>5. CallsOK'
  <2>1. ASSUME NEW e \in Drainers
        PROVE  /\ call'[e] = [pc |-> call'[e].pc, asked |-> call'[e].asked, req |-> call'[e].req,
                              batch |-> call'[e].batch, removed |-> call'[e].removed]
               /\ call'[e].pc \in {"request", "reply"} =>
                    call'[e].req = [queue |-> call'[e].asked.queue,
                                    max |-> LargerOf(call'[e].asked.max, 1)]
               /\ call'[e].pc = "request" => call'[e].removed = {}
               /\ call'[e].removed \subseteq Drained
    <3>1. CASE e = d
      BY <1>3, <3>1
    <3>2. CASE e # d
      BY <1>2, <3>2 DEF Inv, CallsOK
    <3> QED
      BY <3>1, <3>2
  <2> QED
    BY <1>2, <1>4, <2>1 DEF CallsOK
<1>6. OneBatchPerCall'
  <2>1. Cardinality({}) = 0 /\ NoDrain.max = 0 /\ NoDrain.queue = Unset /\ LargerOf(0, 1) = 1
    BY FS_EmptySet DEF LargerOf, NoDrain
  <2>2. /\ Cardinality(call'[d].removed) <= LargerOf(call'[d].asked.max, 1)
        /\ call'[d].asked.queue = Unset
    BY <1>3, <2>1
  <2> QED
    BY <1>2, <2>2 DEF Inv, OneBatchPerCall
<1> QED
  BY <1>2, <1>3, <1>4, <1>5, <1>6

\* When a call ends, its batch is split: some of it is handed over, the rest gone
\* or malformed.
LEMMA BatchSplit ==
  ASSUME Inv, NEW d \in Drainers, call' = [call EXCEPT ![d] = Idle],
         UNCHANGED <<request, stored, stage, ctx, replay>>,
         \A j \in DOMAIN spoiled' : spoiled'[j] \subseteq Drained,
         NEW jobs, NEW gone, jobs \cap gone = {},
         jobs \subseteq call[d].batch, gone \subseteq call[d].batch,
         DOMAIN record' = DOMAIN record \cup jobs, Gone' = Gone \cup gone
  PROVE  TypeOK'
<1>1. /\ StoredOK' /\ CallsOK' /\ OneBatchPerCall' /\ Drained' = Drained
      /\ call'[d].pc = "idle" /\ call'[d].batch = {}
      /\ \A e \in Drainers \ {d} : call'[e] = call[e]
  BY CallEnds
<1>2. TypeOK
  BY DEF Inv
<1>3. /\ call[d].batch \subseteq Drained \ (Gone \cup DOMAIN record)
      /\ Gone \subseteq Drained /\ DOMAIN record \subseteq Drained \ Gone
  BY <1>2 DEF TypeOK
<1>4. Gone' \subseteq Drained' /\ DOMAIN record' \subseteq Drained' \ Gone'
  BY <1>1, <1>3
<1>5. ASSUME NEW e \in Drainers
      PROVE  /\ call'[e].pc \in {"idle", "request", "reply"}
             /\ call'[e].batch # {} => call'[e].pc = "reply"
             /\ call'[e].batch \subseteq Drained' \ (Gone' \cup DOMAIN record')
             /\ \A f \in Drainers \ {e} : call'[e].batch \cap call'[f].batch = {}
  <2>1. CASE e = d
    BY <1>1, <2>1
  <2>2. CASE e # d
    <3>1. /\ call[e].pc \in {"idle", "request", "reply"}
          /\ call[e].batch # {} => call[e].pc = "reply"
          /\ call[e].batch \subseteq Drained \ (Gone \cup DOMAIN record)
          /\ \A f \in Drainers \ {e} : call[e].batch \cap call[f].batch = {}
      BY <1>2 DEF TypeOK
    <3>2. call[e].batch \cap call[d].batch = {}
      BY <2>2, <3>1
    <3>3. call'[e] = call[e]
      BY <1>1, <2>2
    <3> QED
      BY <1>1, <3>1, <3>2, <3>3
  <2> QED
    BY <2>1, <2>2
<1>6. /\ stage' \in [Jobs -> {"new", "refused", "queued", "leased", "stranded", "dead", "drained"}]
      /\ DOMAIN stored' = {j \in Jobs : stage'[j] \notin {"new", "refused"}}
      /\ DOMAIN request' \subseteq Jobs /\ DOMAIN ctx' \subseteq DOMAIN stored'
      /\ DOMAIN replay' \subseteq DOMAIN record'
  BY <1>2 DEF TypeOK
<1> QED
  BY <1>4, <1>5, <1>6 DEF TypeOK

\* The call fails, and its batch with it.
LEMMA DrainFailsInv ==
  ASSUME Inv, NEW d \in Drainers, DrainFails(d)
  PROVE  Inv'
<1>1. /\ lost' = lost \cup call[d].batch /\ call' = [call EXCEPT ![d] = Idle]
      /\ UNCHANGED <<request, stored, stage, ctx, spoiled, record, replay>>
  BY DEF DrainFails
<1>2. \A j \in DOMAIN spoiled' : spoiled'[j] \subseteq Drained
  BY <1>1 DEF Inv, CallsOK
<1>3. /\ StoredOK' /\ CallsOK' /\ OneBatchPerCall' /\ Drained' = Drained
      /\ call'[d].pc = "idle" /\ call'[d].batch = {}
      /\ \A e \in Drainers \ {d} : call'[e] = call[e]
  BY <1>1, <1>2, CallEnds
<1>4. TypeOK'
  <2>1. Gone' = Gone \cup call[d].batch
    BY <1>1 DEF Gone
  <2>2. DOMAIN record' = DOMAIN record \cup {} /\ {} \cap call[d].batch = {}
    BY <1>1
  <2> QED
    BY <1>1, <1>2, <2>1, <2>2, BatchSplit
<1>5. ConvertedOK'
  BY <1>1, ConvertedKept
<1>6. LossesHaveACause'
  BY <1>1, <1>3 DEF Inv, LossesHaveACause, Drainable, RecordError
<1> QED
  BY <1>3, <1>4, <1>5, <1>6 DEF Inv

\* The answer arrives: every record of it that can be converted is handed over, or
\* the call raises over it and all are gone.
LEMMA DrainAnsweredInv ==
  ASSUME Inv, NEW d \in Drainers, DrainAnswered(d)
  PROVE  Inv'
<1> DEFINE raises == \E j \in call[d].batch : RecordError(j) = "ValueError"
           jobs == IF raises THEN {} ELSE {j \in call[d].batch : Drainable(j)}
           spoils == IF raises THEN call[d].batch ELSE {}
<1>1. AnswerEnds(d, jobs, spoils)
  BY DEF DrainAnswered
<1>2. /\ jobs \subseteq call[d].batch /\ spoils \subseteq call[d].batch /\ jobs \cap spoils = {}
      /\ \A j \in jobs : Drainable(j)
  OBVIOUS
<1>3. /\ \A j \in call[d].batch \ (jobs \cup spoils) : ~Drainable(j)
      /\ spoils # {} => \E i \in spoils : RecordError(i) = "ValueError"
  OBVIOUS
<1> HIDE DEF jobs, spoils
<1>4. /\ record' = [j \in DOMAIN record \cup jobs |->
                      IF j \in jobs THEN dead_letter_record_from_pb(stored[j]) ELSE record[j]]
      /\ spoiled' = [j \in DOMAIN spoiled \cup spoils |->
                       IF j \in spoils THEN spoils ELSE spoiled[j]]
      /\ call' = [call EXCEPT ![d] = Idle]
      /\ UNCHANGED <<request, stored, stage, ctx, lost, replay>>
  BY <1>1 DEF AnswerEnds
<1>5. call[d].batch \subseteq Drained \ (Gone \cup DOMAIN record)
  BY DEF Inv, TypeOK
<1>6. /\ DOMAIN spoiled' = DOMAIN spoiled \cup spoils
      /\ \A j \in spoils : spoiled'[j] = spoils
      /\ \A j \in DOMAIN spoiled : spoiled'[j] = spoiled[j]
  BY <1>2, <1>4, <1>5 DEF Gone
<1>7. \A j \in DOMAIN spoiled' : spoiled'[j] \subseteq Drained
  BY <1>2, <1>5, <1>6 DEF Inv, CallsOK
<1>8. /\ StoredOK' /\ CallsOK' /\ OneBatchPerCall' /\ Drained' = Drained
      /\ call'[d].pc = "idle" /\ call'[d].batch = {}
      /\ \A e \in Drainers \ {d} : call'[e] = call[e]
  BY <1>4, <1>7, CallEnds
<1>9. /\ DOMAIN record' = DOMAIN record \cup jobs
      /\ \A j \in jobs : record'[j] = dead_letter_record_from_pb(stored[j])
      /\ \A j \in DOMAIN record : record'[j] = record[j]
  BY <1>2, <1>4, <1>5
<1>10. TypeOK'
  <2>1. Gone' = Gone \cup spoils
    BY <1>4, <1>6 DEF Gone
  <2> QED
    BY <1>2, <1>4, <1>7, <1>9, <2>1, BatchSplit
<1>11. ConvertedOK'
  <2>1. \A j \in DOMAIN ctx : ctx[j] = job_from_pb(stored[j])
    BY DEF Inv, ConvertedOK
  <2>2. \A j \in DOMAIN record' :
          Drainable(j) /\ record'[j] = dead_letter_record_from_pb(stored[j])
    BY <1>2, <1>9 DEF Inv, ConvertedOK
  <2>3. \A j \in DOMAIN replay :
          /\ Sendable(to_enqueue_request(record'[j]))
          /\ IsSent(replay[j], to_enqueue_request(record'[j]))
    BY <1>9 DEF Inv, TypeOK, ConvertedOK
  <2> QED
    BY <1>4, <2>1, <2>2, <2>3 DEF ConvertedOK, Drainable, RecordError, IsSent
<1>12. LossesHaveACause'
  <2>1. ASSUME NEW j \in Jobs, stage[j] = "drained"
        PROVE  \/ j \in DOMAIN record' \cup lost
               \/ \E e \in Drainers : j \in call'[e].batch
               \/ ~Drainable(j)
               \/ j \in DOMAIN spoiled' /\ \E i \in spoiled'[j] : RecordError(i) = "ValueError"
    <3>1. CASE j \in call[d].batch
      BY <1>3, <1>6, <1>9, <3>1
    <3>2. CASE j \notin call[d].batch
      BY <1>6, <1>8, <1>9, <2>1, <3>2 DEF Inv, LossesHaveACause
    <3> QED
      BY <3>1, <3>2
  <2> QED
    BY <1>4, <2>1 DEF LossesHaveACause, Drainable, RecordError
<1> QED
  BY <1>8, <1>10, <1>11, <1>12 DEF Inv

\* The invariant, one action at a time.
LEMMA NextInv == Inv /\ [Next]_vars => Inv'
<1> SUFFICES ASSUME Inv, [Next]_vars PROVE Inv'
  OBVIOUS
<1>1. CASE UNCHANGED vars
  <2>1. Drained' = Drained /\ ConvertedOK' /\ StoredOK'
    BY <1>1, ConvertedKept, JobsKept DEF vars
  <2>2. CallsOK' /\ LossesHaveACause' /\ OneBatchPerCall'
    BY <1>1, <2>1, DrainsKept DEF vars
  <2>3. TypeOK'
    BY <1>1, <2>1 DEF vars, Inv, TypeOK, Gone
  <2> QED
    BY <2>1, <2>2, <2>3 DEF Inv
<1>2. ASSUME NEW j \in Jobs, Enqueue(j) \/ DeadLetter(j) \/ Replay(j)
      PROVE  Inv'
  BY <1>2, EnqueueInv, DeadLetterInv, ReplayInv
<1>3. ASSUME NEW d \in Drainers,
             Drain(d) \/ ServerDrains(d) \/ DrainFails(d) \/ DrainAnswered(d)
      PROVE  Inv'
  BY <1>3, DrainInv, ServerDrainsInv, DrainFailsInv, DrainAnsweredInv
<1> QED
  BY <1>1, <1>2, <1>3, ReserveInv DEF Next

\* Where every value came from, always.
LEMMA Invariance == Spec => []Inv
<1> QED
  BY InitInv, NextInv, PTL DEF Spec

-----------------------------------------------------------------------------
(* What follows from it.                                                   *)

\* What an application may put into a request.
LEMMA RequestTypes ==
  ASSUME NEW req \in Requests
  PROVE  /\ Customs(req.custom)
         /\ req.trace_context # Unset => req.trace_context \in ValidTraceparents
         /\ req.scheduled_at = Unset \/ (req.scheduled_at \in Int /\ req.scheduled_at <= LastInstant)
BY JobsAssumption

\* What the server holds of a job of this client is what its request says.
LEMMA AsRequested ==
  ASSUME Inv, NEW j \in DOMAIN stored \cap DOMAIN request
  PROVE  LET m == stored[j]
             req == request[j]
         IN /\ Sendable(req) /\ m.id = j
            /\ m.queue = req.queue /\ m.job_type = req.job_type /\ m.payload = req.payload
            /\ m.priority \in Priorities
            /\ req.priority # Unset => m.priority = req.priority
            /\ req.max_attempts # Unset => m.max_attempts = req.max_attempts
            /\ m.custom = [k \in DOMAIN req.custom |-> primitive_to_pb(req.custom[k])]
            /\ req.trace_context # Unset => m.trace_context = req.trace_context
            /\ m.enqueued_at = 0 /\ m.lease_expires_at = 0 /\ m.failed_at = 0
            /\ m.scheduled_at =
                 IF req.scheduled_at # Unset /\ datetime_to_millis(req.scheduled_at) >= 0
                   THEN FromDatetime(req.scheduled_at) ELSE Unset
<1>1. Sendable(request[j])
  BY DEF Inv, StoredOK
<1>2. PICK m : IsSent(m, request[j]) /\ stored[j] = Stores(j, m)
  BY DEF Inv, StoredOK
<1>3. PICK headers \in Headers :
        m = _inject_trace_into_jobs(enqueue_request_to_pb(request[j]), headers)
  BY <1>2 DEF IsSent
<1> DEFINE sent == [k \in DOMAIN request[j].custom |-> primitive_to_pb(request[j].custom[k])]
           at == IF request[j].scheduled_at # Unset
                      /\ datetime_to_millis(request[j].scheduled_at) >= 0
                   THEN FromDatetime(request[j].scheduled_at) ELSE Unset
<1>4. /\ m.queue = request[j].queue /\ m.job_type = request[j].job_type
      /\ m.payload = request[j].payload /\ m.priority = request[j].priority
      /\ m.max_attempts = request[j].max_attempts /\ m.custom = sent /\ m.scheduled_at = at
      /\ request[j].trace_context # Unset => m.trace_context = request[j].trace_context
  BY <1>3, InjectKeeps
<1>5. request[j].priority \in Priorities \cup {Unset} /\ Defaults.priority \in Priorities
  BY <1>1, JobsAssumption DEF Sendable
<1> HIDE DEF sent, at
<1>6. /\ stored[j].id = j /\ stored[j].queue = m.queue /\ stored[j].job_type = m.job_type
      /\ stored[j].payload = m.payload
      /\ stored[j].priority = (IF m.priority = Unset THEN Defaults.priority ELSE m.priority)
      /\ m.max_attempts # Unset => stored[j].max_attempts = m.max_attempts
      /\ stored[j].custom = m.custom /\ stored[j].trace_context = m.trace_context
      /\ stored[j].enqueued_at = 0 /\ stored[j].lease_expires_at = 0 /\ stored[j].failed_at = 0
      /\ stored[j].scheduled_at = m.scheduled_at
  BY <1>2 DEF Stores
<1>7. /\ stored[j].priority \in Priorities
      /\ request[j].priority # Unset => stored[j].priority = request[j].priority
  BY <1>4, <1>5, <1>6
<1> QED
  BY <1>1, <1>4, <1>6, <1>7 DEF sent, at

\* Every custom value at the server is one that a oneof can hold, and has a value
\* when it is this client's.
LEMMA StoredCustom ==
  ASSUME Inv, NEW j \in DOMAIN stored
  PROVE  /\ PbCustoms(stored[j].custom)
         /\ j \in DOMAIN request => \A k \in DOMAIN stored[j].custom : HasValue(stored[j].custom[k])
<1>1. CASE j \in DOMAIN request
  <2> DEFINE custom == request[j].custom
  <2>1. Customs(custom) /\ \A k \in DOMAIN custom : Encodable(custom[k])
    BY <1>1, AsRequested, RequestTypes DEF Sendable, Inv, StoredOK
  <2>2. stored[j].custom = [k \in DOMAIN custom |-> primitive_to_pb(custom[k])]
    BY <1>1, AsRequested
  <2> HIDE DEF custom
  <2>3. PbCustoms(stored[j].custom)
    BY <2>1, <2>2, SentCustom
  <2> QED
    BY <2>1, <2>2, <2>3, CustomComesBack
<1>2. CASE j \notin DOMAIN request
  BY <1>2, JobsAssumption DEF Inv, StoredOK
<1> QED
  BY <1>1, <1>2

\* A replay as the server's record has it.
LEMMA AsRecorded ==
  ASSUME Inv, NEW j \in DOMAIN replay
  PROVE  LET r == replay[j]
             m == stored[j]
         IN /\ Drainable(j) /\ Sendable(to_enqueue_request(record[j]))
            /\ r.queue = m.queue /\ r.job_type = m.job_type /\ r.payload = m.payload
            /\ r.priority = m.priority /\ r.custom = m.custom
            /\ r.max_attempts = IF m.max_attempts = 0 THEN Unset ELSE m.max_attempts
            /\ m.trace_context \in ValidTraceparents => r.trace_context = m.trace_context
            /\ r.scheduled_at = Unset /\ r.idempotency_key = Unset
<1>1. j \in DOMAIN record /\ j \in DOMAIN stored
  BY DrainedWasStored DEF Inv, TypeOK
<1>2. /\ Drainable(j) /\ record[j] = Converted(stored[j])
      /\ Sendable(to_enqueue_request(record[j]))
      /\ IsSent(replay[j], to_enqueue_request(record[j]))
  BY <1>1 DEF Inv, ConvertedOK, dead_letter_record_from_pb
<1>3. PICK headers \in Headers :
        replay[j] = _inject_trace_into_jobs(
                      enqueue_request_to_pb(to_enqueue_request(record[j])), headers)
  BY <1>2 DEF IsSent
<1> DEFINE got == [k \in DOMAIN stored[j].custom |-> primitive_from_pb(stored[j].custom[k])]
           req == to_enqueue_request(record[j])
<1>4. [k \in DOMAIN got |-> primitive_to_pb(got[k])] = stored[j].custom
  <2> DEFINE custom == stored[j].custom
  <2>1. PbCustoms(custom)
    BY <1>1, StoredCustom
  <2>2. \A k \in DOMAIN custom : HasValue(custom[k])
    BY <1>2, NothingRaised DEF Drainable, RecordError
  <2> HIDE DEF custom
  <2>3. \A g : g = [k \in DOMAIN custom |-> primitive_from_pb(custom[k])] =>
          [k \in DOMAIN g |-> primitive_to_pb(g[k])] = custom
    BY <2>1, <2>2, CustomGoesBack
  <2>4. got = [k \in DOMAIN custom |-> primitive_from_pb(custom[k])]
    BY DEF custom
  <2> HIDE DEF got
  <2> QED
    BY <2>3, <2>4 DEF custom
<1>5. /\ replay[j].queue = req.queue /\ replay[j].job_type = req.job_type
      /\ replay[j].payload = req.payload /\ replay[j].idempotency_key = req.idempotency_key
      /\ replay[j].priority = req.priority /\ replay[j].max_attempts = req.max_attempts
      /\ replay[j].custom = [k \in DOMAIN req.custom |-> primitive_to_pb(req.custom[k])]
      /\ req.scheduled_at = Unset => replay[j].scheduled_at = Unset
      /\ req.trace_context # Unset => replay[j].trace_context = req.trace_context
  BY <1>3, InjectKeeps
<1> HIDE DEF got
<1>6. /\ record[j].queue = stored[j].queue /\ record[j].job_type = stored[j].job_type
      /\ record[j].payload = stored[j].payload /\ record[j].priority = stored[j].priority
      /\ record[j].max_attempts = stored[j].max_attempts /\ record[j].custom = got
      /\ record[j].trace_context = trace_context_from_pb(stored[j].trace_context)
  BY <1>2 DEF Converted, got
<1>7. /\ req.queue = record[j].queue /\ req.job_type = record[j].job_type
      /\ req.payload = record[j].payload /\ req.priority = record[j].priority
      /\ req.max_attempts = (IF record[j].max_attempts = 0 THEN Unset ELSE record[j].max_attempts)
      /\ req.custom = record[j].custom /\ req.trace_context = record[j].trace_context
      /\ req.scheduled_at = Unset /\ req.idempotency_key = Unset
  BY DEF to_enqueue_request, Replayed
<1> HIDE DEF req
<1>8. replay[j].custom = stored[j].custom
  BY <1>4, <1>5, <1>6, <1>7
<1>9. stored[j].trace_context \in ValidTraceparents =>
        replay[j].trace_context = stored[j].trace_context
  BY <1>5, <1>6, <1>7, NoneIsNoValue DEF trace_context_from_pb
<1> QED
  BY <1>2, <1>5, <1>6, <1>7, <1>8, <1>9

\* Nothing that the client sends is out of the protocol's range.
LEMMA SentIsValid == Inv => NothingInvalidIsSent
<1> SUFFICES ASSUME Inv PROVE NothingInvalidIsSent
  OBVIOUS
<1>1. ASSUME NEW j \in DOMAIN stored \cap DOMAIN request
      PROVE  LET m == stored[j]
             IN /\ m.queue # Unset /\ m.job_type # Unset
                /\ m.priority \in Priorities \cup {Unset}
                /\ m.scheduled_at = Unset \/ m.scheduled_at >= 0
                /\ \A k \in DOMAIN m.custom : HasValue(m.custom[k])
  <2>1. /\ stored[j].queue # Unset /\ stored[j].job_type # Unset
        /\ stored[j].priority \in Priorities \cup {Unset}
    BY AsRequested DEF Sendable
  <2>2. stored[j].scheduled_at = Unset \/ stored[j].scheduled_at >= 0
    <3> DEFINE at == request[j].scheduled_at
    <3>1. at = Unset \/ at \in Int
      BY RequestTypes DEF Inv, StoredOK
    <3>2. stored[j].scheduled_at =
            IF at # Unset /\ datetime_to_millis(at) >= 0 THEN FromDatetime(at) ELSE Unset
      BY AsRequested
    <3> HIDE DEF at
    <3> QED
      BY <3>1, <3>2, Instants
  <2> QED
    BY <2>1, <2>2, StoredCustom
<1>2. ASSUME NEW j \in DOMAIN replay
      PROVE  LET m == replay[j]
             IN /\ m.queue # Unset /\ m.job_type # Unset
                /\ m.priority \in Priorities \cup {Unset}
                /\ m.scheduled_at = Unset \/ m.scheduled_at >= 0
                /\ \A k \in DOMAIN m.custom : HasValue(m.custom[k])
  <2>1. /\ replay[j].queue = stored[j].queue /\ replay[j].job_type = stored[j].job_type
        /\ replay[j].priority = stored[j].priority /\ replay[j].custom = stored[j].custom
        /\ replay[j].scheduled_at = Unset /\ Drainable(j)
        /\ Sendable(to_enqueue_request(record[j]))
    BY AsRecorded
  <2>2. /\ stored[j].job_type # Unset /\ stored[j].priority \in Priorities
        /\ \A k \in DOMAIN stored[j].custom : HasValue(stored[j].custom[k])
    BY <2>1, NothingRaised DEF Drainable, RecordError
  <2>3. record[j].queue = stored[j].queue /\ record[j].queue # Unset
    <3>1. j \in DOMAIN record
      BY DEF Inv, TypeOK
    <3>2. record[j] = Converted(stored[j])
      BY <3>1 DEF Inv, ConvertedOK, dead_letter_record_from_pb
    <3>3. record[j].queue = stored[j].queue
      BY <3>2 DEF Converted
    <3>4. to_enqueue_request(record[j]).queue = record[j].queue
      BY DEF to_enqueue_request, Replayed
    <3> QED
      BY <2>1, <3>3, <3>4 DEF Sendable
  <2> QED
    BY <2>1, <2>2, <2>3
<1> QED
  BY <1>1, <1>2 DEF NothingInvalidIsSent

\* What a producer asked for is what a handler is given.
LEMMA HandlerSees == Inv => HandlerSeesTheRequest
<1> SUFFICES ASSUME Inv, NEW j \in DOMAIN request
             PROVE  /\ j \in DOMAIN stored => Deliverable(j)
                    /\ j \in DOMAIN ctx =>
                         /\ \A f \in {"queue", "job_type", "payload", "custom"} :
                              ctx[j][f] = request[j][f]
                         /\ \A f \in {"priority", "trace_context", "max_attempts"} :
                              request[j][f] # Unset => ctx[j][f] = request[j][f]
                         /\ ctx[j].scheduled_at =
                              IF request[j].scheduled_at = Unset \/ request[j].scheduled_at < 0
                                THEN Unset ELSE request[j].scheduled_at
  BY DEF HandlerSeesTheRequest
<1> DEFINE req == request[j]
           m == stored[j]
<1>1. req \in Requests /\ j \in Jobs
  BY DEF Inv, StoredOK, TypeOK
<1>2. ASSUME j \in DOMAIN stored
      PROVE  Deliverable(j)
  <2>1. m.id = j /\ j \in Int
    <3>1. m.id = j
      BY <1>2, AsRequested
    <3> QED
      BY <1>1, <3>1 DEF Jobs
  <2>2. m.id # Unset
    BY <2>1, NoneIsNoValue
  <2>3. /\ m.job_type # Unset /\ m.priority \in Priorities
        /\ m.enqueued_at = 0 /\ m.lease_expires_at = 0
    BY <1>2, AsRequested DEF Sendable
  <2>4. timestamp_to_datetime(0) # Unset
    <3>1. timestamp_to_datetime(0) = 0
      BY InstantsAssumption DEF timestamp_to_datetime
    <3>2. 0 # Unset
      BY NoneIsNoValue
    <3> QED
      BY <3>1, <3>2
  <2> QED
    BY <1>2, <2>2, <2>3, <2>4, StoredCustom, NothingRaised DEF Deliverable, JobError
<1>3. ASSUME j \in DOMAIN ctx
      PROVE  /\ \A f \in {"queue", "job_type", "payload", "custom"} : ctx[j][f] = req[f]
             /\ \A f \in {"priority", "trace_context", "max_attempts"} :
                  req[f] # Unset => ctx[j][f] = req[f]
             /\ ctx[j].scheduled_at =
                  IF req.scheduled_at = Unset \/ req.scheduled_at < 0
                    THEN Unset ELSE req.scheduled_at
  <2>1. j \in DOMAIN stored /\ ctx[j] = Converted(m)
    BY <1>3 DEF Inv, TypeOK, ConvertedOK, job_from_pb
  <2> DEFINE sent == [k \in DOMAIN req.custom |-> primitive_to_pb(req.custom[k])]
             got == [k \in DOMAIN m.custom |-> primitive_from_pb(m.custom[k])]
  <2>2. m.custom = sent
    BY <2>1, AsRequested
  <2>3. got = req.custom
    <3>1. Customs(req.custom) /\ \A k \in DOMAIN req.custom : Encodable(req.custom[k])
      BY <1>1, <2>1, AsRequested, RequestTypes DEF Sendable
    <3> QED
      BY <2>2, <3>1, CustomComesBack
  <2> HIDE DEF got
  <2>4. /\ ctx[j].queue = m.queue /\ ctx[j].job_type = m.job_type
        /\ ctx[j].payload = m.payload /\ ctx[j].custom = got
        /\ ctx[j].priority = m.priority /\ ctx[j].max_attempts = m.max_attempts
        /\ ctx[j].trace_context = trace_context_from_pb(m.trace_context)
        /\ ctx[j].scheduled_at = _scheduled_at_from_pb(m)
    BY <2>1 DEF Converted, got
  <2>5. /\ m.queue = req.queue /\ m.job_type = req.job_type /\ m.payload = req.payload
        /\ req.priority # Unset => m.priority = req.priority
        /\ req.max_attempts # Unset => m.max_attempts = req.max_attempts
        /\ req.trace_context # Unset => m.trace_context = req.trace_context
        /\ m.scheduled_at =
             IF req.scheduled_at # Unset /\ datetime_to_millis(req.scheduled_at) >= 0
               THEN FromDatetime(req.scheduled_at) ELSE Unset
    BY <2>1, AsRequested
  <2>6. req.trace_context # Unset => ctx[j].trace_context = req.trace_context
    <3>1. req.trace_context # Unset => req.trace_context \in ValidTraceparents
      BY <1>1, RequestTypes
    <3> QED
      BY <2>4, <2>5, <3>1 DEF trace_context_from_pb
  <2>7. ctx[j].scheduled_at =
          IF req.scheduled_at = Unset \/ req.scheduled_at < 0 THEN Unset ELSE req.scheduled_at
    <3> DEFINE at == req.scheduled_at
    <3>1. at = Unset \/ (at \in Int /\ at <= LastInstant)
      BY <1>1, RequestTypes
    <3>2. m.scheduled_at =
            IF at # Unset /\ datetime_to_millis(at) >= 0 THEN FromDatetime(at) ELSE Unset
      BY <2>5
    <3>3. ctx[j].scheduled_at =
            IF m.scheduled_at = Unset THEN Unset ELSE timestamp_to_datetime(m.scheduled_at)
      BY <2>4 DEF _scheduled_at_from_pb
    <3> HIDE DEF at
    <3>4. ctx[j].scheduled_at = IF at = Unset \/ at < 0 THEN Unset ELSE at
      BY <3>1, <3>2, <3>3, Instants
    <3> QED
      BY <3>4 DEF at
  <2>8. /\ ctx[j].queue = req.queue /\ ctx[j].job_type = req.job_type
        /\ ctx[j].payload = req.payload /\ ctx[j].custom = req.custom
        /\ req.priority # Unset => ctx[j].priority = req.priority
        /\ req.max_attempts # Unset => ctx[j].max_attempts = req.max_attempts
    BY <2>3, <2>4, <2>5
  <2> QED
    BY <2>6, <2>7, <2>8
<1> QED
  BY <1>2, <1>3

\* What died is what a replay asks for.
LEMMA ReplayAsks == Inv => ReplayIsFaithful
<1> SUFFICES ASSUME Inv, NEW j \in DOMAIN replay
             PROVE  /\ \A f \in {"queue", "job_type", "payload", "priority", "custom"} :
                         replay[j][f] = stored[j][f]
                    /\ replay[j].max_attempts =
                         IF stored[j].max_attempts = 0 THEN Unset ELSE stored[j].max_attempts
                    /\ stored[j].trace_context \in ValidTraceparents =>
                         replay[j].trace_context = stored[j].trace_context
                    /\ replay[j].scheduled_at = Unset /\ replay[j].idempotency_key = Unset
  BY DEF ReplayIsFaithful
<1> QED
  BY AsRecorded

-----------------------------------------------------------------------------
(* The theorems.                                                           *)

\* A drained job is in one place at most: one call's batch, the application's
\* hands, or gone with a call that failed or raised over it (client.py:556-593).
THEOREM TypeCorrect == Spec => []TypeOK
<1>1. Inv => TypeOK
  BY DEF Inv
<1> QED
  BY <1>1, Invariance, PTL

\* Neither a request nor a replay puts a priority out of range, an instant before
\* the epoch or a value of no type on the wire (_convert.py:103-172).
THEOREM SendsOnlyValid == Spec => []NothingInvalidIsSent
<1> QED
  BY SentIsValid, Invariance, PTL

\* The way from an EnqueueRequest to the handler's JobCtx keeps what was asked for,
\* for every request the types allow (_convert.py:103-308).
THEOREM HandlerIsTold == Spec => []HandlerSeesTheRequest
<1> QED
  BY HandlerSees, Invariance, PTL

\* A replay is the job that died, whoever enqueued it (types.py:396-410).
THEOREM ReplaysFaithfully == Spec => []ReplayIsFaithful
<1> QED
  BY ReplayAsks, Invariance, PTL

\* A record that can be converted is lost only with the answer of its call, or with
\* one of the same answer whose instant is out of range, for any number of drainers,
\* whichever records the server picks (client.py:582-593).
THEOREM LossesExplained == Spec => []LossesHaveACause
<1>1. Inv => LossesHaveACause
  BY DEF Inv
<1> QED
  BY <1>1, Invariance, PTL

\* No call removes more than it asked for, or from another queue (client.py:556-581).
THEOREM RemovesOneBatch == Spec => []OneBatchPerCall
<1>1. Inv => OneBatchPerCall
  BY DEF Inv
<1> QED
  BY <1>1, Invariance, PTL
=============================================================================
