----------------------------- MODULE FleetProofs -----------------------------
(***************************************************************************)
(* The safety of a fleet, and that each of its deliveries is a leased job, *)
(* for any jobs, workers, number of attempts and of crashes.               *)
(***************************************************************************)
EXTENDS Fleet, TLAPS

\* What the server knows of a job.
JobOK(j) ==
  /\ stage[j] = "ready" => attempt[j] # QueueAttempts
  /\ stage[j] = "leased" => attempt[j] >= 1
  /\ stage[j] = "dead" <=> cause[j] # "none"

\* A delivery's lease agrees with the stage of its job, and is reported by what
\* its handler did.
LeaseOK(d) ==
  LET n == attempt[d[1]] IN
  /\ d[2] > n => phase[d] = "none" /\ lease[d] = "none"
  /\ d[2] <= n => phase[d] # "none" /\ lease[d] # "none"
  /\ d[2] < n => lease[d] # "held"
  /\ d[2] = n => (stage[d[1]] = "leased" <=> lease[d] = "held")
  /\ lease[d] = "acked" => result[d] = "returned" /\ stage[d[1]] = "done" /\ d[2] = n
  /\ lease[d] = "nacked" =>
       /\ result[d] \in Ends \ {"returned"}
       /\ d[2] = n => stage[d[1]] \in {"ready", "dead"}
       /\ result[d] = "permanent" => stage[d[1]] = "dead" /\ cause[d[1]] = "rejected" /\ d[2] = n
  /\ d[2] = n /\ stage[d[1]] = "dead" /\ n < QueueAttempts /\ cause[d[1]] # "admin" =>
       lease[d] = "nacked" /\ result[d] = "permanent"
  /\ d[2] = n /\ cause[d[1]] = "rejected" => result[d] = "permanent"

\* A result belongs to the end of a handler, an answer to a report.
ResultOK(d) ==
  /\ phase[d] \in {"none", "wire", "created", "running"} =>
       result[d] = "none" /\ answer[d] = "none"
  /\ phase[d] = "reporting" => result[d] \in Ends

\* An answer that is good tells what was executed, and so does what is recorded.
DeadByIt(d) == d[2] = attempt[d[1]] /\ stage[d[1]] = "dead" /\ cause[d[1]] # "admin"

AnswerOK(d) ==
  phase[d] = "reporting" =>
    /\ answer[d] = "OK" /\ result[d] = "returned" => lease[d] = "acked"
    /\ answer[d] = "OK" /\ result[d] # "returned" => lease[d] = "nacked" /\ ~DeadByIt(d)
    /\ answer[d] = "OK dead_lettered" => lease[d] = "nacked" /\ DeadByIt(d)

ToldOK(d) ==
  /\ told[d] # "none" => phase[d] = "over"
  /\ told[d] = "processed" => lease[d] = "acked"
  /\ told[d] = "retry" => lease[d] = "nacked" /\ ~DeadByIt(d)
  /\ told[d] = "dead_letter" => lease[d] = "nacked" /\ DeadByIt(d)

DeliveryOK(d) == LeaseOK(d) /\ ResultOK(d) /\ AnswerOK(d) /\ ToldOK(d)

\* A request is made for one delivery and says what its handler did.
RequestOK(r) ==
  /\ r.attempt = r.from[2]
  /\ result[r.from] \in Ends
  /\ r.report = IF result[r.from] = "returned" THEN "ack" ELSE Directive(result[r.from])
  /\ phase[r.from] \in {"reporting", "over"}

Inv ==
  /\ TypeOK
  /\ \A j \in Jobs : JobOK(j)
  /\ \A d \in Deliveries : DeliveryOK(d)
  /\ \A r \in requests : RequestOK(r)

-----------------------------------------------------------------------------
\* A delivery is a job and the number of an attempt.
LEMMA DeliveryIs ==
  /\ \A d \in Deliveries : /\ d[1] \in Jobs /\ d[2] \in 1 .. QueueAttempts /\ d[2] \in Nat
                           /\ d = <<d[1], d[2]>>
                           /\ d = Latest(d[1]) <=> d[2] = attempt[d[1]]
  /\ \A j \in Jobs, n \in 1 .. QueueAttempts :
       <<j, n>> \in Deliveries /\ <<j, n>>[1] = j /\ <<j, n>>[2] = n
BY FleetAssumption DEF Deliveries, Latest

\* Before the first delivery.
LEMMA InitInv == Init => Inv
<1> SUFFICES ASSUME Init PROVE Inv
  OBVIOUS
<1>1. QueueAttempts \in Nat \ {0} /\ MaxStops \in Nat
  BY FleetAssumption
<1>2. TypeOK
  BY <1>1 DEF Init, TypeOK, Active, Ends
<1>3. \A j \in Jobs : JobOK(j)
  BY <1>1 DEF Init, JobOK
<1>4. ASSUME NEW d \in Deliveries
      PROVE  DeliveryOK(d)
  BY <1>1, DeliveryIs
  DEF Init, DeliveryOK, LeaseOK, ResultOK, AnswerOK, ToldOK, DeadByIt
<1> QED
  BY <1>2, <1>3, <1>4 DEF Inv, Init

\* What the steps use of the types.
Typed ==
  /\ QueueAttempts \in Nat /\ QueueAttempts >= 1
  /\ attempt \in [Jobs -> Nat] /\ \A j \in Jobs : attempt[j] <= QueueAttempts
  /\ stage \in [Jobs -> {"ready", "leased", "done", "dead"}]
  /\ cause \in [Jobs -> {"none", "rejected", "attempts_exhausted", "lease_expired", "admin"}]
  /\ lease \in [Deliveries -> {"none", "held", "lapsed", "acked", "nacked"}]
  /\ phase \in [Deliveries -> {"none", "over", "wire", "created", "running", "reporting"}]
  /\ result \in [Deliveries -> {"none", "cancelled"} \cup Ends]
  /\ answer \in [Deliveries -> {"none", "OK", "OK dead_lettered", "NOT_FOUND",
                                "FAILED_PRECONDITION"}]
  /\ told \in [Deliveries -> {"none", "processed", "retry", "dead_letter", "not found",
                              "failed"}]

\* They follow from TypeOK.
LEMMA TypesOf == ASSUME TypeOK PROVE Typed
<1>1. QueueAttempts \in Nat /\ QueueAttempts >= 1
  BY FleetAssumption
<1>2. attempt \in [Jobs -> Nat] /\ \A j \in Jobs : attempt[j] <= QueueAttempts
  <2>1. attempt \in [Jobs -> 0 .. QueueAttempts]
    BY DEF TypeOK
  <2> QED
    BY <1>1, <2>1
<1> QED
  BY <1>1, <1>2 DEF TypeOK, Typed, Active

\* A delivery is as it was when nothing that is about it changes.
LEMMA Untouched ==
  ASSUME NEW e \in Deliveries, DeliveryOK(e),
         lease'[e] = lease[e], phase'[e] = phase[e], result'[e] = result[e],
         answer'[e] = answer[e], told'[e] = told[e],
         stage'[e[1]] = stage[e[1]], cause'[e[1]] = cause[e[1]],
         attempt'[e[1]] = attempt[e[1]]
  PROVE  DeliveryOK(e)'
BY DEF DeliveryOK, LeaseOK, ResultOK, AnswerOK, ToldOK, DeadByIt

\* A job is leased by its next delivery.
LEMMA LeasedInv ==
  ASSUME Inv, NEW w \in Workers, NEW j \in Jobs, Leased(w, j)
  PROVE  Inv'
<1> DEFINE d == <<j, attempt[j] + 1>>
<1>0. Typed
  BY TypesOf DEF Inv
<1>1. attempt[j] \in Nat /\ attempt[j] < QueueAttempts /\ QueueAttempts \in Nat
  <2>1. attempt[j] \in Nat /\ attempt[j] <= QueueAttempts /\ QueueAttempts \in Nat
    BY <1>0 DEF Typed
  <2>2. attempt[j] # QueueAttempts
    BY DEF Inv, JobOK, Leased
  <2> QED
    BY <2>1, <2>2
<1>2. d \in Deliveries /\ d[1] = j /\ d[2] = attempt[j] + 1
  BY <1>1, DeliveryIs
<1>3. /\ attempt' = [attempt EXCEPT ![j] = attempt[j] + 1]
      /\ stage' = [stage EXCEPT ![j] = "leased"] /\ stage[j] = "ready"
      /\ lease' = [lease EXCEPT ![d] = "held"]
      /\ owner' = [owner EXCEPT ![d] = w] /\ phase' = [phase EXCEPT ![d] = "wire"]
      /\ UNCHANGED <<cause, mode, stops, result, requests, answer, told>>
      /\ cause[j] = "none"
  BY DEF Leased, Set, reports, Inv, JobOK
<1> HIDE DEF d
<1>4. DeliveryOK(d) /\ phase[d] = "none" /\ lease[d] = "none" /\ result[d] = "none"
        /\ answer[d] = "none"
  <2>1. DeliveryOK(d)
    BY <1>2 DEF Inv
  <2>2. phase[d] = "none" /\ lease[d] = "none"
    BY <1>1, <1>2, <2>1 DEF DeliveryOK, LeaseOK
  <2> QED
    BY <2>1, <2>2 DEF DeliveryOK, ResultOK
<1>5. TypeOK'
  <2>1. attempt' \in [Jobs -> 0 .. QueueAttempts]
    <3>1. attempt \in [Jobs -> 0 .. QueueAttempts]
      BY DEF Inv, TypeOK
    <3>2. attempt[j] + 1 \in 0 .. QueueAttempts
      BY <1>1
    <3> QED
      BY <1>3, <3>1, <3>2
  <2>2. told'[d] = "none"
    BY <1>3, <1>4 DEF DeliveryOK, ToldOK
  <2> QED
    BY <1>2, <1>3, <2>1, <2>2 DEF Inv, TypeOK, Active
<1>6. ASSUME NEW i \in Jobs
      PROVE  JobOK(i)'
  <2>1. CASE i = j
    <3>1. stage'[i] = "leased" /\ attempt'[i] = attempt[j] + 1 /\ cause'[i] = "none"
      BY <1>0, <1>3, <2>1 DEF Typed
    <3> QED
      BY <1>1, <3>1 DEF JobOK
  <2>2. CASE i # j
    <3>1. /\ JobOK(i) /\ stage'[i] = stage[i] /\ attempt'[i] = attempt[i]
          /\ cause'[i] = cause[i]
      BY <1>0, <1>3, <2>2 DEF Inv, Typed
    <3> QED
      BY <3>1 DEF JobOK
  <2> QED
    BY <2>1, <2>2
<1>7. ASSUME NEW e \in Deliveries
      PROVE  DeliveryOK(e)'
  <2>1. e[1] \in Jobs /\ e[2] \in Nat
    BY <1>1, DeliveryIs
  <2>2. DeliveryOK(e)
    BY DEF Inv
  <2>3. CASE e = d
    <3>1. /\ lease'[d] = "held" /\ phase'[d] = "wire" /\ result'[d] = "none"
          /\ stage'[d[1]] = "leased" /\ cause'[d[1]] = "none" /\ attempt'[d[1]] = d[2]
          /\ answer'[d] = "none" /\ told'[d] = told[d]
      BY <1>0, <1>2, <1>3, <1>4 DEF Typed
    <3>2. told[d] = "none"
      BY <1>4 DEF DeliveryOK, ToldOK
    <3> QED
      BY <2>1, <2>3, <3>1, <3>2 DEF DeliveryOK, LeaseOK, ResultOK, AnswerOK, ToldOK, DeadByIt
  <2>4. CASE e # d /\ e[1] = j
    <3>1. e[2] # attempt[j] + 1
      BY <1>2, <2>4, DeliveryIs
    <3>2. /\ lease'[e] = lease[e] /\ phase'[e] = phase[e] /\ result'[e] = result[e]
          /\ answer'[e] = answer[e] /\ told'[e] = told[e]
          /\ stage'[e[1]] = "leased" /\ attempt'[e[1]] = attempt[j] + 1 /\ stage[e[1]] = "ready"
          /\ cause'[e[1]] = "none" /\ cause[e[1]] = "none"
      BY <1>0, <1>3, <2>4 DEF Typed
    <3>3. LeaseOK(e)'
      BY <1>1, <2>1, <2>2, <2>4, <3>1, <3>2 DEF DeliveryOK, LeaseOK
    <3>4. ResultOK(e)' /\ AnswerOK(e)' /\ ToldOK(e)'
      BY <1>1, <2>1, <2>2, <2>4, <3>1, <3>2
      DEF DeliveryOK, LeaseOK, ResultOK, AnswerOK, ToldOK, DeadByIt
    <3> QED
      BY <3>3, <3>4 DEF DeliveryOK
  <2>5. CASE e # d /\ e[1] # j
    <3>1. /\ lease'[e] = lease[e] /\ phase'[e] = phase[e] /\ result'[e] = result[e]
          /\ answer'[e] = answer[e] /\ told'[e] = told[e]
          /\ stage'[e[1]] = stage[e[1]] /\ cause'[e[1]] = cause[e[1]]
          /\ attempt'[e[1]] = attempt[e[1]]
      BY <1>0, <1>3, <2>1, <2>5 DEF Typed
    <3> QED
      BY <2>2, <3>1, Untouched
  <2> QED
    BY <2>3, <2>4, <2>5
<1>8. ASSUME NEW r \in requests
      PROVE  RequestOK(r)'
  <2>1. RequestOK(r) /\ r.from \in Deliveries
    BY DEF Inv, TypeOK
  <2>2. r.from # d
    BY <1>4, <2>1 DEF RequestOK
  <2> QED
    BY <1>0, <1>3, <2>1, <2>2 DEF Typed, RequestOK
<1> QED
  BY <1>3, <1>5, <1>6, <1>7, <1>8 DEF Inv

\* A worker's step for one delivery, of which the server knows nothing yet.
LEMMA DeliveryStep ==
  ASSUME Inv, NEW d \in Deliveries,
         NEW p \in {"created", "running", "reporting", "over"},
         NEW r \in {"none", "cancelled"} \cup Ends,
         NEW a \in {"none", "OK", "OK dead_lettered", "NOT_FOUND", "FAILED_PRECONDITION"},
         NEW t \in {"none", "processed", "retry", "dead_letter", "not found", "failed"},
         UNCHANGED <<server, mode, stops, owner>>,
         phase' = [phase EXCEPT ![d] = p], result' = [result EXCEPT ![d] = r],
         answer' = [answer EXCEPT ![d] = a], told' = [told EXCEPT ![d] = t],
         phase[d] # "none",
         phase[d] \in {"reporting", "over"} => p \in {"reporting", "over"},
         r = result[d] \/ result[d] = "none",
         p \in {"created", "running"} => r = "none" /\ a = "none",
         p = "reporting" => r \in Ends,
         t # "none" => p = "over",
         AnswerOK(d)', ToldOK(d)',
         \/ UNCHANGED requests
         \/ requests' = requests \cup {Request(d, r)} /\ p = "reporting"
  PROVE  Inv'
<1>1. Typed
  BY TypesOf DEF Inv
<1>2. /\ phase'[d] = p /\ result'[d] = r /\ answer'[d] = a /\ told'[d] = t
      /\ UNCHANGED <<stage, cause, attempt, lease>>
      /\ DeliveryOK(d) /\ d[1] \in Jobs /\ d[2] \in 1 .. QueueAttempts
  <2>1. phase'[d] = p /\ result'[d] = r /\ answer'[d] = a /\ told'[d] = t
    BY <1>1 DEF Typed
  <2>2. DeliveryOK(d) /\ UNCHANGED <<stage, cause, attempt, lease>>
    BY DEF Inv, server
  <2> QED
    BY <2>1, <2>2, DeliveryIs
<1>3. Request(d, r) \in [from : Deliveries, attempt : 1 .. QueueAttempts,
                        report : {"ack", "default", "dead_letter"}]
  BY <1>2 DEF Request, Directive
<1>4. TypeOK'
  <2>1. requests' \subseteq [from : Deliveries, attempt : 1 .. QueueAttempts,
                            report : {"ack", "default", "dead_letter"}]
    <3> DEFINE R == [from : Deliveries, attempt : 1 .. QueueAttempts,
                     report : {"ack", "default", "dead_letter"}]
    <3>1. requests \subseteq R /\ Request(d, r) \in R
      BY <1>3 DEF Inv, TypeOK
    <3> HIDE DEF R
    <3>2. requests' \subseteq R
      BY <3>1
    <3> QED
      BY <3>2 DEF R
  <2>2. \A e \in Deliveries : told'[e] # "none" => phase'[e] = "over"
    <3> SUFFICES ASSUME NEW e \in Deliveries PROVE told'[e] # "none" => phase'[e] = "over"
      OBVIOUS
    <3>1. told[e] # "none" => phase[e] = "over"
      BY DEF Inv, TypeOK
    <3>2. CASE e = d
      BY <1>2, <3>2
    <3>3. CASE e # d
      BY <1>1, <3>1, <3>3 DEF Typed
    <3> QED
      BY <3>2, <3>3
  <2>3. /\ phase' \in [Deliveries -> {"none", "over"} \cup Active]
        /\ result' \in [Deliveries -> {"none", "cancelled"} \cup Ends]
        /\ answer' \in [Deliveries -> {"none", "OK", "OK dead_lettered", "NOT_FOUND",
                                       "FAILED_PRECONDITION"}]
        /\ told' \in [Deliveries -> {"none", "processed", "retry", "dead_letter", "not found",
                                     "failed"}]
    BY <1>1 DEF Typed, Active
  <2> QED
    BY <2>1, <2>2, <2>3 DEF Inv, TypeOK, server
<1>5. \A j \in Jobs : JobOK(j)'
  BY <1>2 DEF Inv, JobOK
<1>6. LeaseOK(d)'
  <2>1. CASE r = result[d]
    BY <1>2, <2>1 DEF DeliveryOK, LeaseOK
  <2>2. CASE result[d] = "none"
    BY <1>2, <2>2 DEF DeliveryOK, LeaseOK, Ends
  <2> QED
    BY <2>1, <2>2
<1>7. ASSUME NEW e \in Deliveries
      PROVE  DeliveryOK(e)'
  <2>1. CASE e = d
    BY <1>2, <1>6, <2>1 DEF DeliveryOK, ResultOK
  <2>2. CASE e # d
    BY <1>1, <1>2, <2>2, Untouched DEF Inv, Typed
  <2> QED
    BY <2>1, <2>2
<1>8. ASSUME NEW q \in requests
      PROVE  RequestOK(q)'
  <2>1. RequestOK(q) /\ q.from \in Deliveries
    BY DEF Inv, TypeOK
  <2>2. CASE q.from = d
    BY <1>2, <2>1, <2>2 DEF RequestOK, Ends
  <2>3. CASE q.from # d
    BY <1>1, <2>1, <2>3 DEF Typed, RequestOK
  <2> QED
    BY <2>2, <2>3
<1>9. p = "reporting" => RequestOK(Request(d, r))'
  <2>1. /\ Request(d, r).from = d /\ Request(d, r).attempt = d[2]
        /\ Request(d, r).report = IF r = "returned" THEN "ack" ELSE Directive(r)
    BY DEF Request
  <2>2. (Request(d, r)).from \in Deliveries
    BY <2>1
  <2> DEFINE q == Request(d, r)
  <2>3. q' = q
    BY DEF Request, Directive
  <2> HIDE DEF q
  <2> QED
    BY <1>2, <2>1, <2>3 DEF RequestOK
<1> QED
  BY <1>4, <1>5, <1>7, <1>8, <1>9 DEF Inv

\* The answer to a Reserve arrives, or is lost.
LEMMA ReserveInv ==
  ASSUME Inv, NEW d \in Deliveries, Reserved(d) \/ Stranded(d)
  PROVE  Inv'
<1>1. Typed /\ DeliveryOK(d)
  BY TypesOf DEF Inv
<1>2. phase[d] = "wire" /\ result[d] = "none" /\ answer[d] = "none" /\ told[d] = "none"
  BY <1>1 DEF DeliveryOK, ResultOK, ToldOK, Reserved, Stranded
<1>3. /\ result' = [result EXCEPT ![d] = "none"] /\ answer' = [answer EXCEPT ![d] = "none"]
      /\ told' = [told EXCEPT ![d] = "none"] /\ UNCHANGED <<server, mode, stops, owner, requests>>
  BY <1>1, <1>2 DEF Typed, Reserved, Stranded, reports
<1>4. AnswerOK(d)' /\ ToldOK(d)'
  BY <1>1, <1>2, <1>3 DEF Typed, AnswerOK, ToldOK
<1>5. PICK p \in {"created", "over"} : phase' = [phase EXCEPT ![d] = p]
  BY DEF Reserved, Stranded, Set
<1> QED
  BY <1>2, <1>3, <1>4, <1>5, DeliveryStep

\* A call of ack or nack begins for a delivery that has not been reported.
LEMMA ReportsInv ==
  ASSUME Inv, NEW d \in Deliveries, NEW end \in Ends, Reports(d, end),
         phase[d] \in {"created", "running"}, UNCHANGED <<server, mode, stops, owner>>
  PROVE  Inv'
<1>1. Typed /\ DeliveryOK(d)
  BY TypesOf DEF Inv
<1>2. result[d] = "none" /\ answer[d] = "none" /\ told[d] = "none"
  BY <1>1 DEF DeliveryOK, ResultOK, ToldOK
<1>3. /\ phase' = [phase EXCEPT ![d] = "reporting"] /\ result' = [result EXCEPT ![d] = end]
      /\ answer' = [answer EXCEPT ![d] = "none"] /\ told' = [told EXCEPT ![d] = "none"]
      /\ requests' = requests \cup {Request(d, end)}
  BY <1>1, <1>2 DEF Typed, Reports, Set
<1>4. AnswerOK(d)' /\ ToldOK(d)'
  BY <1>1, <1>2, <1>3 DEF Typed, AnswerOK, ToldOK
<1> QED
  BY <1>2, <1>3, <1>4, DeliveryStep

\* A task starts, and its handler ends.
LEMMA TaskInv ==
  ASSUME Inv, NEW d \in Deliveries, TaskStarts(d) \/ HandlerEnds(d)
  PROVE  Inv'
<1>1. Typed /\ DeliveryOK(d)
  BY TypesOf DEF Inv
<1>2. CASE HandlerEnds(d)
  BY <1>2, ReportsInv DEF HandlerEnds, Ends
<1>3. CASE TaskStarts(d) /\ Reports(d, "unhandled")
  BY <1>3, ReportsInv DEF TaskStarts, Ends
<1>4. CASE TaskStarts(d) /\ ~Reports(d, "unhandled")
  <2>1. /\ phase[d] = "created" /\ phase' = [phase EXCEPT ![d] = "running"]
        /\ UNCHANGED <<result, requests, answer, told>>
        /\ UNCHANGED <<server, mode, stops, owner>>
    BY <1>4 DEF TaskStarts, Set, reports
  <2>2. result[d] = "none" /\ answer[d] = "none" /\ told[d] = "none"
    BY <1>1, <2>1 DEF DeliveryOK, ResultOK, ToldOK
  <2>3. /\ result' = [result EXCEPT ![d] = "none"] /\ answer' = [answer EXCEPT ![d] = "none"]
        /\ told' = [told EXCEPT ![d] = "none"]
    BY <1>1, <2>1, <2>2 DEF Typed
  <2>4. AnswerOK(d)' /\ ToldOK(d)'
    BY <1>1, <2>1, <2>2 DEF Typed, AnswerOK, ToldOK
  <2> QED
    BY <2>1, <2>2, <2>3, <2>4, DeliveryStep
<1> QED
  BY <1>2, <1>3, <1>4

\* A task ends without a report.
LEMMA AbandonedInv ==
  ASSUME Inv, NEW d \in Deliveries, Abandoned(d)
  PROVE  Inv'
<1>1. Typed /\ DeliveryOK(d)
  BY TypesOf DEF Inv
<1> DEFINE r == IF phase[d] = "running" THEN "cancelled" ELSE result[d]
<1>2. /\ phase[d] \in {"created", "running", "reporting"}
      /\ phase' = [phase EXCEPT ![d] = "over"] /\ result' = [result EXCEPT ![d] = r]
      /\ answer' = [answer EXCEPT ![d] = answer[d]] /\ told' = [told EXCEPT ![d] = told[d]]
      /\ UNCHANGED requests /\ UNCHANGED <<server, mode, stops, owner>>
  BY <1>1 DEF Typed, Abandoned, Set, reports
<1>3. r = result[d] \/ result[d] = "none"
  BY <1>1 DEF DeliveryOK, ResultOK
<1>4. told[d] = "none"
  BY <1>1, <1>2 DEF DeliveryOK, ToldOK
<1>5. AnswerOK(d)' /\ ToldOK(d)'
  BY <1>1, <1>2, <1>4 DEF Typed, AnswerOK, ToldOK
<1>6. r \in {"none", "cancelled"} \cup Ends
  BY <1>1 DEF Typed
<1>7. answer[d] \in {"none", "OK", "OK dead_lettered", "NOT_FOUND", "FAILED_PRECONDITION"}
  BY <1>1 DEF Typed
<1> HIDE DEF r
<1> QED
  BY <1>2, <1>3, <1>4, <1>5, <1>6, <1>7, DeliveryStep

\* What is recorded of an answer needs a good one.
LEMMA RecordedIs ==
  ASSUME NEW d, NEW code
  PROVE  /\ Recorded(d, code) \in {"none", "processed", "retry", "dead_letter", "not found", "failed"}
         /\ Recorded(d, code) = "processed" => code = "OK" /\ result[d] = "returned"
         /\ Recorded(d, code) = "retry" => code = "OK" /\ result[d] # "returned"
         /\ Recorded(d, code) = "dead_letter" => code = "OK dead_lettered"
<1>1. CASE result[d] = "unhandled"
  BY <1>1 DEF Recorded
<1>2. CASE result[d] # "unhandled" /\ code = "OK"
  BY <1>2 DEF Recorded
<1>3. CASE result[d] # "unhandled" /\ code # "OK"
  BY <1>3 DEF Recorded
<1> QED
  BY <1>1, <1>2, <1>3

\* A report is sent again, or its call ends.
LEMMA ReportInv ==
  ASSUME Inv, NEW d \in Deliveries, SentAgain(d) \/ Answered(d) \/ CallFails(d)
  PROVE  Inv'
<1>1. Typed /\ DeliveryOK(d)
  BY TypesOf DEF Inv
<1>2. phase[d] = "reporting" /\ result[d] \in Ends
  BY <1>1 DEF DeliveryOK, ResultOK, SentAgain, Answered, CallFails
<1>3. CASE SentAgain(d)
  <2>1. /\ phase' = [phase EXCEPT ![d] = "reporting"] /\ result' = [result EXCEPT ![d] = result[d]]
        /\ answer' = [answer EXCEPT ![d] = "none"] /\ told' = [told EXCEPT ![d] = told[d]]
        /\ UNCHANGED requests /\ UNCHANGED <<server, mode, stops, owner>>
    BY <1>1, <1>2, <1>3 DEF Typed, SentAgain, Set
  <2>2. told[d] = "none"
    BY <1>1, <1>2 DEF DeliveryOK, ToldOK
  <2>3. AnswerOK(d)' /\ ToldOK(d)'
    BY <1>1, <2>1, <2>2 DEF Typed, AnswerOK, ToldOK
  <2> QED
    BY <1>2, <2>1, <2>2, <2>3, DeliveryStep
<1>4. ASSUME NEW code, ReportEnds(d, code), code \in {answer[d], "UNAVAILABLE"}
      PROVE  Inv'
  <2> DEFINE t == Recorded(d, code)
  <2>1. /\ phase' = [phase EXCEPT ![d] = "over"] /\ result' = [result EXCEPT ![d] = result[d]]
        /\ answer' = [answer EXCEPT ![d] = "none"] /\ told' = [told EXCEPT ![d] = t]
        /\ UNCHANGED requests /\ UNCHANGED <<server, mode, stops, owner>>
    BY <1>1, <1>4 DEF Typed, ReportEnds, Set
  <2>2. /\ t = "processed" => answer[d] = "OK" /\ result[d] = "returned"
        /\ t = "retry" => answer[d] = "OK" /\ result[d] # "returned"
        /\ t = "dead_letter" => answer[d] = "OK dead_lettered"
        /\ t \in {"none", "processed", "retry", "dead_letter", "not found", "failed"}
    BY <1>4, RecordedIs
  <2> HIDE DEF t
  <2>3. phase'[d] = "over" /\ told'[d] = t /\ UNCHANGED <<lease, stage, cause, attempt>>
    BY <1>1, <2>1 DEF Typed, server
  <2>4. AnswerOK(d)' /\ ToldOK(d)'
    BY <1>1, <1>2, <2>2, <2>3 DEF DeliveryOK, AnswerOK, ToldOK, DeadByIt
  <2> QED
    BY <1>2, <2>1, <2>2, <2>4, DeliveryStep
<1> QED
  BY <1>3, <1>4 DEF Answered, CallFails

\* The lease of a job's last delivery d ends as l, and the job is at stage s then,
\* dead for c if it is dead; a report of d may be answered with a.
LeaseEnd(j, d, s, l, c, a) ==
  /\ stage[j] = "leased" /\ d = Latest(j)
  /\ stage' = [stage EXCEPT ![j] = s] /\ cause' = [cause EXCEPT ![j] = c]
  /\ lease' = [lease EXCEPT ![d] = l]
  /\ answer' = [answer EXCEPT ![d] = a]
  /\ UNCHANGED <<attempt, mode, stops, owner, phase, result, requests, told>>
  /\ a = answer[d] \/ phase[d] = "reporting"
  /\ s = "ready" => attempt[j] # QueueAttempts
  /\ s = "dead" <=> c # "none"
  /\ s = "dead" => \/ attempt[j] = QueueAttempts \/ c = "admin"
                   \/ l = "nacked" /\ result[d] = "permanent"
  /\ c = "rejected" => result[d] = "permanent"
  /\ l = "acked" => s = "done" /\ result[d] = "returned"
  /\ l = "nacked" => /\ s # "done" /\ result[d] \in Ends \ {"returned"}
                     /\ result[d] = "permanent" => s = "dead" /\ c = "rejected"
  /\ AnswerOK(d)'

\* However a lease ends, the invariant is kept.
LEMMA LeaseEnds ==
  ASSUME Inv, NEW j \in Jobs, NEW d \in Deliveries,
         NEW s \in {"ready", "done", "dead"}, NEW l \in {"acked", "nacked", "lapsed"},
         NEW c \in {"none", "rejected", "attempts_exhausted", "lease_expired", "admin"},
         NEW a \in {"none", "OK", "OK dead_lettered", "NOT_FOUND", "FAILED_PRECONDITION"},
         LeaseEnd(j, d, s, l, c, a)
  PROVE  Inv'
<1> USE DEF LeaseEnd
<1>1. Typed /\ DeliveryOK(d)
  BY TypesOf DEF Inv
<1>2. /\ d[1] = j /\ d[2] = attempt[j] /\ attempt[j] \in Nat
      /\ QueueAttempts \in Nat /\ attempt[j] <= QueueAttempts
  BY <1>1 DEF Latest, Typed
<1>3. /\ stage'[j] = s /\ cause'[j] = c /\ lease'[d] = l /\ answer'[d] = a
      /\ UNCHANGED <<attempt, phase, result, told, requests>>
  BY <1>1 DEF Typed
<1>4. TypeOK'
  BY DEF Inv, TypeOK
<1>5. ASSUME NEW i \in Jobs
      PROVE  JobOK(i)'
  <2>1. CASE i = j
    <3>1. stage'[i] = s /\ cause'[i] = c /\ attempt'[i] = attempt[j] /\ s # "leased"
      BY <1>3, <2>1
    <3> QED
      BY <3>1 DEF JobOK
  <2>2. CASE i # j
    <3>1. /\ JobOK(i) /\ stage'[i] = stage[i] /\ attempt'[i] = attempt[i]
          /\ cause'[i] = cause[i]
      BY <1>1, <1>3, <2>2 DEF Inv, Typed
    <3> QED
      BY <3>1 DEF JobOK
  <2> QED
    BY <2>1, <2>2
<1>6. DeliveryOK(d)'
  <2>1. lease[d] = "held"
    BY <1>1, <1>2 DEF DeliveryOK, LeaseOK
  <2>2. LeaseOK(d)'
    BY <1>1, <1>2, <1>3 DEF DeliveryOK, LeaseOK
  <2>3. ResultOK(d)'
    BY <1>1, <1>3 DEF DeliveryOK, ResultOK
  <2>4. ToldOK(d)'
    BY <1>1, <1>3, <2>1 DEF DeliveryOK, ToldOK
  <2> QED
    BY <2>2, <2>3, <2>4 DEF DeliveryOK
<1>7. ASSUME NEW e \in Deliveries, e # d
      PROVE  DeliveryOK(e)'
  <2>1. DeliveryOK(e) /\ e[1] \in Jobs /\ e[2] \in Nat
    <3>1. DeliveryOK(e)
      BY DEF Inv
    <3>2. e[1] \in Jobs /\ e[2] \in Nat
      BY DeliveryIs
    <3> QED
      BY <3>1, <3>2
  <2>2. /\ lease'[e] = lease[e] /\ phase'[e] = phase[e] /\ result'[e] = result[e]
        /\ answer'[e] = answer[e] /\ told'[e] = told[e] /\ attempt'[e[1]] = attempt[e[1]]
    BY <1>1, <1>3, <1>7 DEF Typed
  <2>3. CASE e[1] = j
    <3>1. e[2] # attempt[j]
      BY <1>2, <1>7, <2>3, DeliveryIs
    <3>2. /\ stage[e[1]] = "leased" /\ stage'[e[1]] = s /\ cause'[e[1]] = c
          /\ attempt[e[1]] = attempt[j]
      BY <1>3, <2>3
    <3> QED
      BY <1>2, <2>1, <2>2, <3>1, <3>2
      DEF DeliveryOK, LeaseOK, ResultOK, AnswerOK, ToldOK, DeadByIt
  <2>4. CASE e[1] # j
    <3>1. stage'[e[1]] = stage[e[1]] /\ cause'[e[1]] = cause[e[1]]
      BY <1>1, <2>1, <2>4 DEF Typed
    <3> QED
      BY <2>1, <2>2, <3>1, Untouched
  <2> QED
    BY <2>3, <2>4
<1>8. \A r \in requests : RequestOK(r)'
  BY <1>3 DEF Inv, RequestOK
<1> QED
  BY <1>3, <1>4, <1>5, <1>6, <1>7, <1>8 DEF Inv

\* The server executes a report.
LEMMA ExecutedInv ==
  ASSUME Inv, NEW r \in requests, Executed(r)
  PROVE  Inv'
<1> DEFINE d == r.from
           j == d[1]
           holds == stage[j] = "leased" /\ attempt[j] = r.attempt
           after == IF r.report = "ack" THEN "done"
                    ELSE IF r.report = "dead_letter" \/ attempt[j] = QueueAttempts THEN "dead"
                    ELSE "ready"
           why == IF after # "dead" THEN "none"
                  ELSE IF r.report = "dead_letter" THEN "rejected" ELSE "attempts_exhausted"
           l == IF r.report = "ack" THEN "acked" ELSE "nacked"
           codes == IF ~holds THEN {"NOT_FOUND", "FAILED_PRECONDITION"}
                    ELSE IF after = "dead" THEN {"OK dead_lettered"} ELSE {"OK"}
<1>1. Typed /\ d \in Deliveries /\ j \in Jobs /\ DeliveryOK(d)
  <2>1. d \in Deliveries
    BY DEF Inv, TypeOK
  <2> QED
    BY <2>1, TypesOf, DeliveryIs DEF Inv
<1>2. /\ r.attempt = d[2] /\ result[d] \in Ends /\ phase[d] \in {"reporting", "over"}
      /\ r.report = IF result[d] = "returned" THEN "ack" ELSE Directive(result[d])
  BY DEF Inv, RequestOK
<1>3. PICK a : /\ answer' = [answer EXCEPT ![d] = a]
               /\ a = answer[d] \/ (phase[d] = "reporting" /\ a \in codes)
  <2>1. CASE phase[d] = "reporting"
    <3>1. \E code \in codes : answer' = [answer EXCEPT ![d] = code]
      BY <2>1 DEF Executed, Set
    <3> QED
      BY <2>1, <3>1
  <2>2. CASE phase[d] # "reporting"
    <3>1. answer' = [answer EXCEPT ![d] = answer[d]]
      BY <1>1, <2>2 DEF Executed, Typed
    <3> QED
      BY <3>1
  <2> QED
    BY <2>1, <2>2
<1>4. a \in {"none", "OK", "OK dead_lettered", "NOT_FOUND", "FAILED_PRECONDITION"}
  BY <1>1, <1>3 DEF Typed
<1>5. UNCHANGED <<attempt, mode, stops, owner, phase, result, requests, told>>
  BY DEF Executed
<1>6. answer'[d] = a /\ UNCHANGED <<phase, result, attempt, told>>
  BY <1>1, <1>3, <1>5 DEF Typed
<1>7. CASE ~holds
  <2>1. UNCHANGED <<stage, cause, lease>>
    BY <1>7 DEF Executed
  <2>2. a = answer[d] \/ a \in {"NOT_FOUND", "FAILED_PRECONDITION"}
    BY <1>3, <1>7
  <2>3. AnswerOK(d)' /\ ToldOK(d)'
    BY <1>1, <1>6, <2>1, <2>2 DEF DeliveryOK, AnswerOK, ToldOK, DeadByIt
  <2>4. /\ phase' = [phase EXCEPT ![d] = phase[d]] /\ result' = [result EXCEPT ![d] = result[d]]
        /\ told' = [told EXCEPT ![d] = told[d]]
        /\ told[d] \in {"none", "processed", "retry", "dead_letter", "not found", "failed"}
    BY <1>1, <1>5 DEF Typed
  <2>5. told[d] # "none" => phase[d] = "over"
    BY <1>1 DEF DeliveryOK, ToldOK
  <2>6. UNCHANGED <<server, mode, stops, owner>> /\ UNCHANGED requests
    BY <1>5, <2>1 DEF server
  <2> HIDE DEF d, holds, codes
  <2> QED
    BY <1>1, <1>2, <1>3, <1>4, <2>3, <2>4, <2>5, <2>6, DeliveryStep
<1>8. CASE holds
  <2>1. /\ stage' = [stage EXCEPT ![j] = after] /\ cause' = [cause EXCEPT ![j] = why]
        /\ lease' = [lease EXCEPT ![Latest(j)] = l]
    BY <1>8 DEF Executed, Set
  <2>2. d = Latest(j) /\ stage[j] = "leased"
    BY <1>1, <1>2, <1>8, DeliveryIs
  <2>3. /\ after \in {"ready", "done", "dead"} /\ l \in {"acked", "nacked"}
        /\ r.report = "ack" <=> l = "acked"
        /\ r.report = "ack" <=> after = "done"
        /\ after = "ready" => attempt[j] # QueueAttempts /\ r.report # "dead_letter"
        /\ after = "dead" => attempt[j] = QueueAttempts \/ r.report = "dead_letter"
        /\ why \in {"none", "rejected", "attempts_exhausted"}
        /\ after = "dead" <=> why # "none"
        /\ r.report = "dead_letter" <=> why = "rejected"
    <3>1. CASE r.report = "ack"
      <4>1. after = "done" /\ l = "acked" /\ why = "none"
        BY <3>1
      <4> QED
        BY <3>1, <4>1
    <3>2. CASE r.report # "ack" /\ (r.report = "dead_letter" \/ attempt[j] = QueueAttempts)
      <4>1. /\ after = "dead" /\ l = "nacked"
            /\ why = IF r.report = "dead_letter" THEN "rejected" ELSE "attempts_exhausted"
        BY <3>2
      <4> QED
        BY <3>2, <4>1
    <3>3. CASE r.report # "ack" /\ ~(r.report = "dead_letter" \/ attempt[j] = QueueAttempts)
      <4>1. after = "ready" /\ l = "nacked" /\ why = "none"
        BY <3>3
      <4> QED
        BY <3>3, <4>1
    <3> QED
      BY <3>1, <3>2, <3>3
  <2>4. \/ a = answer[d]
        \/ phase[d] = "reporting" /\ a = (IF after = "dead" THEN "OK dead_lettered" ELSE "OK")
    BY <1>3, <1>8
  <2> HIDE DEF after, why, l, holds, codes
  <2>5. /\ r.report = "ack" <=> result[d] = "returned"
        /\ r.report = "dead_letter" <=> result[d] = "permanent"
    BY <1>2 DEF Directive, Ends
  <2>6. lease'[d] = l /\ stage'[j] = after /\ cause'[j] = why
    <3> HIDE DEF d, j
    <3>1. lease' = [lease EXCEPT ![d] = l]
      BY <2>1, <2>2
    <3>2. d \in DOMAIN lease /\ j \in DOMAIN stage /\ j \in DOMAIN cause
      BY <1>1 DEF Typed
    <3> QED
      BY <2>1, <3>1, <3>2
  <2>7. lease[d] = "held" /\ d[2] = attempt[j]
    BY <1>1, <1>2, <1>8, <2>2 DEF DeliveryOK, LeaseOK, holds
  <2>8. AnswerOK(d)'
    <3>1. CASE a = answer[d]
      BY <1>1, <1>6, <2>7, <3>1 DEF DeliveryOK, AnswerOK
    <3>2. CASE a # answer[d]
      BY <1>6, <2>3, <2>4, <2>5, <2>6, <2>7, <3>2 DEF AnswerOK, DeadByIt
    <3> QED
      BY <3>1, <3>2
  <2>9. /\ l = "acked" => after = "done" /\ result[d] = "returned"
        /\ l = "nacked" => /\ after # "done" /\ result[d] \in Ends \ {"returned"}
                           /\ result[d] = "permanent" => after = "dead" /\ why = "rejected"
        /\ why = "rejected" => result[d] = "permanent"
        /\ after = "dead" => attempt[j] = QueueAttempts \/ (l = "nacked" /\ result[d] = "permanent")
        /\ after = "ready" => attempt[j] # QueueAttempts
    BY <1>2, <2>3, <2>5
  <2>10. lease' = [lease EXCEPT ![d] = l]
    BY <2>1, <2>2
  <2>11. LeaseEnd(j, d, after, l, why, a)
    BY <1>3, <1>5, <2>1, <2>2, <2>3, <2>4, <2>8, <2>9, <2>10 DEF LeaseEnd
  <2> HIDE DEF d, j
  <2> QED
    BY <1>1, <1>4, <2>3, <2>11, LeaseEnds
<1> QED
  BY <1>7, <1>8

\* The last delivery of a leased job holds the lease.
LEMMA HolderOf ==
  ASSUME Inv, NEW j \in Jobs, stage[j] = "leased"
  PROVE  \E d \in Deliveries : d = Latest(j) /\ lease[d] = "held"
<1>1. attempt[j] \in 1 .. QueueAttempts
  <2>1. Typed /\ JobOK(j)
    BY TypesOf DEF Inv
  <2>2. attempt[j] \in Nat /\ attempt[j] <= QueueAttempts /\ QueueAttempts \in Nat
    BY <2>1 DEF Typed
  <2> QED
    BY <2>1, <2>2 DEF JobOK
<1>2. PICK d \in Deliveries : d = Latest(j) /\ d[1] = j /\ d[2] = attempt[j]
  BY <1>1, DeliveryIs DEF Latest
<1>3. LeaseOK(d)
  BY DEF Inv, DeliveryOK
<1> QED
  BY <1>2, <1>3 DEF LeaseOK

\* A lease ends without a report, by its time or by an operator.
LEMMA LapseEnds ==
  ASSUME Inv, NEW j \in Jobs, stage[j] = "leased",
         NEW s \in {"ready", "dead"}, NEW c \in {"none", "lease_expired", "admin"},
         stage' = [stage EXCEPT ![j] = s], cause' = [cause EXCEPT ![j] = c],
         lease' = [lease EXCEPT ![Latest(j)] = "lapsed"],
         UNCHANGED <<attempt, mode, stops, owner, phase, result, reports>>,
         s = "ready" => attempt[j] # QueueAttempts,
         s = "dead" <=> c # "none",
         c = "lease_expired" => attempt[j] = QueueAttempts
  PROVE  Inv'
<1>1. Typed
  BY TypesOf DEF Inv
<1>2. PICK d \in Deliveries : d = Latest(j) /\ lease[d] = "held"
  BY HolderOf
<1>3. /\ lease' = [lease EXCEPT ![d] = "lapsed"]
      /\ UNCHANGED <<attempt, mode, stops, owner, phase, result, requests, told>>
      /\ UNCHANGED answer
  BY <1>2 DEF reports
<1>4. DeliveryOK(d)
  BY DEF Inv
<1>5. /\ answer' = [answer EXCEPT ![d] = answer[d]]
      /\ answer[d] \in {"none", "OK", "OK dead_lettered", "NOT_FOUND", "FAILED_PRECONDITION"}
  BY <1>1, <1>3 DEF Typed
<1>6. AnswerOK(d)'
  BY <1>2, <1>3, <1>4 DEF DeliveryOK, AnswerOK
<1>7. LeaseEnd(j, d, s, "lapsed", c, answer[d])
  BY <1>2, <1>3, <1>5, <1>6 DEF LeaseEnd
<1>8. /\ s \in {"ready", "done", "dead"} /\ "lapsed" \in {"acked", "nacked", "lapsed"}
      /\ c \in {"none", "rejected", "attempts_exhausted", "lease_expired", "admin"}
  OBVIOUS
<1> QED
  BY <1>5, <1>7, <1>8, LeaseEnds

\* A lease lapses.
LEMMA LapsesInv ==
  ASSUME Inv, NEW j \in Jobs, Lapses(j)
  PROVE  Inv'
<1>1. /\ stage[j] = "leased" /\ lease' = [lease EXCEPT ![Latest(j)] = "lapsed"]
      /\ UNCHANGED <<attempt, mode, stops, owner, phase, result, reports>>
  BY DEF Lapses, Set
<1>2. CASE attempt[j] = QueueAttempts
  <2>1. /\ stage' = [stage EXCEPT ![j] = "dead"]
        /\ cause' = [cause EXCEPT ![j] = "lease_expired"]
    BY <1>2 DEF Lapses, Set
  <2> QED
    BY <1>1, <1>2, <2>1, LapseEnds
<1>3. CASE attempt[j] # QueueAttempts
  <2>1. stage' = [stage EXCEPT ![j] = "ready"] /\ cause' = [cause EXCEPT ![j] = "none"]
    BY <1>3 DEF Lapses, Set
  <2> QED
    BY <1>1, <1>3, <2>1, LapseEnds
<1> QED
  BY <1>2, <1>3

\* An operator dead-letters a job, in a worker's hands or between two deliveries.
LEMMA AdminInv ==
  ASSUME Inv, NEW j \in Jobs, AdminDeadLetters(j)
  PROVE  Inv'
<1>1. /\ stage' = [stage EXCEPT ![j] = "dead"] /\ cause' = [cause EXCEPT ![j] = "admin"]
      /\ UNCHANGED <<attempt, mode, stops, owner, phase, result, reports>>
  BY DEF AdminDeadLetters, Set
<1>2. CASE stage[j] = "leased"
  <2>1. lease' = [lease EXCEPT ![Latest(j)] = "lapsed"]
    BY <1>2 DEF AdminDeadLetters, Set
  <2> QED
    BY <1>1, <1>2, <2>1, LapseEnds
<1>3. CASE stage[j] # "leased"
  <2>1. /\ stage[j] = "ready" /\ UNCHANGED <<lease, answer, told, requests>>
        /\ UNCHANGED <<attempt, phase, result>>
    BY <1>1, <1>3 DEF AdminDeadLetters, reports
  <2>2. Typed
    BY TypesOf DEF Inv
  <2>3. TypeOK'
    BY <1>1, <2>1 DEF Inv, TypeOK
  <2>4. ASSUME NEW i \in Jobs
        PROVE  JobOK(i)'
    <3>1. JobOK(i)
      BY DEF Inv
    <3>2. CASE i = j
      <4>1. stage'[i] = "dead" /\ cause'[i] = "admin"
        BY <1>1, <2>2, <3>2 DEF Typed
      <4> QED
        BY <4>1 DEF JobOK
    <3>3. CASE i # j
      <4>1. stage'[i] = stage[i] /\ cause'[i] = cause[i] /\ attempt'[i] = attempt[i]
        BY <1>1, <2>1, <2>2, <3>3 DEF Typed
      <4> QED
        BY <3>1, <4>1 DEF JobOK
    <3> QED
      BY <3>2, <3>3
  <2>5. ASSUME NEW e \in Deliveries
        PROVE  DeliveryOK(e)'
    <3>1. DeliveryOK(e) /\ e[1] \in Jobs
      BY DeliveryIs DEF Inv
    <3>2. CASE e[1] = j
      <4>1. /\ stage[e[1]] = "ready" /\ stage'[e[1]] = "dead" /\ cause'[e[1]] = "admin"
            /\ cause[e[1]] = "none"
        <5>1. JobOK(j)
          BY DEF Inv
        <5> QED
          BY <1>1, <2>1, <2>2, <3>2, <5>1 DEF Typed, JobOK
      <4>2. LeaseOK(e)'
        BY <2>1, <3>1, <4>1 DEF DeliveryOK, LeaseOK
      <4>3. ResultOK(e)' /\ AnswerOK(e)' /\ ToldOK(e)'
        BY <2>1, <3>1, <4>1 DEF DeliveryOK, ResultOK, AnswerOK, ToldOK, DeadByIt
      <4> QED
        BY <4>2, <4>3 DEF DeliveryOK
    <3>3. CASE e[1] # j
      <4>1. stage'[e[1]] = stage[e[1]] /\ cause'[e[1]] = cause[e[1]]
        BY <1>1, <2>2, <3>1, <3>3 DEF Typed
      <4> QED
        BY <2>1, <3>1, <4>1, Untouched
    <3> QED
      BY <3>2, <3>3
  <2>6. \A r \in requests : RequestOK(r)'
    BY <2>1 DEF Inv, RequestOK
  <2> QED
    BY <2>1, <2>3, <2>4, <2>5, <2>6 DEF Inv
<1> QED
  BY <1>2, <1>3

\* A worker dies with all its deliveries.
LEMMA CrashInv ==
  ASSUME Inv, NEW w \in Workers, Crash(w)
  PROVE  Inv'
<1>1. Typed
  BY TypesOf DEF Inv
<1>2. UNCHANGED <<stage, cause, attempt, lease, owner, requests, answer, told>>
  BY DEF Crash, server, reports
<1>3. ASSUME NEW e \in Deliveries
      PROVE  \/ phase'[e] = phase[e] /\ result'[e] = result[e]
             \/ /\ phase[e] \in Active /\ phase'[e] = "over"
                /\ phase[e] = "running" => result'[e] = "cancelled"
                /\ phase[e] # "running" => result'[e] = result[e]
  BY <1>3 DEF Crash, OwnedBy
<1>4. TypeOK'
  <2>1. ASSUME NEW e \in Deliveries
        PROVE  /\ phase'[e] \in {"none", "over"} \cup Active
               /\ result'[e] \in {"none", "cancelled"} \cup Ends
               /\ told'[e] # "none" => phase'[e] = "over"
    <3>1. phase[e] \in {"none", "over"} \cup Active /\ result[e] \in {"none", "cancelled"} \cup Ends
      BY <1>1 DEF Typed, Active
    <3>2. told'[e] # "none" => phase[e] = "over"
      BY <1>2 DEF Inv, TypeOK
    <3> QED
      BY <1>3, <3>1, <3>2
  <2>2. /\ phase' = [e \in Deliveries |-> phase'[e]]
        /\ result' = [e \in Deliveries |-> result'[e]]
    BY DEF Crash
  <2>3. /\ phase' \in [Deliveries -> {"none", "over"} \cup Active]
        /\ result' \in [Deliveries -> {"none", "cancelled"} \cup Ends]
    BY <2>1, <2>2
  <2>4. mode' \in [Workers -> {"up", "draining", "down"}] /\ stops' \in 0 .. MaxStops
    <3>1. mode' \in [Workers -> {"up", "draining", "down"}]
      BY DEF Inv, TypeOK, Crash, Set
    <3>2. stops \in 0 .. MaxStops
      BY DEF Inv, TypeOK
    <3>3. stops < MaxStops /\ stops' = stops + 1
      BY DEF Crash
    <3> QED
      BY <3>1, <3>2, <3>3, FleetAssumption
  <2>5. \A e \in Deliveries : told'[e] # "none" => phase'[e] = "over"
    BY <2>1
  <2> QED
    BY <1>2, <2>3, <2>4, <2>5 DEF Inv, TypeOK
<1>5. ASSUME NEW e \in Deliveries
      PROVE  DeliveryOK(e)'
  <2>1. DeliveryOK(e)
    BY DEF Inv
  <2>2. CASE phase'[e] = phase[e] /\ result'[e] = result[e]
    BY <1>2, <2>1, <2>2, Untouched
  <2>3. CASE /\ phase[e] \in Active /\ phase'[e] = "over"
             /\ phase[e] = "running" => result'[e] = "cancelled"
             /\ phase[e] # "running" => result'[e] = result[e]
    BY <1>2, <2>1, <2>3
    DEF DeliveryOK, LeaseOK, ResultOK, AnswerOK, ToldOK, DeadByIt, Active, Ends
  <2> QED
    BY <1>3, <2>2, <2>3
<1>6. ASSUME NEW r \in requests
      PROVE  RequestOK(r)'
  <2>1. RequestOK(r) /\ r.from \in Deliveries
    BY DEF Inv, TypeOK
  <2>2. result'[r.from] = result[r.from] /\ phase'[r.from] \in {"reporting", "over"}
    BY <1>3, <2>1 DEF RequestOK
  <2> QED
    BY <2>1, <2>2 DEF RequestOK
<1>7. \A j \in Jobs : JobOK(j)'
  BY <1>2 DEF Inv, JobOK
<1> QED
  BY <1>2, <1>4, <1>5, <1>6, <1>7 DEF Inv

\* Steps of a worker's process that touch no delivery.
LEMMA ProcessInv ==
  ASSUME Inv, NEW w \in Workers, Shutdown(w) \/ Drained(w) \/ Restart(w)
  PROVE  Inv'
<1>1. UNCHANGED <<stage, cause, attempt, lease, owner, phase, result, requests, answer, told>>
  BY DEF Shutdown, Drained, Restart, server, reports
<1>2. mode' \in [Workers -> {"up", "draining", "down"}]
  <2>1. mode \in [Workers -> {"up", "draining", "down"}]
    BY DEF Inv, TypeOK
  <2>2. \E m \in {"up", "draining", "down"} : mode' = [mode EXCEPT ![w] = m]
    BY DEF Shutdown, Drained, Restart, Set
  <2> QED
    BY <2>1, <2>2
<1>3. stops' \in 0 .. MaxStops
  <2>1. stops \in 0 .. MaxStops
    BY DEF Inv, TypeOK
  <2>2. stops' = stops \/ (stops < MaxStops /\ stops' = stops + 1)
    BY DEF Shutdown, Drained, Restart
  <2> QED
    BY <2>1, <2>2, FleetAssumption
<1>4. TypeOK'
  BY <1>1, <1>2, <1>3 DEF Inv, TypeOK
<1>5. \A e \in Deliveries : DeliveryOK(e)'
  BY <1>1, Untouched DEF Inv
<1> QED
  BY <1>1, <1>4, <1>5 DEF Inv, JobOK, RequestOK

-----------------------------------------------------------------------------
\* Each action keeps the invariant.
LEMMA NextInv ==
  ASSUME Inv, [Next]_vars
  PROVE  Inv'
<1>1. CASE Reserving
  BY <1>1, LeasedInv, ReserveInv DEF Reserving
<1>2. CASE Tasks
  BY <1>2, TaskInv, AbandonedInv DEF Tasks
<1>3. CASE Reporting
  BY <1>3, ExecutedInv, ReportInv DEF Reporting
<1>4. CASE \E j \in Jobs : Lapses(j) \/ AdminDeadLetters(j)
  BY <1>4, LapsesInv, AdminInv
<1>5. CASE Processes
  BY <1>5, CrashInv, ProcessInv DEF Processes
<1>6. CASE UNCHANGED vars
  <2>1. /\ UNCHANGED <<stage, cause, attempt, lease, mode, stops, owner, phase, result>>
        /\ UNCHANGED <<requests, answer, told>>
    BY <1>6 DEF vars, server, reports
  <2>2. TypeOK'
    BY <2>1 DEF Inv, TypeOK
  <2>3. \A e \in Deliveries : DeliveryOK(e)'
    BY <2>1, Untouched DEF Inv
  <2> QED
    BY <2>1, <2>2, <2>3 DEF Inv, JobOK, RequestOK
<1> QED
  BY <1>1, <1>2, <1>3, <1>4, <1>5, <1>6 DEF Next, AllSettled

\* The inductive invariant of a fleet.
THEOREM Invariance == Spec => []Inv
BY InitInv, NextInv, PTL DEF Spec

\* Types; a worker records nothing of a report before its call has ended.
THEOREM TypeCorrect == Spec => []TypeOK
BY Invariance, PTL DEF Inv

\* Operators aside, only the handler's own wish ends a job before its attempts are
\* used up, and then it does end it; no job is dead as rejected by a handler that
\* did not reject it (worker.py:410-414, client.py:469-474, types.py:361-363).
THEOREM DeadLettersDeserved == Spec => []DeadLettersAreDeserved
<1>1. Inv => DeadLettersAreDeserved
  <2> SUFFICES ASSUME Inv, NEW d \in Deliveries
               PROVE  /\ d = Latest(d[1]) /\ stage[d[1]] = "dead" /\ d[2] < QueueAttempts
                           /\ cause[d[1]] # "admin" => result[d] = "permanent"
                      /\ d = Latest(d[1]) /\ cause[d[1]] = "rejected" => result[d] = "permanent"
                      /\ lease[d] = "nacked" /\ result[d] = "permanent"
                           => stage[d[1]] = "dead" /\ cause[d[1]] = "rejected" /\ d = Latest(d[1])
    BY DEF DeadLettersAreDeserved
  <2>1. LeaseOK(d)
    BY DEF Inv, DeliveryOK
  <2>2. d = Latest(d[1]) <=> d[2] = attempt[d[1]]
    BY DeliveryIs
  <2> QED
    BY <2>1, <2>2 DEF LeaseOK
<1> QED
  BY <1>1, Invariance, PTL

\* What is counted has happened, once (worker.py:471, 475, 481).
THEOREM CountsTrue == Spec => []CountsAreTrue
<1>1. Inv => CountsAreTrue
  <2> SUFFICES ASSUME Inv, NEW d \in Deliveries
               PROVE  /\ told[d] = "processed" =>
                           lease[d] = "acked" /\ stage[d[1]] = "done" /\ d = Latest(d[1])
                      /\ told[d] \in {"retry", "dead_letter"} =>
                           /\ lease[d] = "nacked"
                           /\ told[d] = "dead_letter" <=>
                                d = Latest(d[1]) /\ stage[d[1]] = "dead" /\ cause[d[1]] # "admin"
    BY DEF CountsAreTrue
  <2>1. LeaseOK(d) /\ ToldOK(d)
    BY DEF Inv, DeliveryOK
  <2>2. d = Latest(d[1]) <=> d[2] = attempt[d[1]]
    BY DeliveryIs
  <2> QED
    BY <2>1, <2>2 DEF LeaseOK, ToldOK, DeadByIt
<1> QED
  BY <1>1, Invariance, PTL

-----------------------------------------------------------------------------
(* A delivery is a leased job.                                             *)

\* The steps of a leased job, by what they change of a delivery.
JobStep(e) ==
  \/ /\ phase[e] = "running" <=> phase'[e] = "running"
     /\ result'[e] = result[e] \/ (result[e] = "none" /\ result'[e] = "unhandled")
     /\ lease'[e] = lease[e] \/ (lease[e] = "none" /\ lease'[e] = "held")
  \/ /\ phase[e] # "running" /\ phase'[e] = "running" /\ result[e] = "none"
     /\ lease'[e] = lease[e] /\ lease[e] \in {"held", "lapsed"}
  \/ /\ phase[e] = "running" /\ phase'[e] # "running"
     /\ result'[e] \in {"returned", "retry", "permanent", "cancelled"}
     /\ lease'[e] = lease[e]
  \/ /\ phase'[e] = phase[e] /\ result'[e] = result[e]
     /\ lease[e] = "held"
     /\ \/ lease'[e] = "lapsed"
        \/ lease'[e] = "acked" /\ phase[e] # "running" /\ result[e] = "returned"
        \/ /\ lease'[e] = "nacked" /\ phase[e] # "running"
           /\ result[e] \in {"retry", "permanent", "unhandled"}

\* Each of them is a step of LeasedJob.
LEMMA JobSteps ==
  ASSUME NEW e \in Deliveries, JobStep(e)
  PROVE  [Job(e)!Next]_(Job(e)!vars)
<1> DEFINE h == HandlerOf(e)
           l == LeaseOf(e)
<1>1. CASE /\ phase[e] = "running" <=> phase'[e] = "running"
           /\ result'[e] = result[e] \/ (result[e] = "none" /\ result'[e] = "unhandled")
           /\ lease'[e] = lease[e] \/ (lease[e] = "none" /\ lease'[e] = "held")
  <2>1. h' = h /\ l' = l
    BY <1>1 DEF HandlerOf, LeaseOf
  <2> QED
    BY <2>1 DEF Job!vars
<1>2. CASE /\ phase[e] # "running" /\ phase'[e] = "running" /\ result[e] = "none"
           /\ lease'[e] = lease[e] /\ lease[e] \in {"held", "lapsed"}
  <2>1. h = "none" /\ h' = "running" /\ l' = l /\ l \in {"held", "lapsed"}
    BY <1>2 DEF HandlerOf, LeaseOf
  <2> QED
    BY <2>1 DEF Job!Next, Job!Start, Job!Settled
<1>3. CASE /\ phase[e] = "running" /\ phase'[e] # "running"
           /\ result'[e] \in {"returned", "retry", "permanent", "cancelled"}
           /\ lease'[e] = lease[e]
  <2>1. h = "running" /\ h' \in {"returned", "failed", "cancelled"} /\ l' = l
    BY <1>3 DEF HandlerOf, LeaseOf
  <2> QED
    BY <2>1 DEF Job!Next, Job!Stop, Job!HandlerEnds
<1>4. CASE /\ phase'[e] = phase[e] /\ result'[e] = result[e]
           /\ lease[e] = "held"
           /\ \/ lease'[e] = "lapsed"
              \/ lease'[e] = "acked" /\ phase[e] # "running" /\ result[e] = "returned"
              \/ /\ lease'[e] = "nacked" /\ phase[e] # "running"
                 /\ result[e] \in {"retry", "permanent", "unhandled"}
  <2>1. /\ h' = h /\ l = "held"
        /\ \/ l' = "lapsed"
           \/ l' = "acked" /\ h = "returned"
           \/ l' = "nacked" /\ h \in {"none", "failed"}
    BY <1>4 DEF HandlerOf, LeaseOf
  <2> QED
    BY <2>1 DEF Job!Next, Job!Lapse, Job!Report
<1> QED
  BY <1>1, <1>2, <1>3, <1>4 DEF JobStep

\* A delivery that a step does not name stays as it is.
LEMMA JobStutter ==
  ASSUME NEW e \in Deliveries, UNCHANGED <<phase[e], result[e], lease[e]>>
  PROVE  JobStep(e)
BY DEF JobStep

\* What each step does to one delivery is a step of a leased job.
LEMMA LeasedJobStep ==
  ASSUME Inv, NEW w \in Workers, NEW j \in Jobs, Leased(w, j), NEW e \in Deliveries
  PROVE  JobStep(e)
<1> DEFINE d == <<j, attempt[j] + 1>>
<1>1. Typed /\ DeliveryOK(e)
  BY TypesOf DEF Inv
<1>2. /\ phase' = [phase EXCEPT ![d] = "wire"] /\ lease' = [lease EXCEPT ![d] = "held"]
      /\ UNCHANGED result
  BY DEF Leased, Set
<1>3. CASE e = d
  <2>1. e[2] > attempt[e[1]]
    <3>1. e[1] = j /\ e[2] = attempt[j] + 1 /\ attempt[j] \in Nat
      BY <1>1, <1>3 DEF Typed
    <3> QED
      BY <3>1
  <2>2. phase[e] = "none" /\ lease[e] = "none"
    BY <1>1, <2>1 DEF DeliveryOK, LeaseOK
  <2>3. phase'[e] = "wire" /\ lease'[e] = "held" /\ result'[e] = result[e]
    BY <1>1, <1>2, <1>3 DEF Typed
  <2> QED
    BY <2>2, <2>3 DEF JobStep
<1>4. CASE e # d
  <2>1. UNCHANGED <<phase[e], result[e], lease[e]>>
    BY <1>1, <1>2, <1>4 DEF Typed
  <2> QED
    BY <2>1, JobStutter
<1> QED
  BY <1>3, <1>4

\* A worker's step for one delivery changes no lease.
LEMMA TaskJobStep ==
  ASSUME Inv, NEW d \in Deliveries, NEW e \in Deliveries,
         \/ Reserved(d) \/ Stranded(d)
         \/ TaskStarts(d) \/ HandlerEnds(d) \/ Abandoned(d)
         \/ SentAgain(d) \/ Answered(d) \/ CallFails(d)
  PROVE  JobStep(e)
<1>1. Typed /\ DeliveryOK(d)
  BY TypesOf DEF Inv
<1>2. lease' = lease
  BY DEF Reserved, Stranded, TaskStarts, HandlerEnds, Abandoned, SentAgain, Answered, CallFails,
         ReportEnds, server
<1>3. CASE Reserved(d) \/ Stranded(d)
  <2>1. PICK p \in {"created", "over"} :
          phase[d] = "wire" /\ phase' = [phase EXCEPT ![d] = p] /\ result' = result
    BY <1>3 DEF Reserved, Stranded, Set
  <2> QED
    BY <1>1, <1>2, <2>1 DEF Typed, JobStep
<1>4. CASE TaskStarts(d) /\ ~Reports(d, "unhandled")
  <2>1. /\ phase[d] = "created" /\ phase' = [phase EXCEPT ![d] = "running"]
        /\ result' = result
    BY <1>4 DEF TaskStarts, Set
  <2>2. result[d] = "none"
    BY <1>1, <2>1 DEF DeliveryOK, ResultOK
  <2>3. lease[d] \in {"held", "lapsed"}
    <3>1. d[2] \in Nat /\ attempt[d[1]] \in Nat
      BY <1>1, DeliveryIs DEF Typed
    <3>2. lease[d] # "none"
      BY <1>1, <2>1, <3>1 DEF DeliveryOK, LeaseOK
    <3>3. lease[d] \notin {"acked", "nacked"}
      BY <1>1, <2>2 DEF DeliveryOK, LeaseOK, Ends
    <3> QED
      BY <1>1, <3>2, <3>3 DEF Typed
  <2> QED
    BY <1>1, <1>2, <2>1, <2>2, <2>3 DEF Typed, JobStep
<1>5. CASE TaskStarts(d) /\ Reports(d, "unhandled")
  <2>1. /\ phase[d] = "created" /\ phase' = [phase EXCEPT ![d] = "reporting"]
        /\ result' = [result EXCEPT ![d] = "unhandled"]
    BY <1>5 DEF TaskStarts, Reports, Set
  <2>2. result[d] = "none"
    BY <1>1, <2>1 DEF DeliveryOK, ResultOK
  <2> QED
    BY <1>1, <1>2, <2>1, <2>2 DEF Typed, JobStep
<1>6. CASE HandlerEnds(d)
  <2>1. PICK end \in {"returned", "retry", "permanent"} :
          /\ phase[d] = "running" /\ phase' = [phase EXCEPT ![d] = "reporting"]
          /\ result' = [result EXCEPT ![d] = end]
    BY <1>6 DEF HandlerEnds, Reports, Set
  <2> QED
    BY <1>1, <1>2, <2>1 DEF Typed, JobStep
<1>7. CASE Abandoned(d)
  <2>1. CASE phase[d] = "running"
    <3>1. /\ phase' = [phase EXCEPT ![d] = "over"]
          /\ result' = [result EXCEPT ![d] = "cancelled"]
      BY <1>7, <2>1 DEF Abandoned, Set
    <3> QED
      BY <1>1, <1>2, <2>1, <3>1 DEF Typed, JobStep
  <2>2. CASE phase[d] # "running"
    <3>1. phase' = [phase EXCEPT ![d] = "over"] /\ result' = result
      BY <1>7, <2>2 DEF Abandoned, Set
    <3> QED
      BY <1>1, <1>2, <2>2, <3>1 DEF Typed, JobStep
  <2> QED
    BY <2>1, <2>2
<1>8. CASE SentAgain(d) \/ Answered(d) \/ CallFails(d)
  <2>1. /\ phase[d] = "reporting" /\ result' = result
        /\ phase' = phase \/ phase' = [phase EXCEPT ![d] = "over"]
    BY <1>8 DEF SentAgain, Answered, CallFails, ReportEnds, Set
  <2> QED
    BY <1>1, <1>2, <2>1 DEF Typed, JobStep
<1> QED
  BY <1>3, <1>4, <1>5, <1>6, <1>7, <1>8

\* The server settles the delivery that holds the lease, by its report, or ends the
\* lease without one.
LEMMA ServerJobStep ==
  ASSUME Inv, NEW e \in Deliveries,
         \/ \E r \in requests : Executed(r)
         \/ \E j \in Jobs : Lapses(j) \/ AdminDeadLetters(j)
  PROVE  JobStep(e)
<1>1. Typed /\ DeliveryOK(e)
  BY TypesOf DEF Inv
<1>2. phase' = phase /\ result' = result
  BY DEF Executed, Lapses, AdminDeadLetters
<1>3. ASSUME NEW j \in Jobs, Lapses(j) \/ AdminDeadLetters(j), stage[j] = "leased"
      PROVE  JobStep(e)
  <2>1. lease' = [lease EXCEPT ![Latest(j)] = "lapsed"]
    BY <1>3 DEF Lapses, AdminDeadLetters, Set
  <2>2. CASE e = Latest(j)
    <3>1. e[1] = j /\ e[2] = attempt[e[1]]
      BY <2>2, DeliveryIs DEF Latest
    <3>2. lease[e] = "held" /\ lease'[e] = "lapsed"
      BY <1>1, <1>3, <2>1, <2>2, <3>1 DEF DeliveryOK, LeaseOK, Typed
    <3> QED
      BY <1>2, <3>2 DEF JobStep
  <2>3. CASE e # Latest(j)
    <3>1. lease'[e] = lease[e]
      BY <1>1, <2>1, <2>3 DEF Typed
    <3> QED
      BY <1>2, <3>1, JobStutter
  <2> QED
    BY <2>2, <2>3
<1>4. ASSUME NEW r \in requests, Executed(r)
      PROVE  JobStep(e)
  <2> DEFINE j == r.from[1]
             l == IF r.report = "ack" THEN "acked" ELSE "nacked"
  <2>1. r.from \in Deliveries /\ j \in Jobs /\ RequestOK(r)
    <3>1. r.from \in Deliveries /\ RequestOK(r)
      BY DEF Inv, TypeOK
    <3> QED
      BY <3>1, DeliveryIs
  <2>2. \/ lease' = lease
        \/ /\ stage[j] = "leased" /\ attempt[j] = r.attempt
           /\ lease' = [lease EXCEPT ![Latest(j)] = l]
    BY <1>4 DEF Executed, Set
  <2>3. CASE lease' = lease
    BY <1>2, <2>3, JobStutter
  <2>4. CASE /\ stage[j] = "leased" /\ attempt[j] = r.attempt
             /\ lease' = [lease EXCEPT ![Latest(j)] = l]
    <3>1. r.from = Latest(j)
      BY <2>1, <2>4, DeliveryIs DEF RequestOK
    <3>2. CASE e = r.from
      <4>1. e[2] = attempt[e[1]] /\ stage[e[1]] = "leased"
        BY <2>1, <2>4, <3>2 DEF RequestOK
      <4>2. lease[e] = "held" /\ lease'[e] = l
        BY <1>1, <2>4, <3>1, <3>2, <4>1 DEF DeliveryOK, LeaseOK, Typed
      <4>3. /\ result[e] \in Ends /\ phase[e] # "running"
            /\ r.report = "ack" <=> result[e] = "returned"
        BY <2>1, <3>2 DEF RequestOK, Directive, Ends
      <4>4. CASE r.report = "ack"
        BY <1>2, <4>2, <4>3, <4>4 DEF JobStep
      <4>5. CASE r.report # "ack"
        BY <1>2, <4>2, <4>3, <4>5 DEF JobStep, Ends
      <4> QED
        BY <4>4, <4>5
    <3>3. CASE e # r.from
      <4>1. lease'[e] = lease[e]
        BY <1>1, <2>4, <3>1, <3>3 DEF Typed
      <4> QED
        BY <1>2, <4>1, JobStutter
    <3> QED
      BY <3>2, <3>3
  <2> HIDE DEF j, l
  <2> QED
    BY <2>2, <2>3, <2>4
<1>5. ASSUME NEW j \in Jobs, AdminDeadLetters(j), stage[j] # "leased"
      PROVE  JobStep(e)
  BY <1>2, <1>5, JobStutter DEF AdminDeadLetters
<1> QED
  BY <1>3, <1>4, <1>5 DEF Lapses

\* A worker's process may take its handlers with it, and nothing else.
LEMMA ProcessJobStep ==
  ASSUME Inv, NEW w \in Workers, NEW e \in Deliveries,
         Crash(w) \/ Shutdown(w) \/ Drained(w) \/ Restart(w)
  PROVE  JobStep(e)
<1>1. CASE Crash(w)
  <2>1. /\ lease' = lease
        /\ \/ phase'[e] = phase[e] /\ result'[e] = result[e]
           \/ phase[e] = "running" /\ phase'[e] = "over" /\ result'[e] = "cancelled"
           \/ phase[e] # "running" /\ phase'[e] = "over" /\ result'[e] = result[e]
    BY <1>1 DEF Crash, OwnedBy, server
  <2> QED
    BY <2>1 DEF JobStep
<1>2. CASE Shutdown(w) \/ Drained(w) \/ Restart(w)
  <2>1. UNCHANGED <<phase[e], result[e], lease[e]>>
    BY <1>2 DEF Shutdown, Drained, Restart, server
  <2> QED
    BY <2>1, JobStutter
<1> QED
  BY <1>1, <1>2

\* A fleet implements a leased job per delivery: no report of an earlier attempt,
\* no late or repeated request and no crash settles a lease twice, or by what its
\* handler did not do (client.py:439-443, 466-474).
THEOREM FleetRefines == Spec => EveryDeliveryIsALeasedJob
<1>1. Init => \A d \in Deliveries : Job(d)!Init
  <2> SUFFICES ASSUME Init, NEW d \in Deliveries PROVE Job(d)!Init
    OBVIOUS
  <2>1. HandlerOf(d) = "none" /\ LeaseOf(d) = "held"
    BY DEF Init, HandlerOf, LeaseOf
  <2> QED
    BY <2>1 DEF Job!Init
<1>2. Inv /\ [Next]_vars => [\A d \in Deliveries : [Job(d)!Next]_(Job(d)!vars)]_vars
  <2> SUFFICES ASSUME Inv, Next, NEW e \in Deliveries PROVE [Job(e)!Next]_(Job(e)!vars)
    OBVIOUS
  <2>1. CASE Reserving
    BY <2>1, LeasedJobStep, TaskJobStep, JobSteps DEF Reserving
  <2>2. CASE Tasks
    BY <2>2, TaskJobStep, JobSteps DEF Tasks
  <2>3. CASE Reporting
    BY <2>3, ServerJobStep, TaskJobStep, JobSteps DEF Reporting
  <2>4. CASE \E j \in Jobs : Lapses(j) \/ AdminDeadLetters(j)
    BY <2>4, ServerJobStep, JobSteps
  <2>5. CASE Processes
    BY <2>5, ProcessJobStep, JobSteps DEF Processes
  <2>6. CASE AllSettled
    <3>1. UNCHANGED <<phase[e], result[e], lease[e]>>
      BY <2>6 DEF AllSettled, vars, server
    <3> QED
      BY <3>1, JobStutter, JobSteps
  <2> QED
    BY <2>1, <2>2, <2>3, <2>4, <2>5, <2>6 DEF Next
<1> QED
  BY <1>1, <1>2, Invariance, PTL DEF Spec, EveryDeliveryIsALeasedJob
=============================================================================
