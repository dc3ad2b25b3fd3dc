---------------------------- MODULE BoundedPool -----------------------------
(***************************************************************************)
(* What Worker.run promises of the jobs it is handed, with nothing of how  *)
(* (worker.py, the docstrings of Worker and of run): they are taken over   *)
(* only while one can start, they start within a bound, all of them start  *)
(* unless run() is cancelled, and run() ends with none of them left.       *)
(***************************************************************************)
EXTENDS Integers, FiniteSets

CONSTANTS Deliveries, Capacity

VARIABLES handed,   \* handed to the worker, without a task
          tasks,    \* with a job task
          mode      \* open; cancelled, not yet ended; ended; crashed, when
                    \* something unexpected ended it with tasks still going

vars == <<handed, tasks, mode>>

Init == handed = {} /\ tasks = {} /\ mode = "open"

Hand ==
  /\ mode \in {"open", "cancelled"}
  /\ handed = {} /\ Cardinality(tasks) < Capacity
  /\ handed' \in SUBSET (Deliveries \ tasks)
  /\ UNCHANGED <<tasks, mode>>

Start ==
  /\ mode = "open"
  /\ \E S \in SUBSET handed :
       /\ handed' = handed \ S
       /\ tasks' = tasks \cup S
       /\ Cardinality(tasks') <= Capacity
  /\ UNCHANGED mode

Finish ==
  /\ \E d \in tasks : tasks' = tasks \ {d}
  /\ UNCHANGED <<handed, mode>>

Cancel ==
  /\ mode = "open"
  /\ mode' = "cancelled"
  /\ UNCHANGED <<handed, tasks>>

Drop ==
  /\ mode = "cancelled"
  /\ handed' = {}
  /\ UNCHANGED <<tasks, mode>>

End ==
  /\ \/ mode = "open" /\ handed = {}
     \/ mode = "cancelled"
  /\ tasks = {}
  /\ mode' = "ended"
  /\ handed' = {}
  /\ UNCHANGED tasks

Crash ==
  /\ mode = "open" /\ handed = {}
  /\ mode' = "crashed"
  /\ UNCHANGED <<handed, tasks>>

Restart ==
  /\ mode \in {"ended", "crashed"} /\ tasks = {}
  /\ mode' = "open"
  /\ UNCHANGED <<handed, tasks>>

Next == Hand \/ Start \/ Finish \/ Cancel \/ Drop \/ End \/ Crash \/ Restart

Spec == Init /\ [][Next]_vars

\* No job that was handed over waits for ever, behind the bound or a shutdown.
HandedJobsLeave == \A d \in Deliveries : d \in handed ~> d \notin handed
=============================================================================
