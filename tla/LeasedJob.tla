----------------------------- MODULE LeasedJob ------------------------------
(***************************************************************************)
(* One delivery of a job to one worker, as the application and the server  *)
(* may see it, whatever the worker does in between: the handler runs at    *)
(* most once; the lease is held until it lapses or the job is reported     *)
(* through it, once; and the report says what the handler did.             *)
(***************************************************************************)

VARIABLES handler,   \* none, running, or how it ended
          lease      \* held, lapsed, or what was reported through it

vars == <<handler, lease>>

HandlerEnds == {"returned", "failed", "cancelled"}
Settled == lease \in {"acked", "nacked"}

Init == handler = "none" /\ lease = "held"

Start ==
  /\ handler = "none" /\ ~Settled
  /\ handler' = "running"
  /\ UNCHANGED lease

\* A handler may fail or be cancelled before its first step.
Stop ==
  /\ handler \in {"none", "running"}
  /\ handler' \in HandlerEnds
  /\ handler' = "returned" => handler = "running"
  /\ UNCHANGED lease

Lapse ==
  /\ lease = "held"
  /\ lease' = "lapsed"
  /\ UNCHANGED handler

\* A job without a handler is nacked too.
Report ==
  /\ lease = "held"
  /\ \/ handler = "returned" /\ lease' = "acked"
     \/ handler \in {"none", "failed"} /\ lease' = "nacked"
  /\ UNCHANGED handler

Next == Start \/ Stop \/ Lapse \/ Report

Spec == Init /\ [][Next]_vars
=============================================================================
