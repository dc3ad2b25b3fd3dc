------------------------ MODULE WorkerLoopRefinement ------------------------
(***************************************************************************)
(* WorkerLoop implements BoundedPool, for any deliveries and any limits.   *)
(* Most steps of run() are invisible there.  The invariant says where the  *)
(* visible ones happen: jobs arrive only while run() holds a permit, so    *)
(* with a free slot, and run() ends only where nothing can be left.        *)
(***************************************************************************)
EXTENDS WorkerLoopProofs

\* The instance counts as this module does.
LEMMA SameCardinality ==
  ASSUME NEW S
  PROVE  Pool!Cardinality(S) = Cardinality(S)
BY DEF Pool!Cardinality, Cardinality

\* A step that moves nothing the pool sees is a stutter.
LEMMA Stutter ==
  ASSUME Batch' = Batch, Tasks' = Tasks, PoolMode' = PoolMode
  PROVE  [Pool!Next]_Pool!vars
BY DEF Pool!vars

\* Where no job waits and none runs, run() may end.
LEMMA EndsOrStays ==
  ASSUME Inv, ~Ended, st' = st, cancelReq' = cancelReq,
         pc' \notin {"raised"},
         pc' \in {"returned", "cancelled"} => Batch = {} /\ Tasks = {}
  PROVE  [Pool!Next]_Pool!vars
<1>1. Batch' = Batch /\ Tasks' = Tasks
  BY NothingMoves
<1>2. CASE pc' \in {"returned", "cancelled"}
  <2>1. PoolMode \in {"open", "cancelled"} /\ PoolMode' = "ended"
    BY <1>2 DEF PoolMode, Ended
  <2>2. Pool!End
    BY <1>1, <1>2, <2>1 DEF Pool!End
  <2> QED
    BY <2>2 DEF Pool!Next
<1>3. CASE pc' \notin {"returned", "cancelled"}
  <2>1. PoolMode' = PoolMode
    BY <1>3 DEF PoolMode, Ended
  <2> QED
    BY <1>1, <2>1, Stutter
<1> QED
  BY <1>2, <1>3

-----------------------------------------------------------------------------
\* A worker that has not run yet is an empty, open pool.
LEMMA InitMaps == Init => Pool!Init
BY DEF Init, Pool!Init, Batch, Tasks, PoolMode

\* The children of the race: only the answer of a Reserve is seen, and it comes
\* while run() holds a permit.
LEMMA ChildrenMap ==
  ASSUME Inv, Children
  PROVE  [Pool!Next]_Pool!vars
<1>1. CASE SdDone \/ AcquireDone \/ SleepDone
  <2>1. st' = st /\ PoolMode' = PoolMode
    BY <1>1 DEF SdDone, AcquireDone, SleepDone, PoolMode
  <2> QED
    BY <2>1, NothingMoves, Stutter
<1>2. CASE ServerLeases \/ ReserveFailed
  <2>1. Batch' = Batch /\ Tasks' = Tasks
    BY <1>2 DEF ServerLeases, ReserveFailed, Move, Free, OnWire, Batch, Tasks, Inv, TypeOK
  <2>2. PoolMode' = PoolMode
    BY <1>2 DEF ServerLeases, ReserveFailed, PoolMode
  <2> QED
    BY <2>1, <2>2, Stutter
<1>3. CASE ReserveAnswered
  <2>1. PICK malformed \in SUBSET OnWire :
          st' = [d \in Deliveries |-> IF d \in malformed THEN "stranded"
                                      ELSE IF d \in OnWire \ malformed THEN "batch" ELSE st[d]]
    BY <1>3 DEF ReserveAnswered
  <2>2. pc = "wait" /\ pc' = "wait" /\ op = "reserve" /\ child = "pending" /\ Batch = {}
    BY <1>3 DEF ReserveAnswered, Racing, Inv, WhereOK
  <2>3. Tasks' = Tasks
    BY <2>1 DEF Tasks, OnWire
  <2>4. Batch' \in SUBSET (Deliveries \ Tasks)
    BY <2>1, <2>2 DEF Batch, Tasks, OnWire
  <2>5. Cardinality(Tasks) < MaxInFlight
    BY <2>2, DeliverySets, MaxInFlightPositive
    DEF Inv, TypeOK, PermitsOK, PermitConservation, Held
  <2>6. PoolMode \in {"open", "cancelled"} /\ PoolMode' = PoolMode
    BY <1>3, <2>2 DEF ReserveAnswered, PoolMode
  <2>7. Pool!Hand
    BY <2>2, <2>3, <2>4, <2>5, <2>6, SameCardinality DEF Pool!Hand
  <2> QED
    BY <2>7 DEF Pool!Next
<1> QED
  BY <1>1, <1>2, <1>3 DEF Children

\* Spawning n jobs of a batch that fit the bound starts them.
LEMMA SpawnMaps ==
  ASSUME Inv, NEW n \in Nat, NEW spare, SpawnSome(n, spare),
         n + Cardinality(Tasks) <= MaxInFlight,
         ~Ended, ~cancelReq, cancelReq' = cancelReq
  PROVE  [Pool!Next]_Pool!vars
<1>1. PICK S \in SUBSET Batch :
        Cardinality(S) = n /\ st' = Move(S, "created")
        /\ pc' \in {"drain", "wait", "batch"}
  BY DEF SpawnSome, OrShutdown
<1>2. Tasks' = Tasks \cup S /\ Batch' = Batch \ S
  BY <1>1 DEF Tasks, Batch, Move
<1>3. Cardinality(Tasks') <= MaxInFlight
  BY <1>1, <1>2, DeliverySets, DisjointDeliveries, MaxInFlightPositive
<1>4. PoolMode = "open" /\ PoolMode' = "open"
  BY <1>1 DEF PoolMode, Ended
<1>5. Pool!Start
  BY <1>2, <1>3, <1>4, SameCardinality DEF Pool!Start
<1> QED
  BY <1>5 DEF Pool!Next

\* run() itself: it starts what it was handed within its permits, and returns
\* only with no task.
LEMMA LoopMaps ==
  ASSUME Inv, Loop
  PROVE  [Pool!Next]_Pool!vars
<1>1. CASE RunStart \/ BreakOut \/ NothingAvailable \/ BackedOff \/ DrainDone
  <2>1. /\ ~Ended /\ st' = st /\ cancelReq' = cancelReq /\ pc' # "raised"
        /\ pc' \in {"returned", "cancelled"} => Tasks = {}
    BY <1>1 DEF RunStart, BreakOut, NothingAvailable, BackedOff, DrainDone, Returns, EnterLoop,
       LeaveLoop, OrShutdown, Ended
  <2>2. Batch = {}
    BY <1>1 DEF Inv, WhereOK, ControlOK, RunStart, BreakOut, NothingAvailable, BackedOff, DrainDone,
       Returns
  <2> QED
    BY <2>1, <2>2, EndsOrStays
<1>2. CASE ResultWins \/ GotPermit \/ BackOff
  <2>1. ~Ended /\ st' = st /\ cancelReq' = cancelReq /\ pc' \in {"wait", "reap_sd"}
    BY <1>2 DEF ResultWins, GotPermit, BackOff, Returns, OrShutdown, Ended
  <2> QED
    BY <2>1, EndsOrStays
<1>3. CASE ShutdownWins
  <2>1. Batch' = Batch /\ Tasks' = Tasks
    BY <1>3 DEF ShutdownWins, Move, OnWire, Batch, Tasks, Inv, TypeOK
  <2>2. PoolMode' = PoolMode
    BY <1>3 DEF ShutdownWins, PoolMode
  <2> QED
    BY <2>1, <2>2, Stutter
<1>4. CASE GotJobs
  <2> DEFINE n == LesserOf(Cardinality(Batch), 1 + value)
  <2>1. /\ pc \in {"wait", "reap_sd"} /\ op = "reserve" /\ ~cancelReq /\ cancelReq' = cancelReq
        /\ value + 1 + Cardinality(Tasks) = MaxInFlight
    BY <1>4 DEF Inv, ControlOK, PermitsOK, PermitConservation, Held, GotJobs, Returns
  <2>2. n \in Nat /\ n <= 1 + value
    BY DeliverySets DEF Inv, TypeOK, LesserOf
  <2>3. SpawnSome(n, n - 1)
    BY <1>4 DEF GotJobs
  <2> HIDE DEF n
  <2>4. n + Cardinality(Tasks) <= MaxInFlight
    BY <2>1, <2>2, DeliverySets, MaxInFlightPositive DEF Inv, TypeOK
  <2>5. ~Ended
    BY <2>1 DEF Ended
  <2> QED
    BY <2>1, <2>2, <2>3, <2>4, <2>5, SpawnMaps
<1>5. CASE BatchAcquire
  <2> DEFINE n == LesserOf(Cardinality(Batch), value)
  <2>1. /\ pc = "batch" /\ ~cancelReq /\ cancelReq' = cancelReq
        /\ value + Cardinality(Tasks) <= MaxInFlight
    BY <1>5 DEF Inv, PermitsOK, BatchAcquire
  <2>2. n \in Nat /\ n <= value
    BY DeliverySets DEF Inv, TypeOK, LesserOf
  <2>3. SpawnSome(n, n)
    BY <1>5 DEF BatchAcquire
  <2> HIDE DEF n
  <2>4. n + Cardinality(Tasks) <= MaxInFlight
    BY <2>1, <2>2, DeliverySets, MaxInFlightPositive DEF Inv, TypeOK
  <2>5. ~Ended
    BY <2>1 DEF Ended
  <2> QED
    BY <2>1, <2>2, <2>3, <2>4, <2>5, SpawnMaps
<1>6. CASE Crash
  <2>1. PoolMode = "open" /\ PoolMode' = "crashed"
    BY <1>6 DEF Crash, Returns, PoolMode
  <2>2. Batch = {} /\ Batch' = Batch /\ Tasks' = Tasks
    BY <1>6, NothingMoves DEF Crash, Returns, Inv, WhereOK
  <2>3. Pool!Crash
    BY <2>1, <2>2 DEF Pool!Crash
  <2> QED
    BY <2>3 DEF Pool!Next
<1> QED
  BY <1>1, <1>2, <1>3, <1>4, <1>5, <1>6 DEF Loop

\* A cancelled run() gives up the jobs that have no task and ends once the
\* others are over.
LEMMA CancellingMaps ==
  ASSUME Inv, Cancelling
  PROVE  [Pool!Next]_Pool!vars
<1>1. CASE NeverStarted \/ JobsReaped
  <2>1. ~Ended /\ st' = st /\ cancelReq' = cancelReq /\ pc' = "cancelled"
    BY <1>1 DEF NeverStarted, JobsReaped, Ended
  <2>2. Batch = {} /\ Tasks = {}
    BY <1>1 DEF Inv, WhereOK, ControlOK, NeverStarted, JobsReaped
  <2> QED
    BY <2>1, <2>2, EndsOrStays
<1>2. CASE CancelledInWait
  <2>1. Batch' = {} /\ Tasks' = Tasks
    BY <1>2 DEF CancelledInWait, Move, OnWire, Batch, Tasks
  <2>2. PoolMode = "cancelled" /\ PoolMode' = "cancelled"
    BY <1>2 DEF CancelledInWait, PoolMode
  <2>3. Pool!Drop
    BY <2>1, <2>2 DEF Pool!Drop
  <2> QED
    BY <2>3 DEF Pool!Next
<1>3. CASE Unwind
  <2>1. st' = Move(Batch, "stranded")
    BY <1>3 DEF Unwind
  <2>2. Batch' = {} /\ Tasks' = Tasks
    BY <2>1 DEF Move, Batch, Tasks
  <2>3. CASE ~cancelReq
    <3>1. pc \in {"reap_both", "wait", "reap_sd"} /\ Batch = {}
      BY <1>3, <2>3 DEF Unwind, Returns, Inv, WhereOK
    <3>2. PoolMode = "open" /\ PoolMode' \in {"open", "ended"} /\ (PoolMode' = "ended" => Tasks = {})
      BY <1>3, <2>3, <3>1 DEF Unwind, PoolMode
    <3>3. CASE PoolMode' = "ended"
      BY <2>2, <3>1, <3>2, <3>3 DEF Pool!End, Pool!Next
    <3>4. CASE PoolMode' = "open"
      BY <2>2, <3>1, <3>2, <3>4, Stutter
    <3> QED
      BY <3>2, <3>3, <3>4
  <2>4. CASE cancelReq
    <3>1. /\ PoolMode = "cancelled" /\ PoolMode' \in {"cancelled", "ended"}
          /\ PoolMode' = "ended" => Tasks = {}
      BY <1>3, <2>4 DEF Unwind, Returns, PoolMode
    <3>2. CASE PoolMode' = "ended"
      BY <2>2, <3>1, <3>2 DEF Pool!End, Pool!Next
    <3>3. CASE PoolMode' = "cancelled"
      BY <2>2, <3>1, <3>3 DEF Pool!Drop, Pool!Next
    <3> QED
      BY <3>1, <3>2, <3>3
  <2> QED
    BY <2>3, <2>4
<1> QED
  BY <1>1, <1>2, <1>3 DEF Cancelling

\* A job task is over for the pool when its done callback has run.
LEMMA JobStepsMap ==
  ASSUME Inv, JobSteps
  PROVE  [Pool!Next]_Pool!vars
<1>1. PICK d \in Deliveries : TaskStart(d) \/ TaskFinish(d) \/ Done(d) \/ LeaseExpires(d)
  BY DEF JobSteps
<1>2. PoolMode' = PoolMode
  BY <1>1 DEF TaskStart, TaskFinish, Done, LeaseExpires, PoolMode
<1>3. CASE TaskStart(d) \/ TaskFinish(d) \/ LeaseExpires(d)
  <2>1. Batch' = Batch /\ Tasks' = Tasks
    BY <1>3 DEF TaskStart, TaskFinish, LeaseExpires, Batch, Tasks, Inv, TypeOK
  <2> QED
    BY <1>2, <2>1, Stutter
<1>4. CASE Done(d)
  <2>1. Batch' = Batch /\ Tasks' = Tasks \ {d} /\ d \in Tasks
    BY <1>4 DEF Done, Batch, Tasks, Inv, TypeOK
  <2>2. Pool!Finish
    BY <1>2, <2>1 DEF Pool!Finish
  <2> QED
    BY <2>2 DEF Pool!Next
<1> QED
  BY <1>1, <1>3, <1>4

\* The owner shuts the worker down, cancels run() or calls it again.
LEMMA OwnerMaps ==
  ASSUME Inv, Owner
  PROVE  [Pool!Next]_Pool!vars
<1>1. Batch' = Batch /\ Tasks' = Tasks
  BY NothingMoves DEF Owner, Shutdown, CancelRun, RunAgain
<1>2. CASE Shutdown
  BY <1>1, <1>2, Stutter DEF Shutdown, PoolMode
<1>3. CASE CancelRun
  <2>1. PoolMode = "open" /\ PoolMode' = "cancelled"
    BY <1>3 DEF CancelRun, PoolMode, Ended
  <2> QED
    BY <1>1, <2>1 DEF Pool!Cancel, Pool!Next
<1>4. CASE RunAgain
  <2>1. PoolMode \in {"ended", "crashed"} /\ PoolMode' = "open" /\ Tasks = {}
    BY <1>4 DEF RunAgain, PoolMode, Ended
  <2> QED
    BY <1>1, <2>1 DEF Pool!Restart, Pool!Next
<1> QED
  BY <1>2, <1>3, <1>4 DEF Owner

-----------------------------------------------------------------------------
\* The reserve loop with its races, permits, batches and cancellations is a
\* bounded pool.
THEOREM LoopImplementsPool == Spec => ImplementsPool
<1>1. Init => Pool!Init
  BY InitMaps
<1>2. Inv /\ [Next]_vars => [Pool!Next]_Pool!vars
  <2> SUFFICES ASSUME Inv, [Next]_vars PROVE [Pool!Next]_Pool!vars
    OBVIOUS
  <2>1. CASE UNCHANGED vars
    BY <2>1, NothingMoves, Stutter DEF vars, PoolMode
  <2> QED
    BY <2>1, ChildrenMap, LoopMaps, CancellingMaps, JobStepsMap, OwnerMaps DEF Next
<1> QED
  BY <1>1, <1>2, Invariance, PTL DEF Spec, ImplementsPool, Pool!Spec
=============================================================================
