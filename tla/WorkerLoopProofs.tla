-------------------------- MODULE WorkerLoopProofs --------------------------
(***************************************************************************)
(* Safety of WorkerLoop for any number of deliveries and any limits.       *)
(*                                                                         *)
(* The properties speak of counters (value, in_flight, asked) that follow  *)
(* sets (Tasks, the wire, the batch).  The inductive invariant ties each   *)
(* counter to its set and says in which control states run() holds a       *)
(* permit and in which ones jobs may sit on the wire or in a batch.        *)
(***************************************************************************)
EXTENDS WorkerLoop, FiniteSetTheorems, TLAPS

\* What child, op and pc may be together.
ControlOK ==
  /\ pc \in {"wait", "reap_task", "reap_sd", "reap_both"} <=> op # "none"
  /\ op = "none" => child = "none"
  /\ child = "acquired" => op = "acquire"
  /\ child = "slept" => op = "backoff"
  /\ child \in {"jobs", "early", "late", "error", "dropped", "crash"} => op = "reserve"
  /\ pc = "reap_task" => child = "pending"
  /\ pc \in {"start", "returned", "cancelled"} => Tasks = {}

\* Jobs are on the wire only while a Reserve is pending, in a batch only
\* between its answer and the start of their tasks.
WhereOK ==
  /\ OnWire # {} => pc = "wait" /\ op = "reserve" /\ child = "pending"
  /\ Batch # {} =>
       \/ pc \in {"wait", "reap_sd"} /\ child = "jobs"
       \/ pc = "batch"

\* What was asked for fits the free permits.
AskedOK ==
  pc \in {"wait", "reap_sd"} /\ op = "reserve" => asked <= 1 + value

\* PermitConservation, and the part of it that survives a cancellation or a
\* crash, after which run()'s own permit is lost with the semaphore.
PermitsOK ==
  /\ PermitConservation
  /\ value + Cardinality(Tasks) <= MaxInFlight

Inv ==
  /\ TypeOK
  /\ in_flight = Cardinality(Tasks)
  /\ PermitsOK
  /\ ControlOK
  /\ WhereOK
  /\ AskedOK

-----------------------------------------------------------------------------
\* A set of deliveries is finite and has a natural cardinality.
LEMMA DeliverySetsAreFinite ==
  ASSUME NEW S \in SUBSET Deliveries
  PROVE  /\ IsFiniteSet(S)
         /\ Cardinality(S) \in Nat
         /\ Cardinality(S) = 0 <=> S = {}
BY DeliveriesAssumption, FS_Subset, FS_CardinalityType, FS_EmptySet

\* Two disjoint sets of deliveries add up.
LEMMA DisjointDeliveries ==
  ASSUME NEW S \in SUBSET Deliveries, NEW T \in SUBSET Deliveries, S \cap T = {}
  PROVE  Cardinality(S \cup T) = Cardinality(S) + Cardinality(T)
<1>1. IsFiniteSet(S) /\ IsFiniteSet(T) /\ Cardinality(S) \in Nat /\ Cardinality(T) \in Nat
  BY DeliverySetsAreFinite
<1>2. Cardinality(S \cup T) = Cardinality(S) + Cardinality(T) - Cardinality(S \cap T)
  BY <1>1, FS_Union
<1>3. Cardinality(S \cap T) = 0
  BY FS_EmptySet
<1> QED
  BY <1>1, <1>2, <1>3

\* max_in_flight is clamped to a positive number.
LEMMA MaxInFlightPositive == MaxInFlight \in Nat \ {0}
BY LimitsAssumption DEF MaxInFlight, GreaterOf

\* The four sets of deliveries are disjoint, finite sets.
LEMMA DeliverySets ==
  /\ Tasks \in SUBSET Deliveries
  /\ OnWire \in SUBSET Deliveries
  /\ Batch \in SUBSET Deliveries
  /\ Batch \cap Tasks = {}
  /\ OnWire \cap Batch = {}
  /\ Cardinality(Tasks) \in Nat /\ (Cardinality(Tasks) = 0 <=> Tasks = {})
  /\ Cardinality(Batch) \in Nat
  /\ Cardinality(OnWire \cup Batch) \in Nat
  /\ Cardinality(Batch) <= Cardinality(OnWire \cup Batch)
<1>1. /\ Tasks \in SUBSET Deliveries /\ OnWire \in SUBSET Deliveries
      /\ Batch \in SUBSET Deliveries
      /\ Batch \cap Tasks = {} /\ OnWire \cap Batch = {}
  BY DEF Tasks, OnWire, Batch
<1>2. OnWire \cup Batch \in SUBSET Deliveries /\ Batch \in SUBSET (OnWire \cup Batch)
  BY <1>1
<1>3. Cardinality(Batch) <= Cardinality(OnWire \cup Batch)
  BY <1>2, DeliverySetsAreFinite, FS_Subset
<1> QED
  BY <1>1, <1>2, <1>3, DeliverySetsAreFinite

\* A step that moves no delivery moves none of the sets.
LEMMA NothingMoves ==
  ASSUME st' = st
  PROVE  Tasks' = Tasks /\ OnWire' = OnWire /\ Batch' = Batch
BY DEF Tasks, OnWire, Batch

-----------------------------------------------------------------------------
\* The constructor and run() establish the invariant.
LEMMA InitInv == Init => Inv
<1> SUFFICES ASSUME Init PROVE Inv
  OBVIOUS
<1>1. Tasks = {} /\ OnWire = {} /\ Batch = {}
  BY DEF Init, Tasks, OnWire, Batch
<1>2. Cardinality(Tasks) = 0 /\ Cardinality(OnWire \cup Batch) = 0
  BY <1>1, FS_EmptySet
<1>3. TypeOK
  BY MaxInFlightPositive DEF Init, TypeOK, Stages, Pcs, Outcomes
<1>4. PermitsOK
  BY <1>2, MaxInFlightPositive DEF Init, PermitsOK, PermitConservation, Held
<1>5. ControlOK /\ WhereOK /\ AskedOK
  BY <1>1, <1>2 DEF Init, ControlOK, WhereOK, AskedOK
<1> QED
  BY <1>2, <1>3, <1>4, <1>5 DEF Init, Inv

-----------------------------------------------------------------------------
(* One lemma per action, or per group of actions that leave the deliveries *)
(* where they are.                                                         *)

\* run() starts, or is cancelled before it does.
LEMMA StartInv ==
  ASSUME Inv, RunStart \/ NeverStarted
  PROVE  Inv'
<1>1. Tasks' = Tasks /\ OnWire' = OnWire /\ Batch' = Batch
  BY NothingMoves DEF RunStart, NeverStarted
<1>2. OnWire = {} /\ Batch = {} /\ Tasks = {} /\ op = "none" /\ child = "none"
  BY DEF Inv, ControlOK, WhereOK, RunStart, NeverStarted
<1>3. Cardinality(OnWire \cup Batch) = 0
  BY <1>2, FS_EmptySet
<1>4. TypeOK'
  BY DEF Inv, TypeOK, RunStart, NeverStarted, EnterLoop, OrShutdown, LeaveLoop, NoRace, Pcs
<1>5. PermitsOK'
  BY <1>1, <1>2 DEF Inv, PermitsOK, PermitConservation, Held, RunStart, NeverStarted, EnterLoop, OrShutdown,
            LeaveLoop, NoRace
<1>6. ControlOK' /\ WhereOK' /\ AskedOK'
  BY <1>1, <1>2, <1>3 DEF Inv, TypeOK, ControlOK, WhereOK, AskedOK,
     RunStart, NeverStarted, EnterLoop, OrShutdown, LeaveLoop, NoRace
<1> QED
  BY <1>1, <1>4, <1>5, <1>6 DEF Inv, RunStart, NeverStarted

\* The children of _or_shutdown other than a reserve.
LEMMA RaceInv ==
  ASSUME Inv, SdDone \/ AcquireDone \/ SleepDone
  PROVE  Inv'
<1>1. Tasks' = Tasks /\ OnWire' = OnWire /\ Batch' = Batch
  BY NothingMoves DEF SdDone, AcquireDone, SleepDone
<1>2. pc = "wait" /\ op # "none" /\ (child = "pending" => Batch = {})
  BY DEF Inv, ControlOK, WhereOK, SdDone, AcquireDone, SleepDone, Racing
<1>4. TypeOK'
  BY MaxInFlightPositive DEF Inv, TypeOK, Outcomes, Pcs, SdDone, AcquireDone, SleepDone, Racing
<1>5. PermitsOK'
  BY <1>1, <1>2, DeliverySets, MaxInFlightPositive
  DEF Inv, TypeOK, ControlOK, PermitsOK, PermitConservation, Held, Outcomes, SdDone, AcquireDone, SleepDone, Racing
<1>6. ControlOK' /\ WhereOK' /\ AskedOK'
  BY <1>1, <1>2, DeliverySets, MaxInFlightPositive
  DEF Inv, TypeOK, ControlOK, WhereOK, AskedOK, Outcomes, SdDone, AcquireDone, SleepDone, Racing
<1> QED
  BY <1>1, <1>4, <1>5, <1>6 DEF Inv, SdDone, AcquireDone, SleepDone

\* The awaitable won the race.
LEMMA ResultWinsInv ==
  ASSUME Inv, ResultWins
  PROVE  Inv'
<1>1. Tasks' = Tasks /\ OnWire' = OnWire /\ Batch' = Batch
  BY NothingMoves DEF ResultWins
<1>2. child # "pending" /\ OnWire = {}
  BY DEF Inv, WhereOK, ResultWins, ChildDone, Outcomes
<1>4. TypeOK'
  BY MaxInFlightPositive DEF Inv, TypeOK, Outcomes, Pcs, ResultWins, ChildDone
<1>5. PermitsOK'
  BY <1>1, <1>2, DeliverySets, MaxInFlightPositive
  DEF Inv, TypeOK, ControlOK, PermitsOK, PermitConservation, Held, Outcomes, ResultWins, ChildDone
<1>6. ControlOK' /\ WhereOK' /\ AskedOK'
  BY <1>1, <1>2, DeliverySets, MaxInFlightPositive
  DEF Inv, TypeOK, ControlOK, WhereOK, AskedOK, Outcomes, ResultWins, ChildDone
<1> QED
  BY <1>1, <1>4, <1>5, <1>6 DEF Inv, ResultWins

\* Shutdown won the race: the loop is left.
LEMMA BreakOutInv ==
  ASSUME Inv, BreakOut
  PROVE  Inv'
<1>1. Tasks' = Tasks /\ OnWire' = OnWire /\ Batch' = Batch
  BY NothingMoves DEF BreakOut
<1>2. OnWire = {} /\ Batch = {} /\ Cardinality(OnWire \cup Batch) = 0
  BY FS_EmptySet DEF Inv, WhereOK, ControlOK, BreakOut
<1>4. TypeOK'
  BY MaxInFlightPositive DEF Inv, TypeOK, Outcomes, Pcs, BreakOut, LeaveLoop, NoRace
<1>5. PermitsOK'
  BY <1>1, <1>2, DeliverySets, MaxInFlightPositive
  DEF Inv, TypeOK, ControlOK, PermitsOK, PermitConservation, Held, Outcomes, BreakOut, LeaveLoop, NoRace
<1>6. ControlOK' /\ WhereOK' /\ AskedOK'
  BY <1>1, <1>2, DeliverySets, MaxInFlightPositive
  DEF Inv, TypeOK, ControlOK, WhereOK, AskedOK, Outcomes, BreakOut, LeaveLoop, NoRace
<1> QED
  BY <1>1, <1>4, <1>5, <1>6 DEF Inv, BreakOut

\* The request fits the permits: in_flight and value count the same tasks.
LEMMA GotPermitInv ==
  ASSUME Inv, GotPermit
  PROVE  Inv'
<1>1. Tasks' = Tasks /\ OnWire' = OnWire /\ Batch' = Batch
  BY NothingMoves DEF GotPermit
<1>2. OnWire = {} /\ Batch = {} /\ Cardinality(OnWire \cup Batch) = 0
  BY FS_EmptySet DEF Inv, WhereOK, ControlOK, GotPermit, Returns
<1>3. RequestedJobs \in Nat /\ RequestedJobs <= 1 + value
  <2>1. value + 1 + in_flight = MaxInFlight
    BY DEF Inv, PermitsOK, PermitConservation, Held, ControlOK, GotPermit, Returns
  <2>2. value \in Nat /\ in_flight \in Nat
    BY DEF Inv, TypeOK
  <2>3. GreaterOf(1, MaxInFlight - in_flight) = 1 + value
    BY <2>1, <2>2, MaxInFlightPositive DEF GreaterOf
  <2> QED
    BY <2>2, <2>3, LimitsAssumption DEF RequestedJobs, LesserOf
<1>4. TypeOK'
  BY <1>3 DEF Inv, TypeOK, Outcomes, Pcs, GotPermit, Returns, OrShutdown
<1>5. PermitsOK'
  BY <1>1, <1>2, DeliverySets, MaxInFlightPositive
  DEF Inv, TypeOK, ControlOK, PermitsOK, PermitConservation, Held, Outcomes, GotPermit, Returns, OrShutdown
<1>6. ControlOK' /\ WhereOK' /\ AskedOK'
  BY <1>1, <1>2, <1>3, DeliverySets, MaxInFlightPositive
  DEF Inv, TypeOK, ControlOK, WhereOK, AskedOK, Outcomes, GotPermit, Returns, OrShutdown
<1> QED
  BY <1>1, <1>4, <1>5, <1>6 DEF Inv, GotPermit

\* An error, an empty answer, the end of a backoff.
LEMMA BackOffInv ==
  ASSUME Inv, BackOff \/ BackedOff \/ NothingAvailable
  PROVE  Inv'
<1>1. Tasks' = Tasks /\ OnWire' = OnWire /\ Batch' = Batch
  BY NothingMoves DEF BackOff, BackedOff, NothingAvailable
<1>2. OnWire = {} /\ Batch = {} /\ Cardinality(OnWire \cup Batch) = 0
  BY FS_EmptySet DEF Inv, WhereOK, ControlOK, BackOff, BackedOff, NothingAvailable, Returns
<1>4. TypeOK'
  BY MaxInFlightPositive DEF Inv, TypeOK, Outcomes, Pcs, BackOff, BackedOff, NothingAvailable, Returns, OrShutdown, EnterLoop, LeaveLoop, NoRace
<1>5. PermitsOK'
  BY <1>1, <1>2, DeliverySets, MaxInFlightPositive
  DEF Inv, TypeOK, ControlOK, PermitsOK, PermitConservation, Held, Outcomes, BackOff, BackedOff, NothingAvailable, Returns, OrShutdown, EnterLoop, LeaveLoop, NoRace
<1>6. ControlOK' /\ WhereOK' /\ AskedOK'
  BY <1>1, <1>2, DeliverySets, MaxInFlightPositive
  DEF Inv, TypeOK, ControlOK, WhereOK, AskedOK, Outcomes, BackOff, BackedOff, NothingAvailable, Returns, OrShutdown, EnterLoop, LeaveLoop, NoRace
<1> QED
  BY <1>1, <1>4, <1>5, <1>6 DEF Inv, BackOff, BackedOff, NothingAvailable

\* An exception that run() does not handle.
LEMMA CrashInv ==
  ASSUME Inv, Crash
  PROVE  Inv'
<1>1. Tasks' = Tasks /\ OnWire' = OnWire /\ Batch' = Batch
  BY NothingMoves DEF Crash
<1>2. OnWire = {} /\ Batch = {} /\ Cardinality(OnWire \cup Batch) = 0
  BY FS_EmptySet DEF Inv, WhereOK, ControlOK, Crash, Returns
<1>4. TypeOK'
  BY MaxInFlightPositive DEF Inv, TypeOK, Outcomes, Pcs, Crash, Returns, NoRace
<1>5. PermitsOK'
  BY <1>1, <1>2, DeliverySets, MaxInFlightPositive
  DEF Inv, TypeOK, ControlOK, PermitsOK, PermitConservation, Held, Outcomes, Crash, Returns, NoRace
<1>6. ControlOK' /\ WhereOK' /\ AskedOK'
  BY <1>1, <1>2, DeliverySets, MaxInFlightPositive
  DEF Inv, TypeOK, ControlOK, WhereOK, AskedOK, Outcomes, Crash, Returns, NoRace
<1> QED
  BY <1>1, <1>4, <1>5, <1>6 DEF Inv, Crash

-----------------------------------------------------------------------------
(* The actions that move deliveries.                                       *)

\* The server leases free deliveries, as many as it likes.
LEMMA ServerLeasesInv ==
  ASSUME Inv, ServerLeases
  PROVE  Inv'
<1>1. PICK S \in SUBSET Free : st' = Move(S, "wire")
  BY DEF ServerLeases
<1>2. pc = "wait" /\ op = "reserve" /\ child = "pending" /\ OnWire = {} /\ Batch = {}
  BY DEF Inv, WhereOK, ServerLeases, Racing
<1>3. Tasks' = Tasks /\ OnWire' = S /\ Batch' = Batch
  BY <1>1, <1>2 DEF Tasks, OnWire, Batch, Free, Move
<1>4. TypeOK'
  BY <1>1 DEF Inv, TypeOK, ServerLeases, Move, Stages
<1>5. PermitsOK'
  BY <1>3 DEF Inv, PermitsOK, PermitConservation, Held, ServerLeases
<1>6. ControlOK' /\ WhereOK' /\ AskedOK'
  BY <1>1, <1>2, <1>3 DEF Inv, ControlOK, WhereOK, AskedOK, ServerLeases
<1> QED
  BY <1>3, <1>4, <1>5, <1>6 DEF Inv, ServerLeases

\* The answer of a reserve: the wire empties into the batch.
LEMMA ReserveAnsweredInv ==
  ASSUME Inv, ReserveAnswered
  PROVE  Inv'
<1>1. PICK malformed \in SUBSET OnWire :
        /\ st' = [d \in Deliveries |-> IF d \in malformed THEN "stranded"
                     ELSE IF d \in OnWire \ malformed THEN "batch" ELSE st[d]]
        /\ child' \in IF OnWire \ malformed = {} THEN {"early", "late"} ELSE {"jobs"}
  BY DEF ReserveAnswered
<1>2. pc = "wait" /\ op = "reserve" /\ child = "pending" /\ Batch = {}
  BY DEF Inv, WhereOK, ReserveAnswered, Racing
<1>3. Tasks' = Tasks /\ OnWire' = {} /\ Batch' = OnWire \ malformed
  BY <1>1, <1>2 DEF Tasks, OnWire, Batch
<1>4. TypeOK'
  BY <1>1 DEF Inv, TypeOK, ReserveAnswered, Stages, Outcomes
<1>5. PermitsOK'
  BY <1>2, <1>3 DEF Inv, PermitsOK, PermitConservation, Held, ReserveAnswered
<1>6. ControlOK' /\ WhereOK' /\ AskedOK'
  BY <1>1, <1>2, <1>3 DEF Inv, ControlOK, WhereOK, AskedOK, ReserveAnswered
<1> QED
  BY <1>3, <1>4, <1>5, <1>6 DEF Inv, ReserveAnswered

\* A reserve fails, or shutdown beats it: what was on the wire is stranded.
LEMMA WireStrandedInv ==
  ASSUME Inv, ReserveFailed \/ ShutdownWins
  PROVE  Inv'
<1>1. st' = Move(OnWire, "stranded")
  BY DEF ReserveFailed, ShutdownWins
<1>2. pc = "wait" /\ child = "pending" /\ Batch = {} /\ op # "none"
  BY DEF Inv, WhereOK, ControlOK, ReserveFailed, ShutdownWins, Racing
<1>3. Tasks' = Tasks /\ OnWire' = {} /\ Batch' = {}
  BY <1>1, <1>2 DEF Tasks, OnWire, Batch, Move
<1>4. TypeOK'
  BY <1>1 DEF Inv, TypeOK, ReserveFailed, ShutdownWins, Move, Stages, Outcomes, Pcs
<1>5. PermitsOK'
  BY <1>2, <1>3 DEF Inv, PermitsOK, PermitConservation, Held, ReserveFailed, ShutdownWins, Racing
<1>6. ControlOK' /\ WhereOK' /\ AskedOK'
  BY <1>2, <1>3
  DEF Inv, TypeOK, ControlOK, WhereOK, AskedOK, ReserveFailed, ShutdownWins, Racing
<1> QED
  BY <1>3, <1>4, <1>5, <1>6 DEF Inv, ReserveFailed, ShutdownWins

\* SpawnSome(n, spare) turns n jobs of the batch into tasks.
LEMMA Spawned ==
  ASSUME TypeOK, NEW n \in Nat, NEW spare, SpawnSome(n, spare)
  PROVE  \E S \in SUBSET Batch :
           /\ st' = Move(S, "created")
           /\ Cardinality(Tasks') = Cardinality(Tasks) + n
           /\ Tasks' # {} \/ n = 0
           /\ OnWire' = OnWire
           /\ Batch' = Batch \ S
           /\ value' = value - spare
           /\ in_flight' = in_flight + n
           /\ IF Cardinality(Batch) = n
                THEN /\ Batch' = {}
                     /\ IF shutdown THEN pc' = "drain" /\ NoRace
                                    ELSE OrShutdown("acquire")
                ELSE pc' = "batch" /\ NoRace
<1>1. PICK S \in SUBSET Batch :
        /\ Cardinality(S) = n /\ st' = Move(S, "created")
        /\ value' = value - spare /\ in_flight' = in_flight + n
        /\ IF S = Batch
             THEN IF shutdown THEN pc' = "drain" /\ NoRace ELSE OrShutdown("acquire")
             ELSE pc' = "batch" /\ NoRace
  BY DEF SpawnSome
<1>2. Tasks' = Tasks \cup S /\ OnWire' = OnWire /\ Batch' = Batch \ S
  BY <1>1 DEF Tasks, OnWire, Batch, Move
<1>3. Cardinality(Tasks \cup S) = Cardinality(Tasks) + n
  BY <1>1, DeliverySets, DisjointDeliveries
<1>4. IsFiniteSet(Batch)
  BY DeliverySets, DeliverySetsAreFinite
<1>5. S = Batch <=> Cardinality(Batch) = n
  BY <1>1, <1>4, FS_Subset
<1>6. S # {} \/ n = 0
  BY <1>1, FS_EmptySet
<1> QED
  BY <1>1, <1>2, <1>3, <1>5, <1>6

\* A reserve's jobs are spawned: the first on run()'s permit, the others on
\* permits of their own.
LEMMA GotJobsInv ==
  ASSUME Inv, GotJobs
  PROVE  Inv'
<1> DEFINE n == LesserOf(Cardinality(Batch), 1 + value)
<1>1. /\ pc \in {"wait", "reap_sd"} /\ child = "jobs" /\ op = "reserve"
      /\ OnWire = {} /\ OnWire \cup Batch = Batch
      /\ value + 1 + Cardinality(Tasks) = MaxInFlight
  BY DEF Inv, WhereOK, ControlOK, PermitsOK, PermitConservation, Held, GotJobs, Returns
<1>2. /\ n \in Nat /\ n <= Cardinality(Batch) /\ n <= 1 + value
      /\ n = Cardinality(Batch) \/ n = 1 + value
  BY <1>1, DeliverySets DEF Inv, TypeOK, AskedOK, LesserOf
<1>3. SpawnSome(n, n - 1)
  BY DEF GotJobs
<1> HIDE DEF n
<1>4. PICK S \in SUBSET Batch :
           /\ st' = Move(S, "created")
           /\ Cardinality(Tasks') = Cardinality(Tasks) + n
           /\ OnWire' = OnWire
           /\ value' = value - (n - 1)
           /\ in_flight' = in_flight + n
           /\ IF Cardinality(Batch) = n
                THEN /\ Batch' = {}
                     /\ IF shutdown THEN pc' = "drain" /\ NoRace
                                    ELSE OrShutdown("acquire")
                ELSE pc' = "batch" /\ NoRace
  BY <1>2, <1>3, Spawned DEF Inv
<1>5. TypeOK'
  BY <1>2, <1>4, DeliverySets
  DEF Inv, TypeOK, GotJobs, Move, Stages, Pcs, NoRace, OrShutdown
<1>6. PermitsOK'
  BY <1>1, <1>2, <1>4, DeliverySets, MaxInFlightPositive
  DEF Inv, TypeOK, PermitsOK, PermitConservation, Held, NoRace, OrShutdown
<1>7. ControlOK' /\ WhereOK' /\ AskedOK'
  BY <1>1, <1>2, <1>4
  DEF Inv, TypeOK, ControlOK, WhereOK, AskedOK, GotJobs, NoRace, OrShutdown
<1> QED
  BY <1>4, <1>5, <1>6, <1>7, <1>1 DEF Inv

\* The rest of a batch is spawned as permits come back.
LEMMA BatchAcquireInv ==
  ASSUME Inv, BatchAcquire
  PROVE  Inv'
<1> DEFINE n == LesserOf(Cardinality(Batch), value)
<1>1. pc = "batch" /\ OnWire = {} /\ op = "none" /\ child = "none"
  BY DEF Inv, WhereOK, ControlOK, BatchAcquire
<1>2. n \in Nat /\ n <= value
  BY DeliverySets DEF Inv, TypeOK, LesserOf
<1>3. SpawnSome(n, n)
  BY DEF BatchAcquire
<1> HIDE DEF n
<1>4. PICK S \in SUBSET Batch :
           /\ st' = Move(S, "created")
           /\ Cardinality(Tasks') = Cardinality(Tasks) + n
           /\ OnWire' = OnWire
           /\ value' = value - n
           /\ in_flight' = in_flight + n
           /\ IF Cardinality(Batch) = n
                THEN /\ Batch' = {}
                     /\ IF shutdown THEN pc' = "drain" /\ NoRace
                                    ELSE OrShutdown("acquire")
                ELSE pc' = "batch" /\ NoRace
  BY <1>2, <1>3, Spawned DEF Inv
<1>5. TypeOK'
  BY <1>2, <1>4 DEF Inv, TypeOK, BatchAcquire, Move, Stages, Pcs, NoRace, OrShutdown
<1>6. PermitsOK'
  BY <1>1, <1>2, <1>4, DeliverySets, MaxInFlightPositive
  DEF Inv, TypeOK, PermitsOK, PermitConservation, Held, NoRace, OrShutdown
<1>7. ControlOK' /\ WhereOK' /\ AskedOK'
  BY <1>1, <1>4
  DEF Inv, TypeOK, ControlOK, WhereOK, AskedOK, NoRace, OrShutdown
<1> QED
  BY <1>4, <1>5, <1>6, <1>7 DEF Inv

-----------------------------------------------------------------------------
(* Cancellation, the job tasks, the owner.                                 *)

\* A cancelled run() forgets the jobs without a task, never a task.
LEMMA ForgetInv ==
  ASSUME Inv, CancelledInWait \/ Unwind
  PROVE  Inv'
<1>1. /\ Tasks' = Tasks /\ OnWire' = {} /\ Batch' = {}
      /\ st' \in [Deliveries -> Stages]
  <2>1. CASE CancelledInWait
    BY <2>1 DEF Inv, TypeOK, CancelledInWait, Tasks, OnWire, Batch, Move, Stages
  <2>2. CASE Unwind
    <3>1. OnWire = {} /\ st' = Move(Batch, "stranded")
      BY <2>2 DEF Inv, WhereOK, Unwind, Returns
    <3> QED
      BY <3>1 DEF Inv, TypeOK, Tasks, OnWire, Batch, Move, Stages
  <2> QED
    BY <2>1, <2>2
<1>2. TypeOK'
  BY <1>1, DeliverySets DEF Inv, TypeOK, CancelledInWait, Unwind, NoRace, Pcs
<1>3. PermitsOK' /\ ControlOK' /\ WhereOK' /\ AskedOK'
  BY <1>1 DEF Inv, PermitsOK, PermitConservation, ControlOK, WhereOK, AskedOK,
              CancelledInWait, Unwind, NoRace
<1> QED
  BY <1>1, <1>2, <1>3 DEF Inv, CancelledInWait, Unwind

\* run() ends, is told to stop, or is called again.
LEMMA OwnerInv ==
  ASSUME Inv, DrainDone \/ JobsReaped \/ Shutdown \/ CancelRun \/ RunAgain
  PROVE  Inv'
<1>1. Tasks' = Tasks /\ OnWire' = OnWire /\ Batch' = Batch
  BY NothingMoves DEF DrainDone, JobsReaped, Shutdown, CancelRun, RunAgain
<1>2. Tasks = {} => Cardinality(Tasks) = 0
  BY DeliverySets
<1>3. TypeOK'
  BY DeliverySets, MaxInFlightPositive
  DEF Inv, TypeOK, Pcs, DrainDone, JobsReaped, Shutdown, CancelRun, RunAgain
<1>4. PermitsOK'
  BY <1>1, <1>2, MaxInFlightPositive
  DEF Inv, ControlOK, PermitsOK, PermitConservation, Held, DrainDone, JobsReaped, Shutdown, CancelRun, RunAgain, Ended
<1>5. ControlOK' /\ WhereOK' /\ AskedOK'
  BY <1>1 DEF Inv, ControlOK, WhereOK, AskedOK,
              DrainDone, JobsReaped, Shutdown, CancelRun, RunAgain, Ended
<1> QED
  BY <1>1, <1>3, <1>4, <1>5 DEF Inv, DrainDone, JobsReaped, Shutdown, CancelRun, RunAgain

\* A job task starts or ends, a stranded lease expires.
LEMMA TaskInv ==
  ASSUME Inv, NEW d \in Deliveries, TaskStart(d) \/ TaskFinish(d) \/ LeaseExpires(d)
  PROVE  Inv'
<1>1. Tasks' = Tasks /\ OnWire' = OnWire /\ Batch' = Batch
  BY DEF Inv, TypeOK, TaskStart, TaskFinish, LeaseExpires, Tasks, OnWire, Batch
<1>2. TypeOK'
  BY DEF Inv, TypeOK, Stages, TaskStart, TaskFinish, LeaseExpires
<1>3. PermitsOK' /\ ControlOK' /\ WhereOK' /\ AskedOK'
  BY <1>1 DEF Inv, PermitsOK, PermitConservation, Held, ControlOK, WhereOK, AskedOK,
              TaskStart, TaskFinish, LeaseExpires
<1> QED
  BY <1>1, <1>2, <1>3 DEF Inv, TaskStart, TaskFinish, LeaseExpires

\* The done callback gives the task's permit back.
LEMMA DoneInv ==
  ASSUME Inv, NEW d \in Deliveries, Done(d)
  PROVE  Inv'
<1>1. d \in Tasks /\ Tasks' = Tasks \ {d} /\ OnWire' = OnWire /\ Batch' = Batch
  BY DEF Inv, TypeOK, Done, Tasks, OnWire, Batch
<1>2. Cardinality(Tasks') = Cardinality(Tasks) - 1 /\ Cardinality(Tasks') \in Nat
  <2>1. IsFiniteSet(Tasks) /\ Tasks' \in SUBSET Deliveries
    BY <1>1, DeliverySets, DeliverySetsAreFinite
  <2> QED
    BY <1>1, <2>1, FS_RemoveElement, DeliverySetsAreFinite
<1>3. TypeOK'
  BY <1>2, DeliverySets DEF Inv, TypeOK, Stages, Done
<1>4. PermitsOK'
  BY <1>2, DeliverySets, MaxInFlightPositive DEF Inv, TypeOK, PermitsOK, PermitConservation, Held, Done
<1>5. ControlOK' /\ WhereOK' /\ AskedOK'
  BY <1>1 DEF Inv, TypeOK, ControlOK, WhereOK, AskedOK, Done
<1> QED
  BY <1>2, <1>3, <1>4, <1>5 DEF Inv, Done

\* A step that changes nothing.
LEMMA StutterInv ==
  ASSUME Inv, UNCHANGED vars
  PROVE  Inv'
<1>1. Tasks' = Tasks /\ OnWire' = OnWire /\ Batch' = Batch
  BY NothingMoves DEF vars
<1> QED
  BY <1>1 DEF Inv, TypeOK, PermitsOK, PermitConservation, Held, ControlOK, WhereOK, AskedOK,
              vars

\* Every step keeps the invariant.
LEMMA NextInv ==
  ASSUME Inv, [Next]_vars
  PROVE  Inv'
<1>1. CASE Children
  BY <1>1, RaceInv, ServerLeasesInv, ReserveAnsweredInv, WireStrandedInv DEF Children
<1>2. CASE Loop
  BY <1>2, StartInv, WireStrandedInv, BreakOutInv, ResultWinsInv, GotPermitInv, BackOffInv,
     GotJobsInv, CrashInv, BatchAcquireInv, OwnerInv DEF Loop
<1>3. CASE Cancelling
  BY <1>3, StartInv, ForgetInv, OwnerInv DEF Cancelling
<1>4. CASE JobSteps
  BY <1>4, TaskInv, DoneInv DEF JobSteps
<1>5. CASE Owner
  BY <1>5, OwnerInv DEF Owner
<1>6. CASE UNCHANGED vars
  BY <1>6, StutterInv
<1> QED
  BY <1>1, <1>2, <1>3, <1>4, <1>5, <1>6 DEF Next

-----------------------------------------------------------------------------
(* The theorems.                                                           *)

\* Every reachable state satisfies the inductive invariant.
THEOREM Invariance == Spec => []Inv
<1>1. Init => Inv
  BY InitInv
<1>2. Inv /\ [Next]_vars => Inv'
  BY NextInv
<1> QED
  BY <1>1, <1>2, PTL DEF Spec

\* Every variable keeps its type: the counters never go below zero.
THEOREM TypeCorrect == Spec => []TypeOK
<1>1. Inv => TypeOK
  BY DEF Inv
<1> QED
  BY <1>1, Invariance, PTL

\* No path through run() loses or makes up a permit.
THEOREM PermitsConserved == Spec => []PermitConservation
<1>1. Inv => PermitConservation
  BY DEF Inv, PermitsOK
<1> QED
  BY <1>1, Invariance, PTL

\* A batch that is no larger than was asked for starts without waiting.
THEOREM WholeBatchesStart == Spec => WholeBatchStarts
<1>1. ASSUME Inv, [Next]_vars
      PROVE  [pc # "batch" /\ pc' = "batch" => Cardinality(Batch) > asked]_vars
  <2> SUFFICES ASSUME pc # "batch", pc' = "batch"
               PROVE  Cardinality(Batch) > asked
    OBVIOUS
  <2>1. GotJobs
    BY <1>1 DEF Next, Children, SdDone, AcquireDone, SleepDone, ServerLeases, ReserveAnswered,
       ReserveFailed, Loop, RunStart, ShutdownWins, BreakOut, ResultWins, GotPermit, BackOff,
       NothingAvailable, BackedOff, Crash, BatchAcquire, DrainDone, LeaveLoop, EnterLoop,
       OrShutdown, Cancelling, NeverStarted, CancelledInWait, Unwind, JobsReaped, JobSteps,
       TaskStart, TaskFinish, Done, LeaseExpires, Owner, Shutdown, CancelRun, RunAgain, vars
  <2>2. op = "reserve" /\ pc \in {"wait", "reap_sd"}
    BY <1>1, <2>1 DEF Inv, ControlOK, GotJobs, Returns
  <2> DEFINE n == LesserOf(Cardinality(Batch), 1 + value)
  <2>3. n \in Nat /\ (n = Cardinality(Batch) \/ Cardinality(Batch) > 1 + value)
    BY <1>1, DeliverySets DEF Inv, TypeOK, LesserOf
  <2>4. SpawnSome(n, n - 1)
    BY <2>1 DEF GotJobs
  <2> HIDE DEF n
  <2>5. Cardinality(Batch) # n
    BY <1>1, <2>3, <2>4, Spawned DEF Inv, NoRace, OrShutdown
  <2>6. asked <= 1 + value
    BY <1>1, <2>2 DEF Inv, AskedOK
  <2> QED
    BY <1>1, <2>3, <2>5, <2>6, DeliverySets DEF Inv, TypeOK
<1> QED
  BY <1>1, Invariance, PTL DEF Spec, WholeBatchStarts

\* Nothing is left behind when run() returns or raises CancelledError.
THEOREM NothingIsLeaked == Spec => []NothingLeaks
<1>1. Inv => NothingLeaks
  BY FS_EmptySet DEF Inv, ControlOK, WhereOK, NothingLeaks
<1> QED
  BY <1>1, Invariance, PTL

\* Never more than max_in_flight job tasks, even under a server that sends more
\* jobs than it was asked for.
THEOREM ConcurrencyBounded == Spec => []BoundedConcurrency
<1>1. Inv => BoundedConcurrency
  BY DeliverySets, MaxInFlightPositive DEF Inv, TypeOK, PermitsOK, BoundedConcurrency
<1> QED
  BY <1>1, Invariance, PTL

\* Jobs a reserve returned get a task unless run() is cancelled.
THEOREM ReturnedJobsProcessed == Spec => ReturnedJobsAreProcessed
<1>1. ASSUME Inv, [Next]_vars
      PROVE  [\A d \in Deliveries : st[d] = "batch" /\ st'[d] # "batch"
                => st'[d] = "created" \/ cancelReq]_vars
  <2> SUFFICES ASSUME NEW d \in Deliveries, st[d] = "batch", st'[d] # "batch", ~cancelReq
               PROVE  st'[d] = "created"
    OBVIOUS
  <2>1. d \in Batch /\ d \notin OnWire
    BY DEF Batch, OnWire
  <2>2. CASE Children
    BY <1>1, <2>1, <2>2 DEF Inv, WhereOK, Children, SdDone, AcquireDone, SleepDone, ServerLeases,
       ReserveAnswered, ReserveFailed, Racing, Move, Free
  <2>3. CASE Loop
    BY <2>1, <2>3 DEF Loop, RunStart, ShutdownWins, BreakOut, ResultWins, GotPermit, BackOff,
       NothingAvailable, BackedOff, GotJobs, Crash, BatchAcquire, DrainDone, SpawnSome, Move
  <2>4. CASE Cancelling
    <3>1. ~Unwind \/ pc = "reap_both" \/ child = "dropped"
      BY DEF Unwind, Returns
    <3> QED
      BY <1>1, <2>1, <2>4, <3>1 DEF Inv, WhereOK, Cancelling, NeverStarted, CancelledInWait,
         JobsReaped, Unwind, Returns
  <2>5. CASE JobSteps
    BY <1>1, <2>5 DEF Inv, TypeOK, JobSteps, TaskStart, TaskFinish, Done, LeaseExpires
  <2>6. CASE Owner \/ UNCHANGED vars
    BY <2>6 DEF Owner, Shutdown, CancelRun, RunAgain, vars
  <2> QED
    BY <1>1, <2>2, <2>3, <2>4, <2>5, <2>6 DEF Next
<1> QED
  BY <1>1, Invariance, PTL DEF Spec, ReturnedJobsAreProcessed

\* A cancellation of run() stops it wherever it strikes, and comes out of it.
THEOREM CancellationNeverMasked == Spec => CancellationIsNotMasked
<1>1. ASSUME Inv, [Next]_vars
      PROVE  [cancelReq =>
                /\ \A d \in Deliveries : st'[d] = "created" => st[d] = "created"
                /\ op' = "reserve" => op = "reserve"
                /\ Ended' /\ ~Ended => pc' = "cancelled"]_vars
  <2> SUFFICES ASSUME cancelReq
               PROVE  /\ \A d \in Deliveries : st'[d] = "created" => st[d] = "created"
                      /\ op' = "reserve" => op = "reserve"
                      /\ Ended' /\ ~Ended => pc' = "cancelled"
    OBVIOUS
  <2>1. CASE Children
    BY <1>1, <2>1 DEF Inv, TypeOK, Children, SdDone, AcquireDone, SleepDone, ServerLeases,
       ReserveAnswered, ReserveFailed, Racing, Move, Free, Ended
  <2>2. CASE Loop
    BY <2>2 DEF Loop, RunStart, ShutdownWins, BreakOut, ResultWins, GotPermit, BackOff,
       NothingAvailable, BackedOff, GotJobs, Crash, BatchAcquire, DrainDone, Returns, Ended
  <2>3. CASE Cancelling
    BY <1>1, <2>3 DEF Inv, TypeOK, Cancelling, NeverStarted, CancelledInWait, Unwind, JobsReaped,
       NoRace, Move, Ended
  <2>4. CASE JobSteps
    BY <1>1, <2>4 DEF Inv, TypeOK, JobSteps, TaskStart, TaskFinish, Done, LeaseExpires, Ended
  <2>5. CASE Owner \/ UNCHANGED vars
    BY <2>5 DEF Owner, Shutdown, CancelRun, RunAgain, Ended, vars
  <2> QED
    BY <1>1, <2>1, <2>2, <2>3, <2>4, <2>5 DEF Next
<1> QED
  BY <1>1, Invariance, PTL DEF Spec, CancellationIsNotMasked

=============================================================================
