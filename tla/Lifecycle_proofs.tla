-------------------------- MODULE Lifecycle_proofs --------------------------
(***************************************************************************)
(* Proofs about Lifecycle for every configuration and every number of      *)
(* heartbeats.                                                             *)
(***************************************************************************)
EXTENDS Lifecycle, TLAPS

-----------------------------------------------------------------------------
(* The inductive invariant: what each phase knows.                          *)

Early == phase \in {"init_pool", "warm", "security", "provider", "heartbeat"}

\* What has been checked on the way to a phase, and what has not happened yet.
PhaseKnows ==
    /\ phase \in {"provider", "heartbeat", "schedule", "serving", "close_pool"}
          => settings.admitted
    /\ phase \in {"heartbeat", "schedule", "serving", "close_pool"}
          => settings.provided
    /\ phase \in {"warm", "security", "provider", "heartbeat", "schedule"}
          => state.database_connected
    /\ phase = "schedule" => state.backend_connected
    /\ Early \/ phase \in {"schedule", "aborted"} => scheduler = "new" /\ ~state.ready
    /\ phase \in {"init_pool", "aborted"} => ~pool

\* The heartbeats are sent one by one, and another one follows in its phase only.
AttemptsLeft ==
    /\ phase \in {"init_pool", "warm", "security", "provider"} => attempt = 0
    /\ phase = "heartbeat" => attempt < MaxAttempts

\* A scheduler that should run and does not is one of a process that serves
\* without the backend it could do without.
SchedulerMatches ==
    /\ phase = "serving" =>
          /\ scheduler # "stopped"
          /\ settings.scheduler_enabled /\ scheduler = "new" => ~settings.required
    /\ phase = "close_pool" /\ settings.scheduler_enabled => scheduler = "stopped"

Inv ==
    /\ TypeOK
    /\ state.backend_connected => answered
    /\ PhaseKnows /\ AttemptsLeft
    /\ SchedulerMatches
    /\ PoolClosedAtEnd /\ JobsNeedBackend /\ ReadyMeansRunning

USE LifecycleAssumption DEF Settings, ReadinessState

LEMMA InvInit == Init => Inv
<1> SUFFICES ASSUME Init PROVE Inv
  OBVIOUS
<1>1. TypeOK
  <2>1. attempt \in 0..MaxAttempts
    BY DEF Init
  <2>2. state \in ReadinessState
    BY Zenon DEF Init
  <2>3. QED
    BY <2>1, <2>2, Zenon DEF Init, TypeOK
<1>2. ~pool /\ ~answered /\ ~state.ready /\ ~state.backend_connected
  BY DEF Init
<1>3. QED
  BY <1>1, <1>2
  DEF Init, Inv, Early, PhaseKnows, AttemptsLeft, SchedulerMatches,
      PoolClosedAtEnd, Over, JobsNeedBackend, ReadyMeansRunning

LEMMA InvNext == Inv /\ [Next]_vars => Inv'
<1> SUFFICES ASSUME Inv, [Next]_vars PROVE Inv'
  OBVIOUS
<1> USE DEF Inv, TypeOK, Early, PhaseKnows, AttemptsLeft,
            SchedulerMatches, PoolClosedAtEnd, Over, JobsNeedBackend, ReadyMeansRunning
<1>1. CASE InitPool
  BY <1>1 DEF InitPool
<1>2. CASE Warm
  BY <1>2 DEF Warm
<1>3. CASE Check("security", settings.admitted, "provider")
  BY <1>3 DEF Check, Abort
<1>4. CASE Check("provider", settings.provided, "heartbeat")
  <2>1. attempt = 0 /\ attempt' = attempt /\ attempt < MaxAttempts
    BY <1>4 DEF Check
  <2>2. QED
    BY <1>4, <2>1 DEF Check, Abort
<1>5. CASE Unaddressed
  BY <1>5 DEF Unaddressed, NotConnected, Abort
<1>6. CASE HeartbeatOk
  <2>1. attempt' \in 0..MaxAttempts
    BY <1>6 DEF HeartbeatOk
  <2>2. /\ state' \in ReadinessState
        /\ state'.database_connected /\ state'.backend_connected /\ ~state'.ready
        /\ answered'
    BY <1>6 DEF HeartbeatOk
  <2>3. QED
    BY <1>6, <2>1, <2>2 DEF HeartbeatOk
<1>7. CASE HeartbeatFails
  <2>1. PICK odd \in BOOLEAN :
          LET s == [state EXCEPT !.backend_connected = @ \/ odd] IN
          /\ answered' = (answered \/ odd)
          /\ IF attempt + 1 < MaxAttempts
             THEN state' = s /\ UNCHANGED <<phase, pool>>
             ELSE NotConnected(s)
    BY <1>7 DEF HeartbeatFails
  <2>2. /\ phase = "heartbeat" /\ attempt' = attempt + 1
        /\ UNCHANGED <<settings, scheduler>>
    BY <1>7 DEF HeartbeatFails
  <2>3. state' \in ReadinessState /\ answered' \in BOOLEAN
    BY <2>1 DEF NotConnected
  <2>4. /\ state'.backend_connected => answered'
        /\ state'.database_connected
        /\ ~state'.ready
    BY <2>1, <2>2 DEF NotConnected
  <2>5. attempt' \in 0..MaxAttempts
    BY <2>2
  <2>6. CASE attempt + 1 < MaxAttempts
    <3>1. phase' = phase /\ pool' = pool /\ attempt' < MaxAttempts
      BY <2>1, <2>2, <2>6
    <3>2. QED
      BY <2>2, <2>3, <2>4, <2>5, <3>1
  <2>7. CASE ~(attempt + 1 < MaxAttempts)
    <3>1. IF settings.required THEN Abort ELSE phase' = "serving" /\ UNCHANGED pool
      BY <2>1, <2>7 DEF NotConnected
    <3>2. QED
      BY <2>2, <2>3, <2>4, <2>5, <3>1 DEF Abort
  <2>8. QED
    BY <2>6, <2>7
<1>8. CASE Schedule
  BY <1>8 DEF Schedule, Ready
<1>9. CASE StopScheduler
  BY <1>9 DEF StopScheduler
<1>10. CASE ClosePool
  BY <1>10 DEF ClosePool
<1>11. CASE UNCHANGED vars
  BY <1>11 DEF vars
<1>12. QED
  BY <1>1, <1>2, <1>3, <1>4, <1>5, <1>6, <1>7, <1>8, <1>9, <1>10, <1>11
  DEF Next, Startup

LEMMA Invariant == Spec => []Inv
  BY InvInit, InvNext, PTL DEF Spec

\* The variables of the lifespan keep their types.
THEOREM TypeCorrect == Spec => []TypeOK
<1>1. Inv => TypeOK
  BY DEF Inv
<1>2. QED
  BY Invariant, <1>1, PTL

\* Whatever step of the startup fails, a process that is over has closed its
\* pool, unless stopping a scheduler that never ran raised before it could.
THEOREM PoolIsClosed == Spec => []PoolClosedAtEnd
<1>1. Inv => PoolClosedAtEnd
  BY DEF Inv
<1>2. QED
  BY Invariant, <1>1, PTL

\* No job runs in a process whose checks failed or whose backend never answered.
THEOREM JobsHaveBackend == Spec => []JobsNeedBackend
<1>1. Inv => JobsNeedBackend
  BY DEF Inv
<1>2. QED
  BY Invariant, <1>1, PTL

\* GET /health/ready is right: ready processes heard from their backend and
\* started the jobs they are to run.
THEOREM ReadyIsTrue == Spec => []ReadyMeansRunning
<1>1. Inv => ReadyMeansRunning
  BY DEF Inv
<1>2. QED
  BY Invariant, <1>1, PTL
=============================================================================
