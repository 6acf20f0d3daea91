------------------------------ MODULE Lifecycle ------------------------------
(***************************************************************************)
(* The life of one service process: the lifespan of app/main.py with the   *)
(* checks of app/core/startup_checks.py, the readiness state that          *)
(* GET /health/ready reports, the database pool and the scheduler.         *)
(*                                                                         *)
(* The configuration is any; what it calls (the database, the warm-up, the *)
(* backend's heartbeat) answers or fails at every try.  The waits between  *)
(* the heartbeats only delay the next one and are left out.                *)
(***************************************************************************)
EXTENDS Naturals

CONSTANT MaxAttempts   \* max(1, backend_startup_max_attempts)

ASSUME LifecycleAssumption == MaxAttempts \in Nat \ {0}

\* database_url: is there one; admitted, provided: verify_security_config and
\* verify_provider_config let the process start; addressed: AUTOCRM_BASE_URL and
\* the service token are set; required: ai_backend_connectivity_required.
Settings == [database_url : BOOLEAN, admitted : BOOLEAN, provided : BOOLEAN,
             addressed : BOOLEAN, required : BOOLEAN, scheduler_enabled : BOOLEAN]

VARIABLES settings,
          phase,      \* the next step of the lifespan
          attempt,    \* heartbeats sent
          pool,       \* the pool is open
          scheduler,  \* the scheduler: "new", "running" or "stopped"
          state,      \* ReadinessState
          answered    \* the backend has answered a heartbeat

vars == <<settings, phase, attempt, pool, scheduler, state, answered>>

ReadinessState == [ready : BOOLEAN, backend_connected : BOOLEAN,
                   database_connected : BOOLEAN, scheduler_started : BOOLEAN]

TypeOK ==
    /\ settings \in Settings
    /\ phase \in {"init_pool", "warm", "security", "provider", "heartbeat",
                  "schedule", "serving", "close_pool", "aborted", "ended"}
    /\ attempt \in 0..MaxAttempts
    /\ pool \in BOOLEAN
    /\ scheduler \in {"new", "running", "stopped"}
    /\ state \in ReadinessState
    /\ answered \in BOOLEAN

Init ==
    /\ settings \in Settings
    /\ phase = "init_pool" /\ attempt = 0
    /\ pool = FALSE /\ scheduler = "new" /\ answered = FALSE
    /\ state = [ready |-> FALSE, backend_connected |-> FALSE,
                database_connected |-> FALSE, scheduler_started |-> FALSE]

-----------------------------------------------------------------------------
\* close_pool, then the exception leaves the lifespan.
Abort == pool' = FALSE /\ phase' = "aborted"

\* mark_ready, and the part mark_scheduler_started has in common with it.
Ready(s) == s.backend_connected /\ s.database_connected

\* init_pool: without a database_url there is nothing to open.  The database is
\* marked connected in either case.
InitPool ==
    /\ phase = "init_pool"
    /\ \/ /\ pool' = settings.database_url
          /\ state' = [state EXCEPT !.database_connected = TRUE]
          /\ phase' = "warm"
       \/ /\ settings.database_url
          /\ phase' = "aborted"
          /\ UNCHANGED <<pool, state>>
    /\ UNCHANGED <<settings, attempt, scheduler, answered>>

\* warm_frontdesk_runtime: its failure is logged.
Warm ==
    /\ phase = "warm"
    /\ phase' = "security"
    /\ UNCHANGED <<settings, attempt, pool, scheduler, state, answered>>

\* Mutant of Check: the exception is raised before close_pool.
Check_Leaks(here, ok, there) ==
    /\ phase = here
    /\ phase' = IF ok THEN there ELSE "aborted"
    /\ UNCHANGED <<settings, attempt, pool, scheduler, state, answered>>

\* verify_security_config and verify_provider_config
Check(here, ok, there) ==
    /\ phase = here
    /\ IF ok THEN phase' = there /\ UNCHANGED pool ELSE Abort
    /\ UNCHANGED <<settings, attempt, scheduler, state, answered>>

\* Mutant of NotConnected: the lifespan goes on as if it were connected.
NotConnected_Schedules(s) ==
    /\ state' = [s EXCEPT !.ready = FALSE]
    /\ IF settings.required THEN Abort ELSE phase' = "schedule" /\ UNCHANGED pool

\* verify_backend_connectivity raised: mark_not_ready, and the process ends
\* when the backend is required.
NotConnected(s) ==
    /\ state' = [s EXCEPT !.ready = FALSE]
    /\ IF settings.required THEN Abort ELSE phase' = "serving" /\ UNCHANGED pool

Unaddressed ==
    /\ phase = "heartbeat" /\ ~settings.addressed
    /\ NotConnected(state)
    /\ UNCHANGED <<settings, attempt, scheduler, answered>>

\* Mutant of HeartbeatOk: the process is ready as soon as it is connected.
HeartbeatOk_Ready ==
    /\ phase = "heartbeat" /\ settings.addressed
    /\ attempt' = attempt + 1
    /\ answered' = TRUE
    /\ state' = [state EXCEPT !.backend_connected = TRUE, !.ready = TRUE]
    /\ phase' = "schedule"
    /\ UNCHANGED <<settings, pool, scheduler>>

\* A heartbeat is answered: mark_backend_connected.
HeartbeatOk ==
    /\ phase = "heartbeat" /\ settings.addressed
    /\ attempt' = attempt + 1
    /\ answered' = TRUE
    /\ state' = [state EXCEPT !.backend_connected = TRUE]
    /\ phase' = "schedule"
    /\ UNCHANGED <<settings, pool, scheduler>>

\* A heartbeat fails, or its answer is no object: it is marked connected, and
\* reading its status then raises inside the same try.
HeartbeatFails ==
    /\ phase = "heartbeat" /\ settings.addressed
    /\ attempt' = attempt + 1
    /\ \E odd \in BOOLEAN :
          LET s == [state EXCEPT !.backend_connected = @ \/ odd] IN
          /\ answered' = (answered \/ odd)
          /\ IF attempt + 1 < MaxAttempts
             THEN state' = s /\ UNCHANGED <<phase, pool>>
             ELSE NotConnected(s)
    /\ UNCHANGED <<settings, scheduler>>

\* register_jobs and scheduler.start, or mark_ready without a scheduler.
Schedule ==
    /\ phase = "schedule"
    /\ scheduler' = IF settings.scheduler_enabled THEN "running" ELSE scheduler
    /\ state' = [state EXCEPT !.ready = Ready(state),
                              !.scheduler_started = settings.scheduler_enabled]
    /\ phase' = "serving"
    /\ UNCHANGED <<settings, attempt, pool, answered>>

\* After the yield.  shutdown() of a scheduler that does not run raises, and the
\* lifespan ends there.
StopScheduler ==
    /\ phase = "serving"
    /\ IF settings.scheduler_enabled
       THEN IF scheduler = "running"
            THEN scheduler' = "stopped" /\ phase' = "close_pool"
            ELSE phase' = "ended" /\ UNCHANGED scheduler
       ELSE phase' = "close_pool" /\ UNCHANGED scheduler
    /\ UNCHANGED <<settings, attempt, pool, state, answered>>

ClosePool ==
    /\ phase = "close_pool"
    /\ pool' = FALSE /\ phase' = "ended"
    /\ UNCHANGED <<settings, attempt, scheduler, state, answered>>

-----------------------------------------------------------------------------
Startup == \/ InitPool \/ Warm
           \/ Check("security", settings.admitted, "provider")
           \/ Check("provider", settings.provided, "heartbeat")
           \/ Unaddressed \/ HeartbeatOk \/ HeartbeatFails \/ Schedule
Next == Startup \/ StopScheduler \/ ClosePool

Spec == Init /\ [][Next]_vars

-----------------------------------------------------------------------------
(* Properties                                                               *)

Over == phase \in {"aborted", "ended"}

\* A process whose lifespan is over has closed its pool, with one exception: it
\* was to run a scheduler and served without the backend, so that stopping the
\* scheduler raised.
PoolClosedAtEnd ==
    Over /\ pool => /\ phase = "ended" /\ scheduler = "new"
                    /\ settings.scheduler_enabled /\ ~settings.required

\* Jobs run only in a process that passed its checks and whose backend answered
\* a heartbeat ("When SCHEDULER_ENABLED=true and the backend is reachable",
\* README.md).
JobsNeedBackend ==
    scheduler = "running" =>
        answered /\ settings.admitted /\ settings.provided /\ state.ready

\* GET /health/ready answers ready only in a process that has heard from its
\* backend and has started the jobs it is to run.
ReadyMeansRunning ==
    state.ready => /\ answered /\ phase # "aborted"
                   /\ settings.scheduler_enabled => scheduler # "new"
=============================================================================
