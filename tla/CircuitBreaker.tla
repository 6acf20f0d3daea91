--------------------------- MODULE CircuitBreaker ---------------------------
(***************************************************************************)
(* The per-provider circuit breaker of app/core/circuit_breaker.py: its    *)
(* three fields and the three coroutines that read and write them.  Each   *)
(* coroutine holds an asyncio.Lock over a body with no await in it, so it  *)
(* is one atomic step; LLMCalls composes those steps with the coroutines   *)
(* that call them.                                                         *)
(*                                                                         *)
(* Time enters only as `time.monotonic() - self._opened_at', compared with *)
(* reset_timeout: elapsed is that difference, counted in ticks and         *)
(* saturated at ResetTimeout.  failureCount is compared only with          *)
(* failure_threshold: it saturates at CountCap.                            *)
(***************************************************************************)
EXTENDS Naturals

CONSTANTS Threshold,     \* failure_threshold
          ResetTimeout,  \* reset_timeout, in ticks
          CountCap       \* bound on failureCount, at or above Threshold

ASSUME BreakerAssumption ==
    /\ Threshold \in Nat \ {0}
    /\ ResetTimeout \in Nat
    /\ CountCap \in Nat
    /\ CountCap >= Threshold

VARIABLES state,         \* self._state
          failureCount,  \* self._failure_count
          elapsed        \* time.monotonic() - self._opened_at

breakerVars == <<state, failureCount, elapsed>>

CLOSED == "closed"
OPEN == "open"
HALF_OPEN == "half_open"

BreakerTypeOK ==
    /\ state \in {CLOSED, OPEN, HALF_OPEN}
    /\ failureCount \in 0..CountCap
    /\ elapsed \in 0..ResetTimeout

BreakerInit ==
    /\ state = CLOSED
    /\ failureCount = 0
    /\ elapsed = ResetTimeout    \* _opened_at = 0.0 on a monotonic clock

(***************************************************************************)
(* check(): either it returns, moving an OPEN breaker whose timeout has    *)
(* passed to HALF_OPEN, or it raises CircuitOpenError and changes nothing. *)
(***************************************************************************)
\* Mutant of Allows: while a trial is out nobody else passes, so that a trial that
\* is cancelled, and reports nothing, keeps the breaker half-open for ever.
Allows_OneTrial == state # HALF_OPEN /\ (state = OPEN => elapsed >= ResetTimeout)

\* Mutant of Allows: one tick too early.
Allows_Early == state = OPEN => elapsed + 1 >= ResetTimeout

Allows == state = OPEN => elapsed >= ResetTimeout

CheckPasses ==
    /\ Allows
    /\ state' = IF state = OPEN THEN HALF_OPEN ELSE state
    /\ UNCHANGED <<failureCount, elapsed>>

CheckRaises == ~Allows /\ UNCHANGED breakerVars

\* Mutant of RecordSuccess: the failure count survives the success.
RecordSuccess_KeepsCount ==
    /\ state' = CLOSED
    /\ UNCHANGED <<failureCount, elapsed>>

RecordSuccess ==
    /\ state' = CLOSED
    /\ failureCount' = 0
    /\ UNCHANGED elapsed

Counted == IF failureCount < CountCap THEN failureCount + 1 ELSE failureCount

\* Mutant of RecordFailure: _opened_at is set only when the breaker trips.
RecordFailure_OnlyOnTrip ==
    /\ failureCount' = Counted
    /\ IF state # OPEN /\ (state = HALF_OPEN \/ Counted >= Threshold)
       THEN state' = OPEN /\ elapsed' = 0
       ELSE UNCHANGED <<state, elapsed>>

\* A failed trial re-opens at once; otherwise the count decides.  Both set
\* _opened_at, also when the breaker was open already.
RecordFailure ==
    /\ failureCount' = Counted
    /\ IF state = HALF_OPEN \/ Counted >= Threshold
       THEN state' = OPEN /\ elapsed' = 0
       ELSE UNCHANGED <<state, elapsed>>

\* A tick of the monotonic clock.
Elapse == elapsed' = IF elapsed < ResetTimeout THEN elapsed + 1 ELSE elapsed
=============================================================================
