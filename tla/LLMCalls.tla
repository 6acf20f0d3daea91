------------------------------ MODULE LLMCalls ------------------------------
(***************************************************************************)
(* Concurrent LLMService._generate_with_resilience coroutines that share   *)
(* one provider's CircuitBreaker: check the breaker, run the provider      *)
(* request under retry_async, record one verdict.  The service runs on one *)
(* event loop and neither get_breaker nor the breaker awaits while it      *)
(* holds its lock, so the check happens with the start of the call and the *)
(* verdict with the reply that decides it; other coroutines run only while *)
(* a request or a backoff sleep is pending.                                *)
(***************************************************************************)
EXTENDS CircuitBreaker

CONSTANTS Calls,     \* the coroutines that may be in generate() at a time
          Attempts   \* RetryPolicy.attempts

ASSUME CallsAssumption == Attempts \in Nat \ {0}

VARIABLES pc,            \* where each coroutine is in retry_async
          attempt,       \* the loop variable of retry_async
          answer,        \* what the last generate() of the slot gave its caller
          healthy,       \* the provider answers every request
          trials,        \* calls let through by a breaker that was not closed
          sinceFailure   \* ticks since the last recorded failure, saturated

vars == <<breakerVars, pc, attempt, answer, healthy, trials, sinceFailure>>

TypeOK ==
    /\ BreakerTypeOK
    /\ pc \in [Calls -> {"idle", "sending", "backoff"}]
    /\ attempt \in [Calls -> 0..Attempts]
    /\ answer \in [Calls -> {"none", "text", "error", "circuit_open", "cancelled"}]
    /\ healthy \in BOOLEAN
    /\ trials \in SUBSET Calls
    /\ sinceFailure \in 0..ResetTimeout

Init ==
    /\ BreakerInit
    /\ pc = [c \in Calls |-> "idle"]
    /\ attempt = [c \in Calls |-> 0]
    /\ answer = [c \in Calls |-> "none"]
    /\ healthy \in BOOLEAN
    /\ trials = {}
    /\ sinceFailure = ResetTimeout

-----------------------------------------------------------------------------
\* get_breaker, breaker.check() and the first iteration of retry_async.
Admit(c) ==
    /\ pc[c] = "idle"
    /\ CheckPasses
    /\ pc' = [pc EXCEPT ![c] = "sending"]
    /\ attempt' = [attempt EXCEPT ![c] = 1]
    /\ answer' = [answer EXCEPT ![c] = "none"]
    /\ trials' = IF state = CLOSED THEN trials ELSE trials \union {c}
    /\ UNCHANGED <<healthy, sinceFailure>>

\* check() raises CircuitOpenError before the try block: no verdict.
Reject(c) ==
    /\ pc[c] = "idle"
    /\ CheckRaises
    /\ answer' = [answer EXCEPT ![c] = "circuit_open"]
    /\ UNCHANGED <<pc, attempt, healthy, trials, sinceFailure>>

\* The call leaves _generate_with_resilience with outcome a.
Leave(c, a) ==
    /\ pc' = [pc EXCEPT ![c] = "idle"]
    /\ attempt' = [attempt EXCEPT ![c] = 0]
    /\ answer' = [answer EXCEPT ![c] = a]
    /\ trials' = trials \ {c}

\* The provider answers: retry_async returns, record_success.
ReplyText(c) ==
    /\ pc[c] = "sending"
    /\ RecordSuccess
    /\ Leave(c, "text")
    /\ UNCHANGED <<healthy, sinceFailure>>

\* A retryable error (timeout, connection, 429, 5xx) with attempts left.
RetryLater(c) ==
    /\ pc[c] = "sending"
    /\ ~healthy
    /\ attempt[c] < Attempts
    /\ pc' = [pc EXCEPT ![c] = "backoff"]
    /\ UNCHANGED <<breakerVars, attempt, answer, healthy, trials, sinceFailure>>

\* Mutant of BackoffOver: the loop variable is not advanced.
BackoffOver_SameAttempt(c) ==
    /\ pc[c] = "backoff"
    /\ pc' = [pc EXCEPT ![c] = "sending"]
    /\ UNCHANGED <<breakerVars, attempt, answer, healthy, trials, sinceFailure>>

\* The jittered sleep ends and the loop sends the next attempt.
BackoffOver(c) ==
    /\ pc[c] = "backoff"
    /\ pc' = [pc EXCEPT ![c] = "sending"]
    /\ attempt' = [attempt EXCEPT ![c] = @ + 1]
    /\ UNCHANGED <<breakerVars, answer, healthy, trials, sinceFailure>>

\* retry_async re-raises: a retryable error on the last attempt, or an error
\* it never retries (400, 401, 403, 404, 422) on any.  One failure is recorded.
GiveUp(c) ==
    /\ pc[c] = "sending"
    /\ ~healthy
    /\ RecordFailure
    /\ Leave(c, "error")
    /\ sinceFailure' = 0
    /\ UNCHANGED healthy

\* The coroutine is cancelled: CancelledError is not an Exception, so the
\* except clause is skipped and no verdict is recorded.
Cancel(c) ==
    /\ pc[c] # "idle"
    /\ Leave(c, "cancelled")
    /\ UNCHANGED <<breakerVars, healthy, sinceFailure>>

-----------------------------------------------------------------------------
Tick ==
    /\ Elapse
    /\ sinceFailure' = IF sinceFailure < ResetTimeout THEN sinceFailure + 1
                                                      ELSE sinceFailure
    /\ UNCHANGED <<state, failureCount, pc, attempt, answer, healthy, trials>>

\* The provider goes down or comes back.
ProviderFlips ==
    /\ healthy' = ~healthy
    /\ UNCHANGED <<breakerVars, pc, attempt, answer, trials, sinceFailure>>

Reply(c) == ReplyText(c) \/ RetryLater(c) \/ GiveUp(c)

Next ==
    \/ \E c \in Calls : \/ Admit(c) \/ Reject(c)
                        \/ Reply(c) \/ BackoffOver(c) \/ Cancel(c)
    \/ Tick
    \/ ProviderFlips

Spec == Init /\ [][Next]_vars

(***************************************************************************)
(* Fairness: the clock advances; every request ends, because httpx is      *)
(* given timeout=60, and every sleep does; the service keeps being asked.  *)
(***************************************************************************)
FairSpec ==
    /\ Spec
    /\ WF_vars(Tick)
    /\ \A c \in Calls : /\ WF_vars(Admit(c))
                        /\ WF_vars(Reply(c))
                        /\ WF_vars(BackoffOver(c))

-----------------------------------------------------------------------------
\* The breaker's state and its counter always agree, whatever order verdicts
\* of overlapping calls arrive in: it rejects or probes exactly when the
\* failures recorded since the last success reach the threshold.
ClosedIffBelowThreshold == (state = CLOSED) <=> (failureCount < Threshold)

\* While the breaker is not closed its timer runs from the last recorded
\* failure, also a late one of a call admitted before the trip.
TimerRunsFromLastFailure == state # CLOSED => elapsed = sinceFailure

\* A breaker that is not closed lets a request through only when no failure
\* at all was recorded during the last reset timeout.
QuietBeforeTrial ==
    [][\A c \in trials' \ trials : sinceFailure = ResetTimeout]_vars

\* An abandoned trial cannot wedge the breaker: once the provider answers
\* everything and callers stop being cancelled, it closes and stays closed.
RecoversWithProvider ==
    <>[](healthy /\ \A c \in Calls : answer[c] # "cancelled")
        => <>[](state = CLOSED)

\* Every admitted call ends: the retry loop cannot run for ever, even
\* against a provider that never recovers.
EveryCallEnds == \A c \in Calls : pc[c] # "idle" ~> pc[c] = "idle"

\* What circuit_breaker.py:38 promises of the half-open state: one trial
\* request at a time.
OneTrialAtATime == \A c, d \in trials : c = d
=============================================================================
