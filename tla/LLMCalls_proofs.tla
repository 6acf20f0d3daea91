--------------------------- MODULE LLMCalls_proofs ---------------------------
(***************************************************************************)
(* Proofs about LLMCalls for every set of calls, threshold, reset timeout  *)
(* and number of attempts.  The inductive invariant adds to the checked    *)
(* ones that a half-open breaker has waited out its timeout (without it    *)
(* nothing is known of the timer when a second trial is admitted) and that *)
(* a sleeping call has an attempt left.                                    *)
(***************************************************************************)
EXTENDS LLMCalls, TLAPS

HalfOpenHasCooled == state = HALF_OPEN => elapsed = ResetTimeout

BackoffHasNext == \A c \in Calls : pc[c] = "backoff" => attempt[c] < Attempts

Inv == /\ TypeOK
       /\ BackoffHasNext
       /\ ClosedIffBelowThreshold
       /\ TimerRunsFromLastFailure
       /\ HalfOpenHasCooled

LEMMA InitInv == Init => Inv
  BY BreakerAssumption, CallsAssumption
  DEF Init, BreakerInit, Inv, BackoffHasNext, TypeOK, BreakerTypeOK, ClosedIffBelowThreshold,
      TimerRunsFromLastFailure, HalfOpenHasCooled, CLOSED, OPEN, HALF_OPEN

(***************************************************************************)
(* The breaker's part of a step, whatever the coroutine did: each of its   *)
(* operations keeps the agreement of state, count and timer.               *)
(***************************************************************************)
BreakerInv ==
    /\ BreakerTypeOK
    /\ sinceFailure \in 0..ResetTimeout
    /\ ClosedIffBelowThreshold
    /\ TimerRunsFromLastFailure
    /\ HalfOpenHasCooled

LEMMA CheckKeeps ==
    BreakerInv /\ CheckPasses /\ UNCHANGED sinceFailure => BreakerInv'
  BY BreakerAssumption
  DEF BreakerInv, BreakerTypeOK, ClosedIffBelowThreshold, Allows, CheckPasses,
      TimerRunsFromLastFailure, HalfOpenHasCooled, CLOSED, OPEN, HALF_OPEN

LEMMA SuccessKeeps ==
    BreakerInv /\ RecordSuccess /\ UNCHANGED sinceFailure => BreakerInv'
  BY BreakerAssumption
  DEF BreakerInv, BreakerTypeOK, ClosedIffBelowThreshold, RecordSuccess,
      TimerRunsFromLastFailure, HalfOpenHasCooled, CLOSED, OPEN, HALF_OPEN

LEMMA FailureKeeps ==
    BreakerInv /\ RecordFailure /\ sinceFailure' = 0 => BreakerInv'
  BY BreakerAssumption
  DEF BreakerInv, BreakerTypeOK, ClosedIffBelowThreshold, RecordFailure, Counted,
      TimerRunsFromLastFailure, HalfOpenHasCooled, CLOSED, OPEN, HALF_OPEN

LEMMA TickKeeps == BreakerInv /\ Tick => BreakerInv'
  BY BreakerAssumption
  DEF BreakerInv, BreakerTypeOK, ClosedIffBelowThreshold, Tick, Elapse,
      TimerRunsFromLastFailure, HalfOpenHasCooled, CLOSED, OPEN, HALF_OPEN

LEMMA StutterKeeps ==
    BreakerInv /\ UNCHANGED <<breakerVars, sinceFailure>> => BreakerInv'
  BY DEF BreakerInv, BreakerTypeOK, ClosedIffBelowThreshold, breakerVars,
      TimerRunsFromLastFailure, HalfOpenHasCooled

LEMMA NextInv == Inv /\ [Next]_vars => Inv'
<1> SUFFICES ASSUME Inv, [Next]_vars PROVE Inv'
  OBVIOUS
<1>0. BreakerInv
  BY DEF Inv, BreakerInv, TypeOK
<1>1. SUFFICES TypeOK' /\ BackoffHasNext' /\ BreakerInv'
  BY DEF Inv, BreakerInv
<1> USE <1>0, BreakerAssumption, CallsAssumption DEF Inv, TypeOK, BackoffHasNext
<1>2. ASSUME NEW c \in Calls, Admit(c) PROVE TypeOK' /\ BackoffHasNext' /\ BreakerInv'
  <2>1. BreakerInv'
    BY <1>2, CheckKeeps DEF Admit
  <2>2. QED
    BY <1>2, <2>1 DEF Admit, BreakerInv
<1>3. ASSUME NEW c \in Calls, Reject(c) PROVE TypeOK' /\ BackoffHasNext' /\ BreakerInv'
  <2>1. BreakerInv'
    BY <1>3, StutterKeeps DEF Reject, CheckRaises
  <2>2. QED
    BY <1>3, <2>1 DEF Reject, BreakerInv
<1>4. ASSUME NEW c \in Calls, ReplyText(c) PROVE TypeOK' /\ BackoffHasNext' /\ BreakerInv'
  <2>1. BreakerInv'
    BY <1>4, SuccessKeeps DEF ReplyText
  <2>2. QED
    BY <1>4, <2>1 DEF ReplyText, Leave, BreakerInv
<1>5. ASSUME NEW c \in Calls, RetryLater(c) PROVE TypeOK' /\ BackoffHasNext' /\ BreakerInv'
  <2>1. BreakerInv'
    BY <1>5, StutterKeeps DEF RetryLater
  <2>2. QED
    BY <1>5, <2>1 DEF RetryLater, BreakerInv
<1>6. ASSUME NEW c \in Calls, GiveUp(c) PROVE TypeOK' /\ BackoffHasNext' /\ BreakerInv'
  <2>1. BreakerInv'
    BY <1>6, FailureKeeps DEF GiveUp
  <2>2. QED
    BY <1>6, <2>1 DEF GiveUp, Leave, BreakerInv
<1>7. ASSUME NEW c \in Calls, BackoffOver(c) PROVE TypeOK' /\ BackoffHasNext' /\ BreakerInv'
  <2>1. BreakerInv'
    BY <1>7, StutterKeeps DEF BackoffOver
  <2>2. attempt[c] + 1 \in 0..Attempts
    BY <1>7 DEF BackoffOver
  <2>3. QED
    BY <1>7, <2>1, <2>2 DEF BackoffOver, BreakerInv
<1>8. ASSUME NEW c \in Calls, Cancel(c) PROVE TypeOK' /\ BackoffHasNext' /\ BreakerInv'
  <2>1. BreakerInv'
    BY <1>8, StutterKeeps DEF Cancel
  <2>2. QED
    BY <1>8, <2>1 DEF Cancel, Leave, BreakerInv
<1>9. CASE Tick
  <2>1. BreakerInv'
    BY <1>9, TickKeeps
  <2>2. QED
    BY <1>9, <2>1 DEF Tick, BreakerInv
<1>10. CASE ProviderFlips
  <2>1. BreakerInv'
    BY <1>10, StutterKeeps DEF ProviderFlips
  <2>2. QED
    BY <1>10, <2>1 DEF ProviderFlips, BreakerInv
<1>11. CASE UNCHANGED vars
  <2>1. BreakerInv'
    BY <1>11, StutterKeeps DEF vars
  <2>2. QED
    BY <1>11, <2>1 DEF vars, BreakerInv
<1>12. QED
  BY <1>2, <1>3, <1>4, <1>5, <1>6, <1>7, <1>8, <1>9, <1>10, <1>11 DEF Next, Reply

LEMMA InvIsInvariant == Spec => []Inv
  BY InitInv, NextInv, PTL DEF Spec

\* Every variable of the breaker and of the calls keeps its type.
THEOREM TypeCorrect == Spec => []TypeOK
  BY InvIsInvariant, PTL DEF Inv

\* The state and the failure count agree for any threshold and any overlap
\* of the calls that report to the breaker.
THEOREM StateFollowsCount == Spec => []ClosedIffBelowThreshold
  BY InvIsInvariant, PTL DEF Inv

\* The timer of a breaker that is not closed runs from the last failure.
THEOREM TimerCorrect == Spec => []TimerRunsFromLastFailure
  BY InvIsInvariant, PTL DEF Inv

\* A request let through by a breaker that is not closed follows a full reset
\* timeout without a recorded failure.
THEOREM TrialsAreQuiet == Spec => QuietBeforeTrial
<1> DEFINE Quiet == \A c \in trials' \ trials : sinceFailure = ResetTimeout
<1>1. Inv /\ [Next]_vars => [Quiet]_vars
  <2> SUFFICES ASSUME Inv, Next, NEW c \in trials' \ trials
               PROVE  sinceFailure = ResetTimeout
    BY DEF vars
  <2>1. ASSUME NEW d \in Calls, Admit(d) PROVE sinceFailure = ResetTimeout
    <3>1. state # CLOSED
      BY <2>1 DEF Admit
    <3>2. elapsed = ResetTimeout
      BY <2>1, <3>1, BreakerAssumption
      DEF Admit, CheckPasses, Allows, Inv, TypeOK, BreakerTypeOK,
          HalfOpenHasCooled, CLOSED, OPEN, HALF_OPEN
    <3>3. QED
      BY <3>1, <3>2 DEF Inv, TimerRunsFromLastFailure
  <2>2. ASSUME NEW d \in Calls,
               Reject(d) \/ Reply(d) \/ BackoffOver(d) \/ Cancel(d)
        PROVE  FALSE
    BY <2>2 DEF Reject, Reply, ReplyText, RetryLater, GiveUp, BackoffOver, Cancel, Leave
  <2>3. ~Tick /\ ~ProviderFlips
    BY DEF Tick, ProviderFlips
  <2>4. QED
    BY <2>1, <2>2, <2>3 DEF Next
<1>2. QED
  BY InvIsInvariant, <1>1, PTL DEF Spec, QuietBeforeTrial
=============================================================================
