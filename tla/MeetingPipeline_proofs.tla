----------------------- MODULE MeetingPipeline_proofs -----------------------
(***************************************************************************)
(* Proofs about MeetingPipeline for every set of tasks and every budget:   *)
(* it only restricts Transcription, whose theorems it inherits, and the    *)
(* analysis of what is completed has ended.                                *)
(***************************************************************************)
EXTENDS MeetingPipeline, Transcription_proofs

USE DEF Status, Step, Exhausted, At, Goto, SetStatus, AfterFailure, Read,
        MarkStale, NewRequest, MayStart, rowVars, readVars, countVars

\* The composition takes no step of the job that Transcription does not allow.
THEOREM PipelineIsTranscription == PipelineSpec => Spec
<1>1. PipelineInit => Init
  BY DEF PipelineInit
<1>2. [PipelineNext]_pipelineVars => [Next]_vars
  <2> SUFFICES ASSUME [PipelineNext]_pipelineVars PROVE [Next]_vars
    OBVIOUS
  <2>1. ASSUME NEW t \in Tasks, JobStep(t) PROVE Next
    BY <2>1, Zenon DEF JobStep, Unrelated, Begin, Next
  <2>2. ASSUME NEW t \in Tasks, HandleEvent(t) PROVE UNCHANGED vars
    BY <2>2, Zenon DEF HandleEvent, Skip, StartRun, Analyse, SettleRun, CallIs
  <2>3. ASSUME NEW t \in Tasks, Return(t) PROVE Next
    BY <2>3, Zenon DEF Return, HandlesFailure, FailureIsLost, Next, Advance
  <2>4. CASE Unrelated(Age)
    BY <2>4, Zenon DEF Unrelated, Next
  <2>5. CASE Restart
    BY <2>5, Zenon DEF Restart, Next
  <2>6. CASE CancelRun
    BY <2>6, Zenon DEF CancelRun, vars
  <2>7. CASE UNCHANGED pipelineVars
    BY <2>7, Zenon DEF pipelineVars, vars
  <2>8. QED
    BY <2>1, <2>2, <2>3, <2>4, <2>5, <2>6, <2>7, Zenon DEF PipelineNext
<1>3. QED
  BY <1>1, <1>2, PTL DEF PipelineSpec, Spec

-----------------------------------------------------------------------------
(* What a step of the job means to its analysis                             *)

\* Task t may complete the job only on its way to the trigger, which it leaves
\* only from there, with the transcript stored.
Effect(t) ==
    /\ status' = "completed" => status = "completed" \/ pc'[t] = "intel"
    /\ pc[t] = "intel" => pc'[t] = "intel"
    /\ pc'[t] = "intel" => pc[t] = "intel" \/ transcript'
    /\ \A u \in Tasks \ {t} : pc'[u] = pc[u] /\ owed'[u] = owed[u]
    /\ transcript => transcript'
    /\ faults' = 0 => faults = 0

LEMMA JobEffect ==
    ASSUME TypeOK, NEW t \in Tasks, ~At(t, "intel"),
           Begin(t) \/ Advance(t) \/ StatementFails(t) \/ MirrorUpdateFails(t)
    PROVE  Effect(t)
<1> USE DEF TypeOK, Effect
<1>1. CASE RecordingReady(t)
  BY <1>1 DEF RecordingReady
<1>2. CASE Retry(t)
  BY <1>2 DEF Retry
<1>3. CASE Sweep(t)
  BY <1>3 DEF Sweep
<1>4. CASE AcceptRead(t)
  BY <1>4 DEF AcceptRead
<1>5. CASE AcceptInsert(t)
  BY <1>5 DEF AcceptInsert
<1>6. CASE AcceptUpdate(t)
  BY <1>6 DEF AcceptUpdate
<1>7. CASE ProcessMarkStale(t)
  BY <1>7 DEF ProcessMarkStale
<1>8. CASE ProcessRead(t)
  BY <1>8 DEF ProcessRead
<1>9. CASE SetFailed(t)
  BY <1>9 DEF SetFailed
<1>10. CASE StartAttempt(t)
  BY <1>10 DEF StartAttempt
<1>11. CASE CompleteJob(t)
  BY <1>11 DEF CompleteJob
<1>12. CASE IntelDone(t)
  BY <1>12 DEF IntelDone
<1>13. CASE AttemptFails(t)
  BY <1>13 DEF AttemptFails
<1>14. CASE RetryRead(t)
  BY <1>14 DEF RetryRead
<1>15. CASE RetryPending(t)
  BY <1>15 DEF RetryPending
<1>16. CASE RetryReset(t)
  BY <1>16 DEF RetryReset
<1>17. CASE RetryLast(t)
  BY <1>17 DEF RetryLast
<1>18. CASE SweepUpdate(t)
  BY <1>18 DEF SweepUpdate
<1>19. CASE MirrorUpdate(t)
  BY <1>19 DEF MirrorUpdate
<1>20. CASE StatementFails(t)
  BY <1>20 DEF StatementFails
<1>21. CASE MirrorUpdateFails(t)
  BY <1>21 DEF MirrorUpdateFails
<1>22. QED
  BY <1>1, <1>2, <1>3, <1>4, <1>5, <1>6, <1>7, <1>8, <1>9, <1>10, <1>11,
     <1>12, <1>13, <1>14, <1>15, <1>16, <1>17, <1>18, <1>19, <1>20, <1>21,
     Zenon DEF Begin, Advance

-----------------------------------------------------------------------------
(***************************************************************************)
(* The inductive invariant.  A completed job has a run that has ended, or  *)
(* a task that is about to start it; a call that has returned found it     *)
(* settled; and every call is made from the trigger, after the transcript  *)
(* was stored.  A trigger that was cut off is remembered.                  *)
(***************************************************************************)
Done == Settled \/ skipped

InTrigger == \A t \in Tasks : call[t] # "none" => At(t, "intel")
ReturnedIsDone == \A t \in Tasks : call[t] = "returned" => Done
TriggerHasTranscript ==
    /\ \A t \in Tasks : pc[t] = "intel" => transcript
    /\ run[Recording] # "absent" => transcript
AnalysisComing ==
    status = "completed" => Done \/ cutOff \/ \E t \in Tasks : pc[t] = "intel"

Typed ==
    /\ call \in [Tasks -> Calls]
    /\ run \in [{Recording} -> Run!Terminal \union {"absent", "running"}]
    /\ skipped \in BOOLEAN /\ cutOff \in BOOLEAN

PipelineInv ==
    /\ Typed
    /\ InTrigger
    /\ ReturnedIsDone
    /\ TriggerHasTranscript
    /\ AnalysisComing

\* The event handler settles the run or leaves it to be settled.
LEMMA HandlerStep ==
    ASSUME TypeOK, PipelineInv, NEW t \in Tasks, HandleEvent(t)
    PROVE  PipelineInv'
<1>1. At(t, "intel") /\ transcript /\ UNCHANGED <<vars, cutOff>>
  BY DEF HandleEvent, Skip, StartRun, Analyse, SettleRun, CallIs, PipelineInv,
         TriggerHasTranscript
<1>2. \E to \in Calls : call' = [call EXCEPT ![t] = to]
  BY DEF HandleEvent, Skip, StartRun, Analyse, SettleRun, CallIs, Calls
<1>3. /\ run' \in [{Recording} -> Run!Terminal \union {"absent", "running"}]
      /\ Settled => Settled'
  BY DEF HandleEvent, Skip, StartRun, Analyse, SettleRun, PipelineInv, Typed, Settled,
         Recording, Run!Start, Run!Act, Run!Settle, Run!Leave, Run!Terminal
<1>4. skipped' \in BOOLEAN /\ (skipped => skipped')
  BY DEF HandleEvent, Skip, StartRun, Analyse, SettleRun, PipelineInv, Typed
<1>5. call'[t] = "returned" => Done'
  BY DEF HandleEvent, Skip, StartRun, Analyse, SettleRun, CallIs, PipelineInv, Typed,
         Done, Settled, Recording, Run!Start, Run!Settle, Run!Terminal, Calls
<1>6. Done => Done'
  BY <1>3, <1>4 DEF Done
<1>7. Typed'
  BY <1>1, <1>2, <1>3, <1>4 DEF PipelineInv, Typed
<1>8. InTrigger'
  BY <1>1, <1>2 DEF PipelineInv, Typed, InTrigger, vars
<1>9. ReturnedIsDone'
  BY <1>2, <1>5, <1>6 DEF PipelineInv, Typed, ReturnedIsDone
<1>10. TriggerHasTranscript' /\ AnalysisComing'
  BY <1>1, <1>6 DEF PipelineInv, TriggerHasTranscript, AnalysisComing, vars
<1>11. QED
  BY <1>7, <1>8, <1>9, <1>10 DEF PipelineInv

\* A step of the job outside the trigger leaves the runs alone.
LEMMA JobKeepsInv ==
    ASSUME TypeOK, PipelineInv, NEW t \in Tasks, JobStep(t)
    PROVE  PipelineInv'
<1>1. Effect(t) /\ UNCHANGED runVars
  BY JobEffect, Zenon DEF JobStep, Unrelated
<1>2. ~At(t, "intel")
  BY Zenon DEF JobStep
<1>3. UNCHANGED <<call, run, skipped, cutOff>> /\ (Done' <=> Done)
  BY <1>1 DEF runVars, Done, Settled
<1>4. call[t] = "none"
  BY <1>2, Zenon DEF PipelineInv, InTrigger
<1>5. Typed' /\ ReturnedIsDone'
  BY <1>3 DEF PipelineInv, Typed, ReturnedIsDone
<1>6. InTrigger'
  BY <1>1, <1>3, <1>4 DEF PipelineInv, InTrigger, Effect
<1>7. TriggerHasTranscript'
  BY <1>1, <1>3 DEF PipelineInv, TriggerHasTranscript, Effect, TypeOK
<1>8. AnalysisComing'
  BY <1>1, <1>3 DEF PipelineInv, AnalysisComing, Effect
<1>9. QED
  BY <1>5, <1>6, <1>7, <1>8 DEF PipelineInv

\* The handler's return ends the job's task, or fails the attempt.
LEMMA ReturnKeepsInv ==
    ASSUME TypeOK, PipelineInv, NEW t \in Tasks, Return(t)
    PROVE  PipelineInv'
<1>1. UNCHANGED <<run, skipped, transcript>> /\ call' = [call EXCEPT ![t] = "none"]
  BY DEF Return, HangUp, IntelDone, HandlesFailure, AttemptFails, FailureIsLost, StatementFails
<1>1a. cutOff' \in {cutOff, TRUE} /\ cutOff \in BOOLEAN
  BY DEF Return, PipelineInv, Typed
<1>2. Done' <=> Done
  BY <1>1 DEF Done, Settled
<1>3. /\ pc'[t] # "intel"
      /\ \A u \in Tasks \ {t} : pc'[u] = pc[u] /\ owed'[u] = owed[u]
  BY DEF Return, IntelDone, HandlesFailure, AttemptFails, FailureIsLost, StatementFails, TypeOK
<1>4. Typed' /\ ReturnedIsDone' /\ InTrigger'
  BY <1>1, <1>1a, <1>2, <1>3 DEF PipelineInv, Typed, ReturnedIsDone, InTrigger, Calls
<1>5. TriggerHasTranscript'
  BY <1>1, <1>3 DEF PipelineInv, TriggerHasTranscript
<1>6. AnalysisComing'
  <2>1. CASE call[t] = "returned"
    BY <1>2, <2>1 DEF PipelineInv, ReturnedIsDone, AnalysisComing, Done
  <2>2. CASE HandlesFailure(t)
    BY <2>2 DEF HandlesFailure, AttemptFails, AnalysisComing
  <2>3. CASE cutOff' = TRUE
    BY <2>3 DEF AnalysisComing
  <2>4. QED
    BY <2>1, <2>2, <2>3, Zenon DEF Return
<1>7. QED
  BY <1>4, <1>5, <1>6 DEF PipelineInv

LEMMA PipelineInvHolds == PipelineSpec => []PipelineInv
<1>1. PipelineInit => PipelineInv
  <2> SUFFICES ASSUME PipelineInit PROVE PipelineInv
    OBVIOUS
  <2>1. Typed
    BY DEF PipelineInit, Typed, Calls
  <2>2. run[Recording] = "absent" /\ status = "absent" /\ \A t \in Tasks : pc[t] = "idle" /\ call[t] = "none"
    BY DEF PipelineInit, Init
  <2>3. QED
    BY <2>1, <2>2 DEF PipelineInv, InTrigger, ReturnedIsDone, TriggerHasTranscript, AnalysisComing
<1>2. TypeOK /\ PipelineInv /\ [PipelineNext]_pipelineVars => PipelineInv'
  <2> SUFFICES ASSUME TypeOK, PipelineInv, [PipelineNext]_pipelineVars PROVE PipelineInv'
    OBVIOUS
  <2>1. CASE Unrelated(Age)
    BY <2>1 DEF Unrelated, Age, runVars, PipelineInv, Typed, InTrigger, ReturnedIsDone,
                TriggerHasTranscript, AnalysisComing, Done, Settled
  <2>2. CASE Restart
    <3>1. cutOff' = (cutOff \/ \E t \in Tasks : pc[t] = "intel") /\ UNCHANGED <<run, skipped, status>>
      BY <2>2 DEF Restart, Crash
    <3>2. \A t \in Tasks : call'[t] = "none" /\ pc'[t] = "idle"
      BY <2>2 DEF Restart, Crash
    <3>3. Typed'
      BY <2>2, <3>1 DEF Restart, PipelineInv, Typed, Calls
    <3>4. UNCHANGED <<run, transcript>>
      BY <2>2 DEF Restart, Crash
    <3>5. AnalysisComing'
      <4>1. Done' <=> Done
        BY <3>1 DEF Done, Settled
      <4>2. status = "completed" => Done \/ cutOff'
        BY <3>1, Zenon DEF PipelineInv, AnalysisComing
      <4>3. QED
        BY <3>1, <4>1, <4>2 DEF AnalysisComing
    <3>6. QED
      BY <3>2, <3>3, <3>4, <3>5 DEF PipelineInv, InTrigger, ReturnedIsDone,
         TriggerHasTranscript
  <2>3. CASE CancelRun
    <3>1. /\ run' = [run EXCEPT ![Recording] = "cancelled"] /\ run[Recording] = "running"
          /\ UNCHANGED <<vars, call, skipped, cutOff>>
      BY <2>3 DEF CancelRun, Run!Cancel
    <3>2. Typed' /\ Done'
      BY <3>1 DEF PipelineInv, Typed, Done, Settled, Run!Terminal, Recording
    <3>3. InTrigger' /\ TriggerHasTranscript'
      BY <3>1 DEF PipelineInv, InTrigger, TriggerHasTranscript, vars
    <3>4. QED
      BY <3>2, <3>3 DEF PipelineInv, ReturnedIsDone, AnalysisComing
  <2>4. CASE UNCHANGED pipelineVars
    BY <2>4 DEF pipelineVars, vars, runVars, PipelineInv, Typed, InTrigger, ReturnedIsDone,
                TriggerHasTranscript, AnalysisComing, Done, Settled
  <2>5. QED
    BY <2>1, <2>2, <2>3, <2>4, HandlerStep, JobKeepsInv, ReturnKeepsInv, Zenon DEF PipelineNext
<1>3. QED
  BY <1>1, <1>2, PipelineIsTranscription, TypeCorrect, PTL DEF PipelineSpec

\* Whatever fails, a completed job is left only when its run has ended, the agent
\* was off or its trigger was cut off, and nothing is analysed before its transcript
\* is stored.
THEOREM AnalysesEnd == PipelineSpec => []AnalysisHasEnded
<1>1. PipelineInv => AnalysisHasEnded
  BY DEF PipelineInv, AnalysisComing, TriggerHasTranscript, AnalysisHasEnded, Done, Quiet
<1>2. QED
  BY <1>1, PipelineInvHolds, PTL

-----------------------------------------------------------------------------
(* The contract of the recording's run                                      *)

\* A call that neither starts nor stops executing leaves the workers alone.
LEMMA LiveKept ==
    ASSUME NEW t \in Tasks, call \in [Tasks -> Calls],
           NEW to \in Calls, call' = [call EXCEPT ![t] = to],
           (call[t] = "executing") <=> (to = "executing")
    PROVE  Live' = Live
<1>1. \A u \in Tasks : (call'[u] = "executing") <=> (call[u] = "executing")
  OBVIOUS
<1>2. QED
  BY <1>1, Zenon DEF Live

\* Each step of the handler is a step of the contract or none at all.
LEMMA HandlerKeepsContract ==
    ASSUME PipelineInv, NEW t \in Tasks, HandleEvent(t)
    PROVE  [Run!Next]_(Run!vars)
<1> USE DEF Run!vars, Calls
<1>0. call \in [Tasks -> Calls] /\ Recording \in {Recording} /\ "create_task" \in {"create_task"}
  BY DEF PipelineInv, Typed
<1>1. ASSUME NEW W \in {{}, {t}}, Run!Start(W, Recording) PROVE Run!Next
  BY <1>1, Zenon DEF Run!Next
<1>2. ASSUME NEW s \in {"completed", "failed"}, Run!Settle(t, Recording, s) PROVE Run!Next
  BY <1>2, Zenon DEF Run!Next
<1>3. Run!Leave({t}) => Run!Next
  <2>1. {t} \in SUBSET Tasks
    OBVIOUS
  <2>2. QED
    BY <2>1, Zenon DEF Run!Next
<1>4. CASE Skip(t)
  <2>1. call[t] = "none" /\ call' = [call EXCEPT ![t] = "returned"] /\ UNCHANGED <<run, effects>>
    BY <1>4 DEF Skip, CallIs
  <2>2. Live' = Live
    BY <1>0, <2>1, LiveKept
  <2>3. QED
    BY <2>1, <2>2, Zenon
<1>5. CASE StartRun(t)
  <2>1. ASSUME NEW to \in {"returned", "raised"}, CallIs(t, "none", to), UNCHANGED <<run, effects>>
        PROVE  UNCHANGED Run!vars
    <3>1. call[t] = "none" /\ call' = [call EXCEPT ![t] = to]
      BY <2>1 DEF CallIs
    <3>2. Live' = Live
      BY <1>0, <3>1, LiveKept
    <3>3. QED
      BY <2>1, <3>2, Zenon
  <2>2. QED
    BY <1>1, <1>5, <2>1 DEF StartRun
<1>6. CASE Analyse(t)
  BY <1>6, <1>0, Zenon DEF Analyse, Run!Next
<1>7. CASE SettleRun(t)
  BY <1>7, <1>2, <1>3, Zenon DEF SettleRun
<1>8. QED
  BY <1>4, <1>5, <1>6, <1>7, Zenon DEF HandleEvent

\* The triggers of a recording keep to the contract of its run: no status after a
\* settled one, no action and no settlement without a worker, whatever the jobs,
\* the restarts and the users of the CRM do.
THEOREM PipelineKeepsContract == PipelineSpec => KeepsContract
<1>1. PipelineInit => Run!Init
  <2> SUFFICES ASSUME PipelineInit PROVE Run!Init
    OBVIOUS
  <2>1. \A t \in Tasks : call[t] # "executing"
    BY DEF PipelineInit
  <2>2. Live = [k \in {Recording} |-> {}]
    BY <2>1 DEF Live
  <2>3. QED
    BY <2>2, Zenon DEF PipelineInit, Run!Init
<1>2. PipelineInv /\ [PipelineNext]_pipelineVars => [Run!Next]_(Run!vars)
  <2> SUFFICES ASSUME PipelineInv, [PipelineNext]_pipelineVars PROVE [Run!Next]_(Run!vars)
    OBVIOUS
  <2> USE DEF Run!vars
  <2>1. UNCHANGED <<run, effects, call>> => UNCHANGED Run!vars
    BY DEF Live
  <2>2. ASSUME NEW t \in Tasks, JobStep(t) PROVE UNCHANGED Run!vars
    BY <2>2, <2>1, Zenon DEF JobStep, Unrelated, runVars
  <2>3. ASSUME NEW t \in Tasks, Return(t) PROVE UNCHANGED Run!vars
    <3>1. /\ call[t] \in {"returned", "raised"}
          /\ call' = [call EXCEPT ![t] = "none"]
          /\ UNCHANGED <<run, effects>>
      BY <2>3 DEF Return, HangUp, HandlesFailure, FailureIsLost
    <3>2. Live' = Live
      BY <3>1, LiveKept DEF PipelineInv, Typed, Calls
    <3>3. QED
      BY <3>1, <3>2, Zenon
  <2>4. CASE Unrelated(Age)
    BY <2>4, <2>1, Zenon DEF Unrelated, runVars
  <2>5. CASE Restart
    <3>1. Run!Leave(Tasks)
      <4>1. call' = [t \in Tasks |-> "none"] /\ UNCHANGED <<run, effects>>
        BY <2>5 DEF Restart
      <4>2. Live' = [k \in {Recording} |-> Live[k] \ Tasks]
        BY <4>1 DEF Live
      <4>3. QED
        BY <4>1, <4>2, Zenon DEF Run!Leave
    <3>2. Tasks \in SUBSET Tasks
      OBVIOUS
    <3>3. QED
      BY <3>1, <3>2, Zenon DEF Run!Next
  <2>6. CASE CancelRun
    <3>1. Recording \in {Recording}
      OBVIOUS
    <3>2. QED
      BY <2>6, <3>1, Zenon DEF CancelRun, Run!Next
  <2>7. CASE UNCHANGED pipelineVars
    BY <2>7, <2>1, Zenon DEF pipelineVars, runVars
  <2>8. QED
    BY <2>2, <2>3, <2>4, <2>5, <2>6, <2>7, HandlerKeepsContract, Zenon DEF PipelineNext
<1>3. PipelineSpec => []PipelineInv
  BY PipelineInvHolds
<1>4. QED
  BY <1>1, <1>2, <1>3, PTL DEF PipelineSpec, KeepsContract, Run!Spec

\* Types; those of the run's actions follow from the contract alone.
THEOREM PipelineTypes == PipelineSpec => []PipelineTypeOK
<1> DEFINE EffectsTyped == effects \in [{Recording} -> SUBSET {"create_task"}]
<1>1. Run!Init => EffectsTyped
  BY DEF Run!Init
<1>2. EffectsTyped /\ [Run!Next]_(Run!vars) => EffectsTyped'
  <2> SUFFICES ASSUME EffectsTyped, [Run!Next]_(Run!vars) PROVE EffectsTyped'
    OBVIOUS
  <2>1. ASSUME NEW k \in {Recording}, NEW t \in {"create_task"}, Run!Act(k, t) PROVE EffectsTyped'
    BY <2>1 DEF Run!Act
  <2>2. Run!Next => UNCHANGED effects \/ \E k \in {Recording}, t \in {"create_task"} : Run!Act(k, t)
    BY Zenon DEF Run!Next, Run!Start, Run!Settle, Run!Cancel, Run!Leave
  <2>3. CASE UNCHANGED effects
    BY <2>3
  <2>4. QED
    BY <2>1, <2>2, <2>3, Zenon DEF Run!vars
<1>3. TypeOK /\ PipelineInv /\ EffectsTyped => PipelineTypeOK
  BY DEF PipelineInv, Typed, PipelineTypeOK
<1>4. QED
  BY <1>1, <1>2, <1>3, PipelineKeepsContract, PipelineInvHolds, PipelineIsTranscription, TypeCorrect,
     PTL DEF KeepsContract, Run!Spec
=============================================================================
