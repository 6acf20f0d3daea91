--------------------------- MODULE MeetingPipeline ---------------------------
(***************************************************************************)
(* From a recording to its analysis: Transcription composed with the run   *)
(* of the meeting agent that _trigger_meeting_intel starts.  The event     *)
(* carries the recording's id, so all the triggers of one recording share  *)
(* one run.  Of the run only RunContract is used, which AgentRuns          *)
(* implements; that a call of the CRM raises is no fault here, since       *)
(* process_recording takes it for a failed attempt.                        *)
(***************************************************************************)
EXTENDS Transcription

VARIABLES run,       \* backend: the status of the recording's run
          effects,   \* backend: the kinds of action accepted for it
          call,      \* where each task is in handle_event
          skipped,   \* history: a trigger found the meeting agent disabled
          cutOff     \* history: a task that had completed the job was stopped before
                     \* its trigger returned

runVars == <<run, effects, call, skipped, cutOff>>
pipelineVars == <<vars, runVars>>

Recording == "recording"
Calls == {"none", "executing", "returned", "raised"}

Live == [k \in {Recording} |-> {t \in Tasks : call[t] = "executing"}]

Run == INSTANCE RunContract WITH
    Runs <- {Recording}, Workers <- Tasks, ActionTypes <- {"create_task"},
    status <- run, live <- Live

PipelineTypeOK ==
    /\ TypeOK
    /\ run \in [{Recording} -> Run!Terminal \union {"absent", "running"}]
    /\ effects \in [{Recording} -> SUBSET {"create_task"}]
    /\ call \in [Tasks -> Calls]
    /\ skipped \in BOOLEAN /\ cutOff \in BOOLEAN

PipelineInit ==
    /\ Init
    /\ run = [k \in {Recording} |-> "absent"]
    /\ effects = [k \in {Recording} |-> {}]
    /\ call = [t \in Tasks |-> "none"]
    /\ skipped = FALSE /\ cutOff = FALSE

Settled == run[Recording] \in Run!Terminal

-----------------------------------------------------------------------------
(* handle_event, in the task that completed the job                         *)

CallIs(t, from, to) ==
    /\ At(t, "intel")
    /\ call[t] = from
    /\ call' = [call EXCEPT ![t] = to]
    /\ UNCHANGED <<vars, cutOff>>

\* _trigger_meeting_intel reads the job again; the meeting agent may be off.
\* What cannot be read of the settings leaves it on.
Skip(t) ==
    /\ CallIs(t, "none", "returned")
    /\ skipped' = TRUE
    /\ UNCHANGED <<run, effects>>

\* Mutant of StartRun: the run is executed whatever its status.
StartRun_Again(t) ==
    /\ \/ CallIs(t, "none", "executing") /\ (Run!Start({t}, Recording) \/ UNCHANGED <<run, effects>>)
       \/ CallIs(t, "none", "raised") /\ UNCHANGED <<run, effects>>
    /\ UNCHANGED skipped

\* start_run opens the run, or finds it settled, or raises with the run opened
\* or not; get_job may raise before it.
StartRun(t) ==
    /\ \/ CallIs(t, "none", "executing") /\ Run!Start({t}, Recording)
       \/ /\ CallIs(t, "none", "returned")
          /\ Settled
          /\ UNCHANGED <<run, effects>>
       \/ /\ CallIs(t, "none", "raised")
          /\ Run!Start({}, Recording) \/ UNCHANGED <<run, effects>>
    /\ UNCHANGED skipped

\* The workflow proposes a task.
Analyse(t) ==
    /\ CallIs(t, "executing", "executing")
    /\ Run!Act(Recording, "create_task")
    /\ UNCHANGED skipped

\* complete_run is answered, or raises with the status written or not.
SettleRun(t) ==
    /\ \/ /\ CallIs(t, "executing", "returned")
          /\ \E s \in {"completed", "failed"} : Run!Settle(t, Recording, s)
       \/ /\ CallIs(t, "executing", "raised")
          /\ \/ Run!Leave({t})
             \/ \E s \in {"completed", "failed"} : Run!Settle(t, Recording, s)
    /\ UNCHANGED skipped

HandleEvent(t) == Skip(t) \/ StartRun(t) \/ Analyse(t) \/ SettleRun(t)

-----------------------------------------------------------------------------
(* The job around it                                                        *)

Begin(t) == RecordingReady(t) \/ Retry(t) \/ Sweep(t)

Unrelated(A) == A /\ UNCHANGED runVars

\* A step of the job with no call of handle_event under way.
JobStep(t) ==
    /\ ~At(t, "intel")
    /\ Unrelated(Begin(t) \/ Advance(t) \/ StatementFails(t) \/ MirrorUpdateFails(t))

HangUp(t) == call' = [call EXCEPT ![t] = "none"] /\ UNCHANGED <<run, effects, skipped>>

\* Mutant of HandlesFailure: what handle_event raises is logged only.
HandlesFailure_Swallowed(t) ==
    /\ call[t] = "raised"
    /\ IntelDone(t)

\* What handle_event raises is a failed attempt, completed job or not.
HandlesFailure(t) ==
    /\ call[t] = "raised"
    /\ At(t, "intel") /\ AttemptFails(t)

\* The failure cannot be recorded either.
FailureIsLost(t) == call[t] = "raised" /\ At(t, "intel") /\ StatementFails(t)

Return(t) ==
    /\ \/ call[t] = "returned" /\ IntelDone(t) /\ UNCHANGED cutOff
       \/ HandlesFailure(t) /\ UNCHANGED cutOff
       \/ FailureIsLost(t) /\ cutOff' = TRUE
    /\ HangUp(t)

Restart ==
    /\ Crash
    /\ call' = [t \in Tasks |-> "none"]
    /\ cutOff' = (cutOff \/ \E t \in Tasks : pc[t] = "intel")
    /\ UNCHANGED <<run, effects, skipped>>

CancelRun == UNCHANGED <<vars, call, skipped, cutOff>> /\ Run!Cancel(Recording)

PipelineNext ==
    \/ \E t \in Tasks : JobStep(t) \/ HandleEvent(t) \/ Return(t)
    \/ Unrelated(Age)
    \/ Restart
    \/ CancelRun

PipelineSpec == PipelineInit /\ [][PipelineNext]_pipelineVars

-----------------------------------------------------------------------------
\* Once nothing runs, the analysis of a completed job has ended: its run is completed,
\* or failed or cancelled, and then it is given up, the next trigger being a
\* duplicate.  A trigger that raises does not end it: the job is transcribed
\* again, on its last attempt it has failed.  The exceptions are an agent that
\* was off, and a task that a restart, or a failure that could not be recorded,
\* stopped between the completed job and the end of its trigger.  And only
\* recordings with a transcript are analysed.
AnalysisHasEnded ==
    /\ status = "completed" /\ Quiet => Settled \/ skipped \/ cutOff
    /\ run[Recording] # "absent" => transcript

\* The triggers of a recording keep to the contract of a run, whatever their jobs
\* do around them: a task that is failed, swept or stopped in the middle of its
\* call only leaves the run, and one that triggers it again joins it or finds it
\* settled.
KeepsContract == Run!Spec
=============================================================================
