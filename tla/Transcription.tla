---------------------------- MODULE Transcription ----------------------------
(***************************************************************************)
(* The life of one row of ai_meeting_transcripts under                     *)
(* app/services/transcription_service.py and its routes.  Every statement  *)
(* names its row by recording_id, so recordings do not interact and one    *)
(* row is enough.  A task is a coroutine serving one HTTP request (and the *)
(* background task the request schedules, which runs after the response in *)
(* the same request) or one round of the stale sweep.  Each await of the   *)
(* pool is a step: between two of them any other task may run, and what a  *)
(* task read before an await may be stale when it writes.                  *)
(***************************************************************************)
EXTENDS Naturals

CONSTANTS Tasks,        \* coroutines that may be in the service at a time
          MaxAttempts,  \* max_attempts of the row
          MaxRequests,  \* bound on the HTTP requests of a behaviour
          MaxFaults     \* bound on crashes and failed statements

ASSUME TranscriptionAssumption ==
    /\ MaxAttempts \in Nat \ {0}
    /\ MaxRequests \in Nat
    /\ MaxFaults \in Nat

VARIABLES status,      \* row: status, "absent" before the INSERT
          attempts,    \* row: attempt_count
          transcript,  \* row: transcript_text is stored
          aged,        \* row: last_attempted_at is past the processing timeout
          mirror       \* call_sessions.processing_status of the recording

VARIABLES pc,     \* the next statement of each task
          seen,   \* status in the task's last get_job or SELECT
          spent,  \* attempt_count >= max_attempts in that read
          stale,  \* what the task's _mark_stale_if_needed returned
          force,  \* the force flag of the request
          owed    \* the call_sessions update the task makes next, or "none"

VARIABLES requests,  \* HTTP requests so far
          faults,    \* crashes and failed statements so far
          calls,     \* transcriptions submitted to the provider so far
          resets     \* times the attempt budget was granted anew

rowVars == <<status, attempts, transcript, aged>>
readVars == <<seen, spent, stale, force>>
countVars == <<requests, faults, calls, resets>>
vars == <<rowVars, mirror, pc, readVars, owed, countVars>>

Status == {"pending", "processing", "completed", "failed"}

Step == {"idle", "accept_read", "accept_insert", "accept_update",
         "mark_stale", "process_read", "set_failed", "start_attempt",
         "transcribing", "intel",
         "retry_read", "retry_pending", "retry_reset", "retry_last",
         "sweep_update"}

TypeOK ==
    /\ status \in Status \union {"absent"}
    /\ attempts \in 0..MaxAttempts
    /\ transcript \in BOOLEAN
    /\ aged \in BOOLEAN
    /\ mirror \in Status \union {"absent"}
    /\ pc \in [Tasks -> Step]
    /\ seen \in [Tasks -> Status \union {"absent"}]
    /\ spent \in [Tasks -> BOOLEAN]
    /\ stale \in [Tasks -> BOOLEAN]
    /\ force \in [Tasks -> BOOLEAN]
    /\ owed \in [Tasks -> Status \union {"none"}]
    /\ requests \in 0..MaxRequests
    /\ faults \in 0..MaxFaults
    /\ calls \in Nat
    /\ resets \in Nat

Init ==
    /\ status = "absent" /\ attempts = 0
    /\ transcript = FALSE /\ aged = FALSE
    /\ mirror = "absent"
    /\ pc = [t \in Tasks |-> "idle"]
    /\ seen = [t \in Tasks |-> "absent"]
    /\ spent = [t \in Tasks |-> FALSE]
    /\ stale = [t \in Tasks |-> FALSE]
    /\ force = [t \in Tasks |-> FALSE]
    /\ owed = [t \in Tasks |-> "none"]
    /\ requests = 0 /\ faults = 0 /\ calls = 0 /\ resets = 0

-----------------------------------------------------------------------------
Exhausted == attempts >= MaxAttempts

\* Task t is about to run the statement named s.
At(t, s) == pc[t] = s /\ owed[t] = "none"

Goto(t, s) == pc' = [pc EXCEPT ![t] = s]

\* The row gets status s; t will copy it to call_sessions.
SetStatus(t, s) == status' = s /\ owed' = [owed EXCEPT ![t] = s]

\* What a failed or timed-out attempt leaves: a retry while the budget lasts.
AfterFailure == IF Exhausted THEN "failed" ELSE "pending"

\* The row as t reads it in get_job.
Read(t) ==
    /\ seen' = [seen EXCEPT ![t] = status]
    /\ spent' = [spent EXCEPT ![t] = Exhausted]

\* _mark_stale_if_needed: an UPDATE of a row whose processing timed out.
MarkStale(t) ==
    LET isStale == status = "processing" /\ aged IN
    /\ stale' = [stale EXCEPT ![t] = isStale]
    /\ IF isStale THEN SetStatus(t, AfterFailure) ELSE UNCHANGED <<status, owed>>
    /\ UNCHANGED <<attempts, transcript, aged>>

NewRequest(t) ==
    /\ At(t, "idle")
    /\ requests < MaxRequests
    /\ requests' = requests + 1

-----------------------------------------------------------------------------
(* POST /recording-ready: accept_recording, then process_recording          *)

RecordingReady(t) ==
    /\ NewRequest(t)
    /\ MarkStale(t)
    /\ force' = [force EXCEPT ![t] = FALSE]
    /\ Goto(t, "accept_read")
    /\ UNCHANGED <<mirror, seen, spent, faults, calls, resets>>

\* Mutant of AcceptRead: a pending job is taken for one that has its worker.
AcceptRead_PendingIsTaken(t) ==
    /\ At(t, "accept_read")
    /\ Read(t)
    /\ Goto(t, CASE status = "absent" -> "accept_insert"
                 [] status = "completed" -> "idle"
                 [] status \in {"pending", "processing"} /\ ~stale[t] -> "idle"
                 [] OTHER -> "accept_update")
    /\ UNCHANGED <<rowVars, mirror, stale, force, owed, countVars>>

\* accept_recording returns at once for a completed job and for one that
\* another task is processing; the route then schedules nothing.
AcceptRead(t) ==
    /\ At(t, "accept_read")
    /\ Read(t)
    /\ Goto(t, CASE status = "absent" -> "accept_insert"
                 [] status = "completed" -> "idle"
                 [] status = "processing" /\ ~stale[t] -> "idle"
                 [] OTHER -> "accept_update")
    /\ UNCHANGED <<rowVars, mirror, stale, force, owed, countVars>>

\* recording_id is UNIQUE: the INSERT of a second concurrent request raises.
AcceptInsert(t) ==
    /\ At(t, "accept_insert")
    /\ IF status = "absent"
       THEN SetStatus(t, "pending") /\ Goto(t, "mark_stale")
       ELSE UNCHANGED <<status, owed>> /\ Goto(t, "idle")
    /\ UNCHANGED <<attempts, transcript, aged, mirror, readVars, countVars>>

\* Mutant of AcceptUpdate: the route's attempts comparison is off by one.
AcceptUpdate_OneShort(t) ==
    /\ At(t, "accept_update")
    /\ SetStatus(t, IF status = "failed" /\ Exhausted THEN "failed" ELSE "pending")
    /\ Goto(t, IF attempts + 1 >= MaxAttempts THEN "idle" ELSE "mark_stale")
    /\ UNCHANGED <<attempts, transcript, aged, mirror, readVars, countVars>>

\* The UPDATE's CASE looks at the row as it is now, not as it was read: it
\* keeps only an exhausted failure and overwrites anything else.
AcceptUpdate(t) ==
    /\ At(t, "accept_update")
    /\ SetStatus(t, IF status = "failed" /\ Exhausted THEN "failed" ELSE "pending")
    /\ Goto(t, IF Exhausted THEN "idle" ELSE "mark_stale")
    /\ UNCHANGED <<attempts, transcript, aged, mirror, readVars, countVars>>

-----------------------------------------------------------------------------
(* process_recording                                                        *)

ProcessMarkStale(t) ==
    /\ At(t, "mark_stale")
    /\ MarkStale(t)
    /\ Goto(t, "process_read")
    /\ UNCHANGED <<mirror, seen, spent, force, countVars>>

ProcessRead(t) ==
    /\ At(t, "process_read")
    /\ Read(t)
    /\ Goto(t, CASE status = "absent" -> "idle"
                 [] status = "completed" /\ ~force[t] -> "idle"
                 [] status = "processing" /\ ~force[t] /\ ~aged -> "idle"
                 [] OTHER -> IF Exhausted /\ ~force[t] THEN "set_failed"
                                                       ELSE "start_attempt")
    /\ UNCHANGED <<rowVars, mirror, stale, force, owed, countVars>>

\* _set_failed, whatever the row has become since it was read.
SetFailed(t) ==
    /\ At(t, "set_failed")
    /\ SetStatus(t, "failed")
    /\ Goto(t, "idle")
    /\ UNCHANGED <<attempts, transcript, aged, mirror, readVars, countVars>>

\* Mutant of MayStart: completed jobs too.
MayStart_Completed == status # "absent" /\ attempts < MaxAttempts

\* The WHERE clause of _start_attempt.
MayStart == status \in {"pending", "failed", "processing"} /\ attempts < MaxAttempts

\* Mutant of StartAttempt: taking over a job in processing is not counted.
StartAttempt_FreeTakeover(t) ==
    /\ At(t, "start_attempt")
    /\ IF MayStart
       THEN /\ SetStatus(t, "processing")
            /\ attempts' = IF status = "processing" THEN attempts ELSE attempts + 1
            /\ calls' = calls + 1
            /\ aged' = FALSE
            /\ Goto(t, "transcribing")
       ELSE UNCHANGED <<status, owed, attempts, calls, aged>> /\ Goto(t, "idle")
    /\ UNCHANGED <<transcript, mirror, readVars, requests, faults, resets>>

\* One UPDATE takes the job and counts the attempt; without a row, return.
StartAttempt(t) ==
    /\ At(t, "start_attempt")
    /\ IF MayStart
       THEN /\ SetStatus(t, "processing")
            /\ attempts' = attempts + 1
            /\ calls' = calls + 1
            /\ aged' = FALSE
            /\ Goto(t, "transcribing")
       ELSE UNCHANGED <<status, owed, attempts, calls, aged>> /\ Goto(t, "idle")
    /\ UNCHANGED <<transcript, mirror, readVars, requests, faults, resets>>

\* The provider delivered and the summary is written: _complete_job.
CompleteJob(t) ==
    /\ At(t, "transcribing")
    /\ SetStatus(t, "completed")
    /\ transcript' = TRUE
    /\ Goto(t, "intel")
    /\ UNCHANGED <<attempts, aged, mirror, readVars, countVars>>

\* _trigger_meeting_intel returned.
IntelDone(t) ==
    /\ At(t, "intel")
    /\ Goto(t, "idle")
    /\ UNCHANGED <<rowVars, mirror, readVars, owed, countVars>>

\* Mutants of AttemptFails: leave instead of looping; forget call_sessions.
AttemptFails_NoLoop(t) ==
    /\ At(t, "transcribing") \/ At(t, "intel")
    /\ SetStatus(t, AfterFailure)
    /\ Goto(t, "idle")
    /\ UNCHANGED <<attempts, transcript, aged, mirror, readVars, countVars>>

AttemptFails_NoMirror(t) ==
    /\ At(t, "transcribing") \/ At(t, "intel")
    /\ status' = AfterFailure
    /\ Goto(t, IF Exhausted THEN "idle" ELSE "start_attempt")
    /\ UNCHANGED <<attempts, transcript, aged, mirror, readVars, owed, countVars>>

\* The transcription, the completion or the meeting-intel event raised:
\* _record_attempt_failure, then leave or sleep and loop.
AttemptFails(t) ==
    /\ At(t, "transcribing") \/ At(t, "intel")
    /\ SetStatus(t, AfterFailure)
    /\ Goto(t, IF Exhausted THEN "idle" ELSE "start_attempt")
    /\ UNCHANGED <<attempts, transcript, aged, mirror, readVars, countVars>>

-----------------------------------------------------------------------------
(* POST /{recording_id}/retry: retry_recording, then process_recording       *)

Retry(t) ==
    /\ NewRequest(t)
    /\ MarkStale(t)
    /\ \E f \in BOOLEAN : force' = [force EXCEPT ![t] = f]
    /\ Goto(t, "retry_read")
    /\ UNCHANGED <<mirror, seen, spent, faults, calls, resets>>

RetryRead(t) ==
    /\ At(t, "retry_read")
    /\ Read(t)
    /\ Goto(t, CASE status = "absent" -> "idle"
                 [] status = "completed" /\ ~force[t] -> "idle"
                 [] status # "completed" /\ force[t] -> "retry_pending"
                 [] status = "failed" /\ Exhausted /\ ~force[t] -> "retry_reset"
                 [] OTHER -> "retry_last")
    /\ UNCHANGED <<rowVars, mirror, stale, force, owed, countVars>>

\* A forced retry re-opens the job but leaves attempt_count as it is.
RetryPending(t) ==
    /\ At(t, "retry_pending")
    /\ status' = "pending"
    /\ Goto(t, "retry_last")
    /\ UNCHANGED <<attempts, transcript, aged, mirror, readVars, owed, countVars>>

\* A plain retry of an exhausted failure grants the attempts anew.
RetryReset(t) ==
    /\ At(t, "retry_reset")
    /\ status' = "pending"
    /\ attempts' = 0
    /\ resets' = resets + 1
    /\ Goto(t, "retry_last")
    /\ UNCHANGED <<transcript, aged, mirror, readVars, owed, requests, faults, calls>>

\* The closing get_job decides whether the route schedules process_recording.
RetryLast(t) ==
    /\ At(t, "retry_last")
    /\ Read(t)
    /\ Goto(t, IF status = "completed" THEN "idle" ELSE "mark_stale")
    /\ UNCHANGED <<rowVars, mirror, stale, force, owed, countVars>>

-----------------------------------------------------------------------------
(* sweep_stale_processing_jobs, from the scheduler or POST /sweep-stale      *)

\* Mutant of Sweep: exhausted jobs are left out of the SELECT.
Sweep_SkipsExhausted(t) ==
    /\ At(t, "idle")
    /\ status = "processing" /\ aged /\ ~Exhausted
    /\ Read(t)
    /\ force' = [force EXCEPT ![t] = FALSE]
    /\ Goto(t, "sweep_update")
    /\ UNCHANGED <<rowVars, mirror, stale, owed, countVars>>

Sweep(t) ==
    /\ At(t, "idle")
    /\ status = "processing" /\ aged
    /\ Read(t)
    /\ force' = [force EXCEPT ![t] = FALSE]
    /\ Goto(t, IF Exhausted THEN "set_failed" ELSE "sweep_update")
    /\ UNCHANGED <<rowVars, mirror, stale, owed, countVars>>

\* The UPDATE matches only a row still processing; call_sessions is written
\* and process_recording scheduled in either case.
SweepUpdate(t) ==
    /\ At(t, "sweep_update")
    /\ status' = IF status = "processing" THEN "pending" ELSE status
    /\ owed' = [owed EXCEPT ![t] = "pending"]
    /\ Goto(t, "mark_stale")
    /\ UNCHANGED <<attempts, transcript, aged, mirror, readVars, countVars>>

-----------------------------------------------------------------------------
(* The second table, time and faults                                         *)

\* _update_call_session_status and _update_call_session_transcript: a
\* statement of its own after the row was written.
MirrorUpdate(t) ==
    /\ owed[t] # "none"
    /\ mirror' = owed[t]
    /\ owed' = [owed EXCEPT ![t] = "none"]
    /\ UNCHANGED <<rowVars, pc, readVars, countVars>>

\* transcription_processing_timeout_minutes pass since the last attempt began.
Age ==
    /\ status = "processing" /\ ~aged
    /\ aged' = TRUE
    /\ UNCHANGED <<status, attempts, transcript, mirror, pc, readVars, owed, countVars>>

\* A statement raises outside the try of process_recording, or the failure
\* itself cannot be recorded: the task ends where it stands.
StatementFails(t) ==
    /\ faults < MaxFaults
    /\ pc[t] # "idle" /\ owed[t] = "none"
    /\ Goto(t, "idle")
    /\ faults' = faults + 1
    /\ UNCHANGED <<rowVars, mirror, readVars, owed, requests, calls, resets>>

\* A failed call_sessions update is logged and swallowed.
MirrorUpdateFails(t) ==
    /\ faults < MaxFaults
    /\ owed[t] # "none"
    /\ owed' = [owed EXCEPT ![t] = "none"]
    /\ faults' = faults + 1
    /\ UNCHANGED <<rowVars, mirror, pc, readVars, requests, calls, resets>>

\* The service restarts: its coroutines are gone, the tables stay.
Crash ==
    /\ faults < MaxFaults
    /\ pc' = [t \in Tasks |-> "idle"]
    /\ owed' = [t \in Tasks |-> "none"]
    /\ faults' = faults + 1
    /\ UNCHANGED <<rowVars, mirror, readVars, requests, calls, resets>>

\* A task goes on with what it has begun.
Advance(t) ==
    \/ AcceptRead(t) \/ AcceptInsert(t) \/ AcceptUpdate(t)
    \/ ProcessMarkStale(t) \/ ProcessRead(t) \/ SetFailed(t) \/ StartAttempt(t)
    \/ CompleteJob(t) \/ IntelDone(t) \/ AttemptFails(t)
    \/ RetryRead(t) \/ RetryPending(t) \/ RetryReset(t) \/ RetryLast(t)
    \/ SweepUpdate(t)
    \/ MirrorUpdate(t)

Next ==
    \/ \E t \in Tasks : \/ RecordingReady(t) \/ Retry(t) \/ Sweep(t)
                        \/ Advance(t)
                        \/ StatementFails(t) \/ MirrorUpdateFails(t)
    \/ Age
    \/ Crash

Spec == Init /\ [][Next]_vars

(***************************************************************************)
(* Fairness: a begun task goes on (the provider eventually answers or      *)
(* raises), processing eventually times out, and the scheduler keeps       *)
(* running the sweep.  No request has to arrive.                           *)
(***************************************************************************)
FairSpec ==
    /\ Spec
    /\ \A t \in Tasks : WF_vars(Advance(t))
    /\ WF_vars(Age)
    /\ WF_vars(\E t \in Tasks : Sweep(t))

-----------------------------------------------------------------------------
Quiet == \A t \in Tasks : pc[t] = "idle" /\ owed[t] = "none"

\* Paid transcriptions are budgeted: whatever requests, retries, sweeps and
\* crashes race each other, the provider is called at most max_attempts times
\* for each time the attempts were granted.
CallsWithinBudget == calls <= MaxAttempts * (resets + 1)

\* Without a fault no recording is forgotten: once nothing runs, a job that
\* still has attempts is completed or failed, never left pending or
\* processing with no coroutine to take it up.
NoAbandonedWork ==
    Quiet /\ faults = 0 /\ status \in {"pending", "processing"}
        => attempts = MaxAttempts

\* A completed job is re-opened only by a task that has not seen it
\* completed (its read is stale) or by the worker of an attempt.
CompletedLostOnlyToStaleReader ==
    [][status = "completed" /\ status' # "completed"
        => \E t \in Tasks : /\ pc'[t] # pc[t]
                            /\ \/ seen[t] # "completed"
                               \/ pc[t] \in {"transcribing", "intel"}]_vars

\* A job whose worker died with the process does not stay processing: its
\* timeout passes and the sweep moves it on.
ProcessingIsLeft == status = "processing" ~> status # "processing"

\* Without a fault every accepted job with attempts left settles.
PendingSettles ==
    (status = "pending" /\ attempts < MaxAttempts /\ faults = 0)
        ~> (status \in {"completed", "failed"} \/ faults > 0)

\* Without a fault the CRM is not left with a call that seems to be transcribed
\* when nothing runs, however the tasks' writes to call_sessions interleave, and
\* it shows a call completed only when its transcript is there.
MirrorNotStuck ==
    /\ Quiet /\ faults = 0 => mirror # "processing"
    /\ mirror = "completed" => transcript

\* Whatever a crash leaves behind, the next request for the recording, a repeated
\* callback or a retry, brings a job with attempts left to its end.
RequestRecovers ==
    (faults = MaxFaults /\ \E t \in Tasks : \/ pc[t] = "accept_read"
                                            \/ pc[t] = "retry_read" /\ status # "absent")
        ~> (status \in {"completed", "failed"} \/ attempts = MaxAttempts)
=============================================================================
