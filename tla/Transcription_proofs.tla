------------------------ MODULE Transcription_proofs ------------------------
(***************************************************************************)
(* Proofs about Transcription for every set of tasks, attempt budget and   *)
(* bound on requests and faults: type correctness, the budget of paid      *)
(* transcriptions, that no work is abandoned without a fault, who re-opens *)
(* a completed job, and what call_sessions shows.                          *)
(***************************************************************************)
EXTENDS Transcription, TLAPS

USE DEF Status, Step, Exhausted, At, Goto, SetStatus, AfterFailure, Read,
        MarkStale, NewRequest, MayStart, rowVars, readVars, countVars

\* Every variable keeps its type; attempt_count stays within max_attempts.
THEOREM TypeCorrect == Spec => []TypeOK
<1>1. Init => TypeOK
  <2> SUFFICES ASSUME Init PROVE TypeOK
    OBVIOUS
  <2>1. spent \in [Tasks -> BOOLEAN] /\ stale \in [Tasks -> BOOLEAN]
        /\ force \in [Tasks -> BOOLEAN]
    BY Zenon DEF Init
  <2>2. /\ pc \in [Tasks -> Step]
        /\ seen \in [Tasks -> Status \union {"absent"}]
        /\ owed \in [Tasks -> Status \union {"none"}]
        /\ status \in Status \union {"absent"}
        /\ mirror \in Status \union {"absent"}
    BY DEF Init
  <2>3. transcript \in BOOLEAN /\ aged \in BOOLEAN
    BY DEF Init
  <2>4. /\ attempts \in 0..MaxAttempts
        /\ requests \in 0..MaxRequests
        /\ faults \in 0..MaxFaults
        /\ calls \in Nat
        /\ resets \in Nat
    BY TranscriptionAssumption DEF Init
  <2>5. QED
    BY <2>1, <2>2, <2>3, <2>4, Zenon DEF TypeOK
<1>2. TypeOK /\ [Next]_vars => TypeOK'
  <2> SUFFICES ASSUME TypeOK, [Next]_vars PROVE TypeOK'
    OBVIOUS
  <2> USE TranscriptionAssumption DEF TypeOK
  <2>1. ASSUME NEW t \in Tasks, RecordingReady(t) PROVE TypeOK'
    BY <2>1 DEF RecordingReady
  <2>2. ASSUME NEW t \in Tasks, Retry(t) PROVE TypeOK'
    BY <2>2 DEF Retry
  <2>3. ASSUME NEW t \in Tasks, Sweep(t) PROVE TypeOK'
    BY <2>3 DEF Sweep
  <2>4. ASSUME NEW t \in Tasks, AcceptRead(t) PROVE TypeOK'
    BY <2>4 DEF AcceptRead
  <2>5. ASSUME NEW t \in Tasks, AcceptInsert(t) PROVE TypeOK'
    BY <2>5 DEF AcceptInsert
  <2>6. ASSUME NEW t \in Tasks, AcceptUpdate(t) PROVE TypeOK'
    BY <2>6 DEF AcceptUpdate
  <2>7. ASSUME NEW t \in Tasks, ProcessMarkStale(t) PROVE TypeOK'
    BY <2>7 DEF ProcessMarkStale
  <2>8. ASSUME NEW t \in Tasks, ProcessRead(t) PROVE TypeOK'
    BY <2>8 DEF ProcessRead
  <2>9. ASSUME NEW t \in Tasks, SetFailed(t) PROVE TypeOK'
    BY <2>9 DEF SetFailed
  <2>10. ASSUME NEW t \in Tasks, StartAttempt(t) PROVE TypeOK'
    <3>1. CASE MayStart
      <4>1. attempts + 1 \in 0..MaxAttempts /\ calls + 1 \in Nat
        BY <3>1
      <4>2. QED
        BY <2>10, <3>1, <4>1 DEF StartAttempt
    <3>2. CASE ~MayStart
      BY <2>10, <3>2 DEF StartAttempt
    <3>3. QED
      BY <3>1, <3>2
  <2>11. ASSUME NEW t \in Tasks, CompleteJob(t) PROVE TypeOK'
    BY <2>11 DEF CompleteJob
  <2>12. ASSUME NEW t \in Tasks, IntelDone(t) PROVE TypeOK'
    BY <2>12 DEF IntelDone
  <2>13. ASSUME NEW t \in Tasks, AttemptFails(t) PROVE TypeOK'
    BY <2>13 DEF AttemptFails
  <2>14. ASSUME NEW t \in Tasks, RetryRead(t) PROVE TypeOK'
    BY <2>14 DEF RetryRead
  <2>15. ASSUME NEW t \in Tasks, RetryPending(t) PROVE TypeOK'
    BY <2>15 DEF RetryPending
  <2>16. ASSUME NEW t \in Tasks, RetryReset(t) PROVE TypeOK'
    BY <2>16 DEF RetryReset
  <2>17. ASSUME NEW t \in Tasks, RetryLast(t) PROVE TypeOK'
    BY <2>17 DEF RetryLast
  <2>18. ASSUME NEW t \in Tasks, SweepUpdate(t) PROVE TypeOK'
    BY <2>18 DEF SweepUpdate
  <2>19. ASSUME NEW t \in Tasks, MirrorUpdate(t) PROVE TypeOK'
    BY <2>19 DEF MirrorUpdate
  <2>20. ASSUME NEW t \in Tasks, StatementFails(t) PROVE TypeOK'
    BY <2>20 DEF StatementFails
  <2>21. ASSUME NEW t \in Tasks, MirrorUpdateFails(t) PROVE TypeOK'
    BY <2>21 DEF MirrorUpdateFails
  <2>22. CASE Age
    BY <2>22 DEF Age
  <2>23. CASE Crash
    BY <2>23 DEF Crash
  <2>24. CASE UNCHANGED vars
    BY <2>24 DEF vars
  <2>25. QED
    BY <2>1, <2>2, <2>3, <2>4, <2>5, <2>6, <2>7, <2>8, <2>9, <2>10, <2>11,
       <2>12, <2>13, <2>14, <2>15, <2>16, <2>17, <2>18, <2>19, <2>20, <2>21,
       <2>22, <2>23, <2>24 DEF Next, Advance
<1>3. QED
  BY <1>1, <1>2, PTL DEF Spec

-----------------------------------------------------------------------------
(***************************************************************************)
(* The budget.  Every attempt adds one to calls and one to attempt_count;  *)
(* a reset clears attempt_count, which was at most max_attempts.           *)
(***************************************************************************)
Ledger == calls <= MaxAttempts * resets + attempts

LEMMA OneMoreGrant ==
    ASSUME NEW m \in Nat, NEW r \in Nat PROVE m * (r + 1) = m * r + m
  OBVIOUS

\* A step that starts no attempt and grants none leaves the ledger alone.
LEMMA LedgerUntouched ==
    Ledger /\ UNCHANGED <<calls, attempts, resets>> => Ledger'
  BY DEF Ledger

\* The provider is called at most max_attempts times per grant of attempts.
THEOREM BudgetHolds == Spec => []CallsWithinBudget
<1>1. Init => Ledger
  BY TranscriptionAssumption DEF Init, Ledger
<1>2. TypeOK /\ Ledger /\ [Next]_vars => Ledger'
  <2> SUFFICES ASSUME TypeOK, Ledger, [Next]_vars PROVE Ledger'
    OBVIOUS
  <2>0. /\ MaxAttempts \in Nat /\ attempts \in 0..MaxAttempts
        /\ calls \in Nat /\ resets \in Nat
    BY TranscriptionAssumption DEF TypeOK
  <2> DEFINE granted == MaxAttempts * resets
  <2>1. granted \in Nat
    BY <2>0
  <2>2. ASSUME NEW t \in Tasks, StartAttempt(t) PROVE Ledger'
    <3> HIDE DEF granted
    <3>1. calls <= granted + attempts
      BY DEF Ledger, granted
    <3>2. CASE MayStart
      <4>1. calls + 1 <= granted + (attempts + 1)
        BY <2>0, <2>1, <3>1
      <4>2. QED
        BY <2>2, <3>2, <4>1 DEF StartAttempt, Ledger, granted
    <3>3. CASE ~MayStart
      BY <2>2, <3>3, LedgerUntouched DEF StartAttempt
    <3>4. QED
      BY <3>2, <3>3
  <2>3. ASSUME NEW t \in Tasks, RetryReset(t) PROVE Ledger'
    <3>1. calls' = calls /\ attempts' = 0 /\ resets' = resets + 1
      BY <2>3 DEF RetryReset
    <3>2. MaxAttempts * (resets + 1) = granted + MaxAttempts
      BY <2>0, OneMoreGrant
    <3> HIDE DEF granted
    <3>3. calls <= granted + attempts
      BY DEF Ledger, granted
    <3>4. calls <= (granted + MaxAttempts) + 0
      BY <2>0, <2>1, <3>3
    <3>5. QED
      BY <3>1, <3>2, <3>4 DEF Ledger
  <2>4. ASSUME NEW t \in Tasks,
               RecordingReady(t) \/ Retry(t) \/ Sweep(t) \/ AcceptRead(t) \/ AcceptInsert(t)
        PROVE  Ledger'
    BY <2>4, LedgerUntouched
    DEF RecordingReady, Retry, Sweep, AcceptRead, AcceptInsert
  <2>5. ASSUME NEW t \in Tasks,
               AcceptUpdate(t) \/ ProcessMarkStale(t) \/ ProcessRead(t) \/ SetFailed(t) \/ CompleteJob(t)
        PROVE  Ledger'
    BY <2>5, LedgerUntouched
    DEF AcceptUpdate, ProcessMarkStale, ProcessRead, SetFailed, CompleteJob
  <2>6. ASSUME NEW t \in Tasks,
               IntelDone(t) \/ AttemptFails(t) \/ RetryRead(t) \/ RetryPending(t) \/ RetryLast(t)
        PROVE  Ledger'
    BY <2>6, LedgerUntouched
    DEF IntelDone, AttemptFails, RetryRead, RetryPending, RetryLast
  <2>7. ASSUME NEW t \in Tasks,
               SweepUpdate(t) \/ MirrorUpdate(t) \/ StatementFails(t) \/ MirrorUpdateFails(t)
        PROVE  Ledger'
    BY <2>7, LedgerUntouched
    DEF SweepUpdate, MirrorUpdate, StatementFails, MirrorUpdateFails
  <2>8. CASE Age \/ Crash \/ UNCHANGED vars
    BY <2>8, LedgerUntouched DEF Age, Crash, vars
  <2>9. QED
    BY <2>2, <2>3, <2>4, <2>5, <2>6, <2>7, <2>8 DEF Next, Advance
<1>3. TypeOK /\ Ledger => CallsWithinBudget
  <2> SUFFICES ASSUME TypeOK, Ledger PROVE CallsWithinBudget
    OBVIOUS
  <2>1. MaxAttempts * (resets + 1) = MaxAttempts * resets + MaxAttempts
    BY OneMoreGrant, TranscriptionAssumption DEF TypeOK
  <2> DEFINE granted == MaxAttempts * resets
  <2>2. granted \in Nat
    BY TranscriptionAssumption DEF TypeOK
  <2>3. calls <= granted + attempts
    BY DEF Ledger
  <2> HIDE DEF granted
  <2>4. calls <= granted + MaxAttempts
    BY <2>2, <2>3, TranscriptionAssumption DEF TypeOK
  <2>5. QED
    BY <2>1, <2>4 DEF CallsWithinBudget, granted
<1>4. QED
  BY <1>1, <1>2, <1>3, TypeCorrect, PTL DEF Spec

-----------------------------------------------------------------------------
(***************************************************************************)
(* No abandoned work.  While no fault has happened, a job in processing    *)
(* has a task transcribing it, and a pending job with attempts left has a  *)
(* task on its way to _start_attempt.  Such a task leaves its path only    *)
(* when it reads, or makes, the row something else than pending.           *)
(***************************************************************************)
OnTheWay == {"accept_read", "accept_update", "mark_stale", "process_read",
             "start_attempt", "transcribing", "retry_read", "retry_pending",
             "retry_reset", "retry_last", "sweep_update"}

ProcessingHasWorker ==
    faults = 0 /\ status = "processing" => \E t \in Tasks : pc[t] = "transcribing"

PendingHasTask ==
    faults = 0 /\ status = "pending" /\ attempts < MaxAttempts
        => \E t \in Tasks : pc[t] \in OnTheWay

WorkInv == ProcessingHasWorker /\ PendingHasTask

\* Without a fault, a job that still has attempts is never left pending or
\* processing with nothing running.
THEOREM NothingAbandoned == Spec => []NoAbandonedWork
<1>1. Init => WorkInv
  BY DEF Init, WorkInv, ProcessingHasWorker, PendingHasTask
<1>2. TypeOK /\ WorkInv /\ [Next]_vars => WorkInv'
  <2> SUFFICES ASSUME TypeOK, WorkInv, [Next]_vars PROVE WorkInv'
    OBVIOUS
  <2> USE TranscriptionAssumption
      DEF TypeOK, WorkInv, ProcessingHasWorker, PendingHasTask, OnTheWay
  <2>1. ASSUME NEW t \in Tasks, RecordingReady(t) PROVE WorkInv'
    BY <2>1 DEF RecordingReady
  <2>2. ASSUME NEW t \in Tasks, Retry(t) PROVE WorkInv'
    BY <2>2 DEF Retry
  <2>3. ASSUME NEW t \in Tasks, Sweep(t) PROVE WorkInv'
    BY <2>3 DEF Sweep
  <2>4. ASSUME NEW t \in Tasks, AcceptRead(t) PROVE WorkInv'
    BY <2>4 DEF AcceptRead
  <2>5. ASSUME NEW t \in Tasks, AcceptInsert(t) PROVE WorkInv'
    BY <2>5 DEF AcceptInsert
  <2>6. ASSUME NEW t \in Tasks, AcceptUpdate(t) PROVE WorkInv'
    BY <2>6 DEF AcceptUpdate
  <2>7. ASSUME NEW t \in Tasks, ProcessMarkStale(t) PROVE WorkInv'
    BY <2>7 DEF ProcessMarkStale
  <2>8. ASSUME NEW t \in Tasks, ProcessRead(t) PROVE WorkInv'
    BY <2>8 DEF ProcessRead
  <2>9. ASSUME NEW t \in Tasks, SetFailed(t) PROVE WorkInv'
    BY <2>9 DEF SetFailed
  <2>10. ASSUME NEW t \in Tasks, StartAttempt(t) PROVE WorkInv'
    BY <2>10 DEF StartAttempt
  <2>11. ASSUME NEW t \in Tasks, CompleteJob(t) PROVE WorkInv'
    BY <2>11 DEF CompleteJob
  <2>12. ASSUME NEW t \in Tasks, IntelDone(t) PROVE WorkInv'
    BY <2>12 DEF IntelDone
  <2>13. ASSUME NEW t \in Tasks, AttemptFails(t) PROVE WorkInv'
    BY <2>13 DEF AttemptFails
  <2>14. ASSUME NEW t \in Tasks, RetryRead(t) PROVE WorkInv'
    BY <2>14 DEF RetryRead
  <2>15. ASSUME NEW t \in Tasks, RetryPending(t) PROVE WorkInv'
    BY <2>15 DEF RetryPending
  <2>16. ASSUME NEW t \in Tasks, RetryReset(t) PROVE WorkInv'
    BY <2>16 DEF RetryReset
  <2>17. ASSUME NEW t \in Tasks, RetryLast(t) PROVE WorkInv'
    BY <2>17 DEF RetryLast
  <2>18. ASSUME NEW t \in Tasks, SweepUpdate(t) PROVE WorkInv'
    BY <2>18 DEF SweepUpdate
  <2>19. ASSUME NEW t \in Tasks, MirrorUpdate(t) PROVE WorkInv'
    BY <2>19 DEF MirrorUpdate
  <2>20. ASSUME NEW t \in Tasks, StatementFails(t) PROVE WorkInv'
    BY <2>20 DEF StatementFails
  <2>21. ASSUME NEW t \in Tasks, MirrorUpdateFails(t) PROVE WorkInv'
    BY <2>21 DEF MirrorUpdateFails
  <2>22. CASE Age
    BY <2>22 DEF Age
  <2>23. CASE Crash
    BY <2>23 DEF Crash
  <2>24. CASE UNCHANGED vars
    BY <2>24 DEF vars
  <2>25. QED
    BY <2>1, <2>2, <2>3, <2>4, <2>5, <2>6, <2>7, <2>8, <2>9, <2>10, <2>11, <2>12, <2>13, <2>14, <2>15, <2>16, <2>17, <2>18, <2>19, <2>20, <2>21, <2>22, <2>23, <2>24 DEF Next, Advance
<1>3. TypeOK /\ WorkInv => NoAbandonedWork
  BY TranscriptionAssumption
  DEF TypeOK, WorkInv, ProcessingHasWorker, PendingHasTask, NoAbandonedWork,
      Quiet, OnTheWay
<1>4. QED
  BY <1>1, <1>2, <1>3, TypeCorrect, PTL DEF Spec

-----------------------------------------------------------------------------
(***************************************************************************)
(* Who may re-open a completed job.  A task about to write a status on the *)
(* strength of an earlier read has not read completed.                     *)
(***************************************************************************)
WritersSawOther ==
    \A t \in Tasks :
        pc[t] \in {"accept_update", "set_failed", "retry_pending", "retry_reset",
                  "sweep_update"} => seen[t] # "completed"

LEMMA WritersInvariant == Spec => []WritersSawOther
<1>1. Init => WritersSawOther
  BY DEF Init, WritersSawOther
<1>2. TypeOK /\ WritersSawOther /\ [Next]_vars => WritersSawOther'
  <2> SUFFICES ASSUME TypeOK, WritersSawOther, [Next]_vars PROVE WritersSawOther'
    OBVIOUS
  <2> USE DEF TypeOK, WritersSawOther
  <2>1. ASSUME NEW t \in Tasks, RecordingReady(t) PROVE WritersSawOther'
    BY <2>1 DEF RecordingReady
  <2>2. ASSUME NEW t \in Tasks, Retry(t) PROVE WritersSawOther'
    BY <2>2 DEF Retry
  <2>3. ASSUME NEW t \in Tasks, Sweep(t) PROVE WritersSawOther'
    BY <2>3 DEF Sweep
  <2>4. ASSUME NEW t \in Tasks, AcceptRead(t) PROVE WritersSawOther'
    BY <2>4 DEF AcceptRead
  <2>5. ASSUME NEW t \in Tasks, ProcessRead(t) PROVE WritersSawOther'
    BY <2>5 DEF ProcessRead
  <2>6. ASSUME NEW t \in Tasks, RetryRead(t) PROVE WritersSawOther'
    BY <2>6 DEF RetryRead
  <2>7. ASSUME NEW t \in Tasks, RetryLast(t) PROVE WritersSawOther'
    BY <2>7 DEF RetryLast
  <2>8. ASSUME NEW t \in Tasks,
               AcceptInsert(t) \/ AcceptUpdate(t) \/ ProcessMarkStale(t) \/ SetFailed(t) \/ StartAttempt(t)
        PROVE  WritersSawOther'
    BY <2>8 DEF AcceptInsert, AcceptUpdate, ProcessMarkStale, SetFailed, StartAttempt
  <2>9. ASSUME NEW t \in Tasks,
               CompleteJob(t) \/ IntelDone(t) \/ AttemptFails(t) \/ RetryPending(t) \/ RetryReset(t)
        PROVE  WritersSawOther'
    BY <2>9 DEF CompleteJob, IntelDone, AttemptFails, RetryPending, RetryReset
  <2>10. ASSUME NEW t \in Tasks,
               SweepUpdate(t) \/ MirrorUpdate(t) \/ StatementFails(t) \/ MirrorUpdateFails(t)
        PROVE  WritersSawOther'
    BY <2>10 DEF SweepUpdate, MirrorUpdate, StatementFails, MirrorUpdateFails
  <2>11. CASE Age \/ Crash \/ UNCHANGED vars
    BY <2>11 DEF Age, Crash, vars
  <2>12. QED
    BY <2>1, <2>2, <2>3, <2>4, <2>5, <2>6, <2>7, <2>8, <2>9, <2>10, <2>11 DEF Next, Advance
<1>3. QED
  BY <1>1, <1>2, TypeCorrect, PTL DEF Spec

\* A completed job is re-opened only by a task whose read is stale or by the
\* worker of an attempt, never by one that has seen it completed.
THEOREM RedoOnlyByStaleReader == Spec => CompletedLostOnlyToStaleReader
<1> DEFINE Reopens ==
      status = "completed" /\ status' # "completed"
        => \E t \in Tasks : /\ pc'[t] # pc[t]
                            /\ \/ seen[t] # "completed"
                               \/ pc[t] \in {"transcribing", "intel"}
<1>1. TypeOK /\ WritersSawOther /\ [Next]_vars => [Reopens]_vars
  <2> SUFFICES ASSUME TypeOK, WritersSawOther, Next,
                      status = "completed", status' # "completed"
               PROVE  \E t \in Tasks : /\ pc'[t] # pc[t]
                                       /\ \/ seen[t] # "completed"
                                          \/ pc[t] \in {"transcribing", "intel"}
    OBVIOUS
  <2>1. ASSUME NEW t \in Tasks,
               \/ AcceptUpdate(t) \/ SetFailed(t) \/ AttemptFails(t)
               \/ RetryPending(t) \/ RetryReset(t)
        PROVE  /\ pc'[t] # pc[t]
               /\ seen[t] # "completed" \/ pc[t] \in {"transcribing", "intel"}
    BY <2>1
    DEF AcceptUpdate, SetFailed, AttemptFails, RetryPending, RetryReset,
        WritersSawOther, TypeOK
  <2>2. ASSUME NEW t \in Tasks,
               \/ RecordingReady(t) \/ Retry(t) \/ Sweep(t) \/ AcceptRead(t)
               \/ AcceptInsert(t) \/ ProcessMarkStale(t) \/ ProcessRead(t)
               \/ StartAttempt(t) \/ CompleteJob(t) \/ IntelDone(t)
        PROVE  FALSE
    BY <2>2
    DEF RecordingReady, Retry, Sweep, AcceptRead, AcceptInsert, ProcessMarkStale,
        ProcessRead, StartAttempt, CompleteJob, IntelDone
  <2>3. ASSUME NEW t \in Tasks,
               \/ RetryRead(t) \/ RetryLast(t) \/ SweepUpdate(t) \/ MirrorUpdate(t)
               \/ StatementFails(t) \/ MirrorUpdateFails(t)
        PROVE  FALSE
    BY <2>3
    DEF RetryRead, RetryLast, SweepUpdate, MirrorUpdate, StatementFails,
        MirrorUpdateFails
  <2>4. ~Age /\ ~Crash
    BY DEF Age, Crash
  <2>5. QED
    BY <2>1, <2>2, <2>3, <2>4 DEF Next, Advance
<1>2. QED
  BY <1>1, WritersInvariant, TypeCorrect, PTL DEF Spec, CompletedLostOnlyToStaleReader

-----------------------------------------------------------------------------
(***************************************************************************)
(* The second table.  A task that owes call_sessions the status processing *)
(* is the one that transcribes, and when it leaves it owes another status; *)
(* a completed status is owed, or shown, only once the transcript is there.*)
(***************************************************************************)
OwesWhatItDoes ==
    \A t \in Tasks : /\ owed[t] = "processing" => pc[t] = "transcribing"
                     /\ owed[t] = "completed" => transcript

ShownIsOwed ==
    /\ faults = 0 /\ mirror = "processing" =>
           \E t \in Tasks : pc[t] = "transcribing" \/ owed[t] # "none"
    /\ mirror = "completed" => transcript

MirrorInv == OwesWhatItDoes /\ ShownIsOwed

\* A step of t, which owed nothing, that leaves call_sessions alone and does not
\* end a transcription without owing its outcome.
Owing(t) ==
    /\ owed[t] = "none"
    /\ UNCHANGED <<mirror, transcript>> /\ faults' \in {faults, faults + 1}
    /\ \A u \in Tasks : u # t => pc'[u] = pc[u] /\ owed'[u] = owed[u]
    /\ owed'[t] # "completed"
    /\ owed'[t] = "processing" => pc'[t] = "transcribing"
    /\ pc[t] = "transcribing" /\ faults' = faults => owed'[t] # "none"

LEMMA MirrorFrame ==
    ASSUME TypeOK, MirrorInv, NEW t \in Tasks, Owing(t) PROVE MirrorInv'
<1>1. faults \in Nat
  BY TranscriptionAssumption DEF TypeOK
<1>2. OwesWhatItDoes'
  BY DEF MirrorInv, OwesWhatItDoes, Owing
<1>3. ShownIsOwed'
  BY <1>1 DEF MirrorInv, ShownIsOwed, Owing
<1>4. QED
  BY <1>2, <1>3 DEF MirrorInv

LEMMA MirrorStep == TypeOK /\ MirrorInv /\ [Next]_vars => MirrorInv'
<1> SUFFICES ASSUME TypeOK, MirrorInv, [Next]_vars PROVE MirrorInv'
  OBVIOUS
<1>0. faults \in Nat
  BY TranscriptionAssumption DEF TypeOK
<1>1. ASSUME NEW t \in Tasks,
             \/ RecordingReady(t) \/ Retry(t) \/ Sweep(t) \/ AcceptRead(t)
             \/ AcceptInsert(t) \/ AcceptUpdate(t)
      PROVE  Owing(t)
  BY <1>1 DEF RecordingReady, Retry, Sweep, AcceptRead, AcceptInsert, AcceptUpdate, Owing,
     TypeOK
<1>2. ASSUME NEW t \in Tasks,
             \/ ProcessMarkStale(t) \/ ProcessRead(t) \/ SetFailed(t) \/ StartAttempt(t)
             \/ IntelDone(t) \/ AttemptFails(t)
      PROVE  Owing(t)
  BY <1>2 DEF ProcessMarkStale, ProcessRead, SetFailed, StartAttempt, IntelDone,
     AttemptFails, Owing, TypeOK
<1>3. ASSUME NEW t \in Tasks,
             \/ RetryRead(t) \/ RetryPending(t) \/ RetryReset(t) \/ RetryLast(t)
             \/ SweepUpdate(t) \/ StatementFails(t)
      PROVE  Owing(t)
  BY <1>0, <1>3 DEF RetryRead, RetryPending, RetryReset, RetryLast, SweepUpdate,
     StatementFails, Owing, TypeOK
<1>4. ASSUME NEW t \in Tasks, CompleteJob(t) PROVE MirrorInv'
  BY <1>4 DEF CompleteJob, TypeOK, MirrorInv, OwesWhatItDoes, ShownIsOwed
<1>5. ASSUME NEW t \in Tasks, MirrorUpdate(t) PROVE MirrorInv'
  BY <1>5 DEF MirrorUpdate, TypeOK, MirrorInv, OwesWhatItDoes, ShownIsOwed
<1>6. ASSUME NEW t \in Tasks, MirrorUpdateFails(t) PROVE MirrorInv'
  BY <1>0, <1>6 DEF MirrorUpdateFails, TypeOK, MirrorInv, OwesWhatItDoes, ShownIsOwed
<1>7. CASE Crash
  BY <1>0, <1>7 DEF Crash, TypeOK, MirrorInv, OwesWhatItDoes, ShownIsOwed
<1>8. CASE Age \/ UNCHANGED vars
  BY <1>8 DEF Age, vars, MirrorInv, OwesWhatItDoes, ShownIsOwed
<1>9. QED
  BY <1>1, <1>2, <1>3, <1>4, <1>5, <1>6, <1>7, <1>8, MirrorFrame DEF Next, Advance

\* However the tasks' writes to call_sessions interleave, the CRM is not left with
\* a call that seems to be transcribed unless a statement failed, and it never
\* shows a call completed whose transcript is missing.
THEOREM MirrorIsReleased == Spec => []MirrorNotStuck
<1>1. Init => MirrorInv
  BY DEF Init, MirrorInv, OwesWhatItDoes, ShownIsOwed
<1>2. MirrorInv => MirrorNotStuck
  BY DEF MirrorInv, ShownIsOwed, MirrorNotStuck, Quiet
<1>3. QED
  BY <1>1, <1>2, TypeCorrect, MirrorStep, PTL DEF Spec
=============================================================================
