# TLA+ models of the AutoCRM AI service

This directory holds TLA+ modules, TLC configurations and TLAPS proofs about the
AutoCRM AI service, the Python program under `src/`.
The service is one asyncio process (FastAPI, APScheduler, an asyncpg pool). It
receives events and chat messages from the AutoCRM backend, asks a language model,
and calls the backend, which keeps runs, actions, sessions and CRM records, over
HTTP. What makes it hard is therefore not threads but **awaits**: between two of
them any other coroutine runs, the call that is awaited may have been applied
although its answer is lost, and the process may stop.

- [The system](#the-system): components, their state, how they interact
- [Modules](#modules): which module models what, and how it corresponds to the code
- [Runs](#runs): what TLC checks, the bounds and why they are enough
- [Fairness](#fairness), [External assumptions](#external-assumptions)
- [Proofs](#proofs): what holds for every value of the constants
- [What the code does that a reader may not expect](#what-the-code-does-that-a-reader-may-not-expect)
- [Not modelled](#not-modelled), [Plan](#plan)

To repeat a check: `tlc -workers 2 -config MCRagSync.cfg MCRagSync`;
to repeat a proof: `tlapm AgentRuns_proofs.tla`.

## The system

Paths are relative to `src/app/`.

| Component | State it keeps | Operations | Interacts with |
|---|---|---|---|
| **LLM calls** `core/circuit_breaker.py`, `core/retry.py`, `services/llm_service.py` | per provider: breaker state, failure count, `_opened_at` | `check`, `record_success`, `record_failure`; the loop of `retry_async` | every workflow and the front desk call `generate` |
| **Transcription jobs** `services/transcription_service.py`, its routes | one row of `ai_meeting_transcripts` per recording, mirrored in `call_sessions` | accept, process, retry, sweep | provider AssemblyAI; ends in a meeting event for the orchestrator |
| **Agent runs** `services/agent_orchestrator.py`, `run_manager.py`, `action_manager.py`, `workflows/graph_runner.py` | none of its own: runs and actions are at the backend | `handle_event`: create run, context, plan, dispatch, settle | events route, scheduled sweeps, transcription |
| **Agent workflows** `workflows/*.py` | none (`task_deadline_watch` caches its alert at the backend) | one action factory each | planner, LLM, memory |
| **Scheduled sweeps** `core/jobs.py`, `core/scheduler.py` | the scheduler's jobs | eight jobs | orchestrator, index, transcription |
| **Index synchronisation** `services/rag_sync_service.py`, `rag_service.py` | cursors per table in a JSON file | `run_once` | backend snapshots, store, embeddings |
| **Vector store** `services/vector_store.py` | chunks and FAISS index in memory, a pickle and an index file on disk | upsert, delete, load, persist, search | index synchronisation |
| **Front desk** `workflows/frontdesk.py`, `services/frontdesk_backend.py` | the session's `ai_state` at the backend; a copy in each turn | a turn: load, decide, tool, save, reply, save | chat routes, LLM, backend tools |
| **Startup and shutdown** `main.py`, `core/startup_checks.py`, `core/readiness.py`, `db/pool.py` | readiness flags, the pool, the scheduler | the lifespan | backend heartbeat |
| **Planner and action policy** `services/planner_service.py`, `action_policy.py` | none | plan, fall back, validate, decide on approval | workflows |
| **Embeddings** `services/embedding_service.py` | the model, cached for the process under a thread lock | `embed`, in asyncio's default thread pool | index synchronisation, every retrieval; shares the pool with the transcription upload |
| Context and memory `services/context_service.py`, `memory_service.py` | none | reads: the queries to the index, the newest memory items | workflows |
| Run traces, AutoCRM client | none | calls | all of the above |
| Agent loop, agent store, formatter, read-only routes, configuration, logging, prompts, migrations | | | |

What is hard in each, and what makes it correct:

- *LLM calls.* Verdicts of overlapping calls arrive in any order, also after the
  breaker has tripped or a trial has been cancelled. State, counter and timer must
  agree, a trial must come after a quiet reset timeout, and a provider that
  recovers must be used again.
- *Transcription.* A duplicated callback, a retry, a forced retry, the stale sweep
  and a slow worker act on one row by statements with nothing between them.
  Paid transcriptions must stay within their budget, no job may be forgotten, and
  a finished one must not be thrown away by a coroutine that has seen it finished.
- *Agent runs.* Events are delivered twice and concurrently, answers are lost after
  the backend acted, sweeps race with events. One run must mean one action, a
  completed run must have done what it was for, a failing candidate must not stop a
  sweep.
- *Planner.* A model's reply is anything that parses. What reaches the backend must
  wait for a user where its type asks for it, and be addressed to nobody but the
  actor.
- *Retrieval.* Documents are rewritten chunk by chunk while searches run, over three
  stores with different atomicity; the embedding model is built lazily under a lock by
  threads of a small pool. A search must see versions that were indexed, and miss only
  what its limits exclude.
- *Recording to analysis.* The transcription's last step starts a run of the meeting
  agent by calls that may raise, inside the loop that retries the transcription.
- *Index.* The pass reads a moving source, indexes document by document, writes two
  files that are not atomic together, and saves its cursors at the end. The cursor
  must never pass a document that is not stored; vectors must belong to their
  chunks; deletions and edits must arrive.
- *Front desk.* Turns of one session overlap, and each writes the whole state back
  twice. What the visitor is told must be true; what one turn learned must survive
  the next.
- *Lifecycle.* Every configuration and every failing step must leave the process
  either serving or cleaned up, and jobs must not run without a backend.

`PROJECT.json` lists each of these hazards at its line with the properties that
cover it, or why none does.

## Modules

| Module | Models | Extends / instantiates |
|---|---|---|
| `CircuitBreaker` | one provider's breaker | |
| `LLMCalls` | concurrent `generate` calls on that breaker | extends `CircuitBreaker` |
| `Transcription` | one recording and all coroutines that touch it | |
| `MeetingPipeline` | a recording and the run of the meeting agent it starts | extends `Transcription`, instantiates `RunContract` |
| `ActionPolicy` | what may become of a plan: fall-back, validation, approval | |
| `AgentRuns` | deliveries of events of one type, to the backend's runs and actions | extends `ActionPolicy`, instantiates `RunContract` |
| `RunContract` | **abstract**: what the service promises about a run | |
| `RagSync` | the scheduled pass, the FAISS store and its files, the CRM | |
| `Embeddings` | callers of `embed`, the thread pool, the cached model | |
| `Retrieval` | the document index over each of its three stores, and the searches in it | extends `Embeddings` |
| `FrontDesk` | the turns of one session | |
| `Lifecycle` | one process from start to end, in any configuration | |
| `MC*` | values of the constants for TLC | extend their component |
| `*_proofs` | theorems | extend their component and `TLAPS` |

One **step** of a model is what the code does between two awaits (or statements of
the database): the guard is the code's condition, and everything the handler
changes before it awaits again is in the step. Names of operators are those of the
code (`AcceptUpdate` is the UPDATE of `accept_recording`, `EnsureLead` is
`_ensure_lead`); each entry of `map` in `PROJECT.json` gives the lines.
Definitions named `X_Something`, commented "Mutant of X", are wrong versions of X
that are no part of the model: each property fails when its mutant takes X's place.

**CircuitBreaker, LLMCalls.** `state`, `failureCount` and `elapsed` are
`_state`, `_failure_count` and `time.monotonic() - _opened_at`, the only form in
which the code uses time. The three coroutines hold an `asyncio.Lock` over a body
without await, so each is one atomic operator. A call is `idle`, `sending` or in
`backoff`; `Admit`/`Reject` are `check()`, `ReplyText`, `RetryLater`, `GiveUp` are
the three ways an attempt ends, `Cancel` is a CancelledError, which the
`except Exception` clause does not see. `ProviderFlips` is the environment.
`trials` and `sinceFailure` are history.

**Transcription.** `status`, `attempts`, `transcript` and `aged` are the row;
`mirror` is `call_sessions.processing_status`, written by a statement of its own
(`owed` is that pending write). A task is the coroutine of a request, its
background task included, or one round of the sweep; its `pc` is the next SQL
statement and `seen`, `spent`, `stale` what its last read said. `Age` is the
passing of the processing timeout. `calls` and `resets` are history: submissions
to the provider and grants of a new budget.

**AgentRuns.** `run`, `actions`, `alerted` are the backend's runs (by external id,
a record and a window), accepted actions (by idempotency key) and cached deadline
alerts. A delivery is one call of `handle_event`; each HTTP call is a step that is
answered, or refused, or applied with its answer lost (`Fault`). `CreateRun` is
`start_run` with the duplicate check; `Context`, `Plan`, `Dispatch`, `Confirm` are
the nodes of the graph (`IsGraph`). Two workflows have a `run` of their own (`OwnRun`): the deadline watch, which goes on
to `RecordAlert` unless its candidate asks for nothing, and the front desk, whose turn
is one step here, since its inside is `FrontDesk`; it proposes no action
(`ProposesNothing`). No run takes `frontdesk_message` for its `EventType`: such an
instance is the deadline run with every candidate asking for nothing. The theorems
cover it, `ReturnsAreFinal` above all, since its tools send no key. `Plan` takes any of
`ActionPolicy!Plans`, and an action carries its approval; `Reject` is a user's refusal
of it. `content` is what a deadline candidate shows of its task (`context_hash`), chosen
anew by each event, since a task changes; `advice` is what the candidate asks for: that a
text be generated, or nothing, because one is cached (`fresh_llm_output`) or none is wanted
(`should_use_llm`). The alert and the key of its note (`SameKey`) are for a task with its
content. A sweep is a sequence of deliveries: `MayBegin` is the `for` loop, `aborted` an
exception that left it. `EventType` is a constant: one instance looks at one workflow.
History tells what a failure was: `lost` are the steps at which a delivery lost a call,
`left` the deliveries that an exception out of `handle_event` or a crash ended, `cut`
those that were shown a part of the memory, `overtaken[d]` those that acted between the
read and the dispatch of `d`. The properties excuse exactly these, never "some failure".

**ActionPolicy.** Pure operators: `Plans` is `plan_action` for whatever the model
replied, the normal form of each of its plans or of the fall-back; `NormalizePlan`
addresses an alert and applies `Validated`, the rules of `action_policy.py`;
`RequiresApproval` is the rule of the action manager, `ValidTool` that of the tool
registry.

**MeetingPipeline.** The steps of `Transcription`, with its `intel` statement opened
up: `call` is where the task is in `handle_event`, `run` and `effects` the backend's
run, `skipped` the memory of a trigger that found the agent off, `cutOff` that of one that a
restart or an unrecorded failure cut off. `StartRun`, `Analyse`
and `SettleRun` are the steps of the contract that a call of the CRM makes, answered
or raising; `Return` ends the job's task, or fails its attempt with what was raised.
`CancelRun` is a user. The metadata of a recording is taken to stay the same, so that
all its triggers have one run.

**RunContract.** The promise: a run is absent, running or settled; workers join
only a run that is not settled; only a worker of the run acts for it or settles it;
workers may disappear. `AgentRuns!Contract` is the refinement mapping: effects are
the types of the run's accepted actions, live workers the deliveries executing it.
`MeetingPipeline!Run` is another: the live workers are the tasks inside `handle_event`.
`SettledIsFinal` is what follows from the contract alone, whoever implements it.

**RagSync.** A version of a document is its `updated_at`. `crm`, `blank`, `gone`,
`clock` are the CRM; `chunks` and `vectors` the store in memory; `pkl`, `torn`,
`idx`, `cursors` the three files; `step`, `table`, `next`, `newest`, `todo`,
`missing` the locals of `run_once`, `_index_documents` and
`reconcile_deleted_sources`. `Current` is the document of the `for` loop: the oldest
that waits, and among the files of the pack, all of version 1, any one, but the same
until it has been dealt with. `Persist` is `_rebuild_index` and `_persist`: the
pickle first, then the index, whose error is swallowed and which is not written for
an empty store. `PersistCut` is a stop inside it. `Restart` is `_load` with its
comparison of the two sizes. `failed` and `behind` are history.

**Embeddings, Retrieval.** A coroutine in `embed` is in the queue of the thread pool
(`queue`, `threads`) or one of the steps of `_load_model` (`TryOwn`, `LookUp`,
`Acquire`, `Recheck`, `BuildModel`, `Publish`), which other threads interleave with;
an upload of a transcription only holds a thread. Around it `Retrieval` models
`add_document` (`AddDocument`, `EmbedChunk`, `Upsert` or, in PostgreSQL,
row by row, `InsertChunk`), `DeleteSource`, a restart, and the answers of the
three stores to every query the service builds (`Queries`) as a function of what is
stored (`Found`). `latest` and `fate` are history: the version last given to a source
and what became of it.

**FrontDesk.** `row`, `contact`, `leadRow` are the session's state, contact and lead
at the backend; `done`, `accepted` what the backend was asked to do. A turn's `pc`
goes through load, decide, (ensure,) call, save, compose, save_last as `run` does.
The model's decision is any that the parser admits; facts are kept by presence, and
only the ones control depends on. `AdvanceStage`, `MergeFacts` and `AfterDecision`
are the pure parts. `fresh` (the load failed), `overtaken` (another turn saved since
this one loaded) and `carried` (the backend carried out this turn's tool) are
history.

**Lifecycle.** `phase` is the next step of the lifespan; `settings` any combination
of the settings that decide its branches; `pool`, `scheduler`, `state` what the
steps open, start and mark.

## Runs

All bounds are constants of the modules: `Max...` bound environment actions
(requests, edits, clock ticks, failures) in their guards, sets bound the number of
actors.

| Run | Instance | Question | Size |
|---|---|---|---|
| `llm` | 3 calls, threshold 2, timeout 2 ticks, 2 attempts | do state, count and timer agree; is a trial preceded by quiet; does every call end and the breaker recover | 41 k states |
| `llm_one_trial` | 2 calls | *violated*: the half-open breaker lets one trial pass | |
| `transcription` | 2 coroutines, 2 requests, 2 attempts, 1 fault | budget, no abandoned work, mirror, re-opening of completed jobs, progress, recovery by the next request | 159 k |
| `meeting` | the same, with the run of the meeting agent | has the analysis of a completed recording ended; do its triggers keep to `RunContract` | 1.7 M |
| `runs_lead` | an event delivered twice, a sweep, 3 hours, 1 fault, rejections and cancellations | what can bring a lead two tasks within the cooldown | 3.5 M (with symmetry) |
| `runs_deadline` | 2 events and a sweep of one task with 2 contents, 1 fault | alerts and notes; orphans; who may execute a run again; refinement of `RunContract` | 0.7 M |
| `runs_sweep` | a sweep of daily summaries over 2 users and an event, every plan, 1 fault | idempotency, settled runs, a failure does not stop the sweep | 104 k |
| `rag` | 3 documents, 2 pack files, batch 2, 3 listed, 3 edits, 1 failure | cursor honesty, index/chunk agreement, catching up | 1.4 M |
| `retrieval` | 2 documents in 2 versions, 2 threads, a writer, a reader and an upload, each store, 1 failure | one model, no lost call or lock, the store is as indexed, searches | 98 k |
| `frontdesk` | 2 overlapping requests, all tools, 1 failure | truth of the reply, success or failure; lead before lead-bound tools; what may be taken back | 3.1 M (with symmetry) |
| `frontdesk_forward` | 2 requests in sequence, no failure | *violated*: the stage only moves forward | |
| `lifecycle` | every configuration, 3 heartbeats | pool, jobs, readiness | 490 |

Why these are enough. The breaker distinguishes counts below and at the threshold
and one call more than the trip needs: with three calls, two trip it and the third
reports late. A recording's races are between a reader and a writer, so two
coroutines show each; two attempts separate "has attempts left" from "exhausted",
and the theorems below remove the bounds. In `AgentRuns` two deliveries of one id
give the redelivery and the concurrent execution, a third delivery from a sweep the
cooldown race; the memory limit is set to one so that a recent task can fall out of
it. The deadline run needs no clock, since its keys have no hour, but two contents: then
there are runs about one content, about two, and with the text already cached. The
sweep runs over daily summaries because these leave the planner the widest choice: every type, flag and recipient, two of which the validation refuses. In
`meeting` a call may raise at every place and as often as there are attempts, since
that is no fault there; stops and failed statements are, and one is allowed. In
`Retrieval` a version of one chunk and one of two, a note that may move between two
leads, and a pack file suffice to tell whole, part and mixture apart and to fill the
smallest limits; `OverFetch` and `MinFetch` are set to two, so that what FAISS fetches
can be less than what is stored. In `RagSync` three documents in one table with a batch of two give a snapshot
that is cut off, a failed document that a later one of its batch passes, a table
blocked by empty documents, and (with the pack) more sources than are listed; two files
of the pack make a batch whose order no `updated_at` gives;
edits and deletions happen at any moment of a pass; one failure is enough for each
kind of stop, and a missed write of the index also comes without any, from an
emptied store. The second table is visited and stays empty. In `FrontDesk` two
turns are enough for every overlap, since each compares what it loaded with one
other save.

Deadlock is checked where the system never stops (`llm`). The other models stop by
design: requests, edits, deliveries and failures are bounded, a process ends, and a
store whose pickle is torn accepts no further pass; their configurations say
`CHECK_DEADLOCK FALSE`, and progress is a matter of the liveness properties.

Symmetry is used in `frontdesk` (turns are interchangeable) and `runs_lead` (so are the
two deliveries with one id), runs without liveness properties.

## Fairness

- `LLMCalls`: the clock ticks; a request ends because httpx is given `timeout=60`,
  and a sleep ends; the service keeps being asked (recovery is only noticed by
  asking). Nothing is assumed of the provider or of cancellation: the premise of
  `RecoversWithProvider` says what it needs.
- `Transcription`: a begun coroutine goes on (the provider answers or raises);
  processing eventually times out; the scheduler repeats the sweep. No request has
  to arrive.
- `AgentRuns`: every call returns or times out (`autocrm_auth_timeout`), and the
  `for` loop of a sweep goes on by itself once begun. No event has to arrive.
- `RagSync`: the interval job starts passes for ever, every call returns or times
  out, and a stopped service is started again. Weak fairness of `Pass` as a whole
  is enough because a pass is one process with one next step (two when an index
  write may be missed).
- `Retrieval`: a thread that runs a job goes on, a free thread takes the next job of
  the queue, an upload ends, and the pass goes on with its document. A search is
  atomic and needs none.
- `Lifecycle` has no liveness property: the startup is a sequence of steps whose only
  loop, the heartbeat, has a number of attempts.
- `MeetingPipeline` is checked for safety; the liveness of the job is that of
  `Transcription`.
- `FrontDesk` has no liveness property: a turn has no loop.

## External assumptions

The backend is not in the repository. It is modelled from how the service uses it,
and the entries are marked `external`:

- `POST /api/agent/runs` returns an existing run for a known external id with the
  status it has; `POST /api/agent/actions` creates nothing for a known idempotency
  key; the `PATCH` of a run's status is unconditional.
- `GET /rag/snapshot` returns the oldest changes strictly after the cursor, up to
  the limit, and `updated_at` values differ; the reconciliation call names the
  listed CRM sources that no longer exist and never a file of the pack.
- `context_hash` names the content of a task one to one, as does the cache key that
  stands in for it (`task_deadline_watch.py:119` says that it "encodes task identity,
  severity, and content"); a text is cached, once its alert is recorded, for that content.
- The memory list of a record may be filled by any activity: which of its tasks are
  among the five items is open.
- A user may cancel a running run and reject an action at any time; a rejected task
  keeps its place in the list the cooldown reads, but does not count.
- asyncio's default executor starts queued jobs in order on a fixed number of threads.
- `POST /leads/upsert` may answer with or without a lead. A `PUT` of the session
  state takes effect before its call returns or fails, not later.
- Writing files fails by a stop of the process or by an exception of
  `faiss.write_index`; other operating-system errors are not modelled.

## Proofs

TLC looks at the instances above; the theorems hold for every value of the
constants allowed by the named ASSUMEs (`BreakerAssumption`, `CallsAssumption`,
`TranscriptionAssumption`, `ActionPolicyAssumption`, `AgentRunsAssumption`,
`RagSyncAssumption`, `RetrievalAssumption`, `EmbeddingsAssumption`, `FrontDeskAssumption`,
`LifecycleAssumption`), every one of which is evaluated by a run. They say of what type
the constants are, and little else: the documents and files of the index are finitely
many, and in `Retrieval` no two chunks have the same score, with or without a boost,
since the order of equal scores is left out of the model. Every invariant and
every action property of the passing runs is stated by a theorem.

**`LLMCalls_proofs`**: `TypeCorrect`, `StateFollowsCount`, `TimerCorrect`,
`TrialsAreQuiet`. The checked invariants are inductive after two additions:
`HalfOpenHasCooled` (a half-open breaker has waited out its timeout, or nothing is
known of the timer when a second trial is let in) and `BackoffHasNext` (a sleeping
call has an attempt left). One lemma per operation of the breaker, one case per
action of a call.

**`Transcription_proofs`**:
- `BudgetHolds` from `Ledger`: calls never exceed `MaxAttempts * resets` plus the
  attempts counted in the row. Every call is counted by the same statement that
  takes the job, and only a reset clears the count.
- `NothingAbandoned` from `WorkInv`: without a fault a job in processing has a
  worker at the provider or in its completion, and a pending job with attempts left
  has a task on its way to `_start_attempt`.
- `RedoOnlyByStaleReader` from `WritersSawOther`: a task about to overwrite the row
  has itself read it as not completed, or works on the attempt.
- `MirrorIsReleased` from `MirrorInv`: a task owes "processing" only while it
  transcribes and "completed" only with the transcript stored, and as long as nothing
  failed, a call shown as processing has a task that transcribes or owes an update.

**`MeetingPipeline_proofs`**: `PipelineIsTranscription`, a step simulation, hands on
every safety theorem about `Transcription`. `AnalysesEnd` from `PipelineInv`: a completed
job has a settled run, a task still in the trigger, or was cut off there; a call that
returned found the run settled or the agent off; calls are made only from the trigger,
with the transcript stored. `Effect` says what any step of the job can
do to that, one case per action. `PipelineKeepsContract` is a refinement of
`RunContract` beside that one: outside the trigger a step leaves the recording's run and
its workers alone (`LiveKept`), inside it is `Start`, `Act`, `Settle` or `Leave`, and a
restart is a `Leave` of all tasks. `PipelineTypes` takes the types of the run's actions
from it.

**`AgentRuns_proofs`**:
- `PlansObeyPolicy` from `NormalForm`, by cases on the type: a lemma about the
  operators of `ActionPolicy`.
- `OneAction` from `ActionsInv`: a delivery past its dispatch has acted at most
  once, keys are unique, and outside daily summaries the type is fixed by the
  event.
- `Bound`, on which the following rest: from its interpretation on a delivery keeps its
  run and its task, and it executes only a run it has joined. `WorkProceeds` and its
  neighbours say once what every kind of step keeps.
- `CooldownHolds` from `CooldownInv`: of the other tasks of its lead, each has been shown
  to a delivery that decides, or was rejected, or accepted since its read, or its list was
  cut (`Shown`); and one that has planned a task was shown nothing younger than the
  cooldown (`Cooled`). So every pair of tasks has a cause, whatever the clock does.
- `NotesFollowAlerts` from `NoteInv`: only a delivery whose alert is recorded
  dispatches, and a recorded alert has its note, a delivery dispatching it, or one that
  lost the call.
- `NoOrphan` and `ReturnsAreFinal` from `ReturnedInv`: of a run that is not settled, every
  delivery that has executed it is still at work or was cut off.
- `CompletedMeansAnswered` from `AnsweredInv`: a delivery that is about to complete
  its run has an accepted action or a declined run behind it, and answers stay.
- `FailuresLeaveNothing` from `FailedInv`: a delivery on its way to `fail` has not acted,
  unless it lost the call or the trace behind it, and a failed run has an executor that is
  done and has the same excuse; so an action without one is another's, who executed the
  run too.
- `RefinesContract`: the initial states and every step of `AgentRuns` map to
  `RunContract`, one case per action; `CStep` names the abstract step, and lemmas
  say how `Live` and `Effects` change.
- `SettledRunsStay` carries `SettledIsFinal` over the refinement: `FinalStep` proves it
  of the abstract steps, so the proof looks at no action of `AgentRuns`.

**`FrontDesk_proofs`**:
- `ReportsAreTrue` from `OkIsCarried` and `FailedIsNot`: a turn holds the result "ok" of a tool only
  after the backend has accepted it for this turn. An answer that was lost leaves
  the turn with a failure, which promises nothing; that only such an answer does is
  `FailedIsNot`: before its tool is called a turn has nothing carried out, and without
  a failure a tool that failed was not.
- `LeadFirst` from `LeadInv`: a lead known to the session, its row or a turn was
  given by an upsert, and a turn calls a lead-bound tool only after one. As long as
  the backend has accepted no upsert (`NoLead`), every step keeps all of these empty
  and carries no lead-bound tool out.
- `RewindsAreExplained` and `FactsAreKept` from `SightedInv`: a turn that loaded the
  row and has not been overtaken holds all the identifying facts of the row and at
  least its stage, unless its tool was a handoff. A save by another turn makes it
  overtaken, one step inside its own turn only adds facts, and `_advance_stage`
  never goes back (`AdvanceIsForward`, which needs that the ranks of `STAGE_ORDER`
  are ordered, `RankOfStage`).

**`Retrieval_proofs`**: `ModelIsBuiltOnce` from `ModelInv` (who holds the lock, what a
thread past the second look knows) and `QueueInv` (a job is queued or runs at most
once); with `WaitInv` (who waits is queued) also `NobodyWaitsInVain`, what
`EmbedReturns` needs besides fairness; `StoreIsAsIndexed` and `DocumentsHaveOneVersion` from `StoreInv`, which follows
a document from the deletion of its chunks to the last insertion in each store; one
lemma per operation. `SearchesMissOnlyTheOutranked` is about the pure operator `Found`
over any finite store: as scores differ, the number of higher scores is an injection
of the store into `0..(size - 1)`, hence a bijection, so that a limit that leaves
something out is full (`FirstOfOrder`), from which `BestOutranks` and
`NearestOutranks` follow for the two ways chunks are cut off.

**`RagSync_proofs`**:
- `MissIsNoticed` from `StoreInv`, which relates memory, pickle and index file. In
  memory is what the pickle holds; the index file is up to date, torn away from use, or
  one write behind and then of another size, since a persist adds or removes exactly one
  document: the document of a step that embeds is not in the store (`DropOld` removed
  it), a removed one is. `Total` is a cardinality; `MoreIsLarger` and `ChangeIsSeen`
  say that one document more is more chunks.
- `CursorsAreHonest` from `HonestInv`. The saved cursor is honest only because those in
  memory are, these because of what the batch knows: documents that wait are newer than
  `newest`, whatever is not newer than `newest` is done, and whatever is older than
  something that waits is done or waits itself (`PassedIsDone`). `SnapshotIsClosed`
  gives this for a fetched batch (a prefix of the changes by `updated_at`),
  `BatchAdvances` and `BatchKeeps` for a document that is done and one passed over.
  That `updated_at` values differ (`CrmInv`) is needed: with two equal ones a batch cut
  between them would lose one. Both invariants were found inductive only after the model
  was corrected: with two files of the pack it had let one be removed and another be
  embedded, where the code finishes one document before the next. `Current` is that
  correction, and the run now has two files.

**`Lifecycle_proofs`**: `PoolIsClosed`, `JobsHaveBackend`, `ReadyIsTrue`, from an
invariant that says what each phase of the lifespan knows (`PhaseKnows`), that a
heartbeat is left in the phase that sends one (`AttemptsLeft`), and which processes
serve without a scheduler they were to run (`SchedulerMatches`).

Only model-checked: the liveness properties, which like everything with ENABLED are
outside the prover's reach (`RecoversWithProvider`, `EveryCallEnds`,
`ProcessingIsLeft`, `PendingSettles`, `RequestRecovers`, `RunSettles`,
`SweepReachesAll`, `CatchesUp`, `EmbedReturns`). Types are proved in
every component and left to no run. No module uses RECURSIVE operators, so none is closed to proofs.

## What the code does that a reader may not expect

Disagreements with the repository's own words, each shown by a run:

- The half-open breaker admits any number of concurrent requests, not "one trial
  request" (`core/circuit_breaker.py:38`, run `llm_one_trial`).
- A handoff after completion sets the session's stage back, although discovery is
  "a forward-only state machine" (`prompts/frontdesk/discovery.md:3`, run
  `frontdesk_forward`).

The same code breaks a second promise of that docstring, which no run shows: a late
success of a call admitted before the trip closes the open breaker, so that requests
are not rejected "for reset_timeout_seconds" (`core/circuit_breaker.py:35`);
`ReplyText` and `RecordSuccess` have it.

Behaviour that no text denies, found while modelling and built into the models:

- *Front desk*: the model's proposal `completed` is saved with nothing booked, also
  in the turn whose booking was refused. A lost answer of a booking is reported as a
  failure and no key protects the repetition.
- *Transcription*: a forced retry of an exhausted job is accepted and stays pending;
  a completed job is put back to pending by an `accept_recording` that read it
  earlier; a job pending at a restart is found by nothing but the next request for it;
  a recording whose service stopped between its completion and the trigger is never
  analysed, since callback and retry return at once; an analysis that failed is not
  repeated, because a failed run counts as a duplicate; with concurrent tasks
  `call_sessions` and the row may end with different final statuses.
- *Runs*: a lead may get two AI tasks within the cooldown, the "minimum hours before
  creating another AI follow-up task for the same lead" (`config.py:90`): an event and
  the sweep, or events of two hours, both read the memory before either acts, or the
  memory list is cut at five items. `CooldownRespected` says that there is no third
  cause. A summary run may leave one action per type when executed twice; a deadline
  alert is cached before its note, so a failure between the two leaves the task
  without a note; a failed run is settled, so its event is not repeated in the
  window; a settled status overwrites a user's cancellation; a task whose
  content changed gets another note. A front desk message delivered as an event without
  an id has the hour for a window, so that a second message of the session within it is
  a duplicate (the chat routes call the workflow without a run); two deliveries of one
  message that overlap take two turns.
- *Plans*: `daily_summary` and `deal_risk` build their action without the plan's
  `requires_approval`, so a note or alert the planner was unsure of is carried out at
  once; an alert of a daily summary has no recipient and is always refused.
- *Retrieval*: without the faiss package the FAISS store answers every search with
  nothing; vectors of another dimension make `_rebuild_index` raise; what FAISS does
  not fetch is not ranked, however well it would score; chunks of a source that moved
  to another record stay; the in-memory store is empty after a restart, while the
  cursors say that all is indexed; the front desk falls back to its own files only
  when the search raises, not when it finds nothing.
- *Index*: a document whose embedding fails is passed over for good when a later one
  of its batch succeeds; as many empty documents as a batch holds block their table;
  a text that becomes empty keeps its old chunks; a torn pickle is not repaired;
  two missed index writes in a row may go unnoticed; deletions beyond the 1000
  listed sources are not seen.
- *Lifecycle*: a process that is to run a scheduler but serves without its backend
  leaves its pool open at shutdown; the database counts as connected without a URL.

## Not modelled

The lead-score sweep (one backend call) and the trace-retention sweep (one DELETE); the
layout of prompt context, wording, formatting, redaction and truncation of traces;
headers and URL building, which keep no state; the agent loop, which no event type
reaches, and the agent store, which nothing imports; configuration parsing; logging
and metrics; migrations beyond the columns of `ai_meeting_transcripts`; the arithmetic
of vectors and the order of chunks with equal scores. `PROJECT.json` gives the status
of every component.

## Plan

In order of importance; the first eleven are here.

1. `CircuitBreaker`, `LLMCalls`: the breaker under concurrent calls. Done, proved.
2. `Transcription`: one job under all its coroutines. Done, safety proved.
3. `AgentRuns`, `RunContract`: runs, actions and the abstract contract. Done,
   refinement proved.
4. `RagSync`: index synchronisation with crashes. Done, safety proved.
5. `FrontDesk`: overlapping turns. Done, safety proved.
6. `Lifecycle`: startup and shutdown. Done, safety proved.
7. `ActionPolicy`: the planner and the policy as operators, used by `AgentRuns` in
   place of a free choice. Done, proved.
8. `Embeddings`, `Retrieval`: the model cache in its thread pool, the three stores as
   implementations of one promise, searches. Done, safety proved.
9. `MeetingPipeline`: transcription composed with the run it starts. Done, proved.
10. Runs and bounds as in the table above, theorems as listed above.
11. Invariants and action properties of all runs as theorems. Done.
12. Left: theorems no run asks for, such as what the refinements imply for whoever
    implements `RunContract`, and the safety behind the other liveness properties, as
    `NobodyIsStranded` is behind `EmbedReturns`.
