----------------------------- MODULE Embeddings -----------------------------
(***************************************************************************)
(* HuggingFaceEmbeddingService of app/services/embedding_service.py: embed *)
(* runs two jobs in the default thread pool of asyncio, _load_model and    *)
(* model.encode.  The pool is shared with the transcriptions (to_thread in *)
(* transcription_service.py), which hold a thread for as long as the       *)
(* provider takes, and hands its threads out in the order of the calls.    *)
(* Threads are preempted anywhere: each look at shared state of            *)
(* _load_model is a step.                                                  *)
(***************************************************************************)
EXTENDS Naturals, Sequences, FiniteSets

CONSTANTS Callers,    \* coroutines that embed texts
          Services,   \* instances of HuggingFaceEmbeddingService
          ServiceOf,  \* the instance each caller uses
          Uploads,    \* transcriptions that may be in the pool
          PoolSize,   \* threads of the default executor
          MaxFaults   \* bound on failures and restarts

ASSUME EmbeddingsAssumption ==
    /\ ServiceOf \in [Callers -> Services]
    /\ Callers \intersect Uploads = {}
    /\ PoolSize \in Nat \ {0} /\ MaxFaults \in Nat

NoModel == 0

VARIABLES queue,   \* jobs that wait for a thread
          at,      \* where the embed call of each caller is
          upload,  \* where each transcription is
          lock,    \* the callers in _MODEL_CACHE_LOCK: at most one
          cache,   \* _MODEL_CACHE, of the one model that is configured
          own,     \* self._model of each service
          built,   \* models built by this process
          faults   \* failures and restarts so far

poolVars == <<queue, at, upload>>
modelVars == <<lock, cache, own, built>>
embedVars == <<poolVars, modelVars>>

\* The steps that occupy a thread.
Loading == {"own", "look_up", "lock", "recheck", "build", "publish"}
Working == Loading \union {"encode"}
Queued == {"load_queued", "encode_queued"}
Steps == Working \union Queued \union {"idle", "loaded", "embedded", "raised"}

\* Inside the `with' statement.
Locked == {"recheck", "build", "publish"}

EmbedTypeOK ==
    /\ queue \in Seq(Callers \union Uploads)
    /\ at \in [Callers -> Steps]
    /\ upload \in [Uploads -> {"idle", "queued", "running"}]
    /\ lock \subseteq Callers
    /\ cache \in Nat /\ own \in [Services -> Nat] /\ built \in Nat
    /\ faults \in 0..MaxFaults

EmbedInit ==
    /\ queue = <<>>
    /\ at = [c \in Callers |-> "idle"]
    /\ upload = [u \in Uploads |-> "idle"]
    /\ lock = {} /\ cache = NoModel /\ built = 0
    /\ own = [s \in Services |-> NoModel]

-----------------------------------------------------------------------------
(* The pool                                                                 *)

Goto(c, s) == at' = [at EXCEPT ![c] = s]

Busy ==
    Cardinality({c \in Callers : at[c] \in Working})
      + Cardinality({u \in Uploads : upload[u] = "running"})

\* to_thread for the coroutine c, which waits for the job from then on.
Submit(c, s) ==
    /\ queue' = Append(queue, c)
    /\ Goto(c, s)
    /\ UNCHANGED <<upload, modelVars, faults>>

Embed(c) == at[c] = "idle" /\ Submit(c, "load_queued")
QueueEncode(c) == at[c] = "loaded" /\ Submit(c, "encode_queued")

\* _transcribe: one job until the provider has answered.
QueueUpload(u) ==
    /\ upload[u] = "idle"
    /\ queue' = Append(queue, u)
    /\ upload' = [upload EXCEPT ![u] = "queued"]
    /\ UNCHANGED <<at, modelVars, faults>>

\* A free thread takes the oldest job.
TakeJob ==
    /\ queue # <<>> /\ Busy < PoolSize
    /\ LET j == Head(queue) IN
       IF j \in Uploads
       THEN upload' = [upload EXCEPT ![j] = "running"] /\ UNCHANGED at
       ELSE /\ Goto(j, IF at[j] = "load_queued" THEN "own" ELSE "encode")
            /\ UNCHANGED upload
    /\ queue' = Tail(queue)
    /\ UNCHANGED <<modelVars, faults>>

UploadEnds(u) ==
    /\ upload[u] = "running"
    /\ upload' = [upload EXCEPT ![u] = "idle"]
    /\ UNCHANGED <<queue, at, modelVars, faults>>

-----------------------------------------------------------------------------
(* _load_model                                                              *)

\* The job is done, with a model that the service keeps.
Keep(c, m) ==
    /\ own' = [own EXCEPT ![ServiceOf[c]] = m]
    /\ Goto(c, "loaded")

TryOwn(c) ==
    /\ at[c] = "own"
    /\ Goto(c, IF own[ServiceOf[c]] # NoModel THEN "loaded" ELSE "look_up")
    /\ UNCHANGED <<queue, upload, modelVars, faults>>

\* _MODEL_CACHE.get, without the lock.
LookUp(c) ==
    /\ at[c] = "look_up"
    /\ IF cache # NoModel THEN Keep(c, cache) ELSE Goto(c, "lock") /\ UNCHANGED own
    /\ UNCHANGED <<queue, upload, lock, cache, built, faults>>

Acquire(c) ==
    /\ at[c] = "lock" /\ lock = {}
    /\ lock' = {c}
    /\ Goto(c, "recheck")
    /\ UNCHANGED <<queue, upload, cache, own, built, faults>>

\* Mutant of Recheck: whoever gets the lock builds.
Recheck_Skipped(c) ==
    /\ at[c] = "recheck"
    /\ Goto(c, "build")
    /\ UNCHANGED <<queue, upload, modelVars, faults>>

\* Mutant of Recheck: the early return leaves the lock taken.
Recheck_KeepsLock(c) ==
    /\ at[c] = "recheck"
    /\ IF cache # NoModel THEN Keep(c, cache) ELSE Goto(c, "build") /\ UNCHANGED own
    /\ UNCHANGED <<queue, upload, lock, cache, built, faults>>

\* Another thread may have built the model while this one waited.
Recheck(c) ==
    /\ at[c] = "recheck"
    /\ IF cache # NoModel
       THEN Keep(c, cache) /\ lock' = lock \ {c}
       ELSE Goto(c, "build") /\ UNCHANGED <<own, lock>>
    /\ UNCHANGED <<queue, upload, cache, built, faults>>

BuildModel(c) ==
    /\ at[c] = "build"
    /\ built' = built + 1
    /\ Goto(c, "publish")
    /\ UNCHANGED <<queue, upload, lock, cache, own, faults>>

Fault == faults < MaxFaults /\ faults' = faults + 1

\* Mutant of BuildFails: the lock is released by the normal return only.
BuildFails_HoldsLock(c) ==
    /\ at[c] = "build" /\ Fault
    /\ Goto(c, "raised")
    /\ UNCHANGED <<queue, upload, modelVars>>

\* _build_model raises (no library, no such model): `with' releases the lock.
BuildFails(c) ==
    /\ at[c] = "build" /\ Fault
    /\ lock' = lock \ {c}
    /\ Goto(c, "raised")
    /\ UNCHANGED <<queue, upload, cache, own, built>>

Publish(c) ==
    /\ at[c] = "publish"
    /\ cache' = built
    /\ Keep(c, built)
    /\ lock' = lock \ {c}
    /\ UNCHANGED <<queue, upload, built, faults>>

-----------------------------------------------------------------------------
(* The rest of embed                                                        *)

Encode(c) ==
    /\ at[c] = "encode"
    /\ Goto(c, "embedded")
    /\ UNCHANGED <<queue, upload, modelVars, faults>>

EncodeFails(c) ==
    /\ at[c] = "encode" /\ Fault
    /\ Goto(c, "raised")
    /\ UNCHANGED <<queue, upload, modelVars>>

Job(c) ==
    \/ TryOwn(c) \/ LookUp(c) \/ Acquire(c) \/ Recheck(c) \/ BuildModel(c)
    \/ BuildFails(c) \/ Publish(c) \/ QueueEncode(c) \/ Encode(c) \/ EncodeFails(c)

PoolStep ==
    \/ TakeJob
    \/ \E c \in Callers : Job(c)
    \/ \E u \in Uploads : QueueUpload(u) \/ UploadEnds(u)

\* The process starts anew: threads, queue and models are gone.
PoolRestarts ==
    /\ queue' = <<>>
    /\ at' = [c \in Callers |-> "idle"]
    /\ upload' = [u \in Uploads |-> "idle"]
    /\ lock' = {} /\ cache' = NoModel /\ built' = 0
    /\ own' = [s \in Services |-> NoModel]

-----------------------------------------------------------------------------
(* Properties                                                               *)

\* Building a model takes seconds and its memory: however the threads of the
\* services interleave, a process builds it once, and every service uses the
\* model of the cache.
OneModel ==
    /\ built <= 1
    /\ \A s \in Services : own[s] # NoModel => own[s] = cache

InQueue(j) == \E i \in 1..Len(queue) : queue[i] = j

\* Why a full pool does not stand still: whatever has raised before, who waits for
\* a thread is in the queue, and the lock is in the hands of a thread that is
\* inside the `with' statement, where it waits for nobody.
NobodyIsStranded ==
    /\ \A c \in Callers : at[c] \in Queued => InQueue(c)
    /\ \A u \in Uploads : upload[u] = "queued" => InQueue(u)
    /\ lock \subseteq {c \in Callers : at[c] \in Locked}

\* Every embed call returns or raises, although transcriptions and threads that
\* wait for the model lock may occupy the whole pool.
EmbedReturns ==
    \A c \in Callers : at[c] = "load_queued" ~> at[c] \in {"idle", "embedded", "raised"}
=============================================================================
