-------------------------- MODULE Retrieval_proofs --------------------------
(***************************************************************************)
(* Proofs about Retrieval and Embeddings: the embedding model is built     *)
(* once however the threads of the pool interleave, and the store holds    *)
(* what the index pass believes to have stored, for every set of callers,  *)
(* services, sources and versions.                                         *)
(***************************************************************************)
EXTENDS Retrieval, FiniteSetTheorems, TLAPS

\* What the proofs need of the assumptions: nothing about similarities.
LEMMA StoreConstants ==
    /\ Writer \in Callers /\ Any \notin Sources
    /\ MaxVersions \in Nat /\ ChunksOf \in [Versions -> Nat \ {0}]
BY RetrievalAssumption

USE EmbeddingsAssumption, StoreConstants DEF NoModel, Goto, Submit, Keep, Fault, Queued

-----------------------------------------------------------------------------
(* What the steps of the index pass, the pool and the readers leave alone.  *)

\* The document side does not touch the model, save by a restart.
DocumentStep ==
    \/ \E s \in Sources : \/ DeleteSource(s) \/ DeleteRowsFails(s)
                         \/ \E e \in Entities : AddDocument(s, e)
    \/ \E s \in Sources : Upsert(s) \/ InsertChunk(s)

\* The steps of the pool and of its callers; none touches the store.
CallStep ==
    \/ ChunkEmbedded \/ ChunkFails
    \/ \E s \in Sources : EmbedChunk(s)
    \/ \E r \in Callers : Ask(r) \/ Answer(r)
    \/ InPool(PoolStep)

LEMMA NextSplits == Next => DocumentStep \/ CallStep \/ Restart
BY DEF Next, Write, DocumentStep, CallStep

-----------------------------------------------------------------------------
(* The pool and the model                                                   *)

\* Every caller that is past the lock holds it, and nobody else.
ModelInv ==
    /\ at \in [Callers -> Steps]
    /\ own \in [Services -> Nat]
    /\ \A c \in Callers : at[c] \in Locked => lock = {c}
    /\ lock \subseteq {c \in Callers : at[c] \in Locked}
    /\ \A c \in Callers : at[c] = "build" => built = 0
    /\ \A c \in Callers : at[c] = "publish" => built = 1 /\ cache = NoModel
    /\ built \in {0, 1} /\ cache \in {0, 1} /\ cache <= built
    /\ (\A c \in Callers : at[c] # "publish") => cache = built
    /\ \A s \in Services : own[s] # NoModel => own[s] = cache

\* A caller waits in the queue at most once, and only while it waits for a job.
QueueInv ==
    /\ queue \in Seq(Callers \union Uploads)
    /\ \A i \in 1..Len(queue) : queue[i] \in Callers => at[queue[i]] \in Queued
    /\ \A i, j \in 1..Len(queue) :
           i # j /\ queue[i] \in Callers => queue[j] # queue[i]

\* And whoever waits for a job is in the queue.
WaitInv ==
    /\ \A c \in Callers : at[c] \in Queued => InQueue(c)
    /\ upload \in [Uploads -> {"idle", "queued", "running"}]
    /\ \A u \in Uploads : upload[u] = "queued" => InQueue(u)

LEMMA QueueInit == Init => QueueInv /\ WaitInv
BY DEF Init, EmbedInit, QueueInv, WaitInv

\* A step of a caller that does not wait, which may queue it.
WalksOn(c) ==
    /\ at \in [Callers -> Steps] /\ at[c] \notin Queued
    /\ \E p \in Steps :
           /\ at' = [at EXCEPT ![c] = p]
           /\ \/ UNCHANGED queue /\ p \notin Queued
              \/ queue' = Append(queue, c) /\ p \in Queued
    /\ UNCHANGED upload

LEMMA QueueGrows ==
    ASSUME QueueInv, NEW j \in Callers \union Uploads, queue' = Append(queue, j)
    PROVE  /\ queue' \in Seq(Callers \union Uploads)
           /\ \A i \in 1..Len(queue') :
                  \/ i \in 1..Len(queue) /\ queue'[i] = queue[i]
                  \/ i = Len(queue) + 1 /\ queue'[i] = j
<1>1. /\ queue' \in Seq(Callers \union Uploads)
      /\ Len(queue') = Len(queue) + 1 /\ Len(queue) \in Nat
      /\ queue'[Len(queue) + 1] = j
      /\ \A i \in 1..Len(queue) : queue'[i] = queue[i]
    BY DEF QueueInv
<1>2. \A i \in 1..Len(queue') : i \in 1..Len(queue) \/ i = Len(queue) + 1
    BY <1>1
<1> QED BY <1>1, <1>2

LEMMA WalkKeepsQueue ==
    ASSUME QueueInv, NEW c \in Callers, WalksOn(c)
    PROVE  QueueInv'
<1>1. PICK p \in Steps :
          /\ at' = [at EXCEPT ![c] = p]
          /\ UNCHANGED queue \/ (queue' = Append(queue, c) /\ p \in Queued)
    BY DEF WalksOn
<1>2. \A i \in 1..Len(queue) : queue[i] # c
    BY DEF QueueInv, WalksOn
<1>3. \A i \in 1..Len(queue) : queue[i] \in Callers => at'[queue[i]] = at[queue[i]]
    BY <1>1, <1>2 DEF WalksOn
<1>4. CASE UNCHANGED queue
    BY <1>3, <1>4 DEF QueueInv
<1>5. CASE queue' = Append(queue, c) /\ p \in Queued
    <2>1. at'[c] = p
        BY <1>1 DEF WalksOn
    <2>2. /\ queue' \in Seq(Callers \union Uploads)
          /\ \A i \in 1..Len(queue') :
                 \/ i \in 1..Len(queue) /\ queue'[i] = queue[i]
                 \/ i = Len(queue) + 1 /\ queue'[i] = c
        BY <1>5, QueueGrows
    <2>3. \A i \in 1..Len(queue') : queue'[i] \in Callers => at'[queue'[i]] \in Queued
        BY <1>3, <1>5, <2>1, <2>2 DEF QueueInv
    <2>4. \A i, j \in 1..Len(queue') :
              i # j /\ queue'[i] \in Callers => queue'[j] # queue'[i]
        BY <1>2, <2>2 DEF QueueInv
    <2> QED BY <2>2, <2>3, <2>4 DEF QueueInv
<1> QED BY <1>1, <1>4, <1>5

LEMMA TakeKeepsQueue ==
    ASSUME QueueInv, at \in [Callers -> Steps], TakeJob
    PROVE  QueueInv'
<1>1. /\ queue # <<>> /\ queue' = Tail(queue)
      /\ queue' \in Seq(Callers \union Uploads)
      /\ Len(queue) \in Nat /\ Len(queue') = Len(queue) - 1
      /\ \A i \in 1..Len(queue') : queue'[i] = queue[i + 1]
      /\ Head(queue) = queue[1] /\ 1 \in 1..Len(queue)
    BY DEF TakeJob, QueueInv
<1>2. \A c \in Callers : c # Head(queue) => at'[c] = at[c]
    BY DEF TakeJob
<1>3. \A i \in 1..Len(queue') :
          i + 1 \in 1..Len(queue) /\ (queue'[i] \in Callers => queue'[i] # Head(queue))
    BY <1>1 DEF QueueInv
<1>4. \A i \in 1..Len(queue') : queue'[i] \in Callers => at'[queue'[i]] \in Queued
    BY <1>1, <1>2, <1>3 DEF QueueInv
<1>5. ASSUME NEW i \in 1..Len(queue'), NEW j \in 1..Len(queue'), i # j, queue'[i] \in Callers
      PROVE  queue'[j] # queue'[i]
    <2>1. i + 1 \in 1..Len(queue) /\ j + 1 \in 1..Len(queue) /\ i + 1 # j + 1
        BY <1>3, <1>5
    <2> QED BY <1>1, <1>5, <2>1 DEF QueueInv
<1> QED BY <1>1, <1>4, <1>5 DEF QueueInv

LEMMA ModelInit == Init => ModelInv
BY DEF Init, EmbedInit, ModelInv, Locked, Steps, Working, Loading

\* Steps that move one caller between places outside the lock.
Outside == Steps \ Locked
MovesOutside(c, places) ==
    /\ at[c] \in Outside /\ places \subseteq Outside
    /\ \E p \in places : at' = [at EXCEPT ![c] = p]
    /\ UNCHANGED modelVars

LEMMA MoveKeepsModel ==
    ASSUME ModelInv, NEW c \in Callers, MovesOutside(c, Outside)
    PROVE  ModelInv'
BY DEF ModelInv, MovesOutside, Outside, Locked, Steps, Working, Loading, modelVars

LEMMA JobKeepsModel ==
    ASSUME ModelInv, NEW c \in Callers, Job(c)
    PROVE  ModelInv'
<1> USE DEF Locked, Steps, Working, Loading, modelVars
<1>1. CASE TryOwn(c) \/ QueueEncode(c) \/ Encode(c) \/ EncodeFails(c)
    <2>1. MovesOutside(c, Outside)
        BY <1>1 DEF TryOwn, QueueEncode, Encode, EncodeFails, MovesOutside, Outside
    <2> QED BY <2>1, MoveKeepsModel
<1>2. CASE LookUp(c)
    <2>1. CASE cache # NoModel
        BY <1>2, <2>1 DEF LookUp, ModelInv
    <2>2. CASE cache = NoModel
        BY <1>2, <2>2 DEF LookUp, ModelInv
    <2> QED BY <2>1, <2>2
<1>3. CASE Acquire(c)
    BY <1>3 DEF Acquire, ModelInv
<1>4. CASE Recheck(c)
    <2>1. CASE cache # NoModel
        BY <1>4, <2>1 DEF Recheck, ModelInv
    <2>2. CASE cache = NoModel
        BY <1>4, <2>2 DEF Recheck, ModelInv
    <2> QED BY <2>1, <2>2
<1>5. CASE BuildModel(c)
    BY <1>5 DEF BuildModel, ModelInv
<1>6. CASE BuildFails(c)
    BY <1>6 DEF BuildFails, ModelInv
<1>7. CASE Publish(c)
    BY <1>7 DEF Publish, ModelInv
<1> QED BY <1>1, <1>2, <1>3, <1>4, <1>5, <1>6, <1>7 DEF Job

LEMMA CallKeepsModel == ModelInv /\ QueueInv /\ CallStep => ModelInv'
<1> SUFFICES ASSUME ModelInv, QueueInv, CallStep PROVE ModelInv'
    OBVIOUS
<1> USE DEF Locked, Steps, Working, Loading, modelVars
<1>1. CASE ChunkEmbedded \/ ChunkFails
    <2>1. MovesOutside(Writer, Outside)
        BY <1>1 DEF ChunkEmbedded, ChunkFails, MovesOutside, Outside
    <2> QED BY <2>1, MoveKeepsModel
<1>2. ASSUME NEW s \in Sources, EmbedChunk(s) PROVE ModelInv'
    <2>1. MovesOutside(Writer, Outside)
        BY <1>2 DEF EmbedChunk, Embed, MovesOutside, Outside
    <2> QED BY <2>1, MoveKeepsModel
<1>3. ASSUME NEW r \in Callers, Ask(r) \/ Answer(r) PROVE ModelInv'
    <2>1. MovesOutside(r, Outside)
        BY <1>3 DEF Ask, Answer, Embed, MovesOutside, Outside
    <2> QED BY <2>1, MoveKeepsModel
<1>4. CASE TakeJob
    <2>1. CASE UNCHANGED at
        BY <1>4, <2>1 DEF TakeJob, ModelInv
    <2>2. CASE Head(queue) \in Callers /\ Head(queue) \notin Uploads
        <3>1. queue # <<>> /\ Head(queue) = queue[1] /\ 1 \in 1..Len(queue)
            BY <1>4 DEF TakeJob, QueueInv
        <3>2. at[Head(queue)] \in Queued
            BY <2>2, <3>1 DEF QueueInv
        <3>3. MovesOutside(Head(queue), Outside)
            BY <1>4, <2>2, <3>2 DEF TakeJob, MovesOutside, Outside, Queued
        <3> HIDE DEF Locked, Steps, Working, Loading, modelVars
        <3> QED BY <2>2, <3>3, MoveKeepsModel
    <2>3. Head(queue) \in Callers \union Uploads
        BY <1>4 DEF TakeJob, QueueInv
    <2> QED BY <1>4, <2>1, <2>2, <2>3 DEF TakeJob
<1>5. ASSUME NEW c \in Callers, Job(c) PROVE ModelInv'
    BY <1>5, JobKeepsModel
<1>6. ASSUME NEW u \in Uploads, QueueUpload(u) \/ UploadEnds(u) PROVE ModelInv'
    BY <1>6 DEF QueueUpload, UploadEnds, ModelInv
<1> QED BY <1>1, <1>2, <1>3, <1>4, <1>5, <1>6 DEF CallStep, InPool, PoolStep

LEMMA JobWalks ==
    ASSUME ModelInv, NEW c \in Callers, Job(c)
    PROVE  WalksOn(c)
<1> USE DEF Queued, Steps, Working, Loading, modelVars
<1>1. at \in [Callers -> Steps]
    BY DEF ModelInv
<1>2. CASE TryOwn(c) \/ LookUp(c) \/ Acquire(c) \/ Recheck(c) \/ BuildModel(c)
    BY <1>1, <1>2 DEF TryOwn, LookUp, Acquire, Recheck, BuildModel, WalksOn
<1>3. CASE BuildFails(c) \/ Publish(c) \/ QueueEncode(c) \/ Encode(c) \/ EncodeFails(c)
    BY <1>1, <1>3 DEF BuildFails, Publish, QueueEncode, Encode, EncodeFails, WalksOn
<1> QED BY <1>2, <1>3 DEF Job

\* A transcription joins the queue.
LEMMA UploadKeepsQueue ==
    ASSUME QueueInv, NEW u \in Uploads, QueueUpload(u) \/ UploadEnds(u)
    PROVE  QueueInv'
<1>1. CASE QueueUpload(u)
    <2>1. /\ queue' \in Seq(Callers \union Uploads)
          /\ \A i \in 1..Len(queue') :
                 \/ i \in 1..Len(queue) /\ queue'[i] = queue[i]
                 \/ i = Len(queue) + 1 /\ queue'[i] = u
        BY <1>1, QueueGrows DEF QueueUpload
    <2>2. u \notin Callers /\ UNCHANGED at
        BY <1>1 DEF QueueUpload
    <2> QED BY <2>1, <2>2 DEF QueueInv
<1>2. CASE UploadEnds(u)
    BY <1>2 DEF UploadEnds, QueueInv
<1> QED BY <1>1, <1>2

LEMMA CallKeepsQueue == ModelInv /\ QueueInv /\ CallStep => QueueInv'
<1> SUFFICES ASSUME ModelInv, QueueInv, CallStep PROVE QueueInv'
    OBVIOUS
<1> USE DEF Queued, Steps, Working, Loading
<1>0. at \in [Callers -> Steps]
    BY DEF ModelInv
<1>1. CASE ChunkEmbedded \/ ChunkFails
    <2>1. WalksOn(Writer)
        BY <1>0, <1>1 DEF ChunkEmbedded, ChunkFails, WalksOn
    <2> QED BY <2>1, WalkKeepsQueue
<1>2. ASSUME NEW s \in Sources, EmbedChunk(s) PROVE QueueInv'
    <2>1. WalksOn(Writer)
        BY <1>0, <1>2 DEF EmbedChunk, Embed, WalksOn
    <2> QED BY <2>1, WalkKeepsQueue
<1>3. ASSUME NEW r \in Callers, Ask(r) \/ Answer(r) PROVE QueueInv'
    <2>1. WalksOn(r)
        BY <1>0, <1>3 DEF Ask, Answer, Embed, WalksOn
    <2> QED BY <2>1, WalkKeepsQueue
<1>4. CASE TakeJob
    BY <1>0, <1>4, TakeKeepsQueue
<1>5. ASSUME NEW c \in Callers, Job(c) PROVE QueueInv'
    BY <1>5, JobWalks, WalkKeepsQueue
<1>6. ASSUME NEW u \in Uploads, QueueUpload(u) \/ UploadEnds(u) PROVE QueueInv'
    BY <1>6, UploadKeepsQueue
<1> QED BY <1>1, <1>2, <1>3, <1>4, <1>5, <1>6 DEF CallStep, InPool, PoolStep

LEMMA InQueueGrows ==
    ASSUME QueueInv, NEW j \in Callers \union Uploads, queue' = Append(queue, j)
    PROVE  InQueue(j)' /\ \A k : InQueue(k) => InQueue(k)'
<1>1. /\ Len(queue) \in Nat /\ Len(queue') = Len(queue) + 1
      /\ queue'[Len(queue) + 1] = j
      /\ \A i \in 1..Len(queue) : queue'[i] = queue[i]
    BY DEF QueueInv
<1>2. Len(queue) + 1 \in 1..Len(queue') /\ 1..Len(queue) \subseteq 1..Len(queue')
    BY <1>1
<1> QED BY <1>1, <1>2 DEF InQueue

LEMMA WalkKeepsWait ==
    ASSUME QueueInv, WaitInv, NEW c \in Callers, WalksOn(c)
    PROVE  WaitInv'
<1>1. PICK p \in Steps :
          /\ at' = [at EXCEPT ![c] = p]
          /\ \/ UNCHANGED queue /\ p \notin Queued
             \/ queue' = Append(queue, c)
    BY DEF WalksOn
<1>2. (\A k : InQueue(k) => InQueue(k)') /\ (p \in Queued => InQueue(c)')
    <2>1. CASE UNCHANGED queue /\ p \notin Queued
        BY <2>1 DEF InQueue
    <2>2. CASE queue' = Append(queue, c)
        BY <2>2, InQueueGrows
    <2> QED BY <1>1, <2>1, <2>2
<1>3. UNCHANGED upload /\ \A d \in Callers : at'[d] = IF d = c THEN p ELSE at[d]
    BY <1>1 DEF WalksOn
<1> QED BY <1>2, <1>3 DEF WaitInv

\* Who is taken from the queue waits no longer, and all others stay in it.
LEMMA TakeKeepsWait ==
    ASSUME QueueInv, WaitInv, at \in [Callers -> Steps], TakeJob
    PROVE  WaitInv'
<1>1. /\ queue # <<>> /\ queue' = Tail(queue) /\ Head(queue) = queue[1]
      /\ Len(queue) \in Nat /\ Len(queue') = Len(queue) - 1
      /\ \A i \in 1..Len(queue') : queue'[i] = queue[i + 1]
    BY DEF TakeJob, QueueInv
<1>2. ASSUME NEW k, InQueue(k), k # Head(queue) PROVE InQueue(k)'
    <2>1. PICK i \in 1..Len(queue) : queue[i] = k
        BY <1>2 DEF InQueue
    <2>2. i - 1 \in 1..Len(queue') /\ queue'[i - 1] = k
        BY <1>1, <1>2, <2>1
    <2> QED BY <2>2 DEF InQueue
<1>3. CASE Head(queue) \in Uploads
    <2>1. UNCHANGED at /\ upload' = [upload EXCEPT ![Head(queue)] = "running"]
        BY <1>3 DEF TakeJob
    <2>2. Head(queue) \notin Callers
        BY <1>3
    <2> QED BY <1>2, <1>3, <2>1, <2>2 DEF WaitInv
<1>4. CASE Head(queue) \notin Uploads
    <2>1. /\ UNCHANGED upload
          /\ at' = [at EXCEPT ![Head(queue)] = IF at[Head(queue)] = "load_queued" THEN "own" ELSE "encode"]
        BY <1>4 DEF TakeJob
    <2> QED BY <1>2, <1>4, <2>1 DEF WaitInv
<1> QED BY <1>3, <1>4

LEMMA CallKeepsWait == ModelInv /\ QueueInv /\ WaitInv /\ CallStep => WaitInv'
<1> SUFFICES ASSUME ModelInv, QueueInv, WaitInv, CallStep PROVE WaitInv'
    OBVIOUS
<1> USE DEF Steps, Working, Loading
<1>0. at \in [Callers -> Steps]
    BY DEF ModelInv
<1>1. CASE ChunkEmbedded \/ ChunkFails
    <2>1. WalksOn(Writer)
        BY <1>0, <1>1 DEF ChunkEmbedded, ChunkFails, WalksOn
    <2> QED BY <2>1, WalkKeepsWait
<1>2. ASSUME NEW s \in Sources, EmbedChunk(s) PROVE WaitInv'
    <2>1. WalksOn(Writer)
        BY <1>0, <1>2 DEF EmbedChunk, Embed, WalksOn
    <2> QED BY <2>1, WalkKeepsWait
<1>3. ASSUME NEW r \in Callers, Ask(r) \/ Answer(r) PROVE WaitInv'
    <2>1. WalksOn(r)
        BY <1>0, <1>3 DEF Ask, Answer, Embed, WalksOn
    <2> QED BY <2>1, WalkKeepsWait
<1>4. CASE TakeJob
    BY <1>0, <1>4, TakeKeepsWait
<1>5. ASSUME NEW c \in Callers, Job(c) PROVE WaitInv'
    BY <1>5, JobWalks, WalkKeepsWait
<1>6. ASSUME NEW u \in Uploads, QueueUpload(u) PROVE WaitInv'
    <2>1. InQueue(u)' /\ \A k : InQueue(k) => InQueue(k)'
        BY <1>6, InQueueGrows DEF QueueUpload
    <2> QED BY <1>6, <2>1 DEF QueueUpload, WaitInv
<1>7. ASSUME NEW u \in Uploads, UploadEnds(u) PROVE WaitInv'
    BY <1>7 DEF UploadEnds, WaitInv, InQueue
<1> QED BY <1>1, <1>2, <1>3, <1>4, <1>5, <1>6, <1>7 DEF CallStep, InPool, PoolStep

EmbedInv == ModelInv /\ QueueInv /\ WaitInv

LEMMA EmbedStep == EmbedInv /\ [Next]_vars => EmbedInv'
<1> SUFFICES ASSUME ModelInv, QueueInv, WaitInv, [Next]_vars
             PROVE  ModelInv' /\ QueueInv' /\ WaitInv'
    BY DEF EmbedInv
<1>1. CASE DocumentStep
    <2>1. UNCHANGED <<queue, at, upload, lock, cache, own, built>>
        BY <1>1 DEF DocumentStep, DeleteSource, DeleteRowsFails, AddDocument, Upsert, InsertChunk,
           embedVars, poolVars, modelVars
    <2> QED BY <2>1 DEF ModelInv, QueueInv, WaitInv, InQueue
<1>2. CASE CallStep
    BY <1>2, CallKeepsModel, CallKeepsQueue, CallKeepsWait
<1>3. CASE Restart
    BY <1>3 DEF Restart, PoolRestarts, ModelInv, QueueInv, WaitInv, Locked, Steps, Working, Loading
<1>4. CASE UNCHANGED vars
    BY <1>4 DEF vars, embedVars, poolVars, modelVars, ModelInv, QueueInv, WaitInv, InQueue
<1> QED BY <1>1, <1>2, <1>3, <1>4, NextSplits

LEMMA EmbedInvariant == Spec => []EmbedInv
<1>1. Init => EmbedInv
    BY ModelInit, QueueInit DEF EmbedInv
<1> QED BY <1>1, EmbedStep, PTL DEF Spec

LEMMA ModelGivesOne == EmbedInv => OneModel
BY DEF EmbedInv, ModelInv, OneModel

\* Whoever waits for a thread is in the queue, and a held lock is held by a thread
\* at work: what EmbedReturns needs besides fairness.
THEOREM NobodyWaitsInVain == Spec => []NobodyIsStranded
<1>1. EmbedInv => NobodyIsStranded
    BY DEF EmbedInv, ModelInv, WaitInv, NobodyIsStranded
<1> QED BY <1>1, EmbedInvariant, PTL

\* However the threads of the embedding services interleave, with failing
\* builds and restarts, the process builds one model and all services use it.
THEOREM ModelIsBuiltOnce == Spec => []OneModel
BY EmbedInvariant, ModelGivesOne, PTL

-----------------------------------------------------------------------------
(* The store                                                                *)

\* What the store holds of the document that a source's last version belongs to.
Stored(s) == DocumentOf(s, latest[s].ent)

SourceInv(s) ==
    /\ fate[s] = "writing" <=> target = s
    /\ fate[s] = "writing" =>
           /\ latest[s].ver \in Versions
           /\ Stored(s) = {c \in Text(s) : c.idx <= inserted}
    /\ fate[s] = "indexed" => Stored(s) = Text(s)
    /\ fate[s] = "failed" /\ kind # "pgvector" => Stored(s) = {}
    /\ fate[s] = "deleted" => \A c \in store : c.src # s

StoreInv ==
    /\ kind \in Kinds
    /\ target \in Sources \union {Any}
    /\ inserted \in Nat
    /\ target = Any \/ kind # "pgvector" => inserted = 0
    /\ version \in Nat
    /\ latest \in [Sources -> [ent : Entities, ver : {0} \union Versions]]
    /\ fate \in [Sources -> Fates]
    /\ \A s \in Sources : SourceInv(s)
    /\ OneVersionPerDocument

LEMMA TextIsOneVersion ==
    ASSUME NEW s
    PROVE  /\ \A c \in Text(s) : /\ c.src = s /\ c.ent = latest[s].ent
                                 /\ c.ver = latest[s].ver
                                 /\ c.idx \in 1..Length(s)
           /\ \A c, d \in Text(s) : c.idx = d.idx => c = d
BY DEF Text, Chunks, Length

LEMMA StoreInit == Init => StoreInv
BY DEF Init, StoreInv, SourceInv, Kinds, Fates, Versions, OneVersionPerDocument, Stored,
   DocumentOf

\* A step that writes or deletes one source, and no other document of any source.
LEMMA OthersAreKept ==
    ASSUME StoreInv, NEW s \in Sources, NEW t \in Sources, t # s,
           \A c : c.src = t => (c \in store' <=> c \in store),
           UNCHANGED kind, target = s \/ target = Any, target' = s \/ target' = Any,
           fate'[t] = fate[t], latest'[t] = latest[t]
    PROVE  SourceInv(t)'
<1>1. SourceInv(t) /\ target # t /\ target' # t /\ fate[t] # "writing"
    BY DEF StoreInv, SourceInv
<1>2. Stored(t)' = Stored(t) /\ Text(t)' = Text(t)
    BY DEF Stored, DocumentOf, Text, Chunks
<1> QED BY <1>1, <1>2 DEF SourceInv

LEMMA AddKeepsStore ==
    ASSUME StoreInv, NEW s \in Sources, NEW e \in Entities, AddDocument(s, e)
    PROVE  StoreInv'
<1>1. /\ latest' = [latest EXCEPT ![s] = [ent |-> e, ver |-> version + 1]]
      /\ version' = version + 1 /\ version + 1 \in Versions
      /\ target = Any /\ UNCHANGED kind /\ inserted' = 0 /\ inserted = 0
      /\ store' = store \/ store' = store \ DocumentOf(s, e)
    BY DEF AddDocument, EndWrite, StoreInv, Versions
<1>2. latest'[s] = [ent |-> e, ver |-> version + 1]
      /\ \A t \in Sources : t # s => latest'[t] = latest[t]
    BY <1>1 DEF StoreInv
<1>3. \/ target' = s /\ fate' = [fate EXCEPT ![s] = "writing"] /\ Stored(s)' = {}
      \/ target' = Any /\ fate' = [fate EXCEPT ![s] = "failed"] /\ kind = "pgvector"
    BY <1>2 DEF AddDocument, EndWrite, Stored, DocumentOf
<1>4. SourceInv(s)'
    <2>1. CASE target' = s /\ fate' = [fate EXCEPT ![s] = "writing"] /\ Stored(s)' = {}
        <3>1. {c \in Text(s)' : c.idx <= 0} = {}
            BY <1>1, <1>2 DEF Text, Chunks, Versions
        <3> QED BY <1>1, <1>2, <2>1, <3>1 DEF SourceInv, StoreInv
    <2>2. CASE target' = Any /\ fate' = [fate EXCEPT ![s] = "failed"] /\ kind = "pgvector"
        BY <1>1, <2>2 DEF SourceInv, StoreInv
    <2> QED BY <1>3, <2>1, <2>2
<1>5. ASSUME NEW t \in Sources, t # s PROVE SourceInv(t)'
    <2>1. \A c : c.src = t => (c \in store' <=> c \in store)
        BY <1>1, <1>5 DEF DocumentOf
    <2>2. fate'[t] = fate[t]
        BY <1>3, <1>5 DEF StoreInv
    <2> QED BY <1>1, <1>2, <1>3, <1>5, <2>1, <2>2, OthersAreKept
<1>6. OneVersionPerDocument'
    BY <1>1 DEF StoreInv, OneVersionPerDocument
<1>7. /\ latest' \in [Sources -> [ent : Entities, ver : {0} \union Versions]]
      /\ fate' \in [Sources -> Fates]
    BY <1>1, <1>3 DEF StoreInv, Fates
<1> QED BY <1>1, <1>3, <1>4, <1>5, <1>6, <1>7 DEF StoreInv

\* The chunks that are stored next belong to the text that is being written.
LEMMA WriteKeepsOneVersion ==
    ASSUME StoreInv, NEW s \in Sources, target = s, store' \subseteq store \union Text(s)
    PROVE  OneVersionPerDocument'
<1>1. \A c \in store : c.src = s /\ c.ent = latest[s].ent => c \in Text(s)
    BY DEF StoreInv, SourceInv, Stored, DocumentOf
<1> QED BY <1>1, TextIsOneVersion DEF StoreInv, OneVersionPerDocument

LEMMA UpsertKeepsStore ==
    ASSUME StoreInv, NEW s \in Sources, Upsert(s)
    PROVE  StoreInv'
<1>1. /\ target = s /\ store' = store \union Text(s) /\ UNCHANGED <<kind, latest, version>>
      /\ target' = Any /\ inserted' = 0 /\ fate' = [fate EXCEPT ![s] = "indexed"]
    BY DEF Upsert, AllEmbedded, EndWrite
<1>2. SourceInv(s)'
    <2>1. Stored(s) \subseteq Text(s) /\ fate'[s] = "indexed" /\ Text(s)' = Text(s)
        BY <1>1 DEF StoreInv, SourceInv, Text, Chunks
    <2>2. Stored(s)' = Text(s)
        BY <1>1, <2>1, TextIsOneVersion DEF Stored, DocumentOf
    <2> QED BY <1>1, <2>1, <2>2 DEF SourceInv
<1>3. ASSUME NEW t \in Sources, t # s PROVE SourceInv(t)'
    <2>1. \A c : c.src = t => (c \in store' <=> c \in store)
        BY <1>1, <1>3, TextIsOneVersion
    <2> QED BY <1>1, <1>3, <2>1, OthersAreKept DEF StoreInv
<1>4. OneVersionPerDocument'
    BY <1>1, WriteKeepsOneVersion
<1> QED BY <1>1, <1>2, <1>3, <1>4 DEF StoreInv, Fates

LEMMA InsertKeepsStore ==
    ASSUME StoreInv, NEW s \in Sources, InsertChunk(s)
    PROVE  StoreInv'
<1>1. /\ target = s /\ kind = "pgvector" /\ UNCHANGED <<kind, latest, version>>
      /\ inserted \in Nat
      /\ store' = store \/ store' = store \union NextChunk(s)
      /\ \/ target' = s /\ inserted' = inserted + 1 /\ UNCHANGED fate
            /\ store' = store \union NextChunk(s)
         \/ target' = Any /\ inserted' = 0 /\ fate' = [fate EXCEPT ![s] = "indexed"]
            /\ inserted + 1 = Length(s) /\ store' = store \union NextChunk(s)
         \/ target' = Any /\ inserted' = 0 /\ fate' = [fate EXCEPT ![s] = "failed"]
    BY DEF InsertChunk, AllEmbedded, EndWrite, StoreInv
<1>2. /\ Text(s)' = Text(s) /\ NextChunk(s) \subseteq Text(s)
      /\ Stored(s) = {c \in Text(s) : c.idx <= inserted}
      /\ fate[s] = "writing" /\ latest[s].ver \in Versions
    BY <1>1 DEF StoreInv, SourceInv, Text, Chunks, NextChunk
<1>3. store' = store \union NextChunk(s) =>
          Stored(s)' = {c \in Text(s) : c.idx <= inserted + 1}
    <2>1. store' = store \union NextChunk(s) => Stored(s)' = Stored(s) \union NextChunk(s)
        BY <1>1, <1>2, TextIsOneVersion DEF Stored, DocumentOf
    <2>2. \A c \in Text(s) : c.idx <= inserted + 1 <=> c.idx <= inserted \/ c.idx = inserted + 1
        BY <1>1, TextIsOneVersion
    <2> QED BY <1>2, <2>1, <2>2 DEF NextChunk
<1>4. SourceInv(s)'
    <2>1. inserted + 1 = Length(s) => \A c \in Text(s) : c.idx <= inserted + 1
        BY TextIsOneVersion, <1>1
    <2>2. CASE target' = s /\ inserted' = inserted + 1 /\ UNCHANGED fate
               /\ store' = store \union NextChunk(s)
        BY <1>1, <1>2, <1>3, <2>2 DEF SourceInv
    <2>3. CASE target' = Any /\ inserted' = 0 /\ fate' = [fate EXCEPT ![s] = "indexed"]
               /\ inserted + 1 = Length(s) /\ store' = store \union NextChunk(s)
        <3>1. fate'[s] = "indexed" /\ Stored(s)' = Text(s)
            BY <1>3, <2>1, <2>3 DEF StoreInv
        <3> QED BY <1>2, <2>3, <3>1 DEF SourceInv
    <2>4. CASE target' = Any /\ inserted' = 0 /\ fate' = [fate EXCEPT ![s] = "failed"]
        <3>1. fate'[s] = "failed"
            BY <2>4 DEF StoreInv
        <3> QED BY <1>1, <2>4, <3>1 DEF SourceInv
    <2> QED BY <1>1, <2>2, <2>3, <2>4
<1>5. ASSUME NEW t \in Sources, t # s PROVE SourceInv(t)'
    <2>1. \A c : c.src = t => (c \in store' <=> c \in store)
        BY <1>1, <1>2, <1>5, TextIsOneVersion
    <2>2. fate'[t] = fate[t]
        BY <1>1, <1>5 DEF StoreInv
    <2> QED BY <1>1, <1>5, <2>1, <2>2, OthersAreKept
<1>6. OneVersionPerDocument'
    <2>1. store' \subseteq store \union Text(s)
        BY <1>1, <1>2
    <2> QED BY <1>1, <2>1, WriteKeepsOneVersion
<1>7. fate' \in [Sources -> Fates]
    BY <1>1 DEF StoreInv, Fates
<1> QED BY <1>1, <1>4, <1>5, <1>6, <1>7 DEF StoreInv

LEMMA DeleteKeepsStore ==
    ASSUME StoreInv, NEW s \in Sources, Gone(s),
           UNCHANGED <<kind, target, inserted, latest, version>>
    PROVE  StoreInv'
<1>1. /\ target = Any /\ store' = {c \in store : c.src # s}
      /\ fate' = [fate EXCEPT ![s] = "deleted"]
      /\ UNCHANGED <<kind, target, inserted, latest, version>>
    BY DEF Gone
<1>2. SourceInv(s)'
    <2>1. fate'[s] = "deleted" /\ target' # s
        BY <1>1 DEF StoreInv
    <2> QED BY <1>1, <2>1 DEF SourceInv
<1>3. ASSUME NEW t \in Sources, t # s PROVE SourceInv(t)'
    <2>1. \A c : c.src = t => (c \in store' <=> c \in store)
        BY <1>1, <1>3
    <2> QED BY <1>1, <1>3, <2>1, OthersAreKept DEF StoreInv
<1>4. OneVersionPerDocument'
    BY <1>1 DEF StoreInv, OneVersionPerDocument
<1> QED BY <1>1, <1>2, <1>3, <1>4 DEF StoreInv, Fates

LEMMA FailKeepsStore ==
    ASSUME StoreInv, NEW s \in Sources, target = s, EndWrite(s, "failed"),
           UNCHANGED <<kind, store, latest, version>>
    PROVE  StoreInv'
<1>1. /\ target' = Any /\ inserted' = 0 /\ fate' = [fate EXCEPT ![s] = "failed"]
      /\ fate'[s] = "failed"
    BY DEF EndWrite, StoreInv
<1>2. kind # "pgvector" => Stored(s)' = {}
    <2>1. \A c \in Text(s) : ~(c.idx <= 0)
        BY TextIsOneVersion
    <2> QED BY <2>1 DEF StoreInv, SourceInv, Stored, DocumentOf
<1>3. SourceInv(s)'
    BY <1>1, <1>2 DEF SourceInv
<1>4. ASSUME NEW t \in Sources, t # s PROVE SourceInv(t)'
    BY <1>1, <1>4, OthersAreKept DEF StoreInv
<1> QED BY <1>1, <1>3, <1>4 DEF StoreInv, OneVersionPerDocument, Fates

LEMMA RestartKeepsStore ==
    ASSUME StoreInv, Restart
    PROVE  StoreInv'
<1>1. /\ target' = Any /\ inserted' = 0 /\ UNCHANGED <<kind, latest, version>>
      /\ store' = IF kind = "memory" THEN {} ELSE store
    BY DEF Restart
<1>2. \A s \in Sources :
          fate'[s] = CASE fate[s] = "writing" -> "failed"
                       [] fate[s] = "indexed" /\ kind = "memory" -> "lost"
                       [] OTHER -> fate[s]
    BY DEF Restart
<1>3. fate' \in [Sources -> Fates]
    <2>1. \A s \in Sources : fate'[s] \in Fates
        BY <1>2 DEF StoreInv, Fates
    <2> QED BY <2>1 DEF Restart
<1>4. ASSUME NEW s \in Sources PROVE SourceInv(s)'
    <2>1. kind = "memory" => Stored(s)' = {}
        BY <1>1 DEF Stored, DocumentOf
    <2>2. kind # "memory" => Stored(s)' = Stored(s)
        BY <1>1 DEF Stored, DocumentOf
    <2>3. Text(s)' = Text(s) /\ \A c \in Text(s) : ~(c.idx <= 0)
        BY <1>1, TextIsOneVersion DEF Text, Chunks
    <2>4. CASE fate[s] = "writing"
        <3>1. kind # "pgvector" => Stored(s) = {}
            BY <2>3, <2>4 DEF StoreInv, SourceInv
        <3> QED BY <1>1, <1>2, <2>1, <2>2, <2>4, <3>1 DEF SourceInv, StoreInv
    <2>5. CASE fate[s] = "indexed" /\ kind = "memory"
        BY <1>1, <1>2, <2>5 DEF SourceInv, StoreInv
    <2>6. CASE fate[s] # "writing" /\ ~(fate[s] = "indexed" /\ kind = "memory")
        <3>1. fate'[s] = fate[s] /\ target' # s
            BY <1>1, <1>2, <2>6
        <3> QED BY <1>1, <2>1, <2>2, <2>3, <2>6, <3>1 DEF SourceInv, StoreInv
    <2> QED BY <2>4, <2>5, <2>6
<1>5. OneVersionPerDocument'
    BY <1>1 DEF StoreInv, OneVersionPerDocument
<1> QED BY <1>1, <1>3, <1>4, <1>5 DEF StoreInv

\* The places where nothing of the store changes.
LEMMA StutterKeepsStore ==
    ASSUME StoreInv,
           UNCHANGED <<kind, store, target, inserted, latest, fate, version>>
    PROVE  StoreInv'
BY DEF StoreInv, SourceInv, OneVersionPerDocument, Stored, DocumentOf, Text, Chunks

\* Only a caller that embeds a chunk is in the place where it fails.
LEMMA CallKeepsStore ==
    ASSUME StoreInv, CallStep, ChunkFails => target # Any
    PROVE  StoreInv'
<1>1. CASE ChunkFails
    <2>1. target \in Sources /\ EndWrite(target, "failed")
              /\ UNCHANGED <<kind, store, latest, version>>
        BY <1>1 DEF ChunkFails, StoreInv
    <2> QED BY <2>1, FailKeepsStore
<1>2. CASE ~ChunkFails
    <2>1. UNCHANGED <<kind, store, target, inserted, latest, fate, version>>
        BY <1>2 DEF CallStep, ChunkEmbedded, EmbedChunk, Ask, Answer, InPool, docVars
    <2> QED BY <2>1, StutterKeepsStore
<1> QED BY <1>1, <1>2

\* The writer embeds only for the document that is being written.
WriterInv == at[Writer] # "idle" => target # Any

\* The other steps do not take the writer out of idleness.
LEMMA PoolLeavesIdle ==
    ASSUME EmbedInv, PoolStep, at[Writer] = "idle"
    PROVE  at'[Writer] = "idle"
<1>1. at \in [Callers -> Steps]
    BY DEF EmbedInv, ModelInv
<1>2. CASE TakeJob
    <2>1. queue # <<>> /\ Head(queue) = queue[1] /\ 1 \in 1..Len(queue)
        BY <1>2 DEF TakeJob, EmbedInv, QueueInv
    <2>2. Head(queue) # Writer
        BY <2>1 DEF EmbedInv, QueueInv, Queued
    <2> QED BY <1>1, <1>2, <2>2 DEF TakeJob
<1>3. ASSUME NEW c \in Callers, Job(c) PROVE at'[Writer] = "idle"
    <2>1. c # Writer /\ \E p \in Steps : at' = [at EXCEPT ![c] = p]
        BY <1>3 DEF Job, TryOwn, LookUp, Acquire, Recheck, BuildModel, BuildFails, Publish,
           QueueEncode, Encode, EncodeFails, Steps, Working, Loading
    <2> QED BY <1>1, <2>1
<1>4. ASSUME NEW u \in Uploads, QueueUpload(u) \/ UploadEnds(u) PROVE at'[Writer] = "idle"
    BY <1>4 DEF QueueUpload, UploadEnds
<1> QED BY <1>2, <1>3, <1>4 DEF PoolStep

LEMMA WriterStep ==
    ASSUME EmbedInv, WriterInv, StoreInv, [Next]_vars
    PROVE  WriterInv'
<1>1. at \in [Callers -> Steps]
    BY DEF EmbedInv, ModelInv
<1>2. CASE DocumentStep
    <2>1. UNCHANGED at /\ (target' # Any \/ at[Writer] = "idle")
        BY <1>2 DEF DocumentStep, DeleteSource, DeleteRowsFails, AddDocument, Upsert, InsertChunk, AllEmbedded,
           WriterInv, embedVars, poolVars
    <2> QED BY <2>1 DEF WriterInv
<1>3. CASE ChunkEmbedded \/ ChunkFails \/ Restart
    BY <1>1, <1>3 DEF ChunkEmbedded, ChunkFails, Restart, PoolRestarts, WriterInv
<1>4. ASSUME NEW s \in Sources, EmbedChunk(s) PROVE WriterInv'
    BY <1>4 DEF EmbedChunk, docVars, WriterInv
<1>5. ASSUME NEW r \in Callers, Ask(r) \/ Answer(r) PROVE WriterInv'
    BY <1>1, <1>5 DEF Ask, Answer, Embed, docVars, WriterInv
<1>6. CASE InPool(PoolStep)
    BY <1>6, PoolLeavesIdle DEF InPool, docVars, WriterInv
<1>7. CASE UNCHANGED vars
    BY <1>7 DEF vars, embedVars, poolVars, docVars, WriterInv
<1> QED BY <1>2, <1>3, <1>4, <1>5, <1>6, <1>7, NextSplits DEF CallStep

IndexInv == EmbedInv /\ WriterInv /\ StoreInv

LEMMA IndexStep == IndexInv /\ [Next]_vars => IndexInv'
<1> SUFFICES ASSUME EmbedInv, WriterInv, StoreInv, [Next]_vars PROVE IndexInv'
    BY DEF IndexInv
<1>1. StoreInv'
    <2>1. CASE DocumentStep
        <3>1. ASSUME NEW s \in Sources, DeleteSource(s) \/ DeleteRowsFails(s) PROVE StoreInv'
            BY <3>1, DeleteKeepsStore, StutterKeepsStore DEF DeleteSource, DeleteRowsFails
        <3> QED BY <2>1, <3>1, AddKeepsStore, UpsertKeepsStore, InsertKeepsStore DEF DocumentStep
    <2>2. CASE CallStep
        <3>1. ChunkFails => target # Any
            BY DEF ChunkFails, WriterInv
        <3> QED BY <2>2, <3>1, CallKeepsStore
    <2>3. CASE Restart
        BY <2>3, RestartKeepsStore
    <2>4. CASE UNCHANGED vars
        <3>1. UNCHANGED <<kind, store, target, inserted, latest, fate, version>>
            BY <2>4 DEF vars, docVars
        <3> QED BY <3>1, StutterKeepsStore
    <2> QED BY <2>1, <2>2, <2>3, <2>4, NextSplits
<1> QED BY <1>1, EmbedStep, WriterStep DEF IndexInv

LEMMA IndexInvariant == Spec => []IndexInv
<1>1. Init => WriterInv
    BY DEF Init, EmbedInit, WriterInv
<1>2. Init => IndexInv
    BY <1>1, ModelInit, QueueInit, StoreInit DEF IndexInv, EmbedInv
<1> QED BY <1>2, IndexStep, PTL DEF Spec

LEMMA StoreGivesProperties == IndexInv => StoredAsIndexed /\ OneVersionPerDocument
<1> SUFFICES ASSUME StoreInv, NEW s \in Sources
             PROVE  /\ fate[s] = "indexed" => Stored(s) = Text(s)
                    /\ fate[s] = "writing" => IF kind = "pgvector" THEN Stored(s) \subseteq Text(s)
                                                                  ELSE Stored(s) = {}
                    /\ fate[s] = "failed" /\ kind # "pgvector" => Stored(s) = {}
                    /\ fate[s] = "deleted" => \A c \in store : c.src # s
    BY DEF IndexInv, StoreInv, StoredAsIndexed, Stored
<1>1. \A c \in Text(s) : ~(c.idx <= 0)
    BY TextIsOneVersion
<1> QED BY <1>1 DEF StoreInv, SourceInv

\* Whatever the store, the failures and the restarts: what was indexed is there
\* whole and alone, and what failed or was deleted is not there.
THEOREM StoreIsAsIndexed == Spec => []StoredAsIndexed
BY IndexInvariant, StoreGivesProperties, PTL

\* No document has chunks of two versions.
THEOREM DocumentsHaveOneVersion == Spec => []OneVersionPerDocument
BY IndexInvariant, StoreGivesProperties, PTL

-----------------------------------------------------------------------------
(* Types                                                                    *)

\* What TypeOK says beyond the invariants above.
RestInv ==
    /\ upload \in [Uploads -> {"idle", "queued", "running"}]
    /\ lock \subseteq Callers
    /\ faults \in 0..MaxFaults
    /\ store \subseteq AllChunks
    /\ done \in Nat
    /\ version \in {0} \union Versions

LEMMA TextIsOfAllChunks ==
    ASSUME StoreInv, NEW s \in Sources, target = s
    PROVE  Text(s) \subseteq AllChunks
<1>1. latest[s].ent \in Entities /\ latest[s].ver \in Versions
    BY DEF StoreInv, SourceInv
<1> QED BY <1>1 DEF Text, AllChunks

LEMMA RestStep == IndexInv /\ RestInv /\ [Next]_vars => RestInv'
<1> SUFFICES ASSUME StoreInv, RestInv, [Next]_vars PROVE RestInv'
    BY DEF IndexInv
<1> USE DEF embedVars, poolVars, modelVars, docVars, EndWrite
<1>1. ASSUME NEW s \in Sources, Upsert(s) \/ InsertChunk(s) PROVE RestInv'
    <2>1. target = s /\ NextChunk(s) \subseteq Text(s)
        BY <1>1 DEF Upsert, InsertChunk, AllEmbedded, NextChunk
    <2>2. store' \subseteq AllChunks
        BY <1>1, <2>1, TextIsOfAllChunks DEF Upsert, InsertChunk, RestInv
    <2>3. done' \in Nat /\ faults' \in 0..MaxFaults
          /\ UNCHANGED <<upload, lock, version>>
        BY <1>1 DEF Upsert, InsertChunk, RestInv
    <2> QED BY <2>2, <2>3 DEF RestInv
<1>2. ASSUME NEW s \in Sources, DeleteSource(s) \/ DeleteRowsFails(s) \/ EmbedChunk(s)
      PROVE  RestInv'
    BY <1>2 DEF DeleteSource, DeleteRowsFails, Gone, EmbedChunk, Embed, RestInv
<1>3. ASSUME NEW s \in Sources, NEW e \in Entities, AddDocument(s, e) PROVE RestInv'
    <2>1. version' \in Versions /\ done' \in Nat /\ store' \subseteq store
        BY <1>3 DEF AddDocument, RestInv, Versions
    <2>2. faults' \in 0..MaxFaults
        BY <1>3 DEF AddDocument, RestInv
    <2> QED BY <1>3, <2>1, <2>2 DEF AddDocument, RestInv
<1>4. CASE ChunkEmbedded \/ ChunkFails
    BY <1>4 DEF ChunkEmbedded, ChunkFails, RestInv
<1>5. ASSUME NEW r \in Callers, Ask(r) \/ Answer(r) PROVE RestInv'
    BY <1>5 DEF Ask, Answer, Embed, RestInv
<1>6. CASE InPool(PoolStep)
    <2>1. UNCHANGED <<store, done, version>>
        BY <1>6 DEF InPool
    <2>2. CASE TakeJob
        BY <2>1, <2>2 DEF TakeJob, RestInv
    <2>3. ASSUME NEW c \in Callers, Job(c) PROVE RestInv'
        BY <2>1, <2>3 DEF Job, TryOwn, LookUp, Acquire, Recheck, BuildModel, BuildFails, Publish,
           QueueEncode, Encode, EncodeFails, RestInv
    <2>4. ASSUME NEW u \in Uploads, QueueUpload(u) \/ UploadEnds(u) PROVE RestInv'
        BY <2>1, <2>4 DEF QueueUpload, UploadEnds, RestInv
    <2> QED BY <1>6, <2>2, <2>3, <2>4 DEF InPool, PoolStep
<1>7. CASE Restart
    BY <1>7 DEF Restart, PoolRestarts, RestInv
<1>8. CASE UNCHANGED vars
    BY <1>8 DEF vars, RestInv
<1> QED BY <1>1, <1>2, <1>3, <1>4, <1>5, <1>6, <1>7, <1>8 DEF Next, Write

\* The pool, the model and the store keep their types.
THEOREM TypeCorrect == Spec => []TypeOK
<1>1. Init => RestInv
    BY DEF Init, EmbedInit, RestInv
<1>2. IndexInv /\ RestInv => TypeOK
    BY DEF IndexInv, EmbedInv, ModelInv, QueueInv, StoreInv, RestInv, TypeOK, EmbedTypeOK
<1> QED BY <1>1, <1>2, RestStep, IndexInvariant, PTL DEF Spec

-----------------------------------------------------------------------------
(***************************************************************************)
(* Searches.  The store is finite, and no two chunks score alike, so that  *)
(* a search is the beginning of a strict order.                            *)
(***************************************************************************)
LEMMA StoreGrows ==
    ASSUME IndexInv, [Next]_vars
    PROVE  \/ store' \subseteq store
           \/ \E s \in Sources : target = s /\ store' \subseteq store \union Text(s)
<1>1. ASSUME NEW s \in Sources, Upsert(s) \/ InsertChunk(s)
      PROVE  target = s /\ store' \subseteq store \union Text(s)
    BY <1>1 DEF Upsert, InsertChunk, AllEmbedded, NextChunk
<1>2. ASSUME NEW s \in Sources, DeleteSource(s) \/ DeleteRowsFails(s)
      PROVE  store' \subseteq store
    BY <1>2 DEF DeleteSource, DeleteRowsFails, Gone
<1>3. ASSUME NEW s \in Sources, NEW e \in Entities, AddDocument(s, e)
      PROVE  store' \subseteq store
    BY <1>3 DEF AddDocument
<1>4. CASE CallStep
    BY <1>4 DEF CallStep, ChunkEmbedded, ChunkFails, EmbedChunk, Ask, Answer, InPool, docVars
<1>5. CASE Restart
    BY <1>5 DEF Restart
<1>6. CASE UNCHANGED vars
    BY <1>6 DEF vars, docVars
<1> QED BY <1>1, <1>2, <1>3, <1>4, <1>5, <1>6, NextSplits DEF DocumentStep

LEMMA TextIsFinite ==
    ASSUME StoreInv, NEW s \in Sources, target = s PROVE IsFiniteSet(Text(s))
<1>1. latest[s].ver \in Versions
    BY DEF StoreInv, SourceInv
<1>2. Length(s) \in Nat
    BY <1>1, RetrievalAssumption DEF Length
<1> DEFINE chunk == [i \in 1..Length(s) |->
                        [src |-> s, ent |-> latest[s].ent, ver |-> latest[s].ver, idx |-> i]]
<1>3. chunk \in Surjection(1..Length(s), Text(s))
    BY DEF Surjection, Text, Chunks, Length
<1>4. IsFiniteSet(1..Length(s))
    BY <1>2, FS_Interval
<1> HIDE DEF chunk
<1> QED BY <1>3, <1>4, FS_Surjection

LEMMA StoreIsFinite == Spec => []IsFiniteSet(store)
<1>1. Init => IsFiniteSet(store)
    BY FS_EmptySet DEF Init
<1>2. IndexInv /\ IsFiniteSet(store) /\ [Next]_vars => IsFiniteSet(store)'
    <2> SUFFICES ASSUME IndexInv, IsFiniteSet(store), [Next]_vars PROVE IsFiniteSet(store')
        OBVIOUS
    <2>1. CASE store' \subseteq store
        BY <2>1, FS_Subset
    <2>2. ASSUME NEW s \in Sources, target = s, store' \subseteq store \union Text(s)
          PROVE  IsFiniteSet(store')
        <3>1. IsFiniteSet(store \union Text(s))
            BY <2>2, TextIsFinite, FS_Union DEF IndexInv
        <3> QED BY <2>2, <3>1, FS_Subset
    <2> QED BY <2>1, <2>2, StoreGrows
<1> QED BY <1>1, <1>2, IndexInvariant, PTL DEF Spec

\* The first limit of a finite set in the order of falling values.
First(S, value, limit) == {x \in S : Cardinality({y \in S : value[y] > value[x]}) < limit}

\* There are limit of them as soon as one is left out, and all come before it.
LEMMA FirstOfOrder ==
    ASSUME NEW S, IsFiniteSet(S), NEW value \in [S -> Int], NEW limit \in Nat,
           \A x, y \in S : x # y => value[x] # value[y],
           NEW first, first = First(S, value, limit)
    PROVE  /\ IsFiniteSet(first) /\ Cardinality(first) <= limit
           /\ \A c \in S \ first :
                  /\ Cardinality(first) = limit
                  /\ \A x \in first : value[x] > value[c]
<1> DEFINE before(x) == {y \in S : value[y] > value[x]}
           rank == [x \in S |-> Cardinality(before(x))]
           size == Cardinality(S)
<1>1. size \in Nat
    BY FS_CardinalityType
<1>2. ASSUME NEW x \in S PROVE IsFiniteSet(before(x)) /\ rank[x] \in 0..(size - 1)
    <2>1. before(x) \subseteq S /\ x \notin before(x)
        OBVIOUS
    <2>2. IsFiniteSet(before(x)) /\ Cardinality(before(x)) \in Nat
          /\ Cardinality(before(x)) < size
        <3> HIDE DEF before
        <3> QED BY <1>1, <2>1, FS_Subset, FS_CardinalityType
    <2> QED BY <1>1, <2>2
<1>3. ASSUME NEW x \in S, NEW y \in S, value[x] > value[y] PROVE rank[x] < rank[y]
    <2>1. before(x) \subseteq before(y) /\ x \in before(y) /\ x \notin before(x)
        BY <1>3
    <2>2. IsFiniteSet(before(x)) /\ IsFiniteSet(before(y))
        BY <1>2
    <2>3. Cardinality(before(x)) < Cardinality(before(y))
        <3> HIDE DEF before
        <3> QED BY <2>1, <2>2, FS_Subset, FS_CardinalityType
    <2> QED BY <2>3
<1>4. \A x : x \in first <=> x \in S /\ rank[x] < limit
    BY DEF First
<1>5. rank \in [S -> 0..(size - 1)]
    BY <1>2
<1> HIDE DEF rank, before
<1>6. \A x, y \in S : value[x] > value[y] <=> rank[x] < rank[y]
    BY <1>1, <1>2, <1>3
<1>7. \A x, y \in S : rank[x] = rank[y] => x = y
    BY <1>1, <1>2, <1>3
<1>8. \A k \in 0..(size - 1) : \E x \in S : rank[x] = k
    <2>1. rank \in Injection(S, 0..(size - 1))
        BY <1>7, <1>5 DEF Injection, IsInjective
    <2>2. IsFiniteSet(0..(size - 1)) /\ Cardinality(0..(size - 1)) = size
        <3>1. 0 \in Int /\ size - 1 \in Int /\ size \in Nat
            BY <1>1
        <3>2. IsFiniteSet(0..(size - 1))
              /\ Cardinality(0..(size - 1)) = IF 0 > size - 1 THEN 0 ELSE (size - 1) - 0 + 1
            BY <3>1, FS_Interval
        <3> QED BY <3>1, <3>2
    <2>3. rank \in Surjection(S, 0..(size - 1))
        BY <2>1, <2>2, FS_Injection
    <2> QED BY <2>3 DEF Surjection
<1>9. IsFiniteSet(first) /\ Cardinality(first) \in Nat /\ Cardinality(first) <= size
    BY <1>4, FS_Subset, FS_CardinalityType
<1>10. ASSUME size <= limit PROVE first = S
    <2>1. \A x \in S : rank[x] < limit
        BY <1>1, <1>5, <1>10
    <2> QED BY <1>4, <2>1
<1>11. ASSUME limit < size PROVE Cardinality(first) = limit
    <2> DEFINE place == [x \in first |-> rank[x]]
    <2>1. place \in [first -> 0..(limit - 1)] /\ \A x, y \in first : place[x] = place[y] => x = y
        BY <1>1, <1>2, <1>4, <1>7
    <2>2. \A k \in 0..(limit - 1) : \E x \in first : place[x] = k
        BY <1>1, <1>4, <1>8, <1>11
    <2> HIDE DEF place
    <2>3. place \in Bijection(first, 0..(limit - 1))
        BY <2>1, <2>2 DEF Bijection, Injection, Surjection, IsInjective
    <2>4. IsFiniteSet(0..(limit - 1)) /\ Cardinality(0..(limit - 1)) = limit
        <3>1. 0 \in Int /\ limit - 1 \in Int /\ limit \in Nat
            OBVIOUS
        <3>2. IsFiniteSet(0..(limit - 1))
              /\ Cardinality(0..(limit - 1)) = IF 0 > limit - 1 THEN 0 ELSE (limit - 1) - 0 + 1
            BY <3>1, FS_Interval
        <3> QED BY <3>1, <3>2
    <2>5. Cardinality(first) = limit
        BY <1>9, <2>3, <2>4, FS_Surjection DEF Bijection
    <2> QED BY <2>5
<1>12. Cardinality(first) <= limit /\ (S \ first # {} => Cardinality(first) = limit)
    <2>1. CASE size <= limit
        BY <1>9, <1>10, <2>1
    <2>2. CASE limit < size
        BY <1>11, <2>2
    <2> QED BY <1>1, <2>1, <2>2
<1>13. ASSUME NEW c \in S \ first, NEW x \in first PROVE value[x] > value[c]
    BY <1>1, <1>2, <1>4, <1>6, <1>7, <1>13
<1> QED BY <1>9, <1>12, <1>13

\* The boosts of the three stores keep two similarities apart.
LEMMA ScoresDiffer ==
    ASSUME kind \in Kinds, NEW q, NEW raw \in Rankings,
           NEW c \in AllChunks, NEW d \in AllChunks
    PROVE  /\ Score(c, q, raw) \in Int
           /\ c # d => Score(c, q, raw) # Score(d, q, raw)
<1>1. raw[c] \in Int /\ raw[d] \in Int
    BY RetrievalAssumption
<1>2. c # d => /\ raw[c] - raw[d] \notin {0, 8, 12, 20, 28}
               /\ raw[d] - raw[c] \notin {0, 8, 12, 20, 28}
    BY RetrievalAssumption DEF Boosts
<1>3. \A e : NearRecord(e, q) \in {0, 20}
    BY DEF NearRecord
<1>4. CASE kind = "faiss"
    BY <1>1, <1>2, <1>3, <1>4 DEF Score, FaissScore
<1>5. CASE kind = "memory"
    BY <1>1, <1>2, <1>3, <1>5 DEF Score, MemoryScore
<1>6. CASE kind = "pgvector"
    BY <1>1, <1>2, <1>6 DEF Score
<1> QED BY <1>4, <1>5, <1>6 DEF Kinds

\* What is ranked and left out is outranked by limit results.
LEMMA BestOutranks ==
    ASSUME kind \in Kinds, IsFiniteSet(store), store \subseteq AllChunks,
           NEW q \in Queries, NEW raw \in Rankings, q.limit \in Nat,
           NEW candidates \in SUBSET store
    PROVE  LET best == Best(candidates, q, raw) IN
           /\ best \subseteq Scope(q) /\ Cardinality(best) <= q.limit
           /\ \A c \in candidates : InScope(c, q) /\ c \notin best =>
                  Cardinality({d \in best : Precedes(d, c, q, raw)}) = q.limit
<1> DEFINE ranked == {c \in candidates : InScope(c, q)}
           best == Best(candidates, q, raw)
           value == [c \in ranked |-> Score(c, q, raw)]
<1>1. IsFiniteSet(ranked) /\ ranked \subseteq AllChunks
    BY FS_Subset
<1>2. value \in [ranked -> Int] /\ \A x, y \in ranked : x # y => value[x] # value[y]
    BY <1>1, ScoresDiffer
<1>3. ASSUME NEW x \in ranked
      PROVE  {y \in ranked : value[y] > value[x]} = {d \in ranked : Precedes(d, x, q, raw)}
    BY DEF Precedes
<1>4. best = {x \in ranked : Cardinality({y \in ranked : value[y] > value[x]}) < q.limit}
    <2>1. best = {x \in ranked :
                    Cardinality({d \in ranked : Precedes(d, x, q, raw)}) < q.limit}
        BY DEF Best
    <2> HIDE DEF best, value, ranked
    <2> QED BY <1>3, <2>1
<1>5. /\ Cardinality(best) <= q.limit
      /\ \A c \in ranked \ best : /\ Cardinality(best) = q.limit
                                  /\ \A x \in best : value[x] > value[c]
    <2> DEFINE limit == q.limit
    <2>1. limit \in Nat
        OBVIOUS
    <2>2. best = First(ranked, value, limit)
        BY <1>4 DEF First
    <2> HIDE DEF best, value, ranked, limit
    <2>3. /\ Cardinality(best) <= limit
          /\ \A c \in ranked \ best : /\ Cardinality(best) = limit
                                      /\ \A x \in best : value[x] > value[c]
        BY <1>1, <1>2, <2>1, <2>2, FirstOfOrder
    <2> QED BY <2>3 DEF limit
<1>6. best \subseteq ranked
    BY DEF Best
<1>7. ASSUME NEW c \in ranked, c \notin best
      PROVE  Cardinality({d \in best : Precedes(d, c, q, raw)}) = q.limit
    <2>1. \A d \in best : Precedes(d, c, q, raw)
        BY <1>5, <1>6, <1>7 DEF Precedes
    <2>2. {d \in best : Precedes(d, c, q, raw)} = best
        BY <2>1
    <2> QED BY <1>5, <1>7, <2>2
<1> HIDE DEF best
<1> QED BY <1>5, <1>6, <1>7 DEF best, Scope

\* FAISS leaves out a chunk only for as many nearer ones as it fetches.
LEMMA NearestOutranks ==
    ASSUME IsFiniteSet(store), NEW q, q.limit \in Nat, NEW raw,
           NEW c \in store, c \notin Nearest(q, raw)
    PROVE  LET nearer == Cardinality({d \in store : raw[d] > raw[c]}) IN
           nearer >= OverFetch * q.limit /\ nearer >= MinFetch
<1> DEFINE nearer == Cardinality({d \in store : raw[d] > raw[c]})
<1>1. nearer \in Nat
    BY FS_Subset, FS_CardinalityType
<1>2. OverFetch \in Nat /\ MinFetch \in Nat
    BY RetrievalAssumption
<1>3. q.limit * OverFetch = OverFetch * q.limit /\ OverFetch * q.limit \in Nat
    BY <1>2
<1>4. Fetch(q) \in Nat /\ Fetch(q) >= OverFetch * q.limit /\ Fetch(q) >= MinFetch
    <2> DEFINE wanted == OverFetch * q.limit
    <2>1. Fetch(q) = IF wanted > MinFetch THEN wanted ELSE MinFetch
        BY <1>3 DEF Fetch
    <2>2. wanted \in Nat
        BY <1>3
    <2> HIDE DEF wanted
    <2>3. Fetch(q) \in Nat /\ Fetch(q) >= wanted /\ Fetch(q) >= MinFetch
        BY <1>2, <2>1, <2>2
    <2> QED BY <2>3 DEF wanted
<1>5. ~(nearer < Fetch(q))
    BY DEF Nearest
<1> HIDE DEF nearer
<1> QED BY <1>1, <1>2, <1>3, <1>4, <1>5 DEF nearer

LEMMA QueryLimits == \A q \in Queries : q.limit \in Nat
<1>1. TopK \in Nat /\ SummaryTopK \in Nat /\ DeskTopK \in Nat
    BY RetrievalAssumption
<1> QED BY <1>1 DEF Queries, ContextQuery, SummaryQuery, KnowledgeQuery

\* Whatever the store, the query and the similarities, failing searches of FAISS
\* included: what is found is in scope and within the limit, and what is in
\* scope and not found is outranked, by limit results or by all that was fetched.
THEOREM SearchesMissOnlyTheOutranked == Spec => []MissedOnlyIfOutranked
<1>1. ASSUME IndexInv, TypeOK, IsFiniteSet(store) PROVE MissedOnlyIfOutranked
    <2> SUFFICES ASSUME NEW q \in Queries, NEW raw \in Rankings, NEW raises \in BOOLEAN
                 PROVE
          LET found == Found(q, raw, raises) IN
          /\ found \subseteq Scope(q) /\ Cardinality(found) <= q.limit
          /\ \A c \in Scope(q) \ found :
               \/ Cardinality({d \in found : Precedes(d, c, q, raw)}) = q.limit
               \/ LET nearer == Cardinality({d \in store : raw[d] > raw[c]}) IN
                  kind = "faiss" /\ ~raises /\ nearer >= OverFetch * q.limit /\ nearer >= MinFetch
        BY DEF MissedOnlyIfOutranked
    <2>1. kind \in Kinds /\ store \subseteq AllChunks /\ q.limit \in Nat
        BY <1>1, QueryLimits DEF TypeOK
    <2>2. Nearest(q, raw) \in SUBSET store
        BY DEF Nearest
    <2>3. CASE kind = "faiss" /\ ~raises
        <3>1. Found(q, raw, raises) = Best(Nearest(q, raw), q, raw)
            BY <2>3 DEF Found, FaissSearch
        <3>2. ASSUME NEW c \in Scope(q), c \notin Found(q, raw, raises)
              PROVE  \/ Cardinality({d \in Found(q, raw, raises) : Precedes(d, c, q, raw)}) = q.limit
                     \/ c \notin Nearest(q, raw)
            BY <1>1, <2>1, <2>2, <3>1, <3>2, BestOutranks DEF Scope
        <3>3. \A c \in Scope(q) : c \in store
            BY DEF Scope
        <3>4. Found(q, raw, raises) \subseteq Scope(q)
                  /\ Cardinality(Found(q, raw, raises)) <= q.limit
            BY <1>1, <2>1, <2>2, <3>1, BestOutranks
        <3> QED BY <1>1, <2>1, <2>3, <3>2, <3>3, <3>4, NearestOutranks
    <2>4. CASE ~(kind = "faiss" /\ ~raises)
        <3>1. Found(q, raw, raises) = Best(store, q, raw)
            BY <2>1, <2>4 DEF Found, FaissSearch, MemorySearch, RowSearch, Kinds
        <3> QED BY <1>1, <2>1, <3>1, BestOutranks DEF Scope
    <2> QED BY <2>3, <2>4
<1> QED BY <1>1, IndexInvariant, TypeCorrect, StoreIsFinite, PTL
=============================================================================
