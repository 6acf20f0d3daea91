------------------------------ MODULE Retrieval ------------------------------
(***************************************************************************)
(* The retrieval index as its users see it: RagService of                  *)
(* app/services/rag_service.py over the three stores of                    *)
(* app/services/vector_store.py, and the queries of context_service.py and *)
(* of the front desk.  The index pass writes one document at a time, with  *)
(* the embeddings of its chunks awaited between the deletion of the old    *)
(* chunks and the insertion of the new ones; searches run at any of these  *)
(* moments, and share the thread pool of Embeddings with the pass.         *)
(*                                                                         *)
(* A search only reads: what it returns is a function of the store, the    *)
(* query and the similarities of the chunks to it.  The bodies of the      *)
(* in-memory and the FAISS store have no await (an asyncio.Lock that       *)
(* nobody holds across one is free), so each call is atomic.  The files of *)
(* the FAISS store are RagSync's matter.                                   *)
(***************************************************************************)
EXTENDS Embeddings, Integers

CONSTANTS Writer,      \* the caller that is the index pass
          Sources,     \* documents of the CRM and files of the pack
          Entities,    \* records that documents are about, users included
          HomesOf,     \* the entities each source may be about
          OriginOf,    \* `source' of its chunks
          TableOf,     \* metadata source_table of its chunks
          OwnerOf,     \* metadata owner_id of its chunks, or Any
          Any,         \* no filter, no owner
          ChunksOf,    \* number of chunks of a version's text
          MaxVersions  \* bound on the add_document calls of a behaviour

CONSTANTS Related,     \* organization_id, customer_id, lead_id of a snapshot
          Users,       \* entities that are users
          Visitor,     \* session_id of a front desk session
          Workflows,   \* event types
          TopK,        \* settings.rag_top_k
          SummaryTopK, \* the 10 of a daily summary
          DeskTopK,    \* the 5 of the front desk
          OverFetch,   \* the 12 of FaissVectorStore.similarity_search
          MinFetch,    \* the 50
          Rankings     \* similarities of all chunks to a query, in percent

Versions == 1..MaxVersions

Chunks(s, e, v) ==
    {[src |-> s, ent |-> e, ver |-> v, idx |-> i] : i \in 1..ChunksOf[v]}
AllChunks == UNION {Chunks(s, e, v) : s \in Sources, e \in Entities, v \in Versions}

\* No two scores are equal, boosted or not: the order of equal ones is not modelled.
Boosts == {8, 12, 20, 28}

ASSUME RetrievalAssumption ==
    /\ Writer \in Callers /\ Any \notin Sources
    /\ MaxVersions \in Nat
    /\ HomesOf \in [Sources -> SUBSET Entities]
    /\ ChunksOf \in [Versions -> Nat \ {0}]
    /\ Related \in [Entities -> SUBSET Entities]
    /\ {TopK, SummaryTopK, DeskTopK, OverFetch, MinFetch} \subseteq Nat \ {0}
    /\ Rankings \subseteq [AllChunks -> Int]
    /\ \A raw \in Rankings : \A c, d \in AllChunks :
           c # d => raw[c] - raw[d] \notin {0} \union Boosts

VARIABLES kind,     \* settings.vector_store
          store,    \* the chunks of the store
          target,   \* the source whose add_document runs, or Any
          done,     \* its chunks that are embedded
          inserted, \* its chunks that are inserted one by one
          latest,   \* the entity and version last given to add_document
          fate,     \* what became of that version
          version   \* add_document calls so far

docVars == <<store, target, done, inserted, latest, fate>>
vars == <<embedVars, faults, kind, docVars, version>>

Kinds == {"faiss", "memory", "pgvector"}
Fates == {"none", "writing", "indexed", "failed", "lost", "deleted"}

TypeOK ==
    /\ EmbedTypeOK
    /\ kind \in Kinds
    /\ store \subseteq AllChunks
    /\ target \in Sources \union {Any}
    /\ done \in Nat /\ inserted \in Nat
    /\ latest \in [Sources -> [ent : Entities, ver : {0} \union Versions]]
    /\ fate \in [Sources -> Fates]
    /\ version \in {0} \union Versions

Init ==
    /\ EmbedInit /\ faults = 0
    /\ kind \in Kinds
    /\ store = {} /\ target = Any /\ done = 0 /\ inserted = 0
    /\ latest \in [Sources -> [ent : Entities, ver : {0}]]
    /\ \A s \in Sources : latest[s].ent = CHOOSE e \in HomesOf[s] : TRUE
    /\ fate = [s \in Sources |-> "none"]
    /\ version = 0

-----------------------------------------------------------------------------
(* add_document                                                             *)

\* Mutant of DocumentOf: the chunk that bears the document's first id.
DocumentOf_OneChunk(s, e) == {c \in store : c.src = s /\ c.ent = e /\ c.idx = 1}

\* The chunks of a document_id, which is made of the source and its entity.
DocumentOf(s, e) == {c \in store : c.src = s /\ c.ent = e}

Text(s) == Chunks(s, latest[s].ent, latest[s].ver)
Length(s) == ChunksOf[latest[s].ver]

EndWrite(s, f) ==
    /\ target' = Any
    /\ done' = 0 /\ inserted' = 0
    /\ fate' = [fate EXCEPT ![s] = f]

\* delete_document comes first.  In PostgreSQL it may raise, applied or not.
AddDocument(s, e) ==
    /\ target = Any /\ version < MaxVersions /\ fate[s] # "deleted"
    /\ e \in HomesOf[s]
    /\ version' = version + 1
    /\ latest' = [latest EXCEPT ![s] = [ent |-> e, ver |-> version + 1]]
    /\ \/ /\ store' = store \ DocumentOf(s, e)
          /\ target' = s /\ fate' = [fate EXCEPT ![s] = "writing"]
          /\ UNCHANGED <<done, inserted, faults>>
       \/ /\ kind = "pgvector" /\ Fault
          /\ store' \in {store, store \ DocumentOf(s, e)}
          /\ EndWrite(s, "failed")
    /\ UNCHANGED <<embedVars, kind>>

\* _build_chunks: the chunks are embedded one after the other.
EmbedChunk(s) ==
    /\ target = s /\ done < Length(s)
    /\ Embed(Writer)
    /\ UNCHANGED <<kind, docVars, version>>

ChunkEmbedded ==
    /\ at[Writer] = "embedded"
    /\ Goto(Writer, "idle")
    /\ done' = done + 1
    /\ UNCHANGED <<queue, upload, modelVars, faults, kind, store, target, inserted,
                   latest, fate, version>>

\* The embedding raises: the old chunks are gone, the new ones never come.
ChunkFails ==
    /\ at[Writer] = "raised"
    /\ Goto(Writer, "idle")
    /\ EndWrite(target, "failed")
    /\ UNCHANGED <<queue, upload, modelVars, faults, kind, store, latest, version>>

AllEmbedded(s) == target = s /\ at[Writer] = "idle" /\ done = Length(s)

\* Mutant of Upsert: the chunks embedded so far are stored at once.
Upsert_EachChunk(s) ==
    /\ target = s /\ at[Writer] = "idle" /\ done > 0 /\ kind # "pgvector"
    /\ store' = store \union {c \in Text(s) : c.idx <= done}
    /\ IF done = Length(s)
       THEN EndWrite(s, "indexed")
       ELSE UNCHANGED <<target, done, inserted, fate>>
    /\ UNCHANGED <<embedVars, faults, kind, latest, version>>

\* upsert_chunks of the in-memory and the FAISS store: all chunks together.
Upsert(s) ==
    /\ AllEmbedded(s) /\ kind # "pgvector"
    /\ store' = store \union Text(s)
    /\ EndWrite(s, "indexed")
    /\ UNCHANGED <<embedVars, faults, kind, latest, version>>

NextChunk(s) == {c \in Text(s) : c.idx = inserted + 1}

\* upsert_chunks of PgVectorStore: one INSERT, which may raise, for each chunk.
InsertChunk(s) ==
    /\ AllEmbedded(s) /\ kind = "pgvector"
    /\ \/ /\ store' = store \union NextChunk(s)
          /\ IF inserted + 1 = Length(s)
             THEN EndWrite(s, "indexed")
             ELSE inserted' = inserted + 1 /\ UNCHANGED <<target, done, fate>>
          /\ UNCHANGED faults
       \/ /\ Fault
          /\ store' \in {store, store \union NextChunk(s)}
          /\ EndWrite(s, "failed")
    /\ UNCHANGED <<embedVars, kind, latest, version>>

Gone(s) ==
    /\ target = Any /\ fate[s] \notin {"none", "deleted"}
    /\ store' = {c \in store : c.src # s}
    /\ fate' = [fate EXCEPT ![s] = "deleted"]

\* delete_source, for a document that is gone from the CRM.
DeleteSource(s) ==
    /\ Gone(s)
    /\ UNCHANGED <<embedVars, faults, kind, target, done, inserted, latest, version>>

\* In PostgreSQL it may raise before the rows are deleted, and the pass ends; when
\* it raises after that, they are gone as well.
DeleteRowsFails(s) ==
    /\ kind = "pgvector" /\ Fault
    /\ Gone(s) \/ (target = Any /\ UNCHANGED <<store, fate>>)
    /\ UNCHANGED <<embedVars, kind, target, done, inserted, latest, version>>

\* The service stops and starts: the in-memory store is empty again.
Restart ==
    /\ Fault /\ PoolRestarts
    /\ store' = IF kind = "memory" THEN {} ELSE store
    /\ target' = Any /\ done' = 0 /\ inserted' = 0
    /\ fate' = [s \in Sources |->
                   CASE fate[s] = "writing" -> "failed"
                     [] fate[s] = "indexed" /\ kind = "memory" -> "lost"
                     [] OTHER -> fate[s]]
    /\ UNCHANGED <<kind, latest, version>>

\* retrieve: the query is embedded, then the store is searched.
Ask(r) ==
    /\ r # Writer /\ Embed(r)
    /\ UNCHANGED <<kind, docVars, version>>

Answer(r) ==
    /\ r # Writer /\ at[r] \in {"embedded", "raised"}
    /\ Goto(r, "idle")
    /\ UNCHANGED <<queue, upload, modelVars, faults, kind, docVars, version>>

InPool(step) == step /\ UNCHANGED <<kind, docVars, version>>

Write ==
    \/ ChunkEmbedded \/ ChunkFails
    \/ \E s \in Sources : EmbedChunk(s) \/ Upsert(s) \/ InsertChunk(s)

Next ==
    \/ \E s \in Sources : \/ DeleteSource(s) \/ DeleteRowsFails(s)
                         \/ \E e \in Entities : AddDocument(s, e)
    \/ Write
    \/ \E r \in Callers : Ask(r) \/ Answer(r)
    \/ InPool(PoolStep)
    \/ Restart

Spec == Init /\ [][Next]_vars

\* A free thread takes the next job and its work ends; a transcription ends
\* when the provider has answered.
FairSpec ==
    /\ Spec
    /\ WF_vars(InPool(TakeJob))
    /\ \A c \in Callers : WF_vars(InPool(Job(c)))
    /\ \A u \in Uploads : WF_vars(InPool(UploadEnds(u)))
    /\ WF_vars(Write)

-----------------------------------------------------------------------------
(* Searches                                                                 *)

\* The record and what its snapshot refers to.
Candidates(e) == {e} \union Related[e]

\* build_context
ContextQuery(e, w) ==
    [ent |-> e, origin |-> Any, candidates |-> Candidates(e), owner |-> Any,
     global |-> Cardinality(Candidates(e)) > 1, workflow |-> w, limit |-> TopK]

\* _build_daily_summary_context: what the user owns.
SummaryQuery(u) ==
    [ent |-> u, origin |-> Any, candidates |-> {}, owner |-> u, global |-> TRUE,
     workflow |-> "daily_summary",
     limit |-> IF TopK > SummaryTopK THEN TopK ELSE SummaryTopK]

\* _retrieve of the front desk: the files of the pack.
KnowledgeQuery ==
    [ent |-> Visitor, origin |-> "frontdesk_knowledge", candidates |-> {},
     owner |-> Any, global |-> TRUE, workflow |-> "frontdesk", limit |-> DeskTopK]

Queries ==
    {ContextQuery(e, w) : e \in Entities, w \in Workflows}
      \union {SummaryQuery(u) : u \in Users} \union {KnowledgeQuery}

\* _matches_query_scope; the filters of the in-memory store; the WHERE clause.
InScope(c, q) ==
    /\ q.origin # Any => OriginOf[c.src] = q.origin
    /\ q.candidates # {} => c.ent \in q.candidates
    /\ q.owner # Any => OwnerOf[c.src] = q.owner
    /\ ~q.global => c.ent = q.ent

Scope(q) == {c \in store : InScope(c, q)}

\* _preferred_sources
PreferredSources(w) ==
    CASE w = "daily_summary" -> {"lead", "deal", "task", "note", "call"}
      [] w \in {"lead_nudge", "stale_lead"} -> {"lead", "task", "note", "call"}
      [] w = "deal_risk" -> {"deal", "note", "task"}
      [] w = "meeting_intel" -> {"call", "note", "task"}
      [] w = "task_auto" -> {"task", "lead", "deal", "note"}
      [] OTHER -> {}

\* _boost_score of the FAISS store, of the in-memory one, and of PostgreSQL, which
\* orders by the distance alone.
NearRecord(c, q) == IF c.ent = q.ent THEN 20 ELSE 0
FaissScore(c, q, raw) ==
    raw[c] + NearRecord(c, q)
      + (IF TableOf[c.src] \in PreferredSources(q.workflow) THEN 8 ELSE 0)
MemoryScore(c, q, raw) == raw[c] + NearRecord(c, q)
Score(c, q, raw) ==
    CASE kind = "faiss"    -> FaissScore(c, q, raw)
      [] kind = "memory"   -> MemoryScore(c, q, raw)
      [] kind = "pgvector" -> raw[c]

Precedes(c, d, q, raw) == Score(c, q, raw) > Score(d, q, raw)

\* The best of the candidates that are in scope.
Best(candidates, q, raw) ==
    LET ranked == {c \in candidates : InScope(c, q)} IN
    {c \in ranked : Cardinality({d \in ranked : Precedes(d, c, q, raw)}) < q.limit}

\* Mutant of Fetch: as many vectors as results.
Fetch_Limit(q) == q.limit

\* search_limit: FAISS knows nothing of the scope.
Fetch(q) == IF q.limit * OverFetch > MinFetch THEN q.limit * OverFetch ELSE MinFetch

Nearest(q, raw) ==
    {c \in store : Cardinality({d \in store : raw[d] > raw[c]}) < Fetch(q)}

\* similarity_search of the three stores.  When the search of FAISS raises, all
\* chunks are ranked.
FaissSearch(q, raw, raises) == Best(IF raises THEN store ELSE Nearest(q, raw), q, raw)
MemorySearch(q, raw) == Best(store, q, raw)
RowSearch(q, raw) == Best(store, q, raw)

Found(q, raw, raises) ==
    CASE kind = "faiss"    -> FaissSearch(q, raw, raises)
      [] kind = "memory"   -> MemorySearch(q, raw)
      [] kind = "pgvector" -> RowSearch(q, raw)

-----------------------------------------------------------------------------
(* Properties                                                               *)

\* What a search can find is what the index pass believes to have stored: the
\* indexed version of a source is there whole, and nothing else of its document;
\* a version that is being written or has failed is not there in part, except
\* in PostgreSQL, whose INSERTs are separate; a deleted source is gone.
StoredAsIndexed ==
    \A s \in Sources :
        LET found == DocumentOf(s, latest[s].ent) IN
        /\ fate[s] = "indexed" => found = Text(s)
        /\ fate[s] = "writing" =>
               IF kind = "pgvector" THEN found \subseteq Text(s) ELSE found = {}
        /\ fate[s] = "failed" /\ kind # "pgvector" => found = {}
        /\ fate[s] = "deleted" => \A c \in store : c.src # s

\* The chunks of one document are of one version, so no search quotes two
\* versions of a text side by side, unless the source has moved to another
\* entity: its document there is another one, and nothing removes the old.
OneVersionPerDocument ==
    \A c, d \in store : c.src = d.src /\ c.ent = d.ent => c.ver = d.ver

\* A search returns chunks of its scope only, and leaves one out only for its
\* limit of better ones, or, with FAISS, because as many chunks of any scope as
\* were fetched are nearer to the query: scope and preferences are applied to
\* what was fetched.
MissedOnlyIfOutranked ==
    \A q \in Queries, raw \in Rankings, raises \in BOOLEAN :
        LET found == Found(q, raw, raises) IN
        /\ found \subseteq Scope(q) /\ Cardinality(found) <= q.limit
        /\ \A c \in Scope(q) \ found :
               \/ Cardinality({d \in found : Precedes(d, c, q, raw)}) = q.limit
               \/ LET nearer == Cardinality({d \in store : raw[d] > raw[c]}) IN
                  kind = "faiss" /\ ~raises /\ nearer >= OverFetch * q.limit /\ nearer >= MinFetch
=============================================================================
