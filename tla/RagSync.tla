------------------------------ MODULE RagSync -------------------------------
(***************************************************************************)
(* How the retrieval index follows the CRM: the scheduled pass of          *)
(* app/services/rag_sync_service.py, RagService.add_document, and the      *)
(* FAISS store of app/services/vector_store.py with its two files.         *)
(*                                                                         *)
(* The scheduler runs one pass at a time (max_instances=1), and nothing    *)
(* else writes to the store, so the pass is one process; the users of the  *)
(* CRM edit and delete documents meanwhile, calls fail, and the service    *)
(* may stop at any point, in the middle of writing a file included.        *)
(*                                                                         *)
(* A version of a document is its updated_at.  The chunks of a document    *)
(* enter and leave the store together, under its lock, so what the store   *)
(* holds is one version of each document, or None.                         *)
(***************************************************************************)
EXTENDS Integers, FiniteSets, Sequences

CONSTANTS Docs,       \* documents of the CRM
          Pack,       \* files of dev_knowledge, indexed by every pass
          Sources,    \* SOURCES: the tables, in the order of a pass
          TableOf,    \* the table of each document of the CRM
          ChunksOf,   \* number of chunks of a version's text
          Batch,      \* rag_sync_batch_size
          Listed,     \* limit of list_indexed_sources
          MaxClock,   \* bound on the edits of a behaviour
          MaxFaults   \* bound on failed calls, failed writes and crashes

None == 0
Versions == 1..MaxClock
Tables == {Sources[i] : i \in DOMAIN Sources}
Files == Docs \union Pack

ASSUME RagSyncAssumption ==
    /\ MaxClock \in Nat \ {0} /\ MaxFaults \in Nat
    /\ Batch \in Nat \ {0} /\ Listed \in Nat \ {0}
    /\ IsFiniteSet(Docs) /\ IsFiniteSet(Pack)
    /\ Docs \intersect Pack = {}
    /\ Sources \in Seq(Tables)
    /\ TableOf \in [Docs -> Tables]
    /\ ChunksOf \in [Versions -> Nat \ {0}]

VARIABLES crm,    \* updated_at of each document that exists, else None
          blank,  \* versions whose text is empty
          gone,   \* documents deleted from the CRM
          clock   \* the latest updated_at

VARIABLES up,      \* the service runs
          chunks,  \* _chunks: the version held of each document
          vectors  \* _index: the version whose embeddings it has

VARIABLES pkl,      \* context_chunks.pkl
          torn,     \* its writing was cut off
          idx,      \* context.index
          cursors   \* rag_sync_state_file: the cursor of each table

VARIABLES step,     \* where the pass is
          table,    \* index of its table, Len(Sources) + 1 for the pack
          next,     \* next_cursors
          newest,   \* newest of _index_documents
          todo,     \* documents of the batch still to be indexed
          missing   \* deleted sources reconcile has still to remove

VARIABLES faults,   \* failures so far
          failed,   \* versions whose add_document raised
          behind    \* consecutive persists that left context.index old (to 2)

crmVars == <<crm, blank, gone, clock>>
storeVars == <<chunks, vectors, pkl, torn, idx, behind>>
passVars == <<table, next, newest, todo, missing>>
vars == <<crmVars, up, storeVars, cursors, step, passVars, faults, failed>>

Held == [Files -> {None} \union Versions]
Nothing == [d \in Files |-> None]

TypeOK ==
    /\ crm \in [Docs -> {None} \union Versions]
    /\ blank \subseteq Versions /\ gone \subseteq Docs
    /\ clock \in {None} \union Versions
    /\ up \in BOOLEAN /\ torn \in BOOLEAN
    /\ chunks \in Held /\ vectors \in Held /\ pkl \in Held /\ idx \in Held
    /\ cursors \in [Tables -> {None} \union Versions]
    /\ step \in {"idle", "fetch", "index", "embed", "reconcile", "remove"}
    /\ table \in 1..(Len(Sources) + 1)
    /\ next \in [Tables -> {None} \union Versions]
    /\ newest \in {None} \union Versions
    /\ todo \subseteq (Files \X Versions)
    /\ missing \subseteq Docs
    /\ faults \in 0..MaxFaults
    /\ failed \subseteq (Files \X Versions)
    /\ behind \in 0..2

Init ==
    /\ crm = [d \in Docs |-> None] /\ blank = {} /\ gone = {} /\ clock = None
    /\ up = TRUE /\ chunks = Nothing /\ vectors = Nothing
    /\ pkl = Nothing /\ torn = FALSE /\ idx = Nothing
    /\ cursors = [t \in Tables |-> None]
    /\ step = "idle" /\ table = 1 /\ next = cursors
    /\ newest = None /\ todo = {} /\ missing = {}
    /\ faults = 0 /\ failed = {} /\ behind = 0

-----------------------------------------------------------------------------
(* The CRM (external)                                                       *)

\* A document is created or changed, perhaps to an empty text.
Edit(d) ==
    /\ clock < MaxClock /\ d \notin gone
    /\ clock' = clock + 1
    /\ crm' = [crm EXCEPT ![d] = clock + 1]
    /\ blank' \in {blank, blank \union {clock + 1}}
    /\ UNCHANGED <<gone, up, storeVars, cursors, step, passVars, faults, failed>>

Delete(d) ==
    /\ crm[d] # None
    /\ crm' = [crm EXCEPT ![d] = None]
    /\ gone' = gone \union {d}
    /\ UNCHANGED <<blank, clock, up, storeVars, cursors, step, passVars, faults,
                   failed>>

\* GET /rag/snapshot: what changed in a table since a cursor, the oldest
\* changes first, up to the limit.
Changed(t, since) == {d \in Docs : TableOf[d] = t /\ crm[d] > since}

Snapshot(t, since) ==
    {d \in Changed(t, since) :
        Cardinality({e \in Changed(t, since) : crm[e] < crm[d]}) < Batch}

-----------------------------------------------------------------------------
(* The store                                                                *)

\* The chunks, or the vectors, of what h holds, and their number.
Pieces(h) == UNION {{d} \X (1..ChunksOf[h[d]]) : d \in {e \in Files : h[e] # None}}
Total(h) == Cardinality(Pieces(h))

Fault == faults < MaxFaults /\ faults' = faults + 1

\* The process stops; what it kept in memory is lost.
Stop ==
    /\ up' = FALSE
    /\ step' = "idle" /\ table' = 1 /\ newest' = None
    /\ todo' = {} /\ missing' = {} /\ next' = [t \in Tables |-> None]
    /\ chunks' = Nothing /\ vectors' = Nothing

Missed == behind' = IF behind = 2 THEN 2 ELSE behind + 1

\* _rebuild_index and _persist: the chunks go to their file first.  An empty
\* store has no index to write, so the index file of the last one stays, and
\* an error of write_index is swallowed.
Persist(h) ==
    /\ chunks' = h /\ vectors' = h
    /\ pkl' = h
    /\ IF h = Nothing
       THEN idx' = idx /\ Missed /\ UNCHANGED faults
       ELSE \/ idx' = h /\ behind' = 0 /\ UNCHANGED faults
            \/ idx' = idx /\ Missed /\ Fault
    /\ UNCHANGED <<torn, up>>

\* The process stops inside _persist: while the chunks are written, before the
\* index is, or while it is.
PersistCut(h) ==
    /\ Fault /\ Stop
    /\ \/ torn' = TRUE /\ pkl' = Nothing /\ UNCHANGED <<idx, behind>>
       \/ pkl' = h /\ idx' \in {idx, Nothing} /\ Missed /\ UNCHANGED torn
    /\ UNCHANGED <<crmVars, cursors, failed>>

\* Mutant of Restart: the index file is taken whatever its size.
Restart_Trusting ==
    /\ ~up /\ up' = TRUE
    /\ chunks' = pkl
    /\ vectors' = IF idx # Nothing THEN idx ELSE pkl
    /\ UNCHANGED <<crmVars, pkl, torn, idx, behind, cursors, step, passVars,
                   faults, failed>>

\* _load: an index file with as many vectors as there are chunks is taken as
\* their index, any other is rebuilt.
Restart ==
    /\ ~up /\ up' = TRUE
    /\ chunks' = pkl
    /\ vectors' = IF Total(idx) = Total(pkl) /\ pkl # Nothing THEN idx ELSE pkl
    /\ UNCHANGED <<crmVars, pkl, torn, idx, behind, cursors, step, passVars,
                   faults, failed>>

-----------------------------------------------------------------------------
(* A pass: run_once                                                         *)

Running(s) == up /\ step = s

\* RagSyncService() opens the store and raises when its file is torn.
BeginPass ==
    /\ Running("idle") /\ ~torn
    /\ step' = "fetch" /\ table' = 1
    /\ next' = cursors
    /\ UNCHANGED <<crmVars, up, storeVars, cursors, newest, todo, missing, faults,
                   failed>>

\* An exception ends the pass: the cursors are not saved.
Abort ==
    /\ Fault
    /\ step' = "idle" /\ table' = 1 /\ newest' = None
    /\ todo' = {} /\ missing' = {} /\ next' = [t \in Tables |-> None]

InTables == table <= Len(Sources)

Fetch ==
    /\ Running("fetch")
    /\ step' = "index"
    /\ IF InTables
       THEN LET t == Sources[table] IN
            /\ newest' = next[t]
            /\ todo' = {<<d, crm[d]>> : d \in Snapshot(t, next[t])}
       ELSE newest' = None /\ todo' = Pack \X {1}
    /\ UNCHANGED <<crmVars, up, storeVars, cursors, table, next, missing, faults,
                   failed>>

FetchFails ==
    /\ Running("fetch") /\ InTables
    /\ Abort
    /\ UNCHANGED <<crmVars, up, storeVars, cursors, failed>>

\* The document of the batch that comes next: the oldest, and of the files of the
\* pack the one that their order puts first.
Current == CHOOSE p \in todo : \A q \in todo : p[2] <= q[2]

IsBlank(p) == p[1] \in Docs /\ p[2] \in blank

\* A document without text is passed over, and does not move the cursor.
SkipBlank ==
    /\ Running("index") /\ todo # {} /\ IsBlank(Current)
    /\ todo' = todo \ {Current}
    /\ UNCHANGED <<crmVars, up, storeVars, cursors, step, table, next, newest,
                   missing, faults, failed>>

\* add_document, before its first await of the embeddings: delete_document.
DropOld ==
    /\ Running("index") /\ todo # {} /\ ~IsBlank(Current)
    /\ LET h == [chunks EXCEPT ![Current[1]] = None] IN
       IF h = chunks
       THEN /\ step' = "embed"
            /\ UNCHANGED <<crmVars, up, storeVars, cursors, passVars, faults, failed>>
       ELSE \/ /\ Persist(h) /\ step' = "embed"
               /\ UNCHANGED <<crmVars, cursors, passVars, failed>>
            \/ PersistCut(h)

\* Mutant of Upsert: the cursor moves only from None.
Upsert_NoCursor ==
    /\ Running("embed")
    /\ Persist([chunks EXCEPT ![Current[1]] = Current[2]])
    /\ step' = "index"
    /\ todo' = todo \ {Current}
    /\ newest' = IF newest = None THEN Current[2] ELSE newest
    /\ UNCHANGED <<crmVars, cursors, table, next, missing, failed>>

\* add_document, once the embeddings are there: upsert_chunks.
Upsert ==
    /\ Running("embed")
    /\ LET h == [chunks EXCEPT ![Current[1]] = Current[2]] IN
       \/ /\ Persist(h)
          /\ step' = "index"
          /\ todo' = todo \ {Current}
          /\ newest' = IF Current[2] > newest THEN Current[2] ELSE newest
          /\ UNCHANGED <<crmVars, cursors, table, next, missing, failed>>
       \/ PersistCut(h)

\* The embeddings raise: caught, and the batch goes on without this document.
\* For a file of the pack nothing catches it.
EmbedFails ==
    /\ Running("embed")
    /\ failed' = failed \union {Current}
    /\ IF InTables
       THEN /\ Fault
            /\ step' = "index"
            /\ todo' = todo \ {Current}
            /\ UNCHANGED <<table, next, newest, missing>>
       ELSE Abort
    /\ UNCHANGED <<crmVars, up, storeVars, cursors>>

\* Mutant of EndOfBatch: the cursor becomes the time of the pass.
EndOfBatch_Now ==
    /\ Running("index") /\ todo = {}
    /\ IF InTables
       THEN /\ next' = [next EXCEPT ![Sources[table]] = clock]
            /\ table' = table + 1
            /\ step' = "fetch"
       ELSE step' = "reconcile" /\ UNCHANGED <<table, next>>
    /\ UNCHANGED <<crmVars, up, storeVars, cursors, newest, todo, missing, faults,
                   failed>>

EndOfBatch ==
    /\ Running("index") /\ todo = {}
    /\ IF InTables
       THEN /\ next' = [next EXCEPT ![Sources[table]] = newest]
            /\ table' = table + 1
            /\ step' = "fetch"
       ELSE step' = "reconcile" /\ UNCHANGED <<table, next>>
    /\ UNCHANGED <<crmVars, up, storeVars, cursors, newest, todo, missing, faults,
                   failed>>

\* reconcile_deleted_sources: the backend says which of the listed sources it
\* no longer has.  It knows the files of the pack are not its own.
Reconcile ==
    /\ Running("reconcile")
    /\ \E S \in SUBSET {d \in Files : chunks[d] # None} :
          /\ Cardinality(S) <= Listed
          /\ Cardinality(S) < Listed => \A d \in Files : chunks[d] # None => d \in S
          /\ missing' = S \intersect gone
    /\ step' = "remove"
    /\ UNCHANGED <<crmVars, up, storeVars, cursors, table, next, newest, todo,
                   faults, failed>>

ReconcileFails ==
    /\ Running("reconcile")
    /\ Abort
    /\ UNCHANGED <<crmVars, up, storeVars, cursors, failed>>

\* delete_source
Remove(d) ==
    /\ Running("remove") /\ d \in missing
    /\ LET h == [chunks EXCEPT ![d] = None] IN
       \/ /\ Persist(h)
          /\ missing' = missing \ {d}
          /\ UNCHANGED <<crmVars, cursors, step, table, next, newest, todo, failed>>
       \/ PersistCut(h)

\* _save_state.  A file that was being written when the process stopped is
\* unreadable, and then _load_state starts from no cursors.
SaveState ==
    /\ Running("remove") /\ missing = {}
    /\ \/ /\ cursors' = next
          /\ step' = "idle" /\ table' = 1 /\ newest' = None
          /\ todo' = {} /\ next' = [t \in Tables |-> None]
          /\ UNCHANGED <<up, storeVars, faults, missing>>
       \/ /\ Fault /\ Stop
          /\ cursors' = [t \in Tables |-> None]
          /\ UNCHANGED <<pkl, torn, idx, behind>>
    /\ UNCHANGED <<crmVars, failed>>

\* The service stops between two steps, at an await.
Crash ==
    /\ up /\ Fault /\ Stop
    /\ UNCHANGED <<crmVars, pkl, torn, idx, behind, cursors, failed>>

-----------------------------------------------------------------------------
Index == SkipBlank \/ DropOld \/ Upsert
Pass == BeginPass \/ Fetch \/ Index \/ EndOfBatch \/ Reconcile
        \/ (\E d \in Docs : Remove(d)) \/ SaveState
PassFails == FetchFails \/ EmbedFails \/ ReconcileFails
UserActs == \E d \in Docs : Edit(d) \/ Delete(d)

Next == UserActs \/ Pass \/ PassFails \/ Crash \/ Restart

Spec == Init /\ [][Next]_vars

\* The scheduler starts a pass again and again, every call of a pass returns or
\* times out, and a service that stopped is started again.
FairSpec == Spec /\ WF_vars(Pass) /\ WF_vars(Restart)

-----------------------------------------------------------------------------
(* Properties                                                               *)

Waiting(d) == crm[d] > cursors[TableOf[d]]

\* A cursor never passes a document that is not on disk: whatever stopped a
\* pass, the current version of a document is stored, is still ahead of the
\* saved cursor, is empty, or is one whose add_document raised.  (The last case
\* is the except of _index_documents: a later document of the batch moves the
\* cursor over it.)
CursorIsHonest ==
    ~torn => \A d \in Docs :
        \/ crm[d] = None \/ crm[d] \in blank
        \/ Waiting(d)
        \/ pkl[d] = crm[d]
        \/ <<d, crm[d]>> \in failed

\* A search finds chunks by the positions of their vectors.  Both files are
\* never written together, but every persist changes the number of chunks, so
\* _load notices one missed write of the index file by its size alone.
OneMissIsNoticed == up /\ behind < 2 => vectors = chunks

\* Batch empty documents are all that a pass sees of a table.
Blocked(t) == \A d \in Snapshot(t, cursors[t]) : crm[d] \in blank

\* Reconciliation is told of some of the sources only, the pack's included.
Crowded == Cardinality({d \in Docs : pkl[d] # None} \union Pack) > Listed

Settled(d) ==
    IF crm[d] = None
    THEN pkl[d] = None \/ Crowded
    ELSE \/ pkl[d] = crm[d] \/ crm[d] \in blank
         \/ <<d, crm[d]>> \in failed
         \/ Waiting(d) /\ Blocked(TableOf[d])

\* A deleted document is forgotten, and what exists is indexed in its current
\* version, once edits and failures stop: unless add_document raised on it, the
\* store's file is torn, Batch empty documents block its table, or the store
\* holds more sources than are listed.
CatchesUp == \A d \in Docs : <>[](torn \/ Settled(d))
=============================================================================
