---------------------------- MODULE RagSync_proofs ----------------------------
(***************************************************************************)
(* Proofs about RagSync for every set of documents and files, every order  *)
(* of tables, batch size and bound on edits and failures: types, that a    *)
(* stale index file is noticed by its size, and that no cursor passes a    *)
(* document that is not on disk.                                           *)
(***************************************************************************)
EXTENDS RagSync, FiniteSetTheorems, TLAPS

USE DEF None, Running, InTables, crmVars, storeVars, passVars, Fault, Stop, Abort, Missed

-----------------------------------------------------------------------------
(***************************************************************************)
(* The document of the batch that comes next, and the size of the store.   *)
(***************************************************************************)
LEMMA SmallestExists ==
    ASSUME NEW S, S # {}, S \subseteq Nat PROVE \E x \in S : \A y \in S : x <= y
<1>1. PICK x \in S : \A y \in S : <<y, x>> \notin OpToRel(<, Nat)
  BY NatLessThanWellFounded, WFMin
<1>2. \A y \in S : ~(y < x)
  BY <1>1 DEF OpToRel
<1>3. QED
  BY <1>2

\* The next document of a batch is one of it, and none of it is older.
LEMMA CurrentIsOldest ==
    ASSUME TypeOK, todo # {}
    PROVE  /\ Current \in todo
           /\ Current[1] \in Files /\ Current[2] \in Versions
           /\ \A q \in todo : Current[2] <= q[2]
<1> DEFINE S == {q[2] : q \in todo}
<1>1. S # {} /\ S \subseteq Nat
  BY RagSyncAssumption DEF TypeOK, Versions
<1>2. PICK x \in S : \A y \in S : x <= y
  BY <1>1, SmallestExists
<1>3. \E p \in todo : \A q \in todo : p[2] <= q[2]
  BY <1>2
<1>4. Current \in todo /\ \A q \in todo : Current[2] <= q[2]
  BY <1>3 DEF Current
<1>5. QED
  BY <1>4 DEF TypeOK

LEMMA PiecesAreFinite ==
    ASSUME NEW h \in Held PROVE IsFiniteSet(Pieces(h)) /\ Total(h) \in Nat
<1> DEFINE Kept == {d \in Files : h[d] # None}
           part == [d \in Kept |-> {d} \X (1..ChunksOf[h[d]])]
           Parts == {part[d] : d \in Kept}
<1>1. IsFiniteSet(Kept)
  <2>1. IsFiniteSet(Files)
    BY RagSyncAssumption, FS_Union DEF Files
  <2>2. QED
    BY <2>1, FS_Subset
<1>2. ASSUME NEW d \in Kept PROVE IsFiniteSet(part[d])
  <2>1. ChunksOf[h[d]] \in Nat
    BY RagSyncAssumption DEF Held
  <2>2. IsFiniteSet(1..ChunksOf[h[d]])
    BY <2>1, FS_Interval
  <2>3. IsFiniteSet({d})
    BY FS_Singleton
  <2>4. QED
    BY <2>2, <2>3, FS_Product
<1>3. IsFiniteSet(Parts)
  <2>1. part \in Surjection(Kept, Parts)
    BY DEF Surjection
  <2> HIDE DEF Kept, part, Parts
  <2>2. QED
    BY <1>1, <2>1, FS_Surjection
<1>4. IsFiniteSet(UNION Parts)
  <2>1. \A T \in Parts : IsFiniteSet(T)
    <3> HIDE DEF Kept, part
    <3>1. QED
      BY <1>2
  <2> HIDE DEF Parts
  <2>2. QED
    BY <1>3, <2>1, FS_UNION
<1>5. UNION Parts = Pieces(h)
  <2>1. Parts = {{d} \X (1..ChunksOf[h[d]]) : d \in Kept}
    OBVIOUS
  <2>2. QED
    BY <2>1 DEF Pieces
<1>6. QED
  BY <1>4, <1>5, FS_CardinalityType DEF Total

\* A store that holds more has more chunks.
LEMMA MoreIsLarger ==
    ASSUME NEW g \in Held, NEW h \in Held, g # h,
           \A d \in Files : g[d] # None => g[d] = h[d]
    PROVE  Total(g) < Total(h)
<1>1. PICK d \in Files : g[d] = None /\ h[d] # None
  BY DEF Held
<1>2. ChunksOf[h[d]] \in Nat \ {0}
  BY <1>1, RagSyncAssumption DEF Held
<1>3. <<d, 1>> \in Pieces(h) /\ <<d, 1>> \notin Pieces(g)
  BY <1>1, <1>2 DEF Pieces
<1>4. Pieces(g) \subseteq Pieces(h)
  BY DEF Pieces
<1>5. QED
  BY <1>3, <1>4, PiecesAreFinite, FS_Subset DEF Total

\* Two stores, one of which lacks one document of the other.
OneChanged(g, h) ==
    \E d \in Files : \E v \in Versions :
        \/ g[d] = None /\ h = [g EXCEPT ![d] = v]
        \/ g[d] # None /\ h = [g EXCEPT ![d] = None]

LEMMA ChangeIsSeen ==
    ASSUME NEW g \in Held, NEW h, OneChanged(g, h)
    PROVE  h \in Held /\ Total(g) # Total(h)
<1>1. PICK d \in Files, v \in Versions :
        \/ g[d] = None /\ h = [g EXCEPT ![d] = v]
        \/ g[d] # None /\ h = [g EXCEPT ![d] = None]
  BY DEF OneChanged
<1>2. h \in Held /\ g # h /\ v # None
  BY <1>1 DEF Held, Versions
<1>3. Total(g) \in Nat /\ Total(h) \in Nat
  BY <1>2, PiecesAreFinite
<1>4. CASE g[d] = None /\ h = [g EXCEPT ![d] = v]
  <2>1. \A e \in Files : g[e] # None => g[e] = h[e]
    BY <1>4 DEF Held
  <2>2. QED
    BY <1>2, <1>3, <2>1, MoreIsLarger
<1>5. CASE g[d] # None /\ h = [g EXCEPT ![d] = None]
  <2>1. \A e \in Files : h[e] # None => h[e] = g[e]
    BY <1>5 DEF Held
  <2>2. QED
    BY <1>2, <1>3, <2>1, MoreIsLarger
<1>6. QED
  BY <1>1, <1>4, <1>5

\* An empty store has no chunks, and no other has none.
LEMMA EmptyIsSeen ==
    ASSUME NEW h \in Held, h # Nothing
    PROVE  Nothing \in Held /\ Total(Nothing) # Total(h)
<1>1. Nothing \in Held /\ \A d \in Files : Nothing[d] = None
  BY DEF Nothing, Held
<1>2. QED
  BY <1>1, MoreIsLarger, PiecesAreFinite

-----------------------------------------------------------------------------
(***************************************************************************)
(* Types                                                                   *)
(***************************************************************************)
LEMMA TableTaken ==
    ASSUME TypeOK, InTables PROVE Sources[table] \in Tables
BY RagSyncAssumption DEF TypeOK, Tables

LEMMA PersistKeepsTypes ==
    ASSUME TypeOK, NEW h \in Held, Persist(h) \/ PersistCut(h)
    PROVE  /\ up' \in BOOLEAN /\ torn' \in BOOLEAN
           /\ chunks' \in Held /\ vectors' \in Held /\ pkl' \in Held /\ idx' \in Held
           /\ faults' \in 0..MaxFaults /\ behind' \in 0..2
<1>1. Nothing \in Held
  BY DEF Nothing, Held
<1>2. CASE Persist(h)
  <2>1. faults' \in 0..MaxFaults /\ behind' \in 0..2
    BY <1>2, RagSyncAssumption DEF Persist, TypeOK
  <2>2. QED
    BY <1>2, <2>1 DEF Persist, TypeOK
<1>3. CASE PersistCut(h)
  <2>1. faults' \in 0..MaxFaults /\ behind' \in 0..2
    BY <1>3, RagSyncAssumption DEF PersistCut, TypeOK
  <2>2. QED
    BY <1>1, <1>3, <2>1 DEF PersistCut, TypeOK
<1>4. QED
  BY <1>2, <1>3

\* What every way of ending a pass leaves of it.
PassOver ==
    /\ step' = "idle" /\ table' = 1 /\ newest' = None
    /\ todo' = {} /\ missing' = {} /\ next' = [t \in Tables |-> None]

LEMMA PassOverTypes ==
    ASSUME TypeOK, PassOver
    PROVE  /\ step' \in {"idle", "fetch", "index", "embed", "reconcile", "remove"}
           /\ table' \in 1..(Len(Sources) + 1)
           /\ next' \in [Tables -> {None} \union Versions]
           /\ newest' \in {None} \union Versions
           /\ todo' \subseteq (Files \X Versions)
           /\ missing' \subseteq Docs
<1>1. Len(Sources) \in Nat
  BY RagSyncAssumption
<1>2. QED
  BY <1>1 DEF PassOver

\* A document whose embeddings are awaited is one of the batch.
Awaited == step = "embed" => todo # {}

LEMMA TypeStep == TypeOK /\ Awaited /\ [Next]_vars => TypeOK'
<1> SUFFICES ASSUME TypeOK, Awaited, [Next]_vars PROVE TypeOK'
  OBVIOUS
<1>1. Len(Sources) \in Nat /\ MaxClock \in Nat \ {0} /\ MaxFaults \in Nat
  BY RagSyncAssumption
<1>2. Nothing \in Held
  BY DEF Nothing, Held
<1>3. ASSUME NEW d \in Docs, Edit(d) PROVE TypeOK'
  <2>1. clock + 1 \in Versions
    BY <1>1, <1>3 DEF Edit, TypeOK, Versions
  <2>2. QED
    BY <1>3, <2>1 DEF Edit, TypeOK
<1>4. ASSUME NEW d \in Docs, Delete(d) PROVE TypeOK'
  BY <1>4 DEF Delete, TypeOK
<1>5. CASE BeginPass
  BY <1>1, <1>5 DEF BeginPass, TypeOK
<1>6. CASE Fetch
  <2>1. todo' \subseteq (Files \X Versions)
    <3>1. CASE InTables
      <4>1. Sources[table] \in Tables
        BY <3>1, TableTaken
      <4>2. ASSUME NEW d \in Docs, crm[d] > next[Sources[table]]
            PROVE  <<d, crm[d]>> \in Files \X Versions
        BY <4>1, <4>2 DEF TypeOK, Files, Versions
      <4>3. todo' = {<<d, crm[d]>> : d \in Snapshot(Sources[table], next[Sources[table]])}
        BY <1>6, <3>1 DEF Fetch
      <4>4. QED
        BY <4>2, <4>3 DEF Snapshot, Changed
    <3>2. CASE ~InTables
      BY <1>1, <1>6, <3>2 DEF Fetch, Files, Versions
    <3>3. QED
      BY <3>1, <3>2
  <2>2. newest' \in {None} \union Versions
    BY <1>6, TableTaken DEF Fetch, TypeOK
  <2>3. QED
    BY <1>6, <2>1, <2>2 DEF Fetch, TypeOK
<1>7. CASE SkipBlank
  BY <1>7 DEF SkipBlank, TypeOK
<1>8. CASE DropOld
  <2>1. [chunks EXCEPT ![Current[1]] = None] \in Held
    BY <1>8, CurrentIsOldest DEF TypeOK, Held
  <2>2. QED
    BY <1>8, <2>1, PersistKeepsTypes, PassOverTypes DEF DropOld, PersistCut, PassOver, TypeOK
<1>9. CASE Upsert
  <2>1. [chunks EXCEPT ![Current[1]] = Current[2]] \in Held /\ Current[2] \in Versions
    BY <1>9, CurrentIsOldest DEF Upsert, Awaited, TypeOK, Held
  <2>2. QED
    BY <1>9, <2>1, PersistKeepsTypes, PassOverTypes DEF Upsert, PersistCut, PassOver, TypeOK
<1>10. CASE EmbedFails
  <2>1. Current \in Files \X Versions
    BY <1>10, CurrentIsOldest DEF EmbedFails, Awaited, TypeOK
  <2>2. failed' \subseteq (Files \X Versions) /\ faults' \in 0..MaxFaults
    BY <1>1, <1>10, <2>1 DEF EmbedFails, TypeOK
  <2>3. CASE InTables
    BY <1>10, <2>2, <2>3 DEF EmbedFails, TypeOK
  <2>4. CASE ~InTables
    BY <1>10, <2>2, <2>4, PassOverTypes DEF EmbedFails, PassOver, TypeOK
  <2>5. QED
    BY <2>3, <2>4
<1>11. CASE EndOfBatch
  <2>1. InTables => Sources[table] \in Tables /\ table + 1 \in 1..(Len(Sources) + 1)
    BY <1>1, TableTaken DEF TypeOK
  <2>2. QED
    BY <1>11, <2>1 DEF EndOfBatch, TypeOK
<1>12. CASE Reconcile
  BY <1>12 DEF Reconcile, TypeOK
<1>13. ASSUME NEW d \in Docs, Remove(d) PROVE TypeOK'
  <2>1. [chunks EXCEPT ![d] = None] \in Held
    BY DEF TypeOK, Held, Files
  <2>2. QED
    BY <1>13, <2>1, PersistKeepsTypes, PassOverTypes DEF Remove, PersistCut, PassOver, TypeOK
<1>14. CASE SaveState
  <2>1. faults' \in 0..MaxFaults /\ cursors' \in [Tables -> {None} \union Versions]
    <3>1. \/ cursors' = next /\ UNCHANGED faults
          \/ cursors' = [t \in Tables |-> None] /\ Fault
      BY <1>14 DEF SaveState
    <3>2. QED
      BY <1>1, <3>1 DEF TypeOK
  <2>2. QED
    BY <1>2, <1>14, <2>1, PassOverTypes DEF SaveState, PassOver, TypeOK
<1>15. CASE FetchFails \/ ReconcileFails
  BY <1>1, <1>15 DEF FetchFails, ReconcileFails, TypeOK
<1>16. CASE Crash
  <2>1. faults' \in 0..MaxFaults
    BY <1>1, <1>16 DEF Crash, TypeOK
  <2>2. QED
    BY <1>2, <1>16, <2>1, PassOverTypes DEF Crash, PassOver, TypeOK
<1>17. CASE Restart
  BY <1>17 DEF Restart, TypeOK
<1>18. CASE UNCHANGED vars
  BY <1>18 DEF vars, TypeOK
<1>19. QED
  BY <1>3, <1>4, <1>5, <1>6, <1>7, <1>8, <1>9, <1>10, <1>11, <1>12, <1>13, <1>14,
     <1>15, <1>16, <1>17, <1>18 DEF Next, UserActs, Pass, Index, PassFails

LEMMA AwaitedStep == TypeOK /\ Awaited /\ [Next]_vars => Awaited'
<1> SUFFICES ASSUME Awaited, [Next]_vars PROVE Awaited'
  OBVIOUS
<1>1. CASE UserActs \/ Restart \/ UNCHANGED vars
  BY <1>1 DEF UserActs, Edit, Delete, Restart, vars, Awaited
<1>2. CASE BeginPass \/ Fetch \/ EndOfBatch \/ Reconcile \/ SaveState
  BY <1>2 DEF BeginPass, Fetch, EndOfBatch, Reconcile, SaveState, Awaited
<1>3. CASE SkipBlank \/ Upsert \/ PassFails \/ Crash
  BY <1>3 DEF SkipBlank, Running, Upsert, PersistCut, PassFails, FetchFails, EmbedFails,
     ReconcileFails, Crash, Awaited
<1>4. CASE DropOld
  BY <1>4 DEF DropOld, PersistCut, Awaited
<1>5. ASSUME NEW d \in Docs, Remove(d) PROVE Awaited'
  BY <1>5 DEF Remove, PersistCut, Awaited
<1>6. QED
  BY <1>1, <1>2, <1>3, <1>4, <1>5 DEF Next, Pass, Index

\* Every variable keeps its type, the batch and the saved cursors included.
THEOREM TypeCorrect == Spec => []TypeOK
<1>1. Init => TypeOK /\ Awaited
  <2>1. SUFFICES ASSUME Init PROVE TypeOK /\ Awaited
    OBVIOUS
  <2>2. Nothing \in Held
    BY DEF Nothing, Held
  <2>3. Len(Sources) \in Nat /\ MaxFaults \in Nat
    BY RagSyncAssumption
  <2>4. table \in 1..(Len(Sources) + 1) /\ faults \in 0..MaxFaults /\ behind \in 0..2
    BY <2>1, <2>3 DEF Init
  <2>5. QED
    BY <2>1, <2>2, <2>4 DEF Init, TypeOK, Awaited
<1>2. QED
  BY <1>1, TypeStep, AwaitedStep, PTL DEF Spec

-----------------------------------------------------------------------------
(***************************************************************************)
(* The two files of the store.  What is in memory is what the file of      *)
(* chunks holds; an index file that is one write behind it differs from it *)
(* in size, because a persist adds or removes exactly one document.        *)
(***************************************************************************)
FilesInv ==
    /\ up => chunks = pkl
    /\ torn => pkl = Nothing
    /\ behind = 0 => torn \/ idx = pkl
    /\ behind = 1 => torn \/ pkl = Nothing \/ Total(idx) # Total(pkl)
    /\ OneMissIsNoticed

\* add_document stores what delete_document removed, and only what the store
\* has is removed.
StepInv ==
    /\ ~up => step = "idle"
    /\ step # "idle" => ~torn
    /\ step = "embed" => todo # {} /\ chunks[Current[1]] = None
    /\ step = "remove" => \A d \in missing : chunks[d] # None

StoreInv == FilesInv /\ StepInv

LEMMA PersistKeepsFiles ==
    ASSUME TypeOK, FilesInv, up, ~torn, NEW h, OneChanged(chunks, h),
           Persist(h) \/ PersistCut(h)
    PROVE  FilesInv'
<1>1. chunks = pkl /\ h \in Held /\ Total(pkl) # Total(h) /\ behind \in 0..2
  BY ChangeIsSeen DEF FilesInv, TypeOK
<1>2. h # Nothing => Total(Nothing) # Total(h)
  BY <1>1, EmptyIsSeen
<1>3. behind = 0 => idx = pkl
  BY DEF FilesInv
<1>4. CASE Persist(h)
  BY <1>1, <1>3, <1>4 DEF Persist, FilesInv, OneMissIsNoticed
<1>5. CASE PersistCut(h)
  BY <1>1, <1>2, <1>3, <1>5 DEF PersistCut, FilesInv, OneMissIsNoticed
<1>6. QED
  BY <1>4, <1>5

LEMMA DropChangesOne ==
    ASSUME TypeOK, NEW d \in Files, chunks[d] # None
    PROVE  OneChanged(chunks, [chunks EXCEPT ![d] = None])
<1>1. 1 \in Versions
  BY RagSyncAssumption DEF Versions
<1>2. QED
  BY <1>1 DEF OneChanged

\* The steps that leave the store and its files alone.
LEMMA FilesStay ==
    ASSUME FilesInv, UNCHANGED <<up, storeVars>> PROVE FilesInv'
BY DEF FilesInv, OneMissIsNoticed, Total, Pieces

\* The process stops: the files stay as they are.
LEMMA StopKeepsFiles ==
    ASSUME FilesInv, Stop, UNCHANGED <<pkl, torn, idx, behind>>
    PROVE  FilesInv' /\ StepInv'
BY DEF FilesInv, StepInv, OneMissIsNoticed, Total, Pieces

LEMMA RestartKeepsFiles ==
    ASSUME TypeOK, FilesInv, Restart PROVE FilesInv'
<1>1. /\ up' = TRUE /\ chunks' = pkl /\ UNCHANGED <<pkl, torn, idx, behind>>
      /\ vectors' = IF Total(idx) = Total(pkl) /\ pkl # Nothing THEN idx ELSE pkl
  BY DEF Restart
<1>2. behind < 2 => behind = 0 \/ behind = 1
  BY DEF TypeOK
<1>3. behind < 2 => vectors' = pkl
  BY <1>1, <1>2 DEF FilesInv
<1>4. QED
  BY <1>1, <1>3 DEF FilesInv, OneMissIsNoticed, Total, Pieces

LEMMA StoreStep == TypeOK /\ StoreInv /\ [Next]_vars => StoreInv'
<1> SUFFICES ASSUME TypeOK, FilesInv, StepInv, [Next]_vars PROVE FilesInv' /\ StepInv'
  BY DEF StoreInv
<1>1. CASE UserActs \/ UNCHANGED vars
  <2>1. UNCHANGED <<up, storeVars, step, todo, missing>>
    BY <1>1 DEF UserActs, Edit, Delete, vars
  <2>2. QED
    BY <2>1, FilesStay DEF StepInv, Current
<1>2. CASE BeginPass \/ Fetch \/ EndOfBatch \/ FetchFails \/ ReconcileFails
  <2>1. UNCHANGED <<up, storeVars>> /\ step' \notin {"embed", "remove"} /\ up /\ ~torn
    BY <1>2 DEF BeginPass, Fetch, EndOfBatch, FetchFails, ReconcileFails, StepInv
  <2>2. QED
    BY <2>1, FilesStay DEF StepInv
<1>3. CASE Reconcile
  <2>1. UNCHANGED <<up, storeVars>> /\ step' = "remove" /\ up /\ ~torn
        /\ \A d \in missing' : chunks[d] # None
    BY <1>3 DEF Reconcile, StepInv
  <2>2. QED
    BY <2>1, FilesStay DEF StepInv
<1>4. CASE SkipBlank \/ EmbedFails
  <2>1. UNCHANGED <<up, storeVars>> /\ step' \in {"index", "idle"} /\ up /\ ~torn
    BY <1>4 DEF SkipBlank, EmbedFails, StepInv
  <2>2. QED
    BY <2>1, FilesStay DEF StepInv
<1>5. CASE DropOld
  <2> DEFINE h == [chunks EXCEPT ![Current[1]] = None]
  <2>1. up /\ ~torn /\ todo # {} /\ Current[1] \in Files /\ h[Current[1]] = None
    BY <1>5, CurrentIsOldest DEF DropOld, StepInv, TypeOK, Held
  <2>2. CASE h = chunks /\ step' = "embed" /\ UNCHANGED <<up, storeVars, todo>>
    <3>1. Current' = Current
      BY <2>2 DEF Current
    <3>2. QED
      BY <2>1, <2>2, <3>1, FilesStay DEF StepInv
  <2>3. CASE h # chunks /\ Persist(h) /\ step' = "embed" /\ UNCHANGED todo
    <3>1. Current' = Current /\ chunks' = h /\ up' /\ ~torn'
      BY <2>1, <2>3 DEF Current, Persist
    <3>2. FilesInv'
      BY <2>1, <2>3, DropChangesOne, PersistKeepsFiles DEF TypeOK, Held
    <3>3. QED
      BY <2>1, <2>3, <3>1, <3>2 DEF StepInv
  <2>4. CASE h # chunks /\ PersistCut(h)
    <3>1. FilesInv'
      BY <2>1, <2>4, DropChangesOne, PersistKeepsFiles DEF TypeOK, Held
    <3>2. QED
      BY <2>4, <3>1 DEF PersistCut, StepInv
  <2>5. QED
    BY <1>5, <2>2, <2>3, <2>4 DEF DropOld
<1>6. CASE Upsert
  <2> DEFINE h == [chunks EXCEPT ![Current[1]] = Current[2]]
  <2>1. up /\ ~torn /\ Current[1] \in Files /\ Current[2] \in Versions
        /\ chunks[Current[1]] = None
    BY <1>6, CurrentIsOldest DEF Upsert, StepInv
  <2>2. OneChanged(chunks, h)
    BY <2>1 DEF OneChanged
  <2>3. FilesInv'
    BY <1>6, <2>1, <2>2, PersistKeepsFiles DEF Upsert
  <2>4. StepInv'
    <3>1. (step' = "index" /\ up' /\ ~torn') \/ step' = "idle"
      BY <1>6, <2>1 DEF Upsert, Persist, PersistCut
    <3>2. QED
      BY <2>1, <3>1 DEF StepInv
  <2>5. QED
    BY <2>3, <2>4
<1>7. ASSUME NEW d \in Docs, Remove(d) PROVE FilesInv' /\ StepInv'
  <2> DEFINE h == [chunks EXCEPT ![d] = None]
  <2>1. up /\ ~torn /\ chunks[d] # None /\ d \in Files
    BY <1>7 DEF Remove, StepInv, Files
  <2>2. FilesInv'
    BY <1>7, <2>1, DropChangesOne, PersistKeepsFiles DEF Remove
  <2>3. CASE Persist(h) /\ missing' = missing \ {d} /\ step' = step
    <3>1. \A e \in missing' : chunks'[e] # None
      BY <1>7, <2>1, <2>3 DEF Remove, Persist, StepInv, TypeOK, Held, Files
    <3>2. QED
      BY <1>7, <2>1, <2>2, <2>3, <3>1 DEF Remove, Persist, StepInv
  <2>4. CASE PersistCut(h)
    BY <2>2, <2>4 DEF PersistCut, StepInv
  <2>5. QED
    BY <1>7, <2>3, <2>4 DEF Remove
<1>8. CASE SaveState \/ Crash
  <2>1. CASE Stop /\ UNCHANGED <<pkl, torn, idx, behind>>
    BY <2>1, StopKeepsFiles
  <2>2. CASE up /\ step' = "idle" /\ UNCHANGED <<up, storeVars>>
    BY <2>2, FilesStay DEF StepInv
  <2>3. QED
    BY <1>8, <2>1, <2>2 DEF SaveState, Crash
<1>9. CASE Restart
  <2>1. step = "idle" /\ UNCHANGED step
    BY <1>9 DEF Restart, StepInv
  <2>2. QED
    BY <1>9, <2>1, RestartKeepsFiles DEF StepInv
<1>10. QED
  BY <1>1, <1>2, <1>3, <1>4, <1>5, <1>6, <1>7, <1>8, <1>9 DEF Next, Pass, Index, PassFails

LEMMA StoreInvariant == Spec => [](TypeOK /\ StoreInv)
<1>1. Init => StoreInv
  BY DEF Init, StoreInv, FilesInv, StepInv, OneMissIsNoticed
<1>2. QED
  BY <1>1, StoreStep, TypeCorrect, PTL DEF Spec

\* However passes, crashes and failed writes of the index file alternate, _load
\* never takes a file whose last write alone was missed for the chunks' index.
THEOREM MissIsNoticed == Spec => []OneMissIsNoticed
BY StoreInvariant, PTL DEF StoreInv, FilesInv

-----------------------------------------------------------------------------
(***************************************************************************)
(* The cursors.  The version of a document that no pass has still to index *)
(* is on disk, is empty, or is one whose add_document raised.              *)
(***************************************************************************)
Done(d) ==
    \/ crm[d] = None \/ crm[d] \in blank
    \/ pkl[d] = crm[d] \/ <<d, crm[d]>> \in failed

\* No two documents share an updated_at, and what is to be removed is gone.
CrmInv ==
    /\ \A d \in Docs : crm[d] <= clock
    /\ \A d, e \in Docs : crm[d] = crm[e] /\ crm[d] # None => d = e
    /\ \A d \in gone : crm[d] = None
    /\ missing \subseteq gone

\* Neither the saved cursors nor those of the pass are past a document that is
\* not done, and a pass never takes a cursor back.
CursorInv ==
    /\ \A t \in Tables : cursors[t] <= clock /\ next[t] <= clock
    /\ ~torn => \A d \in Docs : crm[d] <= cursors[TableOf[d]] => Done(d)
    /\ step # "idle" =>
          /\ \A t \in Tables : cursors[t] <= next[t]
          /\ \A d \in Docs : crm[d] <= next[TableOf[d]] => Done(d)

Visited == Sources[table]

\* What waits in a batch is newer than the newest that was indexed, and is the
\* version of its document, unless the document is gone or has changed since;
\* what a batch has passed over is done, and what is older than something that
\* waits is done or waits itself.
Waits(p) ==
    /\ p[1] \in Docs /\ TableOf[p[1]] = Visited
    /\ newest < p[2] /\ p[2] <= clock
    /\ crm[p[1]] \in {None, p[2]} \/ \A q \in todo : q[2] < crm[p[1]]
    /\ \A d \in Docs : crm[d] = p[2] => d = p[1]
    /\ \A q \in todo : p[2] = q[2] => p = q

PassedIsDone(d) ==
    /\ crm[d] <= newest => Done(d)
    /\ \A q \in todo : crm[d] < q[2] => Done(d) \/ <<d, crm[d]>> \in todo

Batched ==
    /\ next[Visited] <= newest /\ newest <= clock
    /\ \A p \in todo : Waits(p)
    /\ \A d \in Docs : TableOf[d] = Visited => PassedIsDone(d)

BatchInv ==
    step \in {"index", "embed"} =>
        IF InTables THEN Batched ELSE todo \subseteq Pack \X {1}

HonestInv == CrmInv /\ CursorInv /\ BatchInv

\* The numbers that are compared.
LEMMA Numbers ==
    ASSUME TypeOK
    PROVE  /\ clock \in Nat /\ newest \in Nat
           /\ \A d \in Docs : crm[d] \in Nat /\ TableOf[d] \in Tables
           /\ \A t \in Tables : cursors[t] \in Nat /\ next[t] \in Nat
           /\ \A p \in todo : p[1] \in Files /\ p[2] \in Nat \ {0} /\ p = <<p[1], p[2]>>
BY RagSyncAssumption DEF TypeOK, Versions

LEMMA CrmStep == TypeOK /\ CrmInv /\ [Next]_vars => CrmInv'
<1> SUFFICES ASSUME TypeOK, CrmInv, [Next]_vars PROVE CrmInv'
  OBVIOUS
<1>1. ASSUME NEW d \in Docs, Edit(d) PROVE CrmInv'
  <2>1. clock' = clock + 1 /\ d \notin gone /\ crm' = [crm EXCEPT ![d] = clock + 1]
        /\ UNCHANGED <<gone, missing>>
    BY <1>1 DEF Edit
  <2>2. \A e \in Docs : crm'[e] = IF e = d THEN clock + 1 ELSE crm[e]
    BY <2>1 DEF TypeOK
  <2>3. gone \subseteq Docs
    BY DEF TypeOK
  <2>4. QED
    BY <2>1, <2>2, <2>3, Numbers DEF CrmInv
<1>2. ASSUME NEW d \in Docs, Delete(d) PROVE CrmInv'
  <2>1. \A e \in Docs : crm'[e] = IF e = d THEN None ELSE crm[e]
    BY <1>2 DEF Delete, TypeOK
  <2>2. QED
    BY <1>2, <2>1, Numbers DEF Delete, CrmInv, TypeOK
<1>3. CASE UNCHANGED crmVars /\ missing' \subseteq gone
  BY <1>3 DEF CrmInv
<1>4. missing \subseteq gone
  BY DEF CrmInv
<1>5. CASE BeginPass \/ Fetch \/ EndOfBatch \/ Reconcile \/ SaveState \/ Crash \/ Restart
  <2>1. UNCHANGED crmVars /\ missing' \subseteq gone
    BY <1>4, <1>5 DEF BeginPass, Fetch, EndOfBatch, Reconcile, SaveState, Crash, Restart
  <2>2. QED
    BY <1>3, <2>1
<1>6. CASE Index \/ PassFails
  <2>1. UNCHANGED crmVars /\ missing' \subseteq gone
    BY <1>4, <1>6 DEF Index, SkipBlank, DropOld, Upsert, PersistCut, PassFails, FetchFails,
       EmbedFails, ReconcileFails
  <2>2. QED
    BY <1>3, <2>1
<1>7. ASSUME NEW d \in Docs, Remove(d) PROVE CrmInv'
  <2>1. UNCHANGED crmVars /\ missing' \subseteq gone
    BY <1>4, <1>7 DEF Remove, PersistCut
  <2>2. QED
    BY <1>3, <2>1
<1>8. CASE UNCHANGED vars
  BY <1>3, <1>4, <1>8 DEF vars
<1>9. QED
  BY <1>1, <1>2, <1>5, <1>6, <1>7, <1>8 DEF Next, UserActs, Pass

\* What is done stays done while its document and its chunks stay.
LEMMA DoneStays ==
    ASSUME NEW d \in Docs, Done(d), crm'[d] = crm[d], pkl'[d] = pkl[d],
           blank \subseteq blank', failed \subseteq failed'
    PROVE  Done(d)'
BY DEF Done

-----------------------------------------------------------------------------
(* The batch                                                                *)

\* The next document of a batch leaves it, indexed, empty or failed.
LEMMA BatchAdvances ==
    ASSUME TypeOK, Batched, InTables, todo # {}, NEW c, c = Current,
           UNCHANGED <<crm, clock, table, next>>,
           todo' = todo \ {c}, newest' \in {newest, c[2]},
           \A d \in Docs : d # c[1] /\ Done(d) => Done(d)',
           crm[c[1]] \in {None, c[2]} => Done(c[1])'
    PROVE  Batched'
<1>1. c \in todo /\ \A q \in todo : c[2] <= q[2]
  BY CurrentIsOldest
<1>2. Waits(c) /\ Visited' = Visited
  BY <1>1 DEF Batched, Visited
<1>3. \A q \in todo' : q \in todo /\ c[2] < q[2]
  BY <1>1, <1>2, Numbers DEF Waits
<1>4. next[Visited] <= newest' /\ newest' <= clock
  BY <1>1, <1>2, Numbers, TableTaken DEF Waits, Batched, Visited
<1>5. ASSUME NEW p \in todo' PROVE Waits(p)'
  <2>1. Waits(p) /\ p \in todo /\ c[2] < p[2]
    BY <1>3 DEF Batched
  <2>2. newest' < p[2]
    BY <2>1 DEF Waits
  <2>3. QED
    BY <1>2, <1>3, <2>1, <2>2 DEF Waits
<1>6. ASSUME NEW d \in Docs, TableOf[d] = Visited PROVE PassedIsDone(d)'
  <2>1. PassedIsDone(d)
    BY <1>6 DEF Batched
  <2>2. CASE d = c[1]
    <3>1. CASE crm[d] \in {None, c[2]}
      BY <2>2, <3>1 DEF PassedIsDone
    <3>2. CASE \A q \in todo : q[2] < crm[d]
      BY <1>1, <1>2, <1>3, <3>2, Numbers DEF Waits, PassedIsDone
    <3>3. QED
      BY <1>2, <2>2, <3>1, <3>2 DEF Waits
  <2>3. CASE d # c[1]
    <3>1. crm[d] < c[2] => Done(d)
      <4>1. <<d, crm[d]>> \in todo => c[2] <= crm[d]
        BY <1>1
      <4>2. QED
        BY <1>1, <2>1, <4>1, Numbers DEF PassedIsDone
    <3>2. crm[d] # c[2]
      BY <1>2, <2>3 DEF Waits
    <3>3. crm[d] <= newest' => Done(d)'
      BY <1>1, <2>1, <2>3, <3>1, <3>2, Numbers DEF PassedIsDone
    <3>4. ASSUME NEW q \in todo', crm[d] < q[2]
          PROVE  Done(d)' \/ <<d, crm[d]>> \in todo'
      BY <1>3, <2>1, <2>3, <3>4, Numbers DEF PassedIsDone
    <3>5. QED
      BY <3>3, <3>4 DEF PassedIsDone
  <2>4. QED
    BY <2>2, <2>3
<1>7. QED
  BY <1>2, <1>4, <1>5, <1>6 DEF Batched

\* The old chunks of the next document leave the store.
LEMMA BatchKeeps ==
    ASSUME TypeOK, Batched, InTables, todo # {}, NEW c, c = Current,
           UNCHANGED <<crm, clock, table, next, todo, newest>>,
           \A d \in Docs : d # c[1] /\ Done(d) => Done(d)',
           crm[c[1]] = None => Done(c[1])'
    PROVE  Batched'
<1>1. c \in todo
  BY CurrentIsOldest
<1>2. Waits(c) /\ Visited' = Visited
  BY <1>1 DEF Batched, Visited
<1>3. \A p \in todo' : Waits(p)'
  BY <1>2 DEF Batched, Waits
<1>4. ASSUME NEW d \in Docs, TableOf[d] = Visited PROVE PassedIsDone(d)'
  <2>1. PassedIsDone(d)
    BY <1>4 DEF Batched
  <2>2. CASE d # c[1]
    BY <2>1, <2>2 DEF PassedIsDone
  <2>3. CASE d = c[1] /\ crm[d] = None
    BY <2>3 DEF PassedIsDone
  <2>4. CASE d = c[1] /\ crm[d] = c[2]
    <3>1. <<d, crm[d]>> \in todo /\ ~(crm[d] <= newest)
      BY <1>1, <1>2, <2>4, Numbers DEF Waits
    <3>2. QED
      BY <3>1 DEF PassedIsDone
  <2>5. CASE d = c[1] /\ \A q \in todo : q[2] < crm[d]
    BY <1>1, <1>2, <2>5, Numbers DEF Waits, PassedIsDone
  <2>6. QED
    BY <1>2, <2>2, <2>3, <2>4, <2>5 DEF Waits
<1>5. QED
  BY <1>2, <1>3, <1>4 DEF Batched

\* A snapshot is closed: what is older than one of its documents, and newer than
\* the cursor, belongs to it.
LEMMA SnapshotIsClosed ==
    ASSUME TypeOK, NEW t \in Tables, NEW since \in Nat,
           NEW e \in Snapshot(t, since), NEW d \in Docs,
           TableOf[d] = t, since < crm[d], crm[d] < crm[e]
    PROVE  d \in Snapshot(t, since)
<1> DEFINE Older(x) == {y \in Changed(t, since) : crm[y] < crm[x]}
<1>1. d \in Changed(t, since) /\ e \in Docs /\ Cardinality(Older(e)) < Batch
  BY Numbers DEF Snapshot, Changed
<1>2. IsFiniteSet(Older(e))
  <2>1. Older(e) \subseteq Docs
    BY DEF Changed
  <2>2. QED
    BY <2>1, RagSyncAssumption, FS_Subset
<1>3. Older(d) \subseteq Older(e)
  BY <1>1, Numbers DEF Changed
<1>4. Cardinality(Older(d)) < Batch
  <2>1. /\ Cardinality(Older(d)) <= Cardinality(Older(e))
        /\ Cardinality(Older(d)) \in Nat /\ Cardinality(Older(e)) \in Nat
    <3> HIDE DEF Older
    <3>1. QED
      BY <1>2, <1>3, FS_Subset, FS_CardinalityType
  <2>2. Batch \in Nat
    BY RagSyncAssumption
  <2>3. QED
    BY <1>1, <2>1, <2>2
<1>5. QED
  BY <1>1, <1>4 DEF Snapshot

LEMMA FetchStep ==
    ASSUME TypeOK, StepInv, HonestInv, Fetch PROVE BatchInv'
<1>1. CASE ~InTables
  BY <1>1 DEF Fetch, BatchInv
<1>2. CASE InTables
  <2> DEFINE t == Sources[table]
             found == Snapshot(t, next[t])
  <2>1. /\ t \in Tables /\ next[t] \in Nat /\ next[t] <= clock
        /\ newest' = next[t] /\ todo' = {<<d, crm[d]>> : d \in found}
        /\ UNCHANGED <<crmVars, table, next, storeVars, failed>>
    BY <1>2, TableTaken, Numbers DEF Fetch, HonestInv, CursorInv
  <2>2. \A d \in found : d \in Docs /\ TableOf[d] = t /\ next[t] < crm[d]
    BY <2>1, Numbers DEF Snapshot, Changed
  <2>3. ASSUME NEW p \in todo' PROVE Waits(p)'
    <3>1. PICK d \in found : p = <<d, crm[d]>>
      BY <2>1
    <3>2. \A e \in Docs : crm[e] = crm[d] => e = d
      BY <2>1, <2>2, <3>1 DEF HonestInv, CrmInv
    <3>3. \A q \in todo' : q[2] = p[2] => q = p
      BY <2>1, <2>2, <3>1, <3>2
    <3>4. QED
      BY <2>1, <2>2, <3>1, <3>2, <3>3 DEF Waits, Visited, HonestInv, CrmInv
  <2>4. ASSUME NEW d \in Docs, TableOf[d] = t PROVE PassedIsDone(d)'
    <3>1. crm[d] <= next[t] => Done(d)'
      BY <1>2, <2>1, <2>4 DEF Fetch, StepInv, HonestInv, CursorInv, Done
    <3>2. ASSUME NEW q \in todo', crm[d] < q[2] PROVE Done(d)' \/ <<d, crm[d]>> \in todo'
      <4>1. PICK e \in found : q = <<e, crm[e]>>
        BY <2>1
      <4>2. next[t] < crm[d] => d \in found
        BY <2>1, <2>4, <3>2, <4>1, SnapshotIsClosed
      <4>3. QED
        BY <2>1, <3>1, <4>2, Numbers
    <3>3. QED
      BY <2>1, <3>1, <3>2 DEF PassedIsDone
  <2>5. InTables' /\ Visited' = t
    BY <1>2, <2>1 DEF Visited
  <2>6. QED
    BY <2>1, <2>3, <2>4, <2>5 DEF BatchInv, Batched
<1>3. QED
  BY <1>1, <1>2

-----------------------------------------------------------------------------
(* The cursors                                                              *)

\* A persist that touches one document, newer than the cursor of the pass.
LEMMA PersistKeepsCursors ==
    ASSUME TypeOK, CursorInv, step # "idle", ~torn, chunks = pkl,
           NEW f \in Files, NEW h, \A d \in Docs : d # f => h[d] = chunks[d],
           f \in Docs => crm[f] = None \/ next[TableOf[f]] < crm[f],
           UNCHANGED <<crmVars, cursors, failed>>,
           \/ Persist(h) /\ UNCHANGED next
           \/ PersistCut(h)
    PROVE  CursorInv'
<1>1. ASSUME pkl' = h, NEW d \in Docs, d # f \/ crm[d] = None, Done(d) PROVE Done(d)'
  BY <1>1 DEF Done
<1>2. \A t \in Tables : cursors[t] <= next[t] /\ cursors[t] <= clock /\ next[t] <= clock
  BY DEF CursorInv
<1>3. ASSUME pkl' = h, NEW d \in Docs, crm[d] <= next[TableOf[d]] PROVE Done(d)'
  <2>1. Done(d)
    BY <1>3 DEF CursorInv
  <2>2. d = f => crm[d] = None
    BY <1>3, Numbers
  <2>3. QED
    BY <1>1, <1>3, <2>1, <2>2
<1>4. ASSUME pkl' = h, NEW d \in Docs, crm[d] <= cursors[TableOf[d]] PROVE Done(d)'
  BY <1>2, <1>3, <1>4, Numbers
<1>5. CASE Persist(h) /\ UNCHANGED next
  BY <1>2, <1>3, <1>4, <1>5 DEF Persist, CursorInv
<1>6. CASE PersistCut(h)
  <2>1. /\ step' = "idle" /\ UNCHANGED <<crmVars, cursors>>
        /\ \A t \in Tables : next'[t] <= clock
        /\ torn' = TRUE \/ pkl' = h
    BY <1>6, Numbers DEF PersistCut
  <2>2. QED
    BY <1>2, <1>4, <2>1 DEF CursorInv
<1>7. QED
  BY <1>5, <1>6

\* The steps that end or stop a pass, or begin one, and those that leave it.
LEMMA CursorsStay ==
    ASSUME TypeOK, CursorInv,
           UNCHANGED <<crmVars, pkl, torn, cursors>>, failed \subseteq failed',
           \/ step' = "idle" /\ next' = [t \in Tables |-> None]
           \/ UNCHANGED next /\ step # "idle"
           \/ UNCHANGED <<next, step>>
    PROVE  CursorInv'
<1>1. \A d \in Docs : Done(d) => Done(d)'
  BY DoneStays
<1>2. \A t \in Tables : next'[t] <= clock
  BY Numbers DEF CursorInv
<1>3. QED
  BY <1>1, <1>2 DEF CursorInv

\* What waits is newer than the cursor of the pass.
LEMMA WaitingIsAhead ==
    ASSUME TypeOK, BatchInv, step \in {"index", "embed"}, todo # {}, Current[1] \in Docs
    PROVE  /\ InTables /\ Batched
           /\ crm[Current[1]] = None \/ next[TableOf[Current[1]]] < crm[Current[1]]
<1>1. Current \in todo
  BY CurrentIsOldest
<1>2. InTables /\ Batched
  BY <1>1, RagSyncAssumption DEF BatchInv
<1>3. Waits(Current) /\ Visited \in Tables /\ next[Visited] <= newest
  BY <1>1, <1>2, TableTaken DEF Batched, Visited
<1>4. \/ crm[Current[1]] = None
      \/ Current[2] <= crm[Current[1]]
  BY <1>1, <1>3, Numbers DEF Waits
<1>5. QED
  BY <1>1, <1>2, <1>3, <1>4, Numbers DEF Waits

LEMMA CursorStep == TypeOK /\ StoreInv /\ HonestInv /\ [Next]_vars => CursorInv'
<1> SUFFICES ASSUME TypeOK, FilesInv, StepInv, HonestInv, [Next]_vars PROVE CursorInv'
  BY DEF StoreInv
<1>1. CrmInv /\ CursorInv /\ BatchInv
  BY DEF HonestInv
<1>2. ASSUME NEW d \in Docs, Edit(d) PROVE CursorInv'
  <2>1. clock' = clock + 1 /\ blank \subseteq blank'
        /\ UNCHANGED <<pkl, torn, cursors, next, step, failed>>
    BY <1>2 DEF Edit
  <2>2. crm'[d] = clock + 1 /\ \A e \in Docs : e # d => crm'[e] = crm[e]
    BY <1>2 DEF Edit, TypeOK
  <2>3. ASSUME NEW e \in Docs, e # d, Done(e) PROVE Done(e)'
    BY <2>1, <2>2, <2>3, DoneStays
  <2>4. QED
    BY <1>1, <2>1, <2>2, <2>3, Numbers DEF CursorInv
<1>3. ASSUME NEW d \in Docs, Delete(d) PROVE CursorInv'
  <2>1. UNCHANGED <<clock, blank, pkl, torn, cursors, next, step, failed>>
    BY <1>3 DEF Delete
  <2>2. crm'[d] = None /\ \A e \in Docs : e # d => crm'[e] = crm[e]
    BY <1>3 DEF Delete, TypeOK
  <2>3. Done(d)' /\ \A e \in Docs : e # d /\ Done(e) => Done(e)'
    BY <2>1, <2>2 DEF Done
  <2>4. QED
    BY <1>1, <2>1, <2>2, <2>3 DEF CursorInv
<1>4. CASE BeginPass
  <2>1. /\ next' = cursors /\ step' # "idle" /\ ~torn
        /\ UNCHANGED <<crmVars, pkl, torn, cursors, failed>>
    BY <1>4 DEF BeginPass
  <2>2. \A d \in Docs : Done(d) => Done(d)'
    BY <2>1, DoneStays
  <2>3. QED
    BY <1>1, <2>1, <2>2, Numbers DEF CursorInv
<1>5. CASE Fetch \/ SkipBlank \/ Reconcile
  BY <1>1, <1>5, CursorsStay DEF Fetch, SkipBlank, Reconcile
<1>6. CASE FetchFails \/ ReconcileFails \/ Crash \/ Restart
  BY <1>1, <1>6, CursorsStay DEF FetchFails, ReconcileFails, Crash, Restart
<1>7. CASE EmbedFails
  BY <1>1, <1>7, CursorsStay DEF EmbedFails
<1>8. CASE EndOfBatch
  <2>1. CASE InTables
    <3>1. /\ Batched /\ Visited \in Tables
          /\ next' = [next EXCEPT ![Visited] = newest] /\ step' # "idle" /\ step # "idle"
          /\ UNCHANGED <<crmVars, pkl, torn, cursors, failed>>
      BY <1>1, <1>8, <2>1, TableTaken DEF EndOfBatch, BatchInv, Visited
    <3>2. \A d \in Docs : Done(d) => Done(d)'
      BY <3>1, DoneStays
    <3>3. \A t \in Tables : next'[t] = IF t = Visited THEN newest ELSE next[t]
      BY <3>1 DEF TypeOK
    <3>4. \A t \in Tables : cursors[t] <= next'[t] /\ next'[t] <= clock
      BY <1>1, <3>1, <3>3, Numbers DEF CursorInv, Batched
    <3>5. \A d \in Docs : crm[d] <= next'[TableOf[d]] => Done(d)
      BY <1>1, <3>1, <3>3, Numbers DEF CursorInv, Batched, PassedIsDone
    <3>6. QED
      BY <1>1, <3>1, <3>2, <3>4, <3>5 DEF CursorInv
  <2>2. CASE ~InTables
    BY <1>1, <1>8, <2>2, CursorsStay DEF EndOfBatch
  <2>3. QED
    BY <2>1, <2>2
<1>9. CASE DropOld
  <2> DEFINE h == [chunks EXCEPT ![Current[1]] = None]
  <2>1. up /\ step = "index" /\ todo # {} /\ ~torn /\ chunks = pkl /\ Current[1] \in Files
    BY <1>9, CurrentIsOldest DEF DropOld, StepInv, FilesInv
  <2>2. \A d \in Docs : d # Current[1] => h[d] = chunks[d]
    BY DEF TypeOK, Held, Files
  <2>3. Current[1] \in Docs =>
            crm[Current[1]] = None \/ next[TableOf[Current[1]]] < crm[Current[1]]
    BY <1>1, <2>1, WaitingIsAhead
  <2>4. CASE UNCHANGED <<crmVars, storeVars, cursors, next, failed>>
    BY <1>1, <2>1, <2>4, CursorsStay
  <2>5. CASE /\ UNCHANGED <<crmVars, cursors, failed>>
             /\ (Persist(h) /\ UNCHANGED next) \/ PersistCut(h)
    <3> HIDE DEF h
    <3>1. QED
      BY <1>1, <2>1, <2>2, <2>3, <2>5, PersistKeepsCursors
  <2>6. QED
    BY <1>9, <2>4, <2>5 DEF DropOld, PersistCut
<1>10. CASE Upsert
  <2> DEFINE h == [chunks EXCEPT ![Current[1]] = Current[2]]
  <2>1. up /\ step = "embed" /\ todo # {} /\ ~torn /\ chunks = pkl /\ Current[1] \in Files
    BY <1>10, CurrentIsOldest DEF Upsert, StepInv, FilesInv
  <2>2. \A d \in Docs : d # Current[1] => h[d] = chunks[d]
    BY DEF TypeOK, Held, Files
  <2>3. Current[1] \in Docs =>
            crm[Current[1]] = None \/ next[TableOf[Current[1]]] < crm[Current[1]]
    BY <1>1, <2>1, WaitingIsAhead
  <2>4. /\ UNCHANGED <<crmVars, cursors, failed>>
        /\ (Persist(h) /\ UNCHANGED next) \/ PersistCut(h)
    BY <1>10 DEF Upsert, PersistCut
  <2> HIDE DEF h
  <2>5. QED
    BY <1>1, <2>1, <2>2, <2>3, <2>4, PersistKeepsCursors
<1>11. ASSUME NEW d \in Docs, Remove(d) PROVE CursorInv'
  <2> DEFINE h == [chunks EXCEPT ![d] = None]
  <2>1. up /\ step = "remove" /\ ~torn /\ chunks = pkl /\ d \in Files /\ crm[d] = None
    BY <1>1, <1>11 DEF Remove, StepInv, FilesInv, Files, CrmInv
  <2>2. \A e \in Docs : e # d => h[e] = chunks[e]
    BY DEF TypeOK, Held, Files
  <2>3. /\ UNCHANGED <<crmVars, cursors, failed>>
        /\ (Persist(h) /\ UNCHANGED next) \/ PersistCut(h)
    BY <1>11 DEF Remove, PersistCut
  <2> HIDE DEF h
  <2>4. QED
    BY <1>1, <2>1, <2>2, <2>3, PersistKeepsCursors
<1>12. CASE SaveState
  <2>1. /\ UNCHANGED <<crmVars, pkl, torn, failed>>
        /\ step = "remove" /\ step' = "idle" /\ next' = [t \in Tables |-> None]
        /\ cursors' = next \/ cursors' = [t \in Tables |-> None]
    BY <1>12 DEF SaveState
  <2>2. \A d \in Docs : Done(d) => Done(d)'
    BY <2>1, DoneStays
  <2>3. CASE cursors' = next
    BY <1>1, <2>1, <2>2, <2>3, Numbers DEF CursorInv
  <2>4. CASE cursors' = [t \in Tables |-> None]
    <3>1. \A d \in Docs : crm[d] <= cursors'[TableOf[d]] => crm[d] = None
      BY <2>4, Numbers
    <3>2. QED
      BY <1>1, <2>1, <2>4, <3>1, Numbers DEF CursorInv, Done
  <2>5. QED
    BY <2>1, <2>3, <2>4
<1>13. CASE UNCHANGED vars
  BY <1>1, <1>13, CursorsStay DEF vars
<1>14. QED
  BY <1>2, <1>3, <1>4, <1>5, <1>6, <1>7, <1>8, <1>9, <1>10, <1>11, <1>12, <1>13
  DEF Next, UserActs, Pass, Index, PassFails

LEMMA BatchStep == TypeOK /\ StoreInv /\ HonestInv /\ [Next]_vars => BatchInv'
<1> SUFFICES ASSUME TypeOK, FilesInv, StepInv, HonestInv, [Next]_vars PROVE BatchInv'
  BY DEF StoreInv
<1>1. CrmInv /\ CursorInv /\ BatchInv
  BY DEF HonestInv
<1>2. ASSUME NEW d \in Docs, Edit(d) PROVE BatchInv'
  <2>1. clock' = clock + 1 /\ blank \subseteq blank'
        /\ UNCHANGED <<pkl, step, passVars, failed>>
    BY <1>2 DEF Edit
  <2>2. crm'[d] = clock + 1 /\ \A e \in Docs : e # d => crm'[e] = crm[e]
    BY <1>2 DEF Edit, TypeOK
  <2>3. ASSUME NEW e \in Docs, e # d, Done(e) PROVE Done(e)'
    BY <2>1, <2>2, <2>3, DoneStays
  <2>4. CASE step \in {"index", "embed"} /\ InTables
    <3>1. Batched /\ Visited' = Visited
      BY <1>1, <2>1, <2>4 DEF BatchInv, Visited
    <3>2. ASSUME NEW p \in todo PROVE Waits(p)'
      <4>1. Waits(p) /\ \A q \in todo : q[2] <= clock
        BY <3>1 DEF Batched, Waits
      <4>2. crm'[p[1]] \in {None, p[2]} \/ \A q \in todo : q[2] < crm'[p[1]]
        BY <2>2, <4>1, Numbers DEF Waits
      <4>3. \A e \in Docs : crm'[e] = p[2] => e = p[1]
        BY <2>2, <4>1, Numbers DEF Waits
      <4>4. QED
        BY <2>1, <3>1, <4>1, <4>2, <4>3, Numbers DEF Waits
    <3>3. ASSUME NEW e \in Docs, TableOf[e] = Visited PROVE PassedIsDone(e)'
      <4>1. PassedIsDone(e) /\ newest <= clock /\ \A q \in todo : q[2] <= clock
        BY <3>1, <3>3 DEF Batched, Waits
      <4>2. QED
        BY <2>1, <2>2, <2>3, <4>1, Numbers DEF PassedIsDone
    <3>4. QED
      BY <2>1, <2>4, <3>1, <3>2, <3>3, Numbers DEF BatchInv, Batched
  <2>5. CASE ~(step \in {"index", "embed"} /\ InTables)
    BY <1>1, <2>1, <2>5 DEF BatchInv
  <2>6. QED
    BY <2>4, <2>5
<1>3. ASSUME NEW d \in Docs, Delete(d) PROVE BatchInv'
  <2>1. UNCHANGED <<clock, blank, pkl, step, passVars, failed>>
    BY <1>3 DEF Delete
  <2>2. crm'[d] = None /\ \A e \in Docs : e # d => crm'[e] = crm[e]
    BY <1>3 DEF Delete, TypeOK
  <2>3. Done(d)' /\ \A e \in Docs : e # d /\ Done(e) => Done(e)'
    BY <2>1, <2>2 DEF Done
  <2>4. CASE step \in {"index", "embed"} /\ InTables
    <3>1. Batched /\ Visited' = Visited
      BY <1>1, <2>1, <2>4 DEF BatchInv, Visited
    <3>2. ASSUME NEW p \in todo PROVE Waits(p)'
      <4>1. Waits(p) /\ p[2] # None
        BY <3>1, Numbers DEF Batched
      <4>2. QED
        BY <2>1, <2>2, <3>1, <4>1 DEF Waits
    <3>3. ASSUME NEW e \in Docs, TableOf[e] = Visited PROVE PassedIsDone(e)'
      <4>1. PassedIsDone(e)
        BY <3>1, <3>3 DEF Batched
      <4>2. QED
        BY <2>1, <2>2, <2>3, <4>1 DEF PassedIsDone
    <3>4. QED
      BY <2>1, <2>4, <3>1, <3>2, <3>3 DEF BatchInv, Batched
  <2>5. CASE ~(step \in {"index", "embed"} /\ InTables)
    BY <1>1, <2>1, <2>5 DEF BatchInv
  <2>6. QED
    BY <2>4, <2>5
<1>4. CASE \/ BeginPass \/ EndOfBatch \/ Reconcile \/ SaveState \/ Crash
           \/ FetchFails \/ ReconcileFails \/ Restart
  <2>1. step' \notin {"index", "embed"}
    BY <1>4 DEF BeginPass, EndOfBatch, Reconcile, SaveState, Crash, FetchFails,
       ReconcileFails, Restart, StepInv
  <2>2. QED
    BY <2>1 DEF BatchInv
<1>5. CASE Fetch
  BY <1>5, FetchStep
<1>6. ASSUME NEW d \in Docs, Remove(d) PROVE BatchInv'
  BY <1>6 DEF Remove, PersistCut, BatchInv
<1>7. CASE SkipBlank
  <2>1. /\ step = "index" /\ step' = "index" /\ todo # {} /\ todo' = todo \ {Current}
        /\ IsBlank(Current) /\ UNCHANGED <<crmVars, pkl, table, next, newest, failed>>
    BY <1>7 DEF SkipBlank
  <2>2. CASE InTables
    <3>1. \A d \in Docs : Done(d) => Done(d)'
      BY <2>1, DoneStays
    <3>2. PICK c : c = Current
      OBVIOUS
    <3>3. c[1] \in Docs /\ crm[c[1]] \in {None, c[2]} => Done(c[1])'
      BY <2>1, <3>2 DEF IsBlank, Done
    <3>4. c[1] \in Docs
      BY <2>1, <3>2 DEF IsBlank
    <3>5. Batched'
      BY <1>1, <2>1, <2>2, <3>1, <3>2, <3>3, <3>4, BatchAdvances DEF BatchInv
    <3>6. QED
      BY <2>1, <2>2, <3>5 DEF BatchInv
  <2>3. CASE ~InTables
    BY <1>1, <2>1, <2>3 DEF BatchInv
  <2>4. QED
    BY <2>2, <2>3
<1>8. CASE EmbedFails
  <2>1. /\ step = "embed" /\ todo # {} /\ failed' = failed \union {Current}
        /\ UNCHANGED <<crmVars, pkl>>
    BY <1>8 DEF EmbedFails, StepInv
  <2>2. CASE InTables
    <3>1. step' = "index" /\ todo' = todo \ {Current} /\ UNCHANGED <<table, next, newest>>
      BY <1>8, <2>2 DEF EmbedFails
    <3>2. \A d \in Docs : Done(d) => Done(d)'
      BY <2>1, DoneStays
    <3>3. PICK c : c = Current
      OBVIOUS
    <3>4. c = <<c[1], c[2]>>
      BY <2>1, <3>3, CurrentIsOldest, Numbers
    <3>5. crm[c[1]] \in {None, c[2]} => Done(c[1])'
      BY <2>1, <3>3, <3>4 DEF Done
    <3>6. Batched'
      BY <1>1, <2>1, <2>2, <3>1, <3>2, <3>3, <3>5, BatchAdvances DEF BatchInv
    <3>7. QED
      BY <2>2, <3>1, <3>6 DEF BatchInv
  <2>3. CASE ~InTables
    BY <1>8, <2>3 DEF EmbedFails, BatchInv
  <2>4. QED
    BY <2>2, <2>3
<1>9. CASE DropOld
  <2> DEFINE h == [chunks EXCEPT ![Current[1]] = None]
  <2>1. step = "index" /\ todo # {} /\ chunks = pkl /\ UNCHANGED <<crmVars, failed>>
    BY <1>9 DEF DropOld, PersistCut, FilesInv
  <2>2. CASE PersistCut(h)
    BY <2>2 DEF PersistCut, BatchInv
  <2>3. CASE UNCHANGED passVars /\ pkl' \in {pkl, h}
    <3>1. PICK c : c = Current
      OBVIOUS
    <3>2. \A d \in Docs : d # c[1] => pkl'[d] = pkl[d]
      BY <2>1, <2>3, <3>1 DEF TypeOK, Held, Files
    <3>3. \A d \in Docs : d # c[1] /\ Done(d) => Done(d)'
      BY <2>1, <3>2, DoneStays
    <3>4. crm[c[1]] = None => Done(c[1])'
      BY <2>1 DEF Done
    <3>5. InTables => Batched'
      BY <1>1, <2>1, <2>3, <3>1, <3>3, <3>4, BatchKeeps DEF BatchInv
    <3>6. QED
      BY <1>1, <2>1, <2>3, <3>5 DEF BatchInv
  <2>4. QED
    BY <1>9, <2>1, <2>2, <2>3 DEF DropOld, Persist
<1>10. CASE Upsert
  <2> DEFINE h == [chunks EXCEPT ![Current[1]] = Current[2]]
  <2>1. step = "embed" /\ todo # {} /\ chunks = pkl /\ UNCHANGED <<crmVars, failed>>
    BY <1>10 DEF Upsert, PersistCut, FilesInv, StepInv
  <2>2. CASE PersistCut(h)
    BY <2>2 DEF PersistCut, BatchInv
  <2>3. CASE /\ Persist(h) /\ step' = "index" /\ todo' = todo \ {Current}
             /\ newest' \in {newest, Current[2]} /\ UNCHANGED <<table, next>>
    <3>1. PICK c : c = Current
      OBVIOUS
    <3>2. /\ \A d \in Docs : d # c[1] => pkl'[d] = pkl[d]
          /\ pkl'[c[1]] = c[2]
      BY <2>1, <2>3, <3>1, CurrentIsOldest DEF Persist, TypeOK, Held, Files
    <3>3. \A d \in Docs : d # c[1] /\ Done(d) => Done(d)'
      BY <2>1, <3>2, DoneStays
    <3>4. crm[c[1]] \in {None, c[2]} => Done(c[1])'
      BY <2>1, <3>2 DEF Done
    <3>5. InTables => Batched'
      BY <1>1, <2>1, <2>3, <3>1, <3>3, <3>4, BatchAdvances DEF BatchInv
    <3>6. QED
      BY <1>1, <2>1, <2>3, <3>5 DEF BatchInv
  <2>4. QED
    BY <1>10, <2>2, <2>3 DEF Upsert
<1>11. CASE UNCHANGED vars
  BY <1>1, <1>11 DEF vars, BatchInv, Batched, Waits, PassedIsDone, Done, Visited
<1>12. QED
  BY <1>2, <1>3, <1>4, <1>5, <1>6, <1>7, <1>8, <1>9, <1>10, <1>11
  DEF Next, UserActs, Pass, Index, PassFails

LEMMA HonestInvariant == Spec => [](TypeOK /\ StoreInv /\ HonestInv)
<1>1. Init => HonestInv
  BY RagSyncAssumption DEF Init, HonestInv, CrmInv, CursorInv, BatchInv, Done
<1>2. TypeOK /\ StoreInv /\ HonestInv /\ [Next]_vars => HonestInv'
  BY CrmStep, CursorStep, BatchStep DEF HonestInv
<1>3. QED
  BY <1>1, <1>2, StoreInvariant, PTL DEF Spec

\* Whatever order edits, deletions, failed calls, failed writes and crashes come
\* in, _save_state never writes a cursor past a document that is not on disk.
THEOREM CursorsAreHonest == Spec => []CursorIsHonest
<1>1. TypeOK /\ HonestInv => CursorIsHonest
  <2>1. SUFFICES ASSUME TypeOK, HonestInv, ~torn, NEW d \in Docs
                 PROVE  crm[d] > cursors[TableOf[d]] \/ Done(d)
    BY DEF CursorIsHonest, Waiting, Done
  <2>2. crm[d] <= cursors[TableOf[d]] => Done(d)
    BY <2>1 DEF HonestInv, CursorInv
  <2>3. QED
    BY <2>1, <2>2, Numbers
<1>2. QED
  BY <1>1, HonestInvariant, PTL
=============================================================================
