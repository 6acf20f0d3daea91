---------------------------- MODULE MCRetrieval -----------------------------
(***************************************************************************)
(* A small instance of Retrieval: a note that may move from one lead to    *)
(* another, and a file of the pack.                                        *)
(***************************************************************************)
EXTENDS Retrieval

CONSTANTS writer, reader, job, s1, s2, lead1, lead2, user, visitor, pack, note

TwoCallers == {writer, reader}
OneUpload == {job}
TwoServices == {s1, s2}
OwnService == [c \in Callers |-> IF c = writer THEN s1 ELSE s2]

TwoSources == {note, pack}
FourEntities == {lead1, lead2, user, pack}
Homes == [s \in Sources |-> IF s = note THEN {lead1, lead2} ELSE {pack}]
Origins == [s \in Sources |-> IF s = pack THEN "frontdesk_knowledge" ELSE "backend"]
Tables == [s \in Sources |-> IF s = pack THEN "frontdesk_knowledge" ELSE "note"]
Owners == [s \in Sources |-> IF s = note THEN user ELSE Any]

\* An odd version has two chunks.
Sizes == [v \in Versions |-> IF v % 2 = 1 THEN 2 ELSE 1]

\* The snapshot of the first lead refers to the second.
Relations == [e \in Entities |-> IF e = lead1 THEN {lead2} ELSE {}]
OneUser == {user}
TwoWorkflows == {"stale_lead", "meeting_complete"}

\* Similarities: new texts first, or the pack and its old texts first.  Steps of
\* 9 percent let one boost, or both, change the order.
Place(c) == c.idx + 3 * c.ver + (IF c.src = pack THEN 10 ELSE 0)
NewFirst == [c \in AllChunks |->
    9 * (Place(c) + (IF c.ent = lead2 THEN 21 ELSE 0)
         + (IF c.ent = user THEN 42 ELSE 0) - (IF c.ent = pack THEN 84 ELSE 0))]
PackFirst == [c \in AllChunks |->
    9 * ((IF c.ent = pack THEN 42 ELSE 0) - Place(c) + (IF c.ent = lead2 THEN 21 ELSE 0)
         - (IF c.ent = user THEN 84 ELSE 0))]
TwoRankings == {NewFirst, PackFirst}
=============================================================================
