------------------------------ MODULE MCRagSync ------------------------------
(***************************************************************************)
(* Small instances of RagSync.                                             *)
(***************************************************************************)
EXTENDS RagSync, TLC

CONSTANTS d1, d2, d3, p1, p2

ThreeDocs == {d1, d2, d3}
TwoFiles == {p1, p2}

TwoTables == <<"lead", "deal">>

\* The table of deals is visited and stays empty.
AllLeads == [d \in Docs |-> "lead"]

\* An even version is long enough for two chunks.
Sizes == [v \in Versions |-> IF v % 2 = 0 THEN 2 ELSE 1]
=============================================================================
