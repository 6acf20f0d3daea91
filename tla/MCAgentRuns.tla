----------------------------- MODULE MCAgentRuns -----------------------------
(***************************************************************************)
(* Small instances of AgentRuns: one event type each, by the configuration *)
(* file.                                                                   *)
(***************************************************************************)
EXTENDS AgentRuns, TLC

CONSTANTS d1, d2, d3, e1, e2, i1, c1, c2, u1, u2

Three == {d1, d2, d3}
OneEntity == {e1}
TwoEntities == {e1, e2}
OneId == {i1}
NoIds == {}
OneContent == {c1}
TwoContents == {c1, c2}

\* Every delivery is about e1, and none carries an id.
AllOfE1 == [d \in Deliveries |-> e1]
Anonymous == [d \in Deliveries |-> NoId]

\* d1 is redelivered as d2 with the same id; d3 has none: from a sweep, or not.
TwiceById == [d \in Deliveries |-> IF d = d3 THEN NoId ELSE i1]
Twins == Permutations({d1, d2})

\* A sweep of two candidates, with an event about the first beside it.
SweepEntities == [d \in Deliveries |-> IF d = d2 THEN e2 ELSE e1]
SweepOfTwo == <<d1, d2>>
SweepOfOne == <<d3>>

\* e1 has an owner, e2 none; the model may name another user.
TwoUsers == {u1, u2}
FirstOwned == [e \in Entities |-> IF e = e1 THEN u1 ELSE Nobody]
=============================================================================
