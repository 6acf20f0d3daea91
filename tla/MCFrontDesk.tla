----------------------------- MODULE MCFrontDesk -----------------------------
(***************************************************************************)
(* Small instances of FrontDesk.                                           *)
(***************************************************************************)
EXTENDS FrontDesk, TLC

CONSTANTS t1, t2

OneTurn == {t1}
TwoTurns == {t1, t2}
Interchangeable == Permutations(Turns)

EveryTool == ALLOWED_TOOLS
HandoffOrMeeting == {"request_handoff", "book_meeting"}

SomeStages == {"problem", "completed"}
=============================================================================
