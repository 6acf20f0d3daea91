------------------------- MODULE MCMeetingPipeline -------------------------
(***************************************************************************)
(* A small instance of MeetingPipeline.                                    *)
(***************************************************************************)
EXTENDS MeetingPipeline, TLC

CONSTANTS t1, t2

TwoTasks == {t1, t2}
=============================================================================
