--------------------------- MODULE MCTranscription ---------------------------
(***************************************************************************)
(* Small instances of Transcription.                                       *)
(***************************************************************************)
EXTENDS Transcription, TLC

CONSTANTS t1, t2

TwoTasks == {t1, t2}
=============================================================================
