-------------------------- MODULE MCTranscodeQueue -------------------------
(* TranscodeQueue with two goroutines that store recordings.                *)
EXTENDS TranscodeQueue

MCStorers == {"pull", "stand"}
=============================================================================
