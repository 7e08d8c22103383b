------------------------ MODULE MCContinuityCounter ------------------------
(* Two elementary PIDs whose packets interleave, and the NULL PID.         *)
EXTENDS ContinuityCounter

CONSTANTS null, video, audio

MCPIDs == {video, audio}
=============================================================================
