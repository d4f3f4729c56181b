--------------------------- MODULE MCWorkerAudio ----------------------------
(* The worker's way from audio to captions (WorkerAudio) for TLC.           *)
EXTENDS WorkerAudio

\* Gaps within the slack, on its edge and past it.
GapValues == {-64, -63, 0, 40, 63, 64}
=============================================================================
