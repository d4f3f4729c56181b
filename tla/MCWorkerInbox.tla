--------------------------- MODULE MCWorkerInbox ----------------------------
(* The inbox of the worker (WorkerInbox) for TLC.                           *)
(* POSITION and TRANSLATE stand for the controls that are neither soft nor  *)
(* required (POSITION, TRANSLATE_CTRL, MODEL_CTRL and HELLO): two of them,  *)
(* so that the same-type rule can tell them apart.                          *)
EXTENDS WorkerInbox

QueueTypes == {"AUDIO", "START", "STOP", "PAUSE", "POSITION", "TRANSLATE", "SHUTDOWN"}

\* A payload of 4 is as long as a header and a payload of 2, so that a torn frame can be
\* completed by the frame after it; 4 and 5 need two records.
PayloadSizes == [d \in {"up", "down"} |-> IF d = "up" THEN {1, 5} ELSE {2, 4}]
TwoFrames == [d \in {"up", "down"} |-> 2]
=============================================================================
