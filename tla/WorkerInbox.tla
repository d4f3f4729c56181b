---------------------------- MODULE WorkerInbox -----------------------------
(* How the worker is told what to do: the frames that cross the transport   *)
(* (IpcTransport) and the queue its main loop takes them from (WorkerQueue).*)
(* The two share no state, so a behaviour is one of either; part says of    *)
(* which.                                                                   *)
EXTENDS WorkerQueue

CONSTANTS HeaderBytes, RecordMax, Sizes, Buffer, MaxFrames   \* of IpcTransport

VARIABLES part, slow, keeps, open, wire, lengths, out, in, reading, stopping, got

ipcVars == <<slow, keeps, open, wire, lengths, out, in, reading, stopping, got>>

Ipc == INSTANCE IpcTransport

ASSUME IpcAssumption == Ipc!IpcConstants

InboxInit == part \in {"queue", "ipc"} /\ Init /\ Ipc!Init /\ (part = "queue" => ~slow /\ ~keeps)

InboxNext ==
    \/ part = "queue" /\ Next /\ UNCHANGED <<part, ipcVars>>
    \/ part = "ipc" /\ Ipc!Next /\ UNCHANGED <<part, vars>>

\* In its initial state neither can take a step that is fair, so what does not run obeys it too.
InboxFairness == Fairness /\ Ipc!Fairness

InboxSpec == InboxInit /\ [][InboxNext]_<<part, vars, ipcVars>> /\ InboxFairness

\* IpcTransport.FramesWhole: no write that fails half-way makes the other end take parts of
\* several frames for one.
FramesWhole == Ipc!FramesWhole

\* IpcTransport.NobodyStuck: client and worker never wait for each other with both buffers full,
\* and the end of one process is seen by the other.
NobodyStuck == Ipc!NobodyStuck
=============================================================================
