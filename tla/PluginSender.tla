---------------------------- MODULE PluginSender ----------------------------
(* The plugin's sender thread: the supervisor of the worker                  *)
(* (PluginSupervisor), the teardown (PluginClose) and the seeks of a file    *)
(* the worker reads itself (PluginSeeks, source mode).  The three are        *)
(* checked one at a time: part says which runs.                              *)
EXTENDS PluginSupervisor, PluginSeeks

CONSTANTS TeardownQueue, MaxAudio, MaxReports   \* of PluginClose, the first its QueueSize

VARIABLES
    part,
    phase, closeClient, closeSource, closeDead, closeBroken, captured, closeQueue, toWorker,
    closeWorker, buffered, closeWire, reports, fault, late, closeShown, sentFlag, shutdowns

closeVars == <<phase, closeClient, closeSource, closeDead, closeBroken, captured, closeQueue,
               toWorker, closeWorker, buffered, closeWire, reports, fault, late, closeShown,
               sentFlag, shutdowns>>

Close == INSTANCE PluginClose WITH
    QueueSize <- TeardownQueue,
    client <- closeClient, source <- closeSource, dead <- closeDead, broken <- closeBroken,
    queue <- closeQueue, worker <- closeWorker, wire <- closeWire, shown <- closeShown

ASSUME SenderAssumption == Close!CloseConstants

SenderInit ==
    /\ part \in {"supervisor", "close", "epochs"}
    /\ Init /\ Close!Init /\ Epochs!Init
    /\ part # "supervisor" => /\ cfg = (CHOOSE s \in Settings : TRUE) /\ trans = "off"
                              /\ request = "empty" /\ ~broken /\ ~worker.engine /\ ~worker.capable
    /\ part # "close" => ~closeClient /\ ~closeSource
    /\ pos = 2 /\ (part # "epochs" => ~show)

all == <<part, vars, closeVars, epochVars>>

\* A step of one of the three.
Supervises(A) == part = "supervisor" /\ A /\ UNCHANGED <<part, closeVars, epochVars>>
Closes(A) == part = "close" /\ A /\ UNCHANGED <<part, vars, epochVars>>
Seeks(A) == part = "epochs" /\ A /\ UNCHANGED <<part, vars, closeVars>>

SenderNext == Supervises(Next) \/ Closes(Close!Next) \/ Seeks(Epochs!Next)

\* The fairness of each module, for the one that runs: the thread, then time and the world, then
\* what comes true again and again.
SenderSpec ==
    /\ SenderInit /\ [][SenderNext]_all
    /\ WF_all(Supervises(Sender) \/ Closes(Close!Closing) \/ Seeks(Epochs!Poll \/ Epochs!Rest))
    /\ WF_all(Supervises(Repair) \/ Closes(Close!Watchdog))
    /\ SF_all(Supervises(IdleRetry) \/ Seeks(Epochs!Look))
    /\ SF_all(Seeks(epochPc = "send" /\ queue = <<>> /\ Epochs!SendAudio))

\* PluginClose.OrderlyClose: the teardown loses neither the last words nor the SHUTDOWN.
OrderlyClose == Close!OrderlyClose

\* PluginClose.CloseEnds: vw_plugin_close ends, whatever the worker does.
CloseEnds == Close!CloseEnds
=============================================================================
