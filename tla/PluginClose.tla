----------------------------- MODULE PluginClose -----------------------------
(***************************************************************************)
(* vw_plugin_close and the calls vw_plugin_log_scope_override.h puts in    *)
(* its way: stop the sender thread, deliver the live audio still queued,   *)
(* STOP and SHUTDOWN in that order, take the last captions until the       *)
(* worker ends its stream, let go.  The worker may hang, die, or have died *)
(* before.  A unit of audio becomes one caption.                           *)
(***************************************************************************)
EXTENDS Naturals, Sequences, SequencesExt

CONSTANTS
    QueueSize,      \* capacity of the audio queue
    MaxAudio,       \* bound: units of audio captured
    MaxReports      \* bound: STATUS and ERROR frames of the worker

\* What the constants are.
CloseConstants ==
    QueueSize \in Nat \ {0} /\ MaxAudio \in Nat /\ MaxReports \in Nat

VARIABLES
    phase,          \* where close is
    client,         \* sys->client is set
    source, dead,   \* source mode; worker_dead
    broken,         \* the transport is gone
    captured, queue,        \* audio captured so far; in the audio queue
    toWorker,       \* frames on their way to the worker
    worker,         \* "up", "hung", "gone"
    buffered,       \* audio the worker has not captioned
    wire,           \* frames on their way to the plugin
    reports,
    fault,          \* history: the worker hung or died
    late,           \* the 120 s have passed
    shown,          \* captions shown
    sentFlag,       \* vw_plugin_teardown_shutdown_sent
    shutdowns       \* SHUTDOWN frames given to the transport

env == <<client, source, fault>>
vars == <<phase, env, dead, broken, captured, queue, toWorker, worker, buffered, wire, reports,
          late, shown, sentFlag, shutdowns>>

Init ==
    /\ phase = "running" /\ client \in BOOLEAN /\ source \in BOOLEAN
    /\ dead = FALSE /\ broken = FALSE /\ captured = 0 /\ queue = 0 /\ toWorker = <<>>
    /\ worker = (IF client THEN "up" ELSE "gone") /\ buffered = 0 /\ wire = <<>> /\ reports = 0
    /\ fault = FALSE /\ late = FALSE /\ shown = 0 /\ sentFlag = FALSE /\ shutdowns = 0

-----------------------------------------------------------------------------
(* Before close, and while the sender thread is not joined.                 *)

Captures ==
    /\ phase = "running" /\ ~source /\ captured < MaxAudio /\ queue < QueueSize
    /\ captured' = captured + 1 /\ queue' = queue + 1
    /\ UNCHANGED <<phase, env, dead, broken, toWorker, worker, buffered, wire, reports, late,
                   shown, sentFlag, shutdowns>>

\* The sender forwards audio and shows captions; it notices a dead transport.
SenderSends ==
    /\ phase \in {"running", "join"} /\ client /\ ~dead /\ queue > 0
    /\ IF broken THEN dead' = TRUE /\ UNCHANGED toWorker
       ELSE toWorker' = Append(toWorker, "audio") /\ UNCHANGED dead
    /\ queue' = queue - 1
    /\ UNCHANGED <<phase, env, broken, captured, worker, buffered, wire, reports, late, shown,
                   sentFlag, shutdowns>>

SenderReceives ==
    /\ phase \in {"running", "join"} /\ client /\ ~dead /\ wire # <<>> /\ wire' = Tail(wire)
    /\ dead' = (Head(wire) = "eof")
    /\ shown' = IF Head(wire) = "caption" THEN shown + 1 ELSE shown
    /\ UNCHANGED <<phase, env, broken, captured, queue, toWorker, worker, buffered, reports, late,
                   sentFlag, shutdowns>>

Close ==
    /\ phase = "running" /\ phase' = "join"
    /\ UNCHANGED <<env, dead, broken, captured, queue, toWorker, worker, buffered, wire, reports,
                   late, shown, sentFlag, shutdowns>>

-----------------------------------------------------------------------------
(* vw_close_join: the thread has ended; queued audio of a live session goes *)
(* to the worker.                                                           *)

\* Mutant: the audio still queued is left there.
Delivered_Nothing == 0

\* How much of the queue can be delivered.
Delivered == IF client /\ ~broken /\ ~source THEN queue ELSE 0

Join ==
    /\ phase = "join" /\ phase' = "clear"
    /\ toWorker' = toWorker \o [i \in 1 .. Delivered |-> "audio"]
    /\ queue' = queue - Delivered
    /\ UNCHANGED <<env, dead, broken, captured, worker, buffered, wire, reports, late, shown,
                   sentFlag, shutdowns>>

\* vw_caption_presenter_clear, with the filter context kept for later.
ClearPresenter ==
    /\ phase = "clear" /\ sentFlag' = FALSE
    /\ phase' = (IF ~client THEN "closed" ELSE IF dead THEN "shutdown" ELSE "stop")
    /\ UNCHANGED <<env, dead, broken, captured, queue, toWorker, worker, buffered, wire, reports,
                   late, shown, shutdowns>>

-----------------------------------------------------------------------------
(* vw_plugin_stop_session_scoped.                                           *)

LastFrames == <<"stop", "shutdown">>

StopSession ==
    /\ phase = "stop" /\ phase' = "drain" /\ sentFlag' = TRUE
    /\ toWorker' = IF broken THEN toWorker ELSE toWorker \o LastFrames
    /\ shutdowns' = shutdowns + IF Contains(LastFrames, "shutdown") THEN 1 ELSE 0
    /\ UNCHANGED <<env, dead, broken, captured, queue, worker, buffered, wire, reports, late, shown>>

DrainFrame ==
    /\ phase = "drain" /\ ~late /\ wire # <<>> /\ wire' = Tail(wire)
    /\ phase' = (IF Head(wire) = "eof" THEN "shutdown" ELSE "drain")
    /\ shown' = IF Head(wire) = "caption" THEN shown + 1 ELSE shown
    /\ UNCHANGED <<env, dead, broken, captured, queue, toWorker, worker, buffered, reports, late,
                   sentFlag, shutdowns>>

\* Nothing in 250 ms.
DrainTimeout == phase = "drain" /\ wire = <<>> /\ UNCHANGED vars

\* Mutant: the loop waits for the end of the stream only.
GiveUp_Never ==
    /\ phase = "drain" /\ late /\ wire # <<>> /\ wire' = Tail(wire)
    /\ phase' = (IF Head(wire) = "eof" THEN "shutdown" ELSE "drain")
    /\ UNCHANGED <<env, dead, broken, captured, queue, toWorker, worker, buffered, reports, late,
                   shown, sentFlag, shutdowns>>

\* The watchdog is looked at before every receive.
GiveUp ==
    /\ phase = "drain" /\ late /\ phase' = "shutdown"
    /\ UNCHANGED <<env, dead, broken, captured, queue, toWorker, worker, buffered, wire, reports,
                   late, shown, sentFlag, shutdowns>>

\* vw_plugin_shutdown_scoped.
Shutdown ==
    /\ phase = "shutdown" /\ phase' = "disconnect" /\ sentFlag' = FALSE
    /\ IF sentFlag THEN UNCHANGED <<toWorker, shutdowns>>
       ELSE /\ shutdowns' = shutdowns + 1
            /\ toWorker' = IF broken THEN toWorker ELSE Append(toWorker, "shutdown")
    /\ UNCHANGED <<env, dead, broken, captured, queue, worker, buffered, wire, reports, late, shown>>

\* Close the pipe, wait five seconds for the worker, then end it.
Disconnect ==
    /\ phase = "disconnect" /\ phase' = "closed" /\ worker' = "gone" /\ broken' = TRUE
    /\ UNCHANGED <<env, dead, captured, queue, toWorker, buffered, wire, reports, late, shown,
                   sentFlag, shutdowns>>

-----------------------------------------------------------------------------
(* The worker, and time.                                                    *)

WorkerTakes ==
    /\ worker = "up" /\ toWorker # <<>> /\ toWorker' = Tail(toWorker)
    /\ \/ /\ Head(toWorker) = "audio" /\ buffered' = buffered + 1
          /\ UNCHANGED <<worker, wire, broken>>
       \/ /\ Head(toWorker) = "stop"
          /\ wire' = wire \o [i \in 1 .. buffered |-> "caption"] /\ buffered' = 0
          /\ UNCHANGED <<worker, broken>>
       \/ /\ Head(toWorker) = "shutdown"
          /\ wire' = wire \o [i \in 1 .. buffered |-> "caption"] \o <<"eof">> /\ buffered' = 0
          /\ worker' = "gone" /\ broken' = TRUE
    /\ UNCHANGED <<phase, env, dead, captured, queue, reports, late, shown, sentFlag, shutdowns>>

WorkerReports ==
    /\ worker = "up" /\ reports < MaxReports /\ reports' = reports + 1
    /\ wire' = Append(wire, "report")
    /\ UNCHANGED <<phase, env, dead, broken, captured, queue, toWorker, worker, buffered, late,
                   shown, sentFlag, shutdowns>>

WorkerCaptions ==
    /\ worker = "up" /\ buffered > 0 /\ buffered' = buffered - 1 /\ wire' = Append(wire, "caption")
    /\ UNCHANGED <<phase, env, dead, broken, captured, queue, toWorker, worker, reports, late,
                   shown, sentFlag, shutdowns>>

WorkerHangs ==
    /\ worker = "up" /\ worker' = "hung" /\ fault' = TRUE
    /\ UNCHANGED <<phase, client, source, dead, broken, captured, queue, toWorker, buffered, wire, reports,
                   late, shown, sentFlag, shutdowns>>

WorkerDies ==
    /\ worker # "gone" /\ worker' = "gone" /\ broken' = TRUE /\ wire' = Append(wire, "eof")
    /\ fault' = TRUE
    /\ UNCHANGED <<phase, client, source, dead, captured, queue, toWorker, buffered, reports, late, shown,
                   sentFlag, shutdowns>>

Watchdog ==
    /\ phase = "drain" /\ ~late /\ late' = TRUE
    /\ UNCHANGED <<phase, env, dead, broken, captured, queue, toWorker, worker, buffered, wire,
                   reports, shown, sentFlag, shutdowns>>

Closing == Join \/ ClearPresenter \/ StopSession \/ DrainFrame \/ GiveUp \/ Shutdown \/ Disconnect
Others ==
    \/ Captures \/ SenderSends \/ SenderReceives \/ Close
    \/ WorkerTakes \/ WorkerReports \/ WorkerCaptions \/ WorkerHangs \/ WorkerDies
Done == phase = "closed" /\ UNCHANGED vars

Next == Closing \/ DrainTimeout \/ Others \/ Watchdog \/ Done

Spec == Init /\ [][Next]_vars

(* The closing thread runs, the sender thread ends once it is told to, and  *)
(* time passes.  Nothing is asked of the worker.                            *)
LiveSpec == Spec /\ WF_vars(Closing) /\ WF_vars(Watchdog)

-----------------------------------------------------------------------------
(* Properties                                                               *)

\* Type invariant.
CloseTypeOK ==
    /\ phase \in {"running", "join", "clear", "stop", "drain", "shutdown", "disconnect", "closed"}
    /\ queue \in 0 .. QueueSize /\ shown \in 0 .. captured /\ buffered \in 0 .. captured
    /\ worker \in {"up", "hung", "gone"} /\ shutdowns \in Nat

\* However close goes, a worker that is there is told to shut down, and once:
\* the wrapped calls neither lose SHUTDOWN nor repeat it.
ToldOnce == phase = "closed" /\ client => shutdowns = 1

\* All live audio captured before close has its caption shown, also what was
\* still queued, when the worker ended its stream by itself in time.
TailShown == phase = "closed" /\ client /\ ~fault /\ ~late => shown = captured

\* The teardown loses neither the last words nor the SHUTDOWN.
OrderlyClose == ToldOnce /\ TailShown

\* vw_plugin_close ends, whatever the worker does.
CloseEnds == phase = "join" ~> phase = "closed"
=============================================================================
