-------------------------- MODULE PluginSupervisor --------------------------
(***************************************************************************)
(* The sender thread of plugin/src/vw_whisper_module.c as the supervisor   *)
(* of the caption worker: it launches the worker, starts sessions, applies *)
(* the user's settings, relays model requests, notices that the transport  *)
(* is dead and launches again under a budget.  What the client does inside *)
(* one call is WorkerClient's matter; here a call has one of its outcomes. *)
(* Audio, captions and the timeline are in PluginEpochs.                   *)
(***************************************************************************)
EXTENDS Naturals

CONSTANTS
    Settings,       \* values of the settings that need a new worker
    Languages,      \* translation settings; "off" is one of them
    MaxRespawns,    \* VW_MAX_WORKER_RESPAWNS
    MaxDeaths,      \* bound: transports that die
    MaxChanges      \* bound: things the user changes or asks for

ASSUME SupervisorAssumption ==
    /\ "off" \in Languages /\ Settings # {}
    /\ {MaxRespawns, MaxDeaths, MaxChanges} \subseteq Nat

VARIABLES
    client,      \* sys->client: "none", "up", or "dropped" (its pipe is gone)
    worker,      \* what runs at the other end, see Workers
    active,      \* sys->session_active
    dead,        \* sys->worker_dead
    respawns,    \* sys->respawn_count
    downloading, \* sys->model_download_id is set
    pc,          \* where the sender loop is
    seen,        \* the settings the config poll has read
    valid,       \* cfg_snapshot_valid
    snap, tsnap, rsnap,     \* the snapshots the poll compares with
    cfg, trans, request,    \* the user's settings, in VLC's config
    broken,      \* a launch may fail at present
    deaths, changes,        \* bounded counters
    refused      \* history: requests that met no client

link == <<client, worker, active, deaths>>
snaps == <<valid, snap, tsnap, rsnap>>
user == <<cfg, trans, request>>
vars == <<link, dead, respawns, downloading, pc, seen, snaps, user, broken, changes, refused>>

\* sent, a history of the translation settings the plugin holds: they were
\* sent to this worker, or not, or its session was begun without them.
Workers == [engine : BOOLEAN, capable : BOOLEAN, runs : Settings, told : Languages,
            sent : {"yes", "no", "skipped"}]
\* "empty" stands for a config string with nothing in it.
Seen == [cfg : Settings, trans : Languages, request : {"empty", "get", "abort"}, first : BOOLEAN]

-----------------------------------------------------------------------------
(* The outcomes of the client's calls.                                      *)

\* A write or a handshake fails: the client has dropped its transport.
Breaks ==
    \/ client = "up" /\ deaths < MaxDeaths /\ client' = "dropped" /\ deaths' = deaths + 1
    \/ client = "dropped" /\ UNCHANGED <<client, deaths>>

\* START on the client there is: a worker with an engine may accept, and is w
\* then; it may be refused, by the worker or before it is sent (a model or a
\* URL too long, no random bytes), with the transport as it was; and the
\* handshake may cost the transport.
Starts(w) ==
    \/ /\ client = "up" /\ worker.engine /\ active' = TRUE /\ worker' = w
       /\ UNCHANGED <<client, deaths>>
    \/ /\ client = "up" /\ active' = FALSE
       /\ UNCHANGED <<client, worker, deaths>>
    \/ Breaks /\ active' = FALSE /\ UNCHANGED worker

\* What a session is told when settings are sent to worker w.
Told(w, settings) == IF w.capable THEN settings ELSE w.told

\* A fresh worker reads its own settings from the config.
Fresh(engine, capable) ==
    [engine |-> engine, capable |-> capable, runs |-> cfg, told |-> "off", sent |-> "no"]

-----------------------------------------------------------------------------
(* vw_plugin_respawn_worker, once the budget allows it: disconnect, launch, *)
(* START, settings.  The loop goes on at `done` or, when it fails, `failed`. *)

\* Mutant: the settings are sent as a fresh worker has them.
Resettled_Default(w) == [w EXCEPT !.told = "off", !.sent = "yes"]

\* The worker of the new session after the settings were sent again.
Resettled(w) == [w EXCEPT !.told = Told(w, tsnap), !.sent = "yes"]

\* A download ends with the worker it was asked of.
Forgets == downloading /\ client = "none"

Respawn(recovery, done, failed) ==
    /\ respawns' = respawns + recovery
    /\ dead' = FALSE /\ downloading' = Forgets
    /\ \/ /\ broken /\ client' = "none" /\ pc' = failed
          /\ UNCHANGED <<worker, active, deaths>>
       \/ \E engine, capable \in BOOLEAN :
            LET w == Fresh(engine, capable)
            IN  \/ /\ engine /\ client' = "up" /\ active' = TRUE /\ pc' = done
                   /\ worker' = Resettled(w) /\ UNCHANGED deaths
                \/ /\ client' = "up" /\ active' = FALSE /\ pc' = failed
                   /\ worker' = w /\ UNCHANGED deaths
                \/ /\ deaths < MaxDeaths /\ deaths' = deaths + 1
                   /\ client' = "dropped" /\ worker' = w
                   /\ \/ active' = FALSE /\ pc' = failed
                      \/ engine /\ active' = TRUE /\ pc' = done

-----------------------------------------------------------------------------
(* vw_plugin_open launches the worker; the thread begins with a session.    *)

Init ==
    /\ cfg \in Settings /\ trans \in Languages /\ request \in {"empty", "get"}
    /\ broken \in BOOLEAN
    /\ \E engine, capable \in BOOLEAN : worker = Fresh(engine, capable)
    /\ client \in IF broken THEN {"none", "up"} ELSE {"up"}
    /\ active = FALSE /\ dead = FALSE /\ respawns = 0 /\ downloading = FALSE
    /\ pc = "begin" /\ valid = FALSE /\ snap = cfg /\ tsnap = "off" /\ rsnap = "empty"
    /\ seen = [cfg |-> cfg, trans |-> "off", request |-> "empty", first |-> TRUE]
    /\ deaths = 0 /\ changes = 0 /\ refused = 0

FirstSession ==
    /\ pc = "begin" /\ pc' = "poll"
    /\ \/ client # "none" /\ Starts(worker)
       \/ client = "none" /\ UNCHANGED link
    /\ UNCHANGED <<dead, respawns, downloading, seen, snaps, user, broken, changes, refused>>

-----------------------------------------------------------------------------
(* The config poll, every two seconds: read, then act on what was read.     *)

Poll ==
    /\ pc = "poll"
    /\ \/ /\ seen' = [cfg |-> cfg, trans |-> trans, request |-> request, first |-> ~valid]
          /\ pc' = "translate" /\ valid' = TRUE
          /\ snap' = IF valid THEN snap ELSE cfg
       \/ valid /\ pc' = "transport" /\ UNCHANGED <<seen, valid, snap>>
    /\ UNCHANGED <<link, dead, respawns, downloading, tsnap, rsnap, user, broken, changes, refused>>

\* Translation settings go to the running session.  A worker that cannot
\* translate, or a write that fails, turns the user's setting off.
SendTranslation ==
    \/ /\ client = "up" /\ (worker.capable \/ seen.trans = "off")
       /\ worker' = [worker EXCEPT !.told = Told(worker, seen.trans), !.sent = "yes"]
       /\ tsnap' = seen.trans
       /\ UNCHANGED <<client, active, deaths, dead, trans>>
    \/ /\ worker.capable /\ Breaks /\ dead' = TRUE
       /\ trans' = "off" /\ tsnap' = IF seen.first THEN "off" ELSE seen.trans
       /\ UNCHANGED <<worker, active>>
    \/ /\ ~worker.capable /\ (seen.trans # "off" \/ client = "dropped")
       /\ trans' = "off" /\ tsnap' = IF seen.first THEN "off" ELSE seen.trans
       /\ UNCHANGED <<link, dead>>

Translate ==
    /\ pc = "translate" /\ pc' = "request"
    /\ IF ~seen.first /\ seen.trans = tsnap
       THEN UNCHANGED <<link, dead, trans, tsnap>>
       ELSE IF client # "none" /\ active THEN SendTranslation
       ELSE /\ tsnap' = seen.trans /\ worker' = [worker EXCEPT !.sent = "no"]
            /\ UNCHANGED <<client, active, deaths, dead, trans>>
    /\ UNCHANGED <<respawns, downloading, seen, valid, snap, rsnap, cfg, request, broken,
                   changes, refused>>

\* A model request is relayed once: the config value is cleared when it is
\* sent.  vw_plugin_send_model_request.
Wanted == seen.request # "empty" /\ (seen.first \/ seen.request # rsnap)

Request ==
    /\ pc = "request" /\ pc' = "settings"
    /\ \/ /\ Wanted /\ client = "up"
          /\ request' = "empty" /\ rsnap' = "empty" /\ downloading' = (seen.request = "get")
          /\ UNCHANGED <<client, deaths, dead, refused>>
       \/ /\ Wanted /\ (Breaks \/ (client = "none" /\ UNCHANGED <<client, deaths>>))
          /\ dead' = TRUE
          /\ refused' = IF client = "none" THEN refused + 1 ELSE refused
          /\ rsnap' = IF seen.first THEN seen.request ELSE rsnap
          /\ UNCHANGED <<request, downloading>>
       \/ /\ ~Wanted /\ rsnap' = IF seen.request = "empty" THEN "empty" ELSE rsnap
          /\ UNCHANGED <<client, deaths, dead, downloading, request, refused>>
    /\ UNCHANGED <<worker, active, respawns, seen, valid, snap, tsnap, cfg, trans, broken, changes>>

\* What was read ends with the poll.
PollOver == [seen EXCEPT !.trans = "off", !.request = "empty", !.first = TRUE]

ApplySettings ==
    /\ pc = "settings"
    /\ IF ~seen.first /\ seen.cfg # snap
       THEN Respawn(0, "transport", "transport") /\ snap' = seen.cfg
       ELSE pc' = "transport" /\ UNCHANGED <<link, dead, respawns, downloading, snap>>
    /\ seen' = PollOver
    /\ UNCHANGED <<valid, tsnap, rsnap, user, broken, changes, refused>>

-----------------------------------------------------------------------------
(* A dead transport, or no worker at all.                                   *)

Recover ==
    /\ pc = "transport" /\ dead
    /\ IF respawns < MaxRespawns
       THEN Respawn(1, "poll", "over")
       ELSE pc' = "over" /\ UNCHANGED <<link, dead, respawns, downloading>>
    /\ UNCHANGED <<seen, snaps, user, broken, changes, refused>>

\* Mutant: without a worker the loop only sleeps.
IdleRetry_Never ==
    /\ pc = "transport" /\ ~dead /\ client = "none" /\ pc' = "poll"
    /\ UNCHANGED <<link, dead, respawns, downloading, seen, snaps, user, broken, changes, refused>>

\* Every ten seconds without a worker the launch is tried again.
IdleRetry ==
    /\ pc = "transport" /\ ~dead /\ client = "none"
    /\ Respawn(0, "poll", "poll")
    /\ UNCHANGED <<seen, snaps, user, broken, changes, refused>>

Proceed ==
    /\ pc = "transport" /\ ~dead
    /\ pc' = IF client = "none" THEN "poll" ELSE "io"
    /\ UNCHANGED <<link, dead, respawns, downloading, seen, snaps, user, broken, changes, refused>>

-----------------------------------------------------------------------------
(* One iteration with a client.                                             *)

\* Positions, pauses and audio: all goes well, or a write fails.  That of a
\* PAUSE, a RESUME or a STOP is not looked at.
Io ==
    /\ pc = "io"
    /\ \/ pc' = "receive" /\ UNCHANGED <<client, deaths, dead>>
       \/ active /\ Breaks /\ dead' = TRUE /\ pc' = "poll"
       \/ Breaks /\ pc' = "receive" /\ UNCHANGED dead
    /\ UNCHANGED <<worker, active, respawns, downloading, seen, snaps, user, broken, changes, refused>>

\* New media: STOP and START.  The worker keeps its settings: none are sent,
\* not even to one that has not had them.
MediaSwap ==
    /\ pc = "io" /\ pc' = "receive"
    /\ Starts([worker EXCEPT !.sent = IF @ = "yes" THEN "yes" ELSE "skipped"])
    /\ UNCHANGED <<dead, respawns, downloading, seen, snaps, user, broken, changes, refused>>

\* A discontinuity of live audio: STOP, START, and the settings again.
LiveRestart ==
    /\ pc = "io" /\ pc' = "receive"
    /\ Starts(Resettled(worker))
    /\ UNCHANGED <<dead, respawns, downloading, seen, snaps, user, broken, changes, refused>>

\* ERROR that is not recoverable: the transport is given up.
Fatal == client = "up" /\ deaths < MaxDeaths /\ deaths' = deaths + 1 /\ dead' = TRUE

\* vw_worker_client_receive_frame: nothing to act on; the end of the stream;
\* an error the worker does not recover from.
Receive ==
    /\ pc = "receive" /\ pc' = "poll"
    /\ \/ client = "up" /\ UNCHANGED <<client, deaths, dead, downloading>>
       \/ Breaks /\ dead' = TRUE /\ downloading' = FALSE
       \/ Fatal /\ UNCHANGED <<client, downloading>>
    /\ UNCHANGED <<worker, active, respawns, seen, snaps, user, broken, changes, refused>>

\* The new model is made the setting, its snapshot and the worker's own.
Activates == Respawn(0, "poll", "poll")

\* MODEL_PROGRESS: a download has failed, or ended and its model is activated.
Progress ==
    /\ pc = "receive" /\ client = "up" /\ downloading
    /\ \/ /\ pc' = "poll" /\ downloading' = FALSE
          /\ UNCHANGED <<link, dead, respawns>>
       \/ Activates
    /\ UNCHANGED <<seen, snaps, user, broken, changes, refused>>

-----------------------------------------------------------------------------
(* The user, and the world the worker is launched in.                       *)

Change ==
    /\ changes < MaxChanges /\ changes' = changes + 1
    /\ \/ cfg' \in Settings \ {cfg} /\ UNCHANGED <<trans, request>>
       \/ trans' \in Languages \ {trans} /\ UNCHANGED <<cfg, request>>
       \/ request' \in {"get", "abort"} \ {request} /\ UNCHANGED <<cfg, trans>>
    /\ UNCHANGED <<link, dead, respawns, downloading, pc, seen, snaps, broken, refused>>

Repair ==
    /\ broken /\ broken' = FALSE
    /\ UNCHANGED <<link, dead, respawns, downloading, pc, seen, snaps, user, changes, refused>>

Sender ==
    \/ FirstSession \/ Poll \/ Translate \/ Request \/ ApplySettings
    \/ Recover \/ IdleRetry \/ Proceed \/ Io \/ MediaSwap \/ LiveRestart
    \/ Receive \/ Progress

Over == pc = "over" /\ UNCHANGED vars

Next == Sender \/ Change \/ Repair \/ Over

Spec == Init /\ [][Next]_vars

(* The thread is scheduled, time passes (so that a retry is due again and   *)
(* again while there is no worker), and what kept a launch from succeeding   *)
(* goes away.                                                               *)
LiveSpec == Spec /\ WF_vars(Sender) /\ SF_vars(IdleRetry) /\ WF_vars(Repair)

-----------------------------------------------------------------------------
(* Properties                                                               *)

\* Type invariant.
SupervisorTypeOK ==
    /\ client \in {"none", "up", "dropped"} /\ worker \in Workers
    /\ active \in BOOLEAN /\ dead \in BOOLEAN /\ downloading \in BOOLEAN
    /\ respawns \in 0 .. MaxRespawns /\ deaths \in 0 .. MaxDeaths
    /\ pc \in {"begin", "poll", "translate", "request", "settings", "transport", "io",
               "receive", "over"}
    /\ seen \in Seen /\ snap \in Settings /\ tsnap \in Languages
    /\ rsnap \in {"empty", "get", "abort"}

\* Whatever restarted the session (a new worker, a seek, new media), it runs
\* with the translation settings the plugin holds for it, with one exception:
\* the first medium after a START was refused, whose START nobody follows up.
SettingsReachSession ==
    client = "up" /\ active /\ valid /\ worker.capable /\ pc \notin {"translate", "begin"}
        => worker.told = tsnap \/ worker.sent = "skipped"

\* A pending download belongs to a worker that can still report on it: when
\* that worker is gone, so is the wait for its DONE.
DownloadHasAWorker == downloading => client # "none"

\* The recovery budget is spent on dead transports, and on one thing more: a
\* model request that finds no worker.
BudgetAccounted == respawns <= deaths + refused

\* What the supervisor keeps across workers is true of the worker it has: the
\* settings, the download it waits for and the budget it has spent.
BooksAgree == SettingsReachSession /\ DownloadHasAWorker /\ BudgetAccounted

\* Without a worker the loop does not idle for ever: a launch that can succeed
\* is tried again.
WorkerReturns == (client = "none") ~> (client # "none" \/ pc = "over")
=============================================================================
