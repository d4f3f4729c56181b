---------------------------- MODULE WorkerClient ----------------------------
(***************************************************************************)
(* plugin/src/vw_worker_client.c and the worker's side of the session      *)
(* protocol (worker/src/vw_worker.c): HELLO, START, STOP, PAUSE, POSITION, *)
(* settings, captions, errors and progress over one byte stream in each    *)
(* direction.  The client is used by one thread; its two blocking calls    *)
(* (the handshakes) are actions per frame received.  The caller is free to *)
(* make any call the sender thread makes.                                  *)
(*                                                                         *)
(* The worker of a dropped transport exits on the end of its stream and    *)
(* plays no further part.  The worker's frame queue has a module of its    *)
(* own (WorkerQueue) and is a plain FIFO here.                             *)
(***************************************************************************)
EXTENDS Naturals, Sequences

CONSTANTS
    Settings,       \* translation settings; "off" is one of them
    MaxSessions,    \* bound: session ids drawn
    MaxLaunches,    \* bound: workers launched
    MaxDuplicates,  \* bound: frames repeated by the stream
    MaxCalls,       \* bound: calls of the sender thread that send something
    MaxWorkerFrames \* bound: captions, statuses and errors the worker volunteers

ASSUME ClientAssumption ==
    /\ "off" \in Settings
    /\ {MaxSessions, MaxLaunches, MaxDuplicates, MaxCalls, MaxWorkerFrames} \subseteq Nat

VARIABLES
    c,          \* the client: see Client below
    call,       \* the blocking call in progress: "none", "hello", "start" or "seek"
    pending,    \* the plugin's model_download_id is set
    w,          \* the worker process: see Worker below
    down, up,   \* the two directions of the stream
    drawn, launches, calls, duplicates, volunteered,   \* bounded counters
    accepted,   \* history: sessions a worker has accepted
    returned    \* history: numbers of the last two frames returned to the caller

vars == <<c, call, pending, w, down, up, drawn, launches, calls, duplicates, volunteered,
          accepted, returned>>

\* pipe: pipe_handle; sid, active, source: session_id, session_active and
\* worker_source_active; asked: the START under way names a source; url:
\* active_source_url is set; seen: last_worker_sequence; cfg: the settings
\* cached ("none" when not configured); modern: the worker can translate and
\* names the session in STARTED (minor version 6); paused: what the peer was told last.
NoClient == [pipe |-> FALSE, sid |-> 0, active |-> FALSE, source |-> FALSE,
             asked |-> FALSE, url |-> FALSE, seen |-> 0, cfg |-> "none",
             modern |-> FALSE, paused |-> FALSE]
NoWorker == [alive |-> FALSE, auth |-> FALSE, sid |-> 0,
             active |-> FALSE, source |-> FALSE, paused |-> FALSE, set |-> "off",
             seq |-> 1, loading |-> FALSE]

Init ==
    /\ c = NoClient /\ w = NoWorker /\ call = "none" /\ pending = FALSE
    /\ down = << >> /\ up = << >>
    /\ drawn = 0 /\ launches = 0 /\ calls = 0 /\ duplicates = 0 /\ volunteered = 0
    /\ accepted = {} /\ returned = <<0, 1>>

-----------------------------------------------------------------------------
(* Sending and dropping.                                                    *)

ToWorker(type, sid, arg) == [type |-> type, sid |-> sid, arg |-> arg]

\* vw_worker_client_drop_transport.
Dropped == [c EXCEPT !.pipe = FALSE, !.active = FALSE]
Closed(client) ==
    /\ c' = client /\ down' = << >> /\ up' = << >>
    /\ w' = NoWorker /\ call' = "none"

\* A frame goes out whole, or fails half-way and costs the transport.
Sends(frames, client, waiting) ==
    /\ calls < MaxCalls /\ calls' = calls + 1
    /\ \/ /\ down' = down \o frames /\ c' = client /\ call' = waiting
          /\ UNCHANGED <<w, up>>
       \/ Closed(Dropped)

Idle == call = "none" /\ c.pipe
InSession == Idle /\ c.active
CallKeeps == UNCHANGED <<launches, duplicates, volunteered, accepted, returned>>
WaitKeeps == UNCHANGED <<pending, drawn, calls>> /\ CallKeeps

-----------------------------------------------------------------------------
(* vw_worker_client_launch_and_connect_ex, up to the wait for HELLO_ACK; an *)
(* old client was disconnected before.                                      *)

Launch ==
    /\ call = "none" /\ ~c.pipe /\ launches < MaxLaunches
    /\ launches' = launches + 1
    /\ \E modern \in BOOLEAN :
          /\ w' = [NoWorker EXCEPT !.alive = TRUE]
          /\ c' = [NoClient EXCEPT !.pipe = TRUE, !.modern = modern]
    /\ down' = <<ToWorker("HELLO", 0, 0)>> /\ up' = << >>
    /\ call' = "hello" /\ returned' = <<0, 1>> /\ pending' = FALSE
    /\ UNCHANGED <<drawn, calls, duplicates, volunteered, accepted>>

Ack ==
    /\ call = "hello" /\ up # << >> /\ Head(up).type = "HELLO_ACK"
    /\ up' = Tail(up) /\ call' = "none"
    /\ UNCHANGED <<c, w, down>> /\ WaitKeeps

\* The deadline of either handshake, or the end of the stream.
HandshakeFails ==
    /\ call # "none"
    /\ Closed(Dropped) /\ WaitKeeps

-----------------------------------------------------------------------------
(* The calls of the sender thread.                                          *)

\* The START frame of a new session; a SEEK first stops the old one.
Starting(asked) == [c EXCEPT !.active = FALSE, !.source = FALSE, !.sid = drawn + 1,
                             !.asked = asked]

StartSession(asked) ==
    /\ Idle /\ drawn < MaxSessions /\ drawn' = drawn + 1
    /\ Sends(<<ToWorker("START", drawn + 1, asked)>>, Starting(asked), "start")
    /\ UNCHANGED pending /\ CallKeeps

\* vw_worker_client_send_position, with and without the SEEK flag in source
\* mode.
SendPosition(paused) ==
    /\ InSession
    /\ Sends(<<ToWorker("POSITION", c.sid, paused)>>, [c EXCEPT !.paused = paused], "none")
    /\ UNCHANGED <<pending, drawn>> /\ CallKeeps

SeekSource(paused) ==
    /\ InSession /\ c.source /\ c.url
    /\ drawn < MaxSessions /\ drawn' = drawn + 1
    /\ Sends(<<ToWorker("STOP", c.sid, 0), ToWorker("START", drawn + 1, TRUE)>>,
             [Starting(TRUE) EXCEPT !.paused = paused], "seek")
    /\ UNCHANGED pending /\ CallKeeps

SendAudio ==
    /\ InSession /\ ~c.source
    /\ Sends(<<ToWorker("AUDIO", c.sid, 0)>>, c, "none")
    /\ UNCHANGED <<pending, drawn>> /\ CallKeeps

\* vw_worker_client_send_translate_ctrl: an older worker is never sent what it
\* does not know.
SendTranslate(s) ==
    /\ InSession
    /\ \/ /\ c.modern
          /\ Sends(<<ToWorker("TRANSLATE", c.sid, s)>>, [c EXCEPT !.cfg = s], "none")
       \/ /\ ~c.modern /\ s = "off"
          /\ c' = [c EXCEPT !.cfg = s]
          /\ UNCHANGED <<w, down, up, call, calls>>
    /\ UNCHANGED <<pending, drawn>> /\ CallKeeps

StopSession ==
    /\ InSession
    /\ Sends(<<ToWorker("STOP", c.sid, 0)>>, [c EXCEPT !.active = FALSE], "none")
    /\ UNCHANGED <<pending, drawn>> /\ CallKeeps

PauseOrResume(paused) ==
    /\ InSession
    /\ Sends(<<ToWorker(IF paused THEN "PAUSE" ELSE "RESUME", c.sid, 0)>>,
             [c EXCEPT !.paused = paused], "none")
    /\ UNCHANGED <<pending, drawn>> /\ CallKeeps

\* MODEL_CTRL needs no session.  The plugin remembers what it asked for.
SendModelCtrl ==
    /\ Idle /\ ~pending
    /\ Sends(<<ToWorker("MODEL_CTRL", 0, 0)>>, c, "none")
    /\ pending' = c'.pipe
    /\ UNCHANGED drawn /\ CallKeeps

-----------------------------------------------------------------------------
(* The wait inside vw_worker_client_start_session.                          *)

\* Mutant: the session that STARTED names is not compared.
Confirms_AnySession(f) == f.seq > c.seen

\* The STARTED that confirms: it is newer than the last frame and names the
\* session that was asked for; an older worker names none.
Confirms(f) == f.seq > c.seen /\ (c.modern => f.sid = c.sid)

SourceOf(f) == f.arg

\* What a seek sends once its session is confirmed: the settings and the
\* position with the pause flag of the seek.
AfterSeek ==
    (IF c.cfg # "none" /\ c.modern THEN <<ToWorker("TRANSLATE", c.sid, c.cfg)>> ELSE << >>)
        \o <<ToWorker("POSITION", c.sid, c.paused)>>

Started ==
    LET f == Head(up)
        confirmed == [c EXCEPT !.seen = f.seq, !.active = TRUE, !.source = SourceOf(f),
                               !.url = c.asked, !.paused = (call = "seek" /\ @)]
    IN  /\ call \in {"start", "seek"} /\ up # << >> /\ f.type = "STARTED"
        /\ \/ /\ Confirms(f) /\ (call = "seek" => f.arg)
              /\ c' = confirmed /\ call' = "none" /\ up' = Tail(up) /\ w' = w
              /\ down' = IF call = "seek" THEN down \o AfterSeek ELSE down
           \/ (~Confirms(f) \/ call = "seek") /\ Closed(Dropped)
        /\ WaitKeeps

\* The errors a START handshake reads over: a recoverable translation error of
\* another session, and a source that could not be opened.
ReadOver(f) ==
    \/ f.arg = "translation" /\ f.sid # c.sid
    \/ f.arg = "sourceOpen"

StartError ==
    /\ call \in {"start", "seek"} /\ up # << >> /\ Head(up).type = "ERROR"
    /\ up' = Tail(up)
    /\ call' = IF ReadOver(Head(up)) THEN call ELSE "none"
    /\ UNCHANGED <<c, w, down>> /\ WaitKeeps

\* Captions, statuses and progress are read and forgotten while it waits.
StartDrains ==
    /\ call \in {"start", "seek"} /\ up # << >>
    /\ Head(up).type \in {"CAPTION", "STATUS", "PROGRESS"}
    /\ up' = Tail(up)
    /\ UNCHANGED <<c, call, w, down>> /\ WaitKeeps

-----------------------------------------------------------------------------
(* vw_worker_client_receive_frame.                                          *)

Stale(f) == f.seq <= c.seen

\* STARTED and anything else that comes late is drained and skipped.
Returned == {"CAPTION", "STATUS", "ERROR", "PROGRESS"}

ReceiveFrame ==
    LET f == Head(up)
    IN  /\ Idle /\ up # << >>
        /\ up' = Tail(up)
        /\ c' = [c EXCEPT !.seen = IF Stale(f) THEN @ ELSE f.seq]
        /\ returned' = IF ~Stale(f) /\ f.type \in Returned THEN <<returned[2], f.seq>> ELSE returned
        /\ pending' = (pending /\ ~(~Stale(f) /\ f.type = "PROGRESS"))
        /\ UNCHANGED <<call, w, down, drawn, launches, calls, duplicates, volunteered, accepted>>

\* The end of the stream is noticed, or a frame that cannot be decoded.
ReceiveFails ==
    /\ Idle /\ ~w.alive /\ up = << >>
    /\ Closed(Dropped) /\ pending' = FALSE
    /\ UNCHANGED <<drawn, calls>> /\ CallKeeps

\* vw_worker_client_shutdown, whose write may fail unnoticed, and
\* vw_worker_client_disconnect.
Shutdown ==
    /\ Idle /\ calls < MaxCalls /\ calls' = calls + 1
    /\ \/ down' = Append(down, ToWorker("SHUTDOWN", 0, 0))
       \/ down' = down
    /\ UNCHANGED <<c, call, w, up, pending, drawn>> /\ CallKeeps

Disconnect ==
    /\ call = "none" /\ c # NoClient
    /\ Closed(NoClient) /\ pending' = FALSE
    /\ UNCHANGED <<drawn, calls>> /\ CallKeeps

-----------------------------------------------------------------------------
(* The worker.                                                              *)

Frame(type, sid, seq, arg) == [type |-> type, sid |-> sid, seq |-> seq, arg |-> arg]
Emits(worker, types) ==
    /\ up' = up \o [i \in DOMAIN types |->
                       Frame(types[i][1], types[i][2], w.seq + i, types[i][3])]
    /\ w' = [worker EXCEPT !.seq = w.seq + Len(types)]
WorkerKeeps == UNCHANGED <<c, call, pending, drawn, launches, calls, duplicates>>

Pops(type) == w.alive /\ down # << >> /\ Head(down).type = type /\ down' = Tail(down)

WorkerHello ==
    /\ Pops("HELLO")
    /\ Emits([w EXCEPT !.auth = TRUE], << <<"HELLO_ACK", 0, 0>> >>)
    /\ UNCHANGED <<volunteered, accepted, returned>> /\ WorkerKeeps

NewSession(sid, source) ==
    [w EXCEPT !.sid = sid, !.active = TRUE, !.paused = FALSE, !.source = source]

\* START: rejected without an engine or with a language it does not know (the
\* running session has ended by then); otherwise the session begins, with the source when it can be opened.
WorkerStart ==
    LET f == Head(down)
    IN  /\ Pops("START")
        /\ \/ /\ Emits([w EXCEPT !.active = FALSE], << <<"ERROR", f.sid, "rejected">> >>)
              /\ UNCHANGED accepted
           \/ /\ accepted' = accepted \cup {f.sid}
              /\ \/ Emits(NewSession(f.sid, f.arg),
                          << <<"STARTED", f.sid, f.arg>>, <<"STATUS", f.sid, 0>> >>)
                 \/ /\ f.arg
                    /\ Emits(NewSession(f.sid, FALSE),
                             << <<"ERROR", f.sid, "sourceOpen">>, <<"STARTED", f.sid, FALSE>>,
                                <<"STATUS", f.sid, 0>> >>)
        /\ UNCHANGED <<volunteered, returned>> /\ WorkerKeeps

WorkerStop ==
    /\ Pops("STOP")
    /\ IF Head(down).sid = w.sid
       THEN Emits([w EXCEPT !.active = FALSE, !.source = FALSE], << <<"STATUS", w.sid, 0>> >>)
       ELSE UNCHANGED <<w, up>>
    /\ UNCHANGED <<volunteered, accepted, returned>> /\ WorkerKeeps

\* POSITION (its paused flag), PAUSE and RESUME act on the session they name.
PauseFlag(f) == IF f.type = "POSITION" THEN f.arg ELSE f.type = "PAUSE"

WorkerPauses ==
    LET f == Head(down)
    IN  /\ \E type \in {"POSITION", "PAUSE", "RESUME"} : Pops(type)
        /\ IF w.active /\ f.sid = w.sid /\ (f.type = "POSITION" => f.arg # w.paused)
           THEN Emits([w EXCEPT !.paused = PauseFlag(f)], << <<"STATUS", w.sid, 0>> >>)
           ELSE UNCHANGED <<w, up>>
        /\ UNCHANGED <<volunteered, accepted, returned>> /\ WorkerKeeps

\* Mutant: settings are only taken over while the session runs.
WorkerTranslate_WhileActive ==
    /\ Pops("TRANSLATE")
    /\ w' = IF w.active /\ Head(down).sid = w.sid THEN [w EXCEPT !.set = Head(down).arg] ELSE w
    /\ UNCHANGED <<up, volunteered, accepted, returned>> /\ WorkerKeeps

WorkerTranslate ==
    /\ Pops("TRANSLATE")
    /\ w' = IF Head(down).sid = w.sid THEN [w EXCEPT !.set = Head(down).arg] ELSE w
    /\ UNCHANGED <<up, volunteered, accepted, returned>> /\ WorkerKeeps

WorkerAudio ==
    /\ Pops("AUDIO")
    /\ UNCHANGED <<w, up, volunteered, accepted, returned>> /\ WorkerKeeps

WorkerModelCtrl ==
    /\ Pops("MODEL_CTRL")
    /\ w' = [w EXCEPT !.loading = TRUE]
    /\ UNCHANGED <<up, volunteered, accepted, returned>> /\ WorkerKeeps

\* SHUTDOWN: the worker ends; what it flushes before is CaptionPipeline's matter.
WorkerShutdown ==
    /\ Pops("SHUTDOWN") /\ w' = [w EXCEPT !.alive = FALSE]
    /\ UNCHANGED <<up, volunteered, accepted, returned>> /\ WorkerKeeps

\* What the worker sends by itself: a caption, a translation diagnostic, the
\* failure of its source, the end of a download.
Volunteers ==
    /\ w.alive /\ volunteered < MaxWorkerFrames /\ volunteered' = volunteered + 1
    /\ \/ w.active /\ Emits(w, << <<"CAPTION", w.sid, 0>> >>)
       \/ w.active /\ w.set # "off" /\ Emits(w, << <<"ERROR", w.sid, "translation">> >>)
       \/ /\ w.active /\ w.source
          /\ Emits([w EXCEPT !.active = FALSE, !.source = FALSE],
                   << <<"ERROR", w.sid, "fatal">> >>)
       \/ /\ w.loading
          /\ Emits([w EXCEPT !.loading = FALSE], << <<"PROGRESS", 0, 0>> >>)
    /\ UNCHANGED <<down, accepted, returned>> /\ WorkerKeeps

WorkerDies ==
    /\ w.alive /\ w' = [w EXCEPT !.alive = FALSE]
    /\ UNCHANGED <<down, up, volunteered, accepted, returned>> /\ WorkerKeeps

\* The stream repeats its oldest frame; sequence numbers are there for that.
Repeat ==
    /\ duplicates < MaxDuplicates /\ up # << >>
    /\ Head(up).type # "HELLO_ACK"
    /\ up' = <<Head(up)>> \o up /\ duplicates' = duplicates + 1
    /\ UNCHANGED <<c, call, pending, w, down, drawn, launches, calls, volunteered, accepted, returned>>

WorkerStep ==
    \/ WorkerHello \/ WorkerStart \/ WorkerStop \/ WorkerPauses
    \/ WorkerTranslate \/ WorkerAudio \/ WorkerModelCtrl \/ WorkerShutdown

CallStep == Ack \/ HandshakeFails \/ Started \/ StartError \/ StartDrains

\* The caller has nothing left to do with a client that has no transport.
Over == call = "none" /\ ~c.pipe /\ launches = MaxLaunches /\ UNCHANGED vars

Next ==
    \/ Launch \/ CallStep
    \/ \E asked \in BOOLEAN : StartSession(asked)
    \/ \E paused \in BOOLEAN : 
          SendPosition(paused) \/ PauseOrResume(paused) \/ SeekSource(paused)
    \/ SendAudio \/ StopSession \/ SendModelCtrl
    \/ \E s \in Settings : SendTranslate(s)
    \/ ReceiveFrame \/ ReceiveFails \/ Shutdown \/ Disconnect
    \/ WorkerStep \/ Volunteers \/ WorkerDies \/ Repeat
    \/ Over

Spec == Init /\ [][Next]_vars

-----------------------------------------------------------------------------
(* Properties                                                               *)

\* Type invariant.
ClientTypeOK ==
    /\ c \in [pipe : BOOLEAN, sid : 0 .. MaxSessions, active : BOOLEAN, source : BOOLEAN,
              asked : BOOLEAN, url : BOOLEAN, seen : Nat, cfg : Settings \cup {"none"},
              modern : BOOLEAN, paused : BOOLEAN]
    /\ w \in [alive : BOOLEAN, auth : BOOLEAN, sid : 0 .. MaxSessions,
              active : BOOLEAN, source : BOOLEAN, paused : BOOLEAN, set : Settings,
              seq : Nat, loading : BOOLEAN]
    /\ call \in {"none", "hello", "start", "seek"}
    /\ calls <= MaxCalls /\ accepted \subseteq 1 .. drawn

\* The client believes in a session only when a worker has accepted exactly
\* this session: a late STARTED never confirms the session of a retry
\* (vw_worker_client.c:330-337).  A worker before minor version 6 names no
\* session in its STARTED, and for such a one this does not hold: an error left
\* over from an earlier session ends a START whose STARTED is still to come.
ConfirmedMeansAccepted == c.active /\ c.modern => c.sid \in accepted

\* No frame is returned twice and none after a younger one, however the stream
\* repeats them.
NoFrameTwice == returned[1] < returned[2]

\* The client takes no stale frame for a new one, neither in the START handshake
\* nor from vw_worker_client_receive_frame.
StaleFramesIgnored == ConfirmedMeansAccepted /\ NoFrameTwice

\* In a session both sides are in, they agree on who delivers the audio: when
\* the client believes in source mode it sends none, and when the worker does
\* it takes none, so a disagreement would silence the captions.  Where STARTED
\* names no session, the client may have the mode of another one.
SourceModesAgree ==
    c.active /\ c.modern /\ w.active /\ w.sid = c.sid => c.source = w.source

\* Once the worker has read everything, its translation settings are the ones
\* the client keeps for the session, across seeks and new sessions.
SettingsArrive ==
    c.active /\ w.alive /\ down = << >> /\ w.sid = c.sid /\ c.cfg # "none"
        => w.set = c.cfg

\* ... and so is the pause: it is neither lost nor inherited by a new session.
PauseArrives ==
    c.active /\ w.active /\ down = << >> /\ w.sid = c.sid => w.paused = c.paused

\* What the client keeps of its session is what the worker does: the source
\* mode, the translation settings and the pause, across seeks, errors, retries
\* and new workers.
WorkerFollowsClient == SourceModesAgree /\ SettingsArrive /\ PauseArrives
=============================================================================
