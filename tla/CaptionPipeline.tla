-------------------------- MODULE CaptionPipeline --------------------------
(***************************************************************************)
(* The caption path of the worker's main loop (vw_worker_run in            *)
(* worker/src/vw_worker.c) on top of the translation pool: segments leave  *)
(* the builder, pass through the pool or go straight to the IPC stream,    *)
(* and the frames that reset or end a session empty the pipeline.          *)
(*                                                                         *)
(* One iteration handles at most one frame, then delivers, then empties    *)
(* the builder, then delivers again.  The pool's threads interleave with   *)
(* every step.  vw_worker_translation_diag_override.h is compiled into the *)
(* worker and wraps submit, try_deliver and send: it is part of the model. *)
(*                                                                         *)
(* A segment is its id; how it was transcribed and whether its translation *)
(* succeeded are nondeterministic choices.                                 *)
(***************************************************************************)
EXTENDS TranslateAsync

CONSTANTS
    MaxSegments,    \* bound: segments the builder makes
    MaxSessions     \* bound: sessions the plugin starts

ASSUME PipelineAssumption == MaxSegments \in 0 .. MaxCues /\ MaxSessions \in Nat

VARIABLES
    main,           \* the phase of the main loop
    ending,         \* the frame that "tail" and "drain" work for
    running,
    session,        \* session_id, 0 before the first START
    sessionActive,
    paused,
    sourceMode,     \* source_mode, with an open decoder
    eof,            \* source_eof
    translating,    \* translate_enabled
    residual,       \* the audio buffer holds samples
    backlog,        \* the builder's finished segments, oldest first
    made,           \* segments made so far
    cueSegs,        \* cueSegs[n]: the segment submitted as cue n of the epoch
    wire,           \* the caption and diagnostic frames written, partial ones too
    registered,     \* the diagnostics know the transport
    latched,        \* a diagnostic write failed: the transport is unusable
    rejected,       \* history: segments the pool turned down
    forgotten       \* history: segments a reset dropped on purpose

sessionVars == <<session, sessionActive, paused, sourceMode, eof, translating>>
builderVars == <<residual, backlog, made>>
wireVars == <<wire, registered, latched>>
pipeVars == <<main, ending, running, sessionVars, builderVars, cueSegs, wireVars,
              rejected, forgotten>>

allVars == <<vars, pipeVars>>

Segments == 1 .. MaxSegments
Sessions == 0 .. MaxSessions
Segment == [id : Segments, session : Sessions]

Frame(k, s, ok) == [kind |-> k, id |-> s.id, session |-> s.session, whole |-> ok]

\* The phases in which the main loop hands completions over.
Delivering == {"deliver1", "deliver2", "drain"}

\* has_result: the next completion in order is available.
HasResult == \E c \in results : c.ordinal = nextResult

\* has_pending counts stale work too.
HasPending == jobs # << >> \/ inflight # 0 \/ results # {}

PipeInit ==
    /\ Init
    /\ main = "frame" /\ ending = "none" /\ running = TRUE
    /\ session = 0 /\ sessionActive = FALSE /\ paused = FALSE
    /\ sourceMode = FALSE /\ eof = FALSE /\ translating = FALSE
    /\ residual = FALSE /\ backlog = << >> /\ made = 0 /\ cueSegs = << >>
    /\ wire = << >> /\ registered = FALSE /\ latched = FALSE
    /\ rejected = {} /\ forgotten = {}

-----------------------------------------------------------------------------
(* Writing to the peer.  A write that fails may have written a part of the *)
(* frame, and a later one may succeed again (vw_ipc_send gives up after    *)
(* three seconds).  Any failure ends the worker.                           *)

\* The latch counts for the transport that was registered.
Latched == latched /\ registered

\* A caption goes out, or fails and ends the loop; a latched transport takes
\* nothing any more.
WriteCaption(s) ==
    \/ /\ ~Latched
       /\ \E ok \in BOOLEAN :
            /\ wire' = Append(wire, Frame("caption", s, ok))
            /\ running' = (running /\ ok)
    \/ Latched /\ UNCHANGED wire /\ running' = FALSE

\* Mutant: the failure is not remembered.
FailDiagnostic_NotLatched(s) ==
    /\ wire' = Append(wire, Frame("error", s, FALSE))
    /\ latched' = latched
    /\ running' = (running /\ ~registered)

\* A diagnostic that fails half-way latches the transport, and reaches the
\* worker's flags through what the delivery adapter registered.
FailDiagnostic(s) ==
    /\ wire' = Append(wire, Frame("error", s, FALSE))
    /\ latched' = TRUE
    /\ running' = (running /\ ~registered)

\* The diagnostic, and the source caption immediately after it.
WriteBlamed(s) ==
    \/ /\ \E ok \in BOOLEAN :
            /\ wire' = wire \o <<Frame("error", s, TRUE), Frame("caption", s, ok)>>
            /\ running' = (running /\ ok)
       /\ UNCHANGED latched
    \/ FailDiagnostic(s)

\* A reply (STATUS, STARTED, a session ERROR): only its failure matters here.
Reply == running' \in IF Latched THEN {FALSE} ELSE {running, FALSE}

-----------------------------------------------------------------------------
(* Emptying the pipeline                                                   *)

InBuilder == {backlog[i].id : i \in DOMAIN backlog}

\* Submitted segments that were not handed over.
InPool == {cueSegs[c].id : c \in (Consumed + 1) .. accepted}

\* vw_audio_buffer_clear and vw_segment_builder_clear; the pool keeps its work.
ClearBuffers ==
    /\ residual' = FALSE
    /\ backlog' = << >>
    /\ forgotten' = forgotten \cup InBuilder
    /\ UNCHANGED <<vars, made, cueSegs>>

\* Both, and vw_translate_async_invalidate.
Reset ==
    /\ Invalidate
    /\ residual' = FALSE
    /\ backlog' = << >>
    /\ cueSegs' = << >>
    /\ forgotten' = forgotten \cup InBuilder \cup InPool
    /\ UNCHANGED made

\* Inference adds between 0 and most segments to the builder.
Transcribe(most) ==
    \E n \in 0 .. most :
        /\ made + n <= MaxSegments
        /\ made' = made + n
        /\ backlog' = backlog \o [i \in 1 .. n |-> [id |-> made + i, session |-> session]]

-----------------------------------------------------------------------------
(* The frame handlers.  Each one that names a session ignores the frame    *)
(* unless it is the current one; such a frame is OtherFrame.               *)

NextFrame == main = "frame" /\ running /\ owner = "running"

\* No frame, or one that does not touch the caption path.
OtherFrame ==
    /\ NextFrame
    /\ main' = "deliver1"
    /\ UNCHANGED <<vars, ending, running, sessionVars, builderVars, cueSegs, wireVars,
                   rejected, forgotten>>

\* A new session, with a source decoder or with live audio.
StartSession ==
    /\ NextFrame
    /\ session < MaxSessions
    /\ Reset
    /\ session' = session + 1
    /\ sessionActive' = TRUE
    /\ paused' = FALSE
    /\ sourceMode' \in BOOLEAN
    /\ eof' = FALSE
    /\ Reply
    /\ main' = "deliver1"
    /\ UNCHANGED <<ending, translating, wireVars, rejected>>

\* A media swap whose START is refused: the old session is over, its
\* completions are still in the pool.
StartRefused ==
    /\ NextFrame
    /\ sessionActive
    /\ sessionActive' = FALSE
    /\ sourceMode' = FALSE
    /\ residual' = FALSE
    /\ backlog' = << >>
    /\ forgotten' = forgotten \cup InBuilder \cup InPool
    /\ Reply
    /\ main' = "deliver1"
    /\ UNCHANGED <<vars, ending, session, paused, eof, translating, made, cueSegs, wireVars,
                   rejected>>

\* AUDIO_PCM of the live session; a failed inference or reply ends the loop.
Audio ==
    /\ NextFrame
    /\ sessionActive /\ ~paused /\ ~sourceMode
    /\ Transcribe(2)
    /\ residual' \in BOOLEAN
    /\ Reply
    /\ main' = "deliver1"
    /\ UNCHANGED <<vars, ending, sessionVars, cueSegs, wireVars, rejected, forgotten>>

\* Mutant: PAUSE leaves the translations running.
Pause_KeepsPool ==
    /\ NextFrame
    /\ sessionActive
    /\ residual' = FALSE
    /\ backlog' = << >>
    /\ forgotten' = forgotten \cup InBuilder \cup InPool
    /\ paused' = TRUE
    /\ Reply
    /\ main' = "deliver1"
    /\ UNCHANGED <<vars, made, cueSegs, ending, session, sessionActive, sourceMode, eof,
                   translating, wireVars, rejected>>

Pause ==
    /\ NextFrame
    /\ sessionActive
    /\ Reset
    /\ paused' = TRUE
    /\ Reply
    /\ main' = "deliver1"
    /\ UNCHANGED <<ending, session, sessionActive, sourceMode, eof, translating, wireVars,
                   rejected>>

\* RESUME empties the pipeline only when it could re-seek the source.
Resume ==
    /\ NextFrame
    /\ sessionActive
    /\ paused' = FALSE
    /\ \/ sourceMode /\ Reset /\ eof' = FALSE
       \/ UNCHANGED <<vars, builderVars, cueSegs, forgotten, eof>>
    /\ Reply
    /\ main' = "deliver1"
    /\ UNCHANGED <<ending, session, sessionActive, sourceMode, translating, wireVars, rejected>>

\* POSITION.  It may pause or resume (rewind: the source could be re-seeked)
\* without touching the pool, and it may seek the source, which empties it.
\* A failed reply ends the handler before the seek.
Position(toggle, rewind, seek) ==
    /\ NextFrame
    /\ sessionActive
    /\ rewind => toggle /\ paused /\ sourceMode
    /\ seek => sourceMode
    /\ paused' = (paused # toggle)
    /\ IF toggle THEN Reply ELSE UNCHANGED running
    /\ seek => running'
    /\ eof' = (eof /\ ~rewind /\ ~seek)
    /\ IF seek THEN Reset
       ELSE IF rewind \/ (toggle /\ ~paused) THEN ClearBuffers
       ELSE UNCHANGED <<vars, builderVars, cueSegs, forgotten>>
    /\ main' = "deliver1"
    /\ UNCHANGED <<ending, session, sessionActive, sourceMode, translating, wireVars, rejected>>

\* TRANSLATE_CTRL leaves the builder alone and invalidates the pool.
TranslateCtrl ==
    /\ NextFrame
    /\ session # 0
    /\ Invalidate
    /\ translating' \in BOOLEAN
    /\ cueSegs' = << >>
    /\ forgotten' = forgotten \cup InPool
    /\ main' = "deliver1"
    /\ UNCHANGED <<ending, running, session, sessionActive, paused, sourceMode, eof,
                   builderVars, wireVars, rejected>>

\* What follows the tail: both handlers drain the pool of an active session.
AfterTail == IF sessionActive THEN "drain" ELSE "ended"

\* STOP at the end of the media and SHUTDOWN of an active session transcribe
\* what is left of a live stream.
HasTail(why) ==
    /\ residual /\ ~sourceMode
    /\ why = "media_end" \/ (why = "shutdown" /\ sessionActive)

\* STOP of the current session (active or not) for one of three reasons, or
\* SHUTDOWN.  An inference that fails on the tail ends the worker, and what it
\* added to the builder so far is not emitted by the tail.
EndSession(why) ==
    /\ NextFrame
    /\ why # "shutdown" => session # 0 /\ epoch < MaxEpoch
    /\ ending' = why
    /\ \/ /\ HasTail(why)
          /\ Transcribe(1)
          /\ residual' \in BOOLEAN
          /\ \/ ~residual' /\ main' = "tail" /\ UNCHANGED running
             \/ main' = AfterTail /\ running' = FALSE
       \/ /\ ~HasTail(why)
          /\ main' = IF why = "seek" THEN "ended" ELSE AfterTail
          /\ UNCHANGED <<builderVars, running>>
    /\ UNCHANGED <<vars, sessionVars, cueSegs, wireVars, rejected, forgotten>>

-----------------------------------------------------------------------------
(* The source decoder: phase "source"                                      *)

Decoding == main = "source" /\ sessionActive /\ sourceMode /\ ~paused /\ ~eof

\* Nothing to decode, or far enough ahead of the playback.
SourceIdle ==
    /\ main = "source"
    /\ main' = "build"
    /\ UNCHANGED <<vars, ending, running, sessionVars, builderVars, cueSegs, wireVars,
                   rejected, forgotten>>

\* A chunk, or the end of the source: then the whole buffer is transcribed.
SourceRead ==
    /\ Decoding
    /\ Transcribe(2)
    /\ eof' \in BOOLEAN
    /\ residual' \in IF eof' THEN {FALSE} ELSE BOOLEAN
    /\ Reply
    /\ main' = "build"
    /\ UNCHANGED <<vars, ending, session, sessionActive, paused, sourceMode, translating,
                   cueSegs, wireVars, rejected, forgotten>>

\* The tail at the end of the source cannot be transcribed: the loop is left
\* on the spot, without another delivery.
SourceTailFails ==
    /\ Decoding
    /\ eof' = TRUE
    /\ running' = FALSE
    /\ Transcribe(1)
    /\ main' = "frame"
    /\ UNCHANGED <<vars, ending, session, sessionActive, paused, sourceMode, translating,
                   residual, cueSegs, wireVars, rejected, forgotten>>

SourceReadError ==
    /\ Decoding
    /\ Reply
    /\ sessionActive' = FALSE
    /\ eof' = TRUE
    /\ sourceMode' = FALSE
    /\ Reset
    /\ main' = "build"
    /\ UNCHANGED <<ending, session, paused, translating, wireVars, rejected>>

-----------------------------------------------------------------------------
(* The builder's segments, one at a time: phases "build" and "tail"        *)

Emitting == main \in {"build", "tail"} /\ backlog # << >>

\* Mutant: the source text is shown at once, and the translation follows.
SubmitSegment_AlsoSends ==
    /\ Emitting /\ translating /\ ~Latched
    /\ Submit
    /\ cueSegs' = Append(cueSegs, Head(backlog))
    /\ WriteCaption(Head(backlog))
    /\ backlog' = Tail(backlog)
    /\ UNCHANGED <<main, ending, sessionVars, residual, made, registered, latched,
                   rejected, forgotten>>

\* The pool takes the segment.
SubmitSegment ==
    /\ Emitting /\ translating /\ ~Latched
    /\ Submit
    /\ cueSegs' = Append(cueSegs, Head(backlog))
    /\ backlog' = Tail(backlog)
    /\ UNCHANGED <<main, ending, running, sessionVars, residual, made, wireVars,
                   rejected, forgotten>>

\* Once the transport is latched a segment counts as handled.
SwallowSegment ==
    /\ Emitting /\ translating /\ Latched
    /\ backlog' = Tail(backlog)
    /\ UNCHANGED <<vars, main, ending, running, sessionVars, residual, made, cueSegs,
                   wireVars, rejected, forgotten>>

\* The tail ends at the first caption that cannot be written, which stops the
\* worker; the builder's loop goes on with the next segment.
TailEndsIf(failed) == main' = IF main = "tail" /\ failed THEN AfterTail ELSE main

LastIsTorn(w) == w # << >> /\ w[Len(w)].kind = "caption" /\ ~w[Len(w)].whole

\* The pool has no room: blame, then the source caption at once.  A failed
\* diagnostic suppresses the caption.
RejectSegment ==
    /\ Emitting /\ translating /\ ~Latched
    /\ ~Admits
    /\ WriteBlamed(Head(backlog))
    /\ TailEndsIf(LastIsTorn(wire'))
    /\ rejected' = rejected \cup {Head(backlog).id}
    /\ backlog' = Tail(backlog)
    /\ UNCHANGED <<vars, ending, sessionVars, residual, made, cueSegs, registered, forgotten>>

\* No translation: the caption goes straight out.
SendSegment ==
    /\ Emitting /\ ~translating
    /\ WriteCaption(Head(backlog))
    /\ TailEndsIf(Latched \/ LastIsTorn(wire'))
    /\ backlog' = Tail(backlog)
    /\ UNCHANGED <<vars, ending, sessionVars, residual, made, cueSegs, registered, latched,
                   rejected, forgotten>>

\* Nothing left to emit.  SHUTDOWN answers with a STATUS after the tail.
EmittingDone ==
    /\ backlog = << >>
    /\ \/ main = "build" /\ main' = "deliver2" /\ UNCHANGED running
       \/ /\ main = "tail"
          /\ main' = AfterTail
          /\ IF ending = "shutdown" THEN Reply ELSE UNCHANGED running
    /\ UNCHANGED <<vars, ending, sessionVars, builderVars, cueSegs, wireVars, rejected,
                   forgotten>>

-----------------------------------------------------------------------------
(* Delivery: phases "deliver1", "deliver2" and "drain"                     *)

\* Registering a transport for the first time clears the latch.
Register ==
    /\ registered' = TRUE
    /\ latched' = Latched

\* try_deliver, wrapped: it registers the transport and refuses a latched one.
TakeCompletion ==
    /\ main \in Delivering
    /\ main = "drain" => running
    /\ ~Latched
    /\ TryDeliver
    /\ Register
    /\ UNCHANGED <<main, ending, running, sessionVars, builderVars, cueSegs, wire,
                   rejected, forgotten>>

\* The callback.  A completion of another session, or with no session, is
\* dropped; a translation that failed is blamed before its caption.
HandOver ==
    LET s == cueSegs[held.cue] IN
    /\ main \in Delivering
    /\ DeliverHeld
    /\ IF sessionActive /\ s.session = session
       THEN (WriteCaption(s) /\ UNCHANGED latched) \/ WriteBlamed(s)
       ELSE UNCHANGED <<wire, running, latched>>
    /\ UNCHANGED <<main, ending, sessionVars, builderVars, cueSegs, registered, rejected,
                   forgotten>>

\* Nothing (more) to deliver; a latched transport also ends the loop.
DeliveryDone ==
    /\ owner = "running"
    /\ \/ main = "deliver1" /\ main' = "source"
       \/ main = "deliver2" /\ main' = "frame"
    /\ Latched \/ ~HasResult
    /\ Register
    /\ running' = (running /\ ~Latched)
    /\ UNCHANGED <<vars, ending, sessionVars, builderVars, cueSegs, wire, rejected, forgotten>>

\* Mutant: the drain does not wait for the work in flight.
DrainDone_IgnoresInflight ==
    /\ main = "drain" /\ owner = "running"
    /\ ~running \/ (jobs = << >> /\ results = {})
    /\ main' = "ended"
    /\ UNCHANGED <<vars, ending, running, sessionVars, builderVars, cueSegs, wireVars,
                   rejected, forgotten>>

\* Mutant: the drain does not notice that the worker is to stop.
DrainDone_IgnoresStop ==
    /\ main = "drain" /\ owner = "running"
    /\ ~HasPending
    /\ main' = "ended"
    /\ UNCHANGED <<vars, ending, running, sessionVars, builderVars, cueSegs, wireVars,
                   rejected, forgotten>>

\* The drain sleeps while work is pending and nothing is deliverable.
DrainDone ==
    /\ main = "drain" /\ owner = "running"
    /\ ~running \/ ~HasPending
    /\ main' = "ended"
    /\ UNCHANGED <<vars, ending, running, sessionVars, builderVars, cueSegs, wireVars,
                   rejected, forgotten>>

\* The rest of the STOP handler.
StopDone ==
    /\ main = "ended" /\ ending # "shutdown"
    /\ Reset
    /\ sessionActive' = FALSE
    /\ sourceMode' = FALSE
    /\ IF running THEN Reply ELSE UNCHANGED running
    /\ ending' = "none"
    /\ main' = "deliver1"
    /\ UNCHANGED <<session, paused, eof, translating, wireVars, rejected>>

\* The rest of the SHUTDOWN handler.
ShutdownDone ==
    /\ main = "ended" /\ ending = "shutdown"
    /\ running' = FALSE
    /\ sourceMode' = FALSE
    /\ ending' = "none"
    /\ main' = "deliver1"
    /\ UNCHANGED <<vars, session, sessionActive, paused, eof, translating, builderVars,
                   cueSegs, wireVars, rejected, forgotten>>

-----------------------------------------------------------------------------
(* The life of the worker around the loop                                  *)

\* The reader thread stops the worker when the peer is gone; a frame that
\* cannot be decoded stops it as well.
PeerGone ==
    /\ running /\ owner \in {"running", "delivering"}
    /\ running' = FALSE
    /\ UNCHANGED <<vars, main, ending, sessionVars, builderVars, cueSegs, wireVars, rejected,
                   forgotten>>

Leave ==
    /\ main = "frame" /\ ~running
    /\ Destroy
    /\ main' = "exit"
    /\ UNCHANGED <<ending, running, sessionVars, builderVars, cueSegs, wireVars, rejected,
                   forgotten>>

PoolOnly ==
    /\ CreateThread \/ Free \/ Gone \/ \E t \in Threads : ThreadStep(t) \/ SpuriousWakeup(t)
    /\ UNCHANGED pipeVars

HandleFrame ==
    \/ OtherFrame \/ StartSession \/ StartRefused \/ Audio \/ Pause \/ Resume
    \/ \E toggle, rewind, seek \in BOOLEAN : Position(toggle, rewind, seek)
    \/ TranslateCtrl
    \/ \E why \in {"stop", "seek", "media_end", "shutdown"} : EndSession(why)

\* Everything the loop does by itself.
MainStep ==
    \/ SourceIdle \/ SourceRead \/ SourceTailFails \/ SourceReadError
    \/ SubmitSegment \/ SwallowSegment \/ RejectSegment \/ SendSegment \/ EmittingDone
    \/ TakeCompletion \/ HandOver \/ DeliveryDone \/ DrainDone \/ StopDone \/ ShutdownDone
    \/ Leave

PipeNext == HandleFrame \/ MainStep \/ PoolOnly \/ PeerGone

PipeSpec == PipeInit /\ [][PipeNext]_allVars

\* The main loop is never stuck: its own steps, and the pool's threads, run.
\* No frame ever has to arrive.
PipeFairness ==
    /\ WF_allVars(MainStep)
    /\ WF_allVars(CreateThread /\ UNCHANGED pipeVars)
    /\ WF_allVars(Free /\ UNCHANGED pipeVars)
    /\ \A t \in Threads : WF_allVars(ThreadStep(t) /\ UNCHANGED pipeVars)

PipeFairSpec == PipeSpec /\ PipeFairness

-----------------------------------------------------------------------------
(* Properties                                                              *)

\* The main loop's own state is well-typed, and the pool's too.
PipeTypeOK ==
    /\ TypeOK
    /\ main \in {"frame", "deliver1", "source", "build", "deliver2", "tail", "drain",
                 "ended", "exit"}
    /\ ending \in {"none", "stop", "seek", "media_end", "shutdown"}
    /\ {running, sessionActive, paused, sourceMode, eof, translating, residual, registered,
        latched} \subseteq BOOLEAN
    /\ session \in Sessions /\ made \in 0 .. MaxSegments
    /\ backlog \in Seq(Segment) /\ cueSegs \in Seq(Segment)
    /\ Len(cueSegs) = accepted

CaptionAt(i) == wire[i].kind = "caption"

\* A caption is only ever written for the session that is active at that
\* moment, and what a reset dropped stays dropped: after a PAUSE, a seek, a
\* STOP, a START or a refused one, or a change of the translation settings, no
\* caption of a segment that was in the builder or in the pool at that moment
\* is written, although threads may still be translating it.
NoStaleCaption ==
    [][\A i \in DOMAIN wire' \ DOMAIN wire :
          /\ sessionActive /\ wire'[i].session = session
          /\ wire'[i].id \notin forgotten]_allVars

\* A segment is captioned once, through whichever path it went, and only one
\* the full pool turned down can overtake an older one.
OnceAndInOrder ==
    \A i, j \in DOMAIN wire :
        (i < j /\ CaptionAt(i) /\ CaptionAt(j)) =>
            /\ wire[i].id # wire[j].id
            /\ wire[i].id > wire[j].id => wire[i].id \in rejected

\* docs/api-contracts.md: a failed translation "emits a recoverable
\* translation ERROR diagnostic immediately before the source-only fallback
\* cue", with "the same session identity"; and "once a diagnostic write has
\* failed, never append another worker frame".
BlamePrecedesItsCaption ==
    \A i \in DOMAIN wire : wire[i].kind = "error" =>
        IF wire[i].whole
        THEN /\ i + 1 \in DOMAIN wire /\ CaptionAt(i + 1)
             /\ wire[i + 1].id = wire[i].id /\ wire[i + 1].session = wire[i].session
        ELSE i = Len(wire)

Captioned == {wire[i].id : i \in {j \in DOMAIN wire : CaptionAt(j)}}

\* When the drain of a STOP or SHUTDOWN is over and nothing has failed, every
\* segment was captioned, the tail included, except the ones an earlier reset
\* dropped: the worker "finishes accepted translation work".
DrainLeavesNothing ==
    (main = "ended" /\ ending \in {"stop", "media_end", "shutdown"} /\ running /\ sessionActive)
        => 1 .. made \subseteq Captioned \cup forgotten

\* The comment in vw_translate_async_submit on rejection: "it never exposes a
\* newer caption ahead of older work".
RejectionKeepsOrder ==
    \A i, j \in DOMAIN wire :
        (i < j /\ CaptionAt(i) /\ CaptionAt(j)) => wire[i].id < wire[j].id

\* A worker that is told to stop leaves its drain, its loop and its pool.
WorkerLeaves == (main = "drain" ~> main # "drain") /\ (~running ~> owner = "freed")
=============================================================================
