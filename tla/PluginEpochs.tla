---------------------------- MODULE PluginEpochs ----------------------------
(***************************************************************************)
(* Seeks, pauses and captions in plugin/src/vw_whisper_module.c.  VLC's    *)
(* audio thread runs vw_plugin_filter; the sender thread polls the player, *)
(* handles discontinuities, sends audio and shows cues.  They share a      *)
(* queue and two flags.  The audio thread sees a seek only in a jump of    *)
(* the time stamps, which are dates of the audio output and need not jump  *)
(* with the film; the sender sees it only in the position it polls, and    *)
(* the two may notice in either order or not at all.  A run of audio is    *)
(* what lies between two jumps of the time stamps.  The transport does not *)
(* fail here (PluginSupervisor), and cues carry where they come from       *)
(* instead of text.                                                        *)
(***************************************************************************)
EXTENDS Naturals, Sequences, FiniteSets

CONSTANTS
    Modes,          \* of a session: TRUE is source mode, FALSE live
    Places,         \* media positions further apart than any seek threshold
    QueueSize,      \* capacity of the audio queue
    MaxSeeks,       \* bound: seeks, changes of the medium, polls without input in a pause
    MaxJumps,       \* bound: jumps of the time stamps
    MaxToggles,     \* bound: pauses and resumptions
    MaxGaps,        \* bound: runs of blocks without a valid time stamp
    MaxWire,        \* bound: cues on their way to the plugin
    MaxShown        \* bound: cues on the screen at once

\* What the constants are.
EpochsConstants ==
    /\ Places \subseteq 0 .. 99 /\ Places # {} /\ Modes \subseteq BOOLEAN
    /\ {MaxSeeks, MaxJumps, MaxToggles, MaxGaps} \subseteq Nat
    /\ {QueueSize, MaxWire, MaxShown} \subseteq Nat \ {0}

None == 100         \* -1 in the code: no position, no seek

VARIABLES
    pos, seeks, halted, toggles,    \* the player: position, pause
    swapped,                        \* its URI is not active_source_url
    source, show,                   \* source mode; whisper-show-paused
    block, run, gap, gaps,          \* the audio thread: the run of audio it is in
    queue,                          \* the run of each chunk
    disc, drainReq,                 \* discontinuity_pending, invalid_pts_pending
    pc, paused, cur, lastPos, pausedPos, resume, lastSeek, preview,   \* the sender
    stale,                          \* history: the target of a seek is of a medium now gone
    active, sid, heard,             \* session: running, number, audio it was sent
    told,                           \* the seeks and media sent to the worker, the last target
    wire,                           \* cues on their way
    pend, shown                     \* the presenter's pending cue; the screen

player == <<pos, seeks, halted, toggles, swapped>>
audio == <<block, run, gap, gaps>>
polled == <<paused, cur, lastPos, pausedPos, resume, stale>>
session == <<active, sid, heard, told>>
screen == <<pend, shown>>
vars == <<player, source, show, audio, queue, disc, drainReq, pc, polled, lastSeek, preview,
          session, wire, screen>>

NoCue == [sid |-> 0, of |-> 0, at |-> None, stays |-> FALSE]

Init ==
    /\ pos \in Places /\ seeks = 0 /\ halted = FALSE /\ toggles = 0
    /\ swapped = FALSE /\ source \in Modes /\ show \in IF TRUE \in Modes THEN BOOLEAN ELSE {FALSE}
    /\ block = 0 /\ run = 0 /\ gap = "no" /\ gaps = 0 /\ queue = <<>>
    /\ disc = FALSE /\ drainReq = FALSE
    /\ pc = "poll" /\ paused = FALSE
    /\ cur = None /\ lastPos = None /\ pausedPos = None /\ resume = None
    /\ lastSeek = None /\ preview = FALSE /\ stale = FALSE
    /\ active = TRUE /\ sid = 1 /\ heard = {} /\ told = [n |-> 0, at |-> None, stale |-> FALSE]
    /\ wire = <<>> /\ pend = NoCue /\ shown = {}

-----------------------------------------------------------------------------
(* The user.                                                                *)

Seek ==
    /\ seeks < MaxSeeks /\ seeks' = seeks + 1 /\ pos' \in Places \ {pos}
    /\ UNCHANGED <<halted, toggles, swapped, source, show, audio, queue, disc, drainReq, pc,
                   polled, lastSeek, preview, session, wire, screen>>

\* Another medium, which plays from elsewhere: the poll sees its URI when it is
\* a file's, or when the one before was.
ChangeMedium ==
    /\ seeks < MaxSeeks /\ seeks' = seeks + 1
    /\ pos' \in Places \ {pos} /\ swapped' \in BOOLEAN
    /\ UNCHANGED <<halted, toggles, source, show, audio, queue, disc, drainReq, pc, polled,
                   lastSeek, preview, session, wire, screen>>

Toggle ==
    /\ toggles < MaxToggles /\ toggles' = toggles + 1 /\ halted' = ~halted
    /\ UNCHANGED <<pos, seeks, swapped, source, show, audio, queue, disc, drainReq, pc, polled,
                   lastSeek, preview, session, wire, screen>>

-----------------------------------------------------------------------------
(* vw_plugin_filter, on the audio thread.                                   *)

\* Mutant: a jump ahead counts only on a flagged block.
Jumped_Flagged(step, flagged) ==
    IF run = 0 THEN flagged ELSE step = "back" \/ (step = "ahead" /\ flagged)

\* A block's time stamp against the end of the one before: more than half a
\* second back, 5 seconds or more ahead, or near.  Whether the block carries
\* BLOCK_FLAG_DISCONTINUITY matters only when no block came before.
Jumped(step, flagged) == IF run = 0 THEN flagged ELSE step \in {"back", "ahead"}

\* A block with a valid time stamp: a jump is signalled before the block's
\* audio can be queued.  It is not when the worker reads the file itself; the
\* mode is taken here, as a block whose mode changes before the code looks at
\* it is like the next of the same run.
FilterBlock ==
    /\ block = 0 /\ gap # "invalid"
    /\ \E step \in {"back", "near", "ahead"}, flagged \in BOOLEAN :
         /\ run' = IF run = 0 \/ step # "near" THEN run + 1 ELSE run
         /\ run' <= MaxJumps + 1
         /\ disc' = (disc \/ Jumped(step, flagged))
    /\ block' = (IF source THEN 0 ELSE run') /\ gap' = "no"
    /\ UNCHANGED <<player, source, show, gaps, queue, drainReq, pc, polled, lastSeek, preview,
                   session, wire, screen>>

\* A block without a valid time stamp is not captured.
InvalidBlock ==
    /\ block = 0 /\ gap # "invalid" /\ gaps < MaxGaps /\ gaps' = gaps + 1
    /\ gap' = "invalid"
    /\ UNCHANGED <<player, source, show, block, run, queue, disc, drainReq, pc, polled,
                   lastSeek, preview, session, wire, screen>>

\* The first valid block after those asks the sender to drain the queue; its
\* own audio is skipped.
ValidAgain ==
    /\ block = 0 /\ gap = "invalid" /\ gap' = "no" /\ drainReq' = TRUE
    /\ UNCHANGED <<player, source, show, block, run, gaps, queue, disc, pc, polled, lastSeek,
                   preview, session, wire, screen>>

\* The audio is queued, unless the queue is full, the rate too high, or a file
\* the worker reads itself has begun.
Capture ==
    /\ block # 0 /\ block' = 0
    /\ \/ /\ ~source /\ Len(queue) < QueueSize
          /\ queue' = Append(queue, block)
       \/ UNCHANGED queue
    /\ UNCHANGED <<player, source, show, run, gap, gaps, disc, drainReq, pc, polled, lastSeek,
                   preview, session, wire, screen>>

-----------------------------------------------------------------------------
(* The sender's poll of the player, every 100 ms.                           *)

\* What the poll reads, the position and the pause: no position when the
\* player does not tell it, and no pause either when there is no input.
\* vw_plugin_find_input, vw_plugin_input_position_us.
Sampled == {<<pos, halted>>, <<None, halted>>, <<None, FALSE>>}

\* vw_caption_presenter_blank.
Blank == pend' = NoCue /\ shown' = {}

\* Mutant: a poll takes the new position without noticing the jump.
Moved_Paused(p, base) == paused /\ p # None /\ base # None /\ p # base

\* The position p is not the one sampled before.
Moved(p, base) == p # None /\ base # None /\ p # base

\* The position the player had when it was paused; now says whether it is.
PausedBase(p, now) ==
    CASE now /\ ~paused -> p
      [] ~now /\ paused -> None
      [] OTHER -> IF now /\ pausedPos = None THEN p ELSE pausedPos

Previewing == source /\ show

\* Pause and resume edges.  In a preview the caption stays and the worker is
\* sent the position of the pause; else the screen is blanked, as it is when
\* the playback rate has changed.
Edge(now, rated) ==
    /\ paused' = now
    /\ preview' = (preview /\ ~(paused /\ ~now))
    /\ IF rated \/ (paused # now /\ ~(now /\ Previewing)) THEN Blank ELSE UNCHANGED screen

\* Where to seek to: known or not, and where.
SeekTarget == LET at == IF cur # None THEN cur ELSE resume IN <<at # None, at>>

\* The medium is another one: a new session, of a file the worker reads
\* itself or of live audio, or none when it does not start.  The poll goes on.
SwapMedia ==
    /\ pc = "poll" /\ swapped /\ pc' = "swapped" /\ swapped' = FALSE
    /\ lastSeek' = None /\ preview' = FALSE /\ Blank /\ queue' = <<>>
    /\ sid' = sid + 1 /\ heard' = {} /\ stale' = SeekTarget[1]
    /\ told' = [n |-> told.n + 1, at |-> None, stale |-> FALSE]
    /\ \/ /\ active' = TRUE /\ source' \in Modes
          /\ lastPos' = None /\ pausedPos' = None
       \/ active' = FALSE /\ source' = FALSE /\ UNCHANGED <<lastPos, pausedPos>>
    /\ wire' \in {wire, <<>>}
    /\ UNCHANGED <<pos, seeks, halted, toggles, show, audio, disc, drainReq, paused, cur, resume>>

PollPlayer(p, now, rated) ==
    LET base == PausedBase(p, now)
        jump == \/ paused /\ ~now /\ Moved(p, pausedPos)
                \/ Moved(p, lastPos) \/ (now /\ Moved(p, base))
        held == ~paused /\ now /\ Previewing /\ p # None
    IN  /\ pc = "swapped" \/ (pc = "poll" /\ (swapped => p = None))
        /\ pc' = "disc"
        /\ IF now = halted THEN UNCHANGED seeks
           ELSE seeks < MaxSeeks /\ seeks' = seeks + 1
        /\ IF p # None /\ (active \/ held) THEN cur' = p /\ stale' = FALSE
           ELSE UNCHANGED <<cur, stale>>
        /\ pausedPos' = IF now /\ Moved(p, base) THEN p ELSE base
        /\ lastPos' = IF p # None THEN p ELSE lastPos
        /\ disc' = (disc \/ jump \/ held)
        /\ resume' = IF jump \/ held THEN p ELSE resume
        /\ Edge(now, rated)
        /\ lastSeek' = IF rated THEN None ELSE lastSeek
        /\ UNCHANGED <<pos, halted, toggles, swapped, source, show, audio, queue, drainReq,
                       session, wire>>

NotDue ==
    /\ pc = "poll" /\ pc' = "disc"
    /\ UNCHANGED <<player, source, show, audio, queue, disc, drainReq, polled, lastSeek, preview,
                   session, wire, screen>>

-----------------------------------------------------------------------------
(* The discontinuity handler.                                               *)

\* The flag is taken first: one that is raised from now on is handled again.
TakeFlag ==
    /\ pc = "disc" /\ pc' = (IF disc THEN "handle" ELSE "drain") /\ disc' = FALSE
    /\ UNCHANGED <<player, source, show, audio, queue, drainReq, polled, lastSeek, preview,
                   session, wire, screen>>

\* Live: a new session.  Source: a seek, if it is known where to, for which the
\* client starts a new session there (vw_worker_client_send_position).  The
\* handshake reads over the cues that come before its answer.
Handle ==
    /\ pc = "handle" /\ pc' = "drain"
    /\ preview' = (paused /\ Previewing)
    /\ IF paused /\ Previewing THEN UNCHANGED screen ELSE Blank
    /\ queue' = <<>>
    /\ \/ /\ ~source /\ active' \in BOOLEAN /\ sid' = sid + 1 /\ heard' = {}
          /\ lastPos' = None /\ pausedPos' = None
          /\ cur' = (IF SeekTarget[1] THEN SeekTarget[2] ELSE cur)
          /\ lastSeek' = None /\ UNCHANGED <<told, paused, resume, stale>>
       \/ /\ source /\ SeekTarget[1]
          /\ lastSeek' = SeekTarget[2]
          /\ told' = [n |-> told.n + 1, at |-> SeekTarget[2], stale |-> stale]
          /\ sid' = sid + 1 /\ UNCHANGED <<active, heard, polled>>
       \/ source /\ ~SeekTarget[1] /\ UNCHANGED <<lastSeek, session, polled>>
    /\ wire' \in {wire, <<>>}
    /\ UNCHANGED <<player, source, show, audio, disc, drainReq>>

\* Audio from before a run of invalid time stamps: drained, then the flag is
\* cleared.
Drain ==
    /\ pc = "drain"
    /\ IF drainReq THEN pc' = "drained" /\ queue' = <<>> ELSE pc' = "send" /\ UNCHANGED queue
    /\ UNCHANGED <<player, source, show, audio, disc, drainReq, polled, lastSeek, preview, session,
                   wire, screen>>

Drained ==
    /\ pc = "drained" /\ pc' = "send" /\ drainReq' = FALSE
    /\ UNCHANGED <<player, source, show, audio, queue, disc, polled, lastSeek, preview, session,
                   wire, screen>>

-----------------------------------------------------------------------------
(* Audio out, cues in.                                                      *)

SendAudio ==
    /\ pc = "send"
    /\ IF queue = <<>> THEN pc' = "receive" /\ UNCHANGED <<queue, heard>>
       ELSE /\ queue' = Tail(queue) /\ pc' = "send"
            /\ heard' = IF paused \/ source \/ ~active THEN heard ELSE heard \cup {Head(queue)}
    /\ UNCHANGED <<player, source, show, audio, disc, drainReq, polled, lastSeek, preview, active,
                   sid, told, wire, screen>>

\* A cue on the screen.  Live cues and paused ones replace what is there; a
\* cue that stays does so until it is erased, the others expire.
Render(c) ==
    LET kept == IF source /\ ~c.stays THEN shown ELSE {}
    IN  \E old \in SUBSET kept :
          /\ \A d \in kept : d.stays => d \in old
          /\ Cardinality(old) < MaxShown
          /\ shown' = old \cup {c}

\* Mutant: the session of a cue is not looked at.
Stale_AnySession(c) == source /\ lastSeek # None /\ c.at < lastSeek

\* A cue of an earlier session, or from before the last seek.
Stale(c) == c.sid # sid \/ (source /\ lastSeek # None /\ c.at < lastSeek)

ReceiveCue ==
    /\ pc = "receive" /\ pc' = "flush" /\ wire # <<>> /\ wire' = Tail(wire)
    /\ LET c == Head(wire)
       IN  \/ Stale(c) /\ UNCHANGED <<preview, screen>>
           \/ /\ ~Stale(c) /\ ~paused
              /\ IF pend = NoCue THEN UNCHANGED shown ELSE Render(pend)
              /\ pend' = c /\ UNCHANGED preview
           \/ /\ ~Stale(c) /\ paused /\ Previewing /\ preview
              /\ preview' = FALSE /\ pend' = NoCue /\ Render([c EXCEPT !.stays = TRUE])
           \/ /\ ~Stale(c) /\ paused /\ ~(Previewing /\ preview)
              /\ UNCHANGED <<preview, screen>>
    /\ UNCHANGED <<player, source, show, audio, queue, disc, drainReq, polled, lastSeek, session>>

ReceiveNothing ==
    /\ pc = "receive" /\ pc' = "flush"
    /\ UNCHANGED <<player, source, show, audio, queue, disc, drainReq, polled, lastSeek, preview,
                   session, wire, screen>>

\* The pending cue is due.
FlushCue ==
    /\ pc = "flush" /\ pc' = "poll"
    /\ IF pend # NoCue /\ ~paused /\ (~source \/ cur = None \/ pend.at <= cur)
       THEN Render(pend) /\ pend' = NoCue
       ELSE UNCHANGED screen
    /\ UNCHANGED <<player, source, show, audio, queue, disc, drainReq, polled, lastSeek, preview,
                   session, wire>>

-----------------------------------------------------------------------------
(* The worker, and time on the screen.                                      *)

\* Live: a cue of audio the session was sent.  Source: one at or after the
\* last seek.
WorkerCue ==
    /\ Len(wire) < MaxWire
    /\ \/ /\ ~source /\ active
          /\ \E g \in heard :
               wire' = Append(wire, [sid |-> sid, of |-> g, at |-> None, stays |-> FALSE])
       \/ /\ source
          /\ \E p \in Places :
               /\ told.at = None \/ told.at <= p
               /\ wire' = Append(wire, [sid |-> sid, of |-> told.n, at |-> p, stays |-> FALSE])
    /\ UNCHANGED <<player, source, show, audio, queue, disc, drainReq, pc, polled, lastSeek,
                   preview, session, screen>>

Audio == FilterBlock \/ InvalidBlock \/ ValidAgain \/ Capture
Poll ==
    \/ \E read \in Sampled, rated \in BOOLEAN : PollPlayer(read[1], read[2], rated)
    \/ SwapMedia \/ NotDue
Rest ==
    TakeFlag \/ Handle \/ Drain \/ Drained \/ SendAudio \/ ReceiveCue \/ ReceiveNothing \/ FlushCue

Next == Seek \/ ChangeMedium \/ Toggle \/ Audio \/ Poll \/ Rest \/ WorkerCue

Spec == Init /\ [][Next]_vars

(* The sender thread runs, its queue runs dry again and again, and the      *)
(* player's position can be read again and again.                           *)
Look == SwapMedia \/ PollPlayer(pos, halted, FALSE)

LiveSpec ==
    /\ Spec /\ WF_vars(Poll \/ Rest) /\ SF_vars(Look)
    /\ SF_vars(pc = "send" /\ queue = <<>> /\ SendAudio)

-----------------------------------------------------------------------------
(* Properties                                                               *)

Where == Places \cup {None}

\* Type invariant.
EpochsTypeOK ==
    /\ cur \in Where /\ lastPos \in Where /\ pausedPos \in Where /\ resume \in Where
    /\ lastSeek \in Where /\ told.at \in Where
    /\ pc \in {"poll", "swapped", "disc", "handle", "drain", "drained", "send", "receive", "flush"}
    /\ Len(queue) <= QueueSize /\ Len(wire) <= MaxWire /\ Cardinality(shown) <= MaxShown

\* The discontinuity handler is under way or will run.
Signalled == disc \/ pc = "handle"

\* A live session that was sent audio from both sides of a jump of the time
\* stamps does not last: the handler that ends it is on its way.
OneRunPerSession == (\E g, h \in heard : g # h) => Signalled

\* Once the audio thread has met the audio after a jump, no live caption from
\* before it is on the screen or waiting to be, or it is about to go.
NoCaptionFromBefore ==
    ~source => \A c \in shown \cup {pend} : c = NoCue \/ c.of = run \/ Signalled

\* A jump of the time stamps of live audio separates what is heard before it
\* from what is heard after it, in the sessions and on the screen, whatever
\* seeks, pauses and changes of the medium the poll notices meanwhile.
JumpSeparates == OneRunPerSession /\ NoCaptionFromBefore

\* After a source seek, backward ones too, no cue made before it is going to be
\* shown.
NoPreSeekCue == source /\ ~paused /\ pend # NoCue => pend.of = told.n

\* The cue of a paused preview never expires, so it must be gone when playback
\* goes on.
PausedCueGoes == (\E c \in shown : c.stays) => paused

\* In source mode no cue is shown, or left on the screen, that belongs to
\* another moment.
SourceCuesFresh == NoPreSeekCue /\ PausedCueGoes

\* In source mode the last seek sent to the worker is again and again where the
\* player is, until another medium begins: no seek is missed, and one sent with
\* an old position is corrected.  It may not be one to a position that was
\* polled of the medium before: that is never corrected, because the poll
\* starts afresh with the medium.
SeekReachesWorker == told.at # None /\ ~told.stale ~> told.at \in {pos, None}

=============================================================================
