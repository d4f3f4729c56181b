--------------------------- MODULE SourceTimeline ---------------------------
(***************************************************************************)
(* Source mode from the player to the screen: the plugin polls the player  *)
(* and tells the worker where it is; the worker decodes the file ahead of  *)
(* that, and moves its decoder when the playhead has left what is decoded, *)
(* at a resumption and at a seek.  POSITION, PAUSE, RESUME and START in    *)
(* vw_worker_run with its decode step, the poll in vw_plugin_sender and    *)
(* vw_worker_client_send_position, which makes a seek a new session.       *)
(*                                                                         *)
(* The file is the seconds 0, 1, ..., each of which gets a caption; how    *)
(* audio is cut into chunks is in LookAhead, the handshake of a session in *)
(* WorkerClient.  whisper-show-paused is off, the player always tells its  *)
(* position, the transport holds and the translation pool refuses nothing. *)
(***************************************************************************)
EXTENDS Integers, Sequences, FiniteSets, SequencesExt

CONSTANTS
    Media,          \* seconds in the file
    Lead,           \* lead_target_us
    SeekJump,       \* VW_INPUT_JUMP_DISCONTINUITY_US: a smaller jump forward is no seek
    Speeds,         \* playback rates; 1 is the normal one
    MaxMoves,       \* bound: jumps of the player and changes of its rate
    MaxToggles,     \* bound: pauses and resumptions
    MaxFails,       \* bound: decoder seeks that fail
    MaxFrames       \* bound: frames on their way to the worker when the plugin polls

\* What the constants are.
TimelineConstants ==
    /\ {Media, Lead, SeekJump, MaxFrames} \subseteq Nat \ {0}
    /\ {MaxMoves, MaxToggles, MaxFails} \subseteq Nat /\ Speeds \subseteq Nat

None == -1

VARIABLES
    pos, halted, rate, moves, toggles,      \* the player
    sid, paused, lastPos, pausedPos, lastRate, lastSeek,    \* the plugin
    shown, lost,                            \* cues since the last blank; history: those
                                            \* blanked for a new rate since any other
    frames, wire,                           \* plugin to worker; captions to the plugin
    w,                                      \* the worker's session: its flags and anchors
    at, base,                               \* where the decoder is; start of the window
    translates, pool,                       \* captions in translation
    fails, spoiled, tries                   \* history: failed seeks; one failed since the decoder
                                            \* moved; implicit ones since they were allowed again

player == <<pos, halted, rate, moves, toggles>>
plugin == <<sid, paused, lastPos, pausedPos, lastRate, lastSeek, shown, lost>>
failures == <<fails, spoiled, tries>>
vars == <<player, plugin, frames, wire, w, at, base, translates, pool, failures>>

\* The worker's session s from position p on.
Session(s, p) ==
    [sid |-> s, active |-> TRUE, paused |-> FALSE, eof |-> FALSE, pend |-> FALSE,
     cur |-> p, last |-> p, dec |-> p]

Init ==
    /\ pos = 0 /\ halted = FALSE /\ rate = 1 /\ moves = 0 /\ toggles = 0
    /\ sid = 1 /\ paused = FALSE /\ lastPos = None /\ pausedPos = None /\ lastSeek = None
    /\ lastRate = 1 /\ shown = {} /\ lost = {} /\ frames = <<>> /\ wire = <<>>
    /\ w = Session(1, 0) /\ at = 0 /\ base = 0
    /\ translates \in BOOLEAN /\ pool = <<>>
    /\ fails = 0 /\ spoiled = FALSE /\ tries = 0

-----------------------------------------------------------------------------
(* The player.                                                              *)

Play ==
    /\ ~halted /\ pos < Media /\ pos' = pos + 1
    /\ UNCHANGED <<halted, rate, moves, toggles, plugin, frames, wire, w, at, base, translates, pool,
                   failures>>

Jump ==
    /\ moves < MaxMoves /\ moves' = moves + 1 /\ pos' \in (0 .. Media) \ {pos}
    /\ UNCHANGED <<halted, rate, toggles, plugin, frames, wire, w, at, base, translates, pool,
                   failures>>

ChangeRate ==
    /\ moves < MaxMoves /\ moves' = moves + 1 /\ rate' \in Speeds \ {rate}
    /\ UNCHANGED <<pos, halted, toggles, plugin, frames, wire, w, at, base, translates, pool,
                   failures>>

Toggle ==
    /\ toggles < MaxToggles /\ toggles' = toggles + 1 /\ halted' = ~halted
    /\ UNCHANGED <<pos, rate, moves, plugin, frames, wire, w, at, base, translates, pool, failures>>

-----------------------------------------------------------------------------
(* The plugin.                                                              *)

\* A frame of session s; halt is the pause flag of POSITION.
Frame(kind, s, halt) == [kind |-> kind, sid |-> s, at |-> pos, halt |-> halt]

\* seek_threshold_us: the faster the film, the farther it may go between two polls.
Threshold == IF rate > 1 THEN (SeekJump * rate * 3) \div 2 ELSE SeekJump

\* The position jumped: far enough forward or at all backward, or at all in a pause, or since
\* the pause.
Sought ==
    \/ lastPos # None /\ (pos - lastPos >= Threshold \/ pos < lastPos)
    \/ halted /\ paused /\ pos # pausedPos
    \/ ~halted /\ paused /\ (pos - pausedPos >= SeekJump \/ pos < pausedPos)

\* A position with the seek flag: STOP and START of a new session, and its position.
SeekFrames == <<Frame("start", sid + 1, FALSE), Frame("position", sid + 1, halted)>>

\* The playback rate is not the one polled before: the captions are blanked and the filter of
\* the last seek is off, but the worker is only sent the position, as ever.
Rated == rate # lastRate

\* The captions are blanked for a pause, a resumption or a seek, after which the worker decodes
\* again.
Restarts == halted # paused \/ Sought

\* A poll: the position, the pause or resumption, and the seek.
Poll ==
    /\ Len(frames) < MaxFrames
    /\ frames' = frames \o <<Frame("position", sid, halted)>>
                 \o (IF halted = paused THEN <<>>
                     ELSE <<Frame(IF halted THEN "pause" ELSE "resume", sid, FALSE)>>)
                 \o (IF Sought THEN SeekFrames ELSE <<>>)
    /\ shown' = IF Restarts \/ Rated THEN {} ELSE shown
    /\ lost' = IF Restarts THEN {} ELSE IF Rated THEN lost \cup shown ELSE lost
    /\ sid' = IF Sought THEN sid + 1 ELSE sid
    /\ lastSeek' = IF Sought THEN pos ELSE IF Rated THEN None ELSE lastSeek
    /\ paused' = halted /\ lastPos' = pos /\ lastRate' = rate
    /\ pausedPos' = IF halted THEN pos ELSE None
    /\ UNCHANGED <<player, wire, w, at, base, translates, pool, failures>>

\* A caption arrives: another session's, one before the seek and one in a pause is not shown.
ShowCaption ==
    /\ wire # <<>> /\ wire' = Tail(wire)
    /\ shown' = IF Head(wire).sid = sid /\ Head(wire).at >= lastSeek /\ ~paused
                THEN shown \cup {Head(wire).at} ELSE shown
    /\ UNCHANGED <<player, sid, paused, lastPos, pausedPos, lastRate, lastSeek, lost, frames, w,
                   at, base, translates, pool, failures>>

-----------------------------------------------------------------------------
(* The worker.                                                              *)

\* The decoder goes to p: the window and the builder start anew.
MovesTo(p) == at' = p /\ base' = p /\ spoiled' = FALSE

\* n decoder seeks fail: the decoder is where it was.
SeeksFail(n) == fails + n <= MaxFails /\ fails' = fails + n /\ UNCHANGED at

\* Mutant: the anchor follows the request although the decoder did not.
AfterFailure_Anchor(s, p) == [s EXCEPT !.pend = TRUE, !.dec = p]

\* What a seek for the position p that failed leaves of the session s.
AfterFailure(s, p) == [s EXCEPT !.pend = TRUE]

\* The playhead left what is decoded, and no seek for that has failed since one succeeded.  A
\* position with the seek flag does not come: the client has made it a new session.
RequiresSeek(s, p) == (p < s.last \/ p > s.dec + 1) /\ p # s.last /\ ~s.pend

\* POSITION after its pause flag has made s of the session and b of the window's start, at the
\* cost of n failed seeks: the decoder follows the playhead.
Follow(s, b, n, p) ==
    IF RequiresSeek(s, p)
    THEN \/ /\ fails + n <= MaxFails /\ fails' = fails + n
            /\ MovesTo(p) /\ pool' = <<>> /\ tries' = 0
            /\ w' = [s EXCEPT !.pend = FALSE, !.cur = p, !.last = p, !.dec = p, !.eof = FALSE]
         \/ /\ SeeksFail(n + 1) /\ spoiled' = TRUE /\ tries' = tries + 1
            /\ base' = b /\ UNCHANGED pool
            /\ w' = LET f == AfterFailure(s, p)
                    IN IF s.cur = p THEN [f EXCEPT !.last = p] ELSE f
    ELSE /\ SeeksFail(n) /\ spoiled' = (spoiled \/ n > 0) /\ base' = b
         /\ w' = [s EXCEPT !.cur = p, !.last = p] /\ UNCHANGED <<pool, tries>>

\* The session when a resumption with the playhead at c has taken the decoder to p.
Resumed(c, p) == [w EXCEPT !.paused = FALSE, !.cur = c, !.dec = p, !.last = p, !.eof = FALSE]

\* The flag that begins a pause empties the window and the builder, not the pool; the flag that
\* ends one sends the decoder to the playhead, and so may what follows.
OnPosition(m) ==
    \/ m.halt = w.paused /\ Follow(w, base, 0, m.at)
    \/ m.halt /\ ~w.paused /\ Follow([w EXCEPT !.paused = TRUE], at, 0, m.at)
    \/ /\ ~m.halt /\ w.paused /\ MovesTo(m.at) /\ w' = Resumed(m.at, m.at)
       /\ UNCHANGED <<pool, fails, tries>>
    \/ ~m.halt /\ w.paused /\ Follow([w EXCEPT !.paused = FALSE], base, 1, m.at)

\* PAUSE: window, builder and pool are emptied.
OnPause ==
    /\ w' = [w EXCEPT !.paused = TRUE] /\ base' = at /\ pool' = <<>>
    /\ UNCHANGED <<at, failures>>

\* Mutant: a resumption goes on where the decoder was.
ResumePoint_Decoded == w.dec

\* Where RESUME sends the decoder.
ResumePoint == w.cur

\* RESUME: the decoder goes back to the playhead.
OnResume ==
    \/ /\ MovesTo(ResumePoint) /\ pool' = <<>> /\ UNCHANGED <<fails, tries>>
       /\ w' = Resumed(w.cur, ResumePoint)
    \/ /\ SeeksFail(1) /\ spoiled' = TRUE /\ w' = [w EXCEPT !.paused = FALSE]
       /\ UNCHANGED <<base, pool, tries>>

\* STOP(SEEK_DISCONTINUITY) and START, whose seek succeeds.
OnStart(m) ==
    /\ w' = Session(m.sid, m.at) /\ MovesTo(m.at) /\ pool' = <<>> /\ tries' = 0
    /\ UNCHANGED fails

\* One frame; those of another session are ignored.
Handle ==
    /\ frames # <<>> /\ frames' = Tail(frames)
    /\ LET m == Head(frames)
           ours == w.active /\ m.sid = w.sid
       IN \/ m.kind = "start" /\ OnStart(m)
          \/ m.kind = "position" /\ ours /\ OnPosition(m)
          \/ m.kind = "pause" /\ ours /\ OnPause
          \/ m.kind = "resume" /\ ours /\ OnResume
          \/ m.kind # "start" /\ ~ours /\ UNCHANGED <<w, at, base, pool, failures>>
    /\ UNCHANGED <<player, plugin, wire, translates>>

\* The captions of the seconds a .. b - 1, to the pool or to the plugin.
Emit(a, b) ==
    LET cues == [i \in 1 .. b - a |-> [sid |-> w.sid, at |-> a + i - 1]]
    IN IF translates THEN pool' = pool \o cues /\ UNCHANGED wire
       ELSE wire' = wire \o cues /\ UNCHANGED pool

Decodes == w.active /\ ~w.paused /\ ~w.eof /\ w.dec < w.cur + Lead

\* A second is read, and the window may be cut anywhere.
Decode ==
    /\ Decodes /\ at < Media /\ at' = at + 1 /\ w' = [w EXCEPT !.dec = at + 1]
    /\ \E cut \in base .. at + 1 : base' = cut /\ Emit(base, cut)
    /\ UNCHANGED <<player, plugin, frames, translates, failures>>

\* The end of the file: the rest of the window is transcribed.
Eof ==
    /\ Decodes /\ at = Media /\ w' = [w EXCEPT !.eof = TRUE] /\ base' = at /\ Emit(base, at)
    /\ UNCHANGED <<player, plugin, frames, at, translates, failures>>

\* A read fails: the session is over, and the plugin is told to give the worker up.
ReadFails ==
    /\ Decodes /\ MaxFails > 0 /\ w' = [w EXCEPT !.active = FALSE, !.eof = TRUE]
    /\ base' = at /\ pool' = <<>>
    /\ UNCHANGED <<player, plugin, frames, wire, at, translates, failures>>

\* A translation is ready.
Translated ==
    /\ pool # <<>> /\ w.active /\ wire' = Append(wire, Head(pool)) /\ pool' = Tail(pool)
    /\ UNCHANGED <<player, plugin, frames, w, at, base, translates, failures>>

Worker == Handle \/ Decode \/ Eof \/ Translated
Next == Play \/ Jump \/ ChangeRate \/ Toggle \/ Poll \/ ShowCaption \/ Worker \/ ReadFails

Spec == Init /\ [][Next]_vars

-----------------------------------------------------------------------------
\* The types of the variables.
TimelineTypeOK ==
    /\ pos \in 0 .. Media /\ base \in 0 .. at /\ at \in 0 .. Media
    /\ {w.cur, w.last, w.dec} \subseteq 0 .. Media /\ w.sid <= sid
    /\ shown \cup lost \subseteq 0 .. Media - 1

\* docs/architecture.md: "Failed source seeks retain the decoded anchor".  decoded_pts_us is
\* where the decoder is, also after seeks that failed: the decision to seek and the pacing
\* rest on it.
AnchorIsTrue == w.active => w.dec = at

\* docs/architecture.md: "repeated implicit retries are suppressed".
\* A position that is no seek but far away makes the decoder seek once: when that has failed,
\* only a resumption is tried, until one such seek succeeds or the user seeks.
RetriesSuppressed == tries <= 1

\* What docs/architecture.md says of source seeks that fail.
FailuresContained == AnchorIsTrue /\ RetriesSuppressed

Quiet == frames = <<>> /\ wire = <<>> /\ pool = <<>> /\ ~paused

\* When everything sent has arrived and no seek has failed since the decoder last moved, every
\* second from the playhead to the end of what is decoded is in a caption the plugin has not
\* blanked since, or still in the window: pauses, resumptions and jumps in any order leave no
\* hole ahead of the viewer.  A new playback rate does, and exactly the captions the plugin had:
\* it blanks them and nothing makes the worker decode them again.
NoHoleAhead ==
    Quiet /\ w.active /\ ~spoiled =>
        \A t \in w.cur .. w.dec - 1 : t \in shown \/ t \in lost \/ t >= base

=============================================================================
