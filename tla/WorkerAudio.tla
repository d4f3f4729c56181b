---------------------------- MODULE WorkerAudio -----------------------------
(* The worker's way from audio to captions: the ring of samples             *)
(* (AudioBuffer), the decoder of a file (SourceDecoder), the look-ahead     *)
(* that cuts its audio into chunks (LookAhead), the builder that makes      *)
(* captions of overlapping hypotheses (SegmentBuilder), and source mode     *)
(* from the player to the screen (SourceTimeline).  The five are checked    *)
(* one at a time: part says which runs.                                     *)
EXTENDS AudioBuffer

CONSTANTS
    ChunkMin, ChunkMax, Pad, Gap, Trailing, Leading, ReadSize, LookLead, Detectors, LookMedia,
    Samples, PacketSize, CodecDepth, Delay, OutCap, BlockSize, MaxSeeks, MaxPauses,
    Speech, WindowWords, Tolerance, HistoryCap, QueueCap, Missed, MaxPushes,
    Media, Lead, SeekJump, Speeds, MaxMoves, MaxToggles, MaxFails, MaxFrames

VARIABLES
    part,
    playhead, unheard, unheardFrom, lookPc, did,
    at, codec, held, dec, pkt, decPc, out, label, expect, seeks, pauses,
    window, heard, queue, queueHead, pending, capacity, nextId, history, covered, emitted, taken,
    intact, pushes,
    pos, halted, rate, moves, toggles, sid, paused, lastPos, pausedPos, lastRate, lastSeek, shown,
    lost, frames, wire, w, reached, cutAt, translates, pool, fails, spoiled, tries

lookVars == <<playhead, unheard, unheardFrom, lookPc, did>>
decVars == <<at, codec, held, dec, pkt, decPc, out, label, expect, seeks, pauses>>
builderVars == <<window, heard, queue, queueHead, pending, capacity, nextId, history, covered,
                 emitted, taken, intact, pushes>>
timeVars == <<pos, halted, rate, moves, toggles, sid, paused, lastPos, pausedPos, lastRate,
              lastSeek, shown, lost, frames, wire, w, reached, cutAt, translates, pool, fails,
              spoiled, tries>>

Look == INSTANCE LookAhead WITH
    Lead <- LookLead, Media <- LookMedia, window <- unheard, base <- unheardFrom, pc <- lookPc

Decoder == INSTANCE SourceDecoder WITH pc <- decPc

Builder == INSTANCE SegmentBuilder WITH head <- queueHead, count <- pending

Timeline == INSTANCE SourceTimeline WITH at <- reached, base <- cutAt

ASSUME WorkerAudioAssumption ==
    /\ Look!LookAheadConstants /\ Decoder!DecoderConstants
    /\ Builder!BuilderConstants /\ Timeline!TimelineConstants

AudioInit ==
    /\ part \in {"buffer", "look", "decoder", "builder", "timeline"}
    /\ Init /\ Look!Init /\ Decoder!Init /\ Builder!Init /\ Timeline!Init
    /\ part # "timeline" => ~translates

AudioNext ==
    \/ part = "buffer" /\ Next /\ UNCHANGED <<part, lookVars, decVars, builderVars, timeVars>>
    \/ part = "look" /\ Look!Next /\ UNCHANGED <<part, vars, decVars, builderVars, timeVars>>
    \/ part = "decoder" /\ Decoder!Next /\ UNCHANGED <<part, vars, lookVars, builderVars, timeVars>>
    \/ part = "builder" /\ Builder!Next /\ UNCHANGED <<part, vars, lookVars, decVars, timeVars>>
    \/ part = "timeline" /\ Timeline!Next /\ UNCHANGED <<part, vars, lookVars, decVars, builderVars>>

AudioSpec ==
    AudioInit /\ [][AudioNext]_<<part, vars, lookVars, decVars, builderVars, timeVars>>

\* LookAhead.SpeechKept: no speech is drained, none is cut through in a window with room left.
SpeechKept == Look!SpeechKept

\* SourceDecoder.DeliversTheFile: every sample once, in order, rightly dated, to the end.
DeliversTheFile == Decoder!DeliversTheFile

\* SegmentBuilder.CaptionedOnce: what overlapping windows hear again is not captioned again.
CaptionedOnce == Builder!CaptionedOnce

\* SourceTimeline.FailuresContained: a failed source seek keeps the anchor and is not repeated.
FailuresContained == Timeline!FailuresContained

\* SourceTimeline.NoHoleAhead: no second ahead of the viewer goes uncaptioned, but for the
\* captions that a new playback rate has blanked.
NoHoleAhead == Timeline!NoHoleAhead
=============================================================================
