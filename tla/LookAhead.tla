----------------------------- MODULE LookAhead -----------------------------
(***************************************************************************)
(* The look-ahead loop of vw_worker_run in source mode: the file is        *)
(* decoded ahead of the playhead, and the window of decoded audio is cut   *)
(* into chunks for Whisper at the pauses of the speech, or drained where   *)
(* nobody speaks (vw_vad_find_chunk_boundary).                             *)
(*                                                                         *)
(* Audio is a sequence of units, TRUE where there is speech.  The detector *)
(* is external: it reports the stretches of speech in what it is given, or *)
(* fails, and then the energy of the whole window decides.                 *)
(***************************************************************************)
EXTENDS Integers, Sequences, FiniteSets, SequencesExt, FiniteSetsExt

CONSTANTS
    ChunkMin, ChunkMax,     \* VW_CHUNK_MIN_SAMPLES, VW_CHUNK_MAX_SAMPLES
    Pad,                    \* VW_CHUNK_PAD_SAMPLES
    Gap,                    \* VW_CHUNK_MIN_SILENCE_GAP
    Trailing,               \* VW_VAD_MAX_TRAILING_SILENCE_SAMPLES
    Leading,                \* the second of silence that is drained before speech
    ReadSize,               \* VW_LOOKAHEAD_CHUNK_SAMPLES
    Lead,                   \* lead_target_us
    Detectors,              \* which detectors answer: a subset of {"silero", "energy"}
    Media                   \* bound: length of the file

\* What the constants are.
LookAheadConstants ==
    /\ {ChunkMin, ChunkMax, Pad, Gap, Trailing, ReadSize} \subseteq Nat \ {0}
    /\ {Leading, Lead, Media} \subseteq Nat
    /\ ChunkMin <= ChunkMax /\ ChunkMax <= Lead /\ 2 * Pad <= Gap /\ Pad <= Trailing
    /\ Detectors \subseteq {"silero", "energy"} /\ Detectors # {}

VARIABLES
    playhead,   \* current_playback_pts_us
    window,     \* the buffered audio
    base,       \* its time stamp
    pc,         \* "wait", "cut" (the chunk loop), "tail" (vw_worker_flush_audio_tail), "done" or "failed"
    did         \* history: what became of the audio that left last

vars == <<playhead, window, base, pc, did>>

decoded == base + Len(window)       \* decoded_pts_us

NoStep == [kind |-> "none", by |-> "silero", full |-> FALSE]

Init == playhead = 0 /\ window = <<>> /\ base = 0 /\ pc = "wait" /\ did = NoStep

-----------------------------------------------------------------------------
(* vw_vad_find_chunk_boundary.                                              *)

Lesser(a, b) == IF a < b THEN a ELSE b
Greater(a, b) == IF a > b THEN a ELSE b

Nothing == [cut |-> 0, drain |-> 0]
CutAt(n) == [cut |-> n, drain |-> 0]
DrainOf(n) == [cut |-> 0, drain |-> n]

\* The segments of the detector are the stretches of speech in w, as [from, to).  Where they end:
SegmentEnds(w) == {e \in DOMAIN w : w[e] /\ (e = Len(w) \/ ~w[e + 1])}

\* The speech from e on; where it begins is where the next segment does.
SpeechFrom(e, w) == {s \in e .. Len(w) - 1 : w[s + 1]}

\* Mutant: the padding is taken on the wrong side.
BeforeSpeech_PadAdded(first) == DrainOf(first + Pad)

\* The silence before the first word, up to the padding.
BeforeSpeech(first) == DrainOf(first - Pad)

\* A cut, in the audio there is.
CutWithin(n, w) == CutAt(Lesser(n, Len(w)))

\* Nobody speaks: keep the last bit, unless nothing follows.
Silence(w, eof) ==
    IF Len(w) >= ChunkMin \/ eof
    THEN DrainOf(IF eof \/ Len(w) <= Pad THEN Len(w) ELSE Len(w) - Pad)
    ELSE Nothing

\* A pause long enough follows the segment that ends at e.
PauseAfter(e, w, eof) ==
    IF SpeechFrom(e, w) # {} THEN Min(SpeechFrom(e, w)) >= e + Gap
    ELSE Len(w) >= e + Gap \/ eof

\* Where it is cut: in the middle of the pause, at the end not too late.
CutIn(e, w) ==
    LET end == e + Pad
        next == Min(SpeechFrom(e, w))
    IN IF SpeechFrom(e, w) # {}
       THEN Greater(end, (end + (IF next > Pad THEN next - Pad ELSE next)) \div 2)
       ELSE Greater(end, Lesser(Len(w), Lesser(e + Trailing, (end + Len(w)) \div 2)))

\* A full window without a pause: after the last segment that fits, or where it ends.
FullWindow(fits) == IF fits # {} THEN Max(fits) + Pad ELSE ChunkMax

\* The boundary by the segments of the detector.
BySegments(w, eof) ==
    LET first == Min(SpeechFrom(0, w))
        fits == {e \in SegmentEnds(w) : e + Pad >= ChunkMin /\ e + Pad <= ChunkMax}
        pauses == {e \in fits : PauseAfter(e, w, eof)}
        chosen == IF pauses # {} THEN CutIn(Min(pauses), w)
                  ELSE IF Len(w) >= ChunkMax THEN FullWindow(fits)
                  ELSE IF eof THEN Len(w) ELSE 0
    IN IF SpeechFrom(0, w) = {} THEN Silence(w, eof)
       ELSE IF first > Leading + Pad THEN BeforeSpeech(first)
       ELSE CutWithin(chosen, w)

\* The boundary by the energy of the window: fixed chunks.
ByEnergy(w, eof, loud) ==
    LET target == (ChunkMin + ChunkMax) \div 2
    IN IF ~loud THEN Silence(w, eof)
       ELSE IF Len(w) >= target \/ eof THEN CutWithin(target, w) ELSE Nothing

\* What the function may answer; the energy of a window with speech in it may be low.
Boundaries(w, eof) ==
    (IF "silero" \in Detectors THEN {[by |-> "silero", at |-> BySegments(w, eof)]} ELSE {})
    \cup {[by |-> "energy", at |-> ByEnergy(w, eof, loud)] :
            loud \in {l \in BOOLEAN : "energy" \in Detectors /\ (l => TRUE \in Range(w))}}

-----------------------------------------------------------------------------
\* The audio that leaves the window, by a cut or as silence.
Leaves(b) ==
    LET n == b.at.cut + b.at.drain
        avail == Lesser(Len(window), ChunkMax)
    IN /\ n > 0 /\ base' = base + n /\ window' = SubSeq(window, n + 1, Len(window))
       /\ did' = [kind |-> IF b.at.cut > 0 THEN "cut" ELSE "drain", by |-> b.by,
                  full |-> avail = ChunkMax]
       /\ UNCHANGED <<playhead, pc>>

Seen == SubSeq(window, 1, Lesser(Len(window), ChunkMax))

Stops == pc' = "wait" /\ UNCHANGED <<playhead, window, base, did>>

\* Decoding waits when it is far enough ahead.
WantsMore == pc = "wait" /\ decoded < playhead + Lead

\* vw_audio_buffer_append_s16le: the audio joins the window.
Joins(audio) == window' = window \o audio /\ UNCHANGED <<base, did>>

\* ... or, where its time stamp is more than a sample off, replaces it unheard.
Replaces(audio) ==
    /\ window # <<>> /\ window' = audio /\ base' = decoded
    /\ did' = [kind |-> "cleared", by |-> "buffer", full |-> FALSE]

\* A read of the decoder, with whatever speech there is.
Read ==
    /\ WantsMore /\ decoded < Media
    /\ \E audio \in [1 .. Lesser(ReadSize, Media - decoded) -> BOOLEAN] :
          Joins(audio) \/ Replaces(audio)
    /\ pc' = "cut" /\ UNCHANGED playhead

\* The chunk loop: while the window holds a chunk, cut it, drain it, or stop.
ChunkLoop ==
    /\ pc = "cut"
    /\ IF Len(window) < ChunkMin THEN Stops
       ELSE \E b \in Boundaries(Seen, FALSE) : IF b.at = Nothing THEN Stops ELSE Leaves(b)

\* The end of the file: the rest of the window is cut or drained until it is empty; a search
\* that finds nothing to do ends the worker.
Eof ==
    /\ WantsMore /\ pc' = "tail" /\ UNCHANGED <<playhead, window, base, did>>

FlushTail ==
    /\ pc = "tail"
    /\ IF window = <<>> THEN pc' = "done" /\ UNCHANGED <<playhead, window, base, did>>
       ELSE \E b \in Boundaries(Seen, TRUE) :
              IF b.at = Nothing THEN pc' = "failed" /\ UNCHANGED <<playhead, window, base, did>>
              ELSE Leaves(b)

\* POSITION: the playhead has moved on.
Play ==
    /\ playhead < Media /\ playhead' = playhead + 1
    /\ UNCHANGED <<window, base, pc, did>>

Worker == Read \/ ChunkLoop \/ Eof \/ FlushTail
Done == pc \in {"done", "failed"} /\ playhead = Media /\ UNCHANGED vars
Next == Worker \/ Play \/ Done

Spec == Init /\ [][Next]_vars

-----------------------------------------------------------------------------
\* The types of the variables.
LookAheadTypeOK ==
    /\ playhead \in 0 .. Media /\ base \in 0 .. Media /\ decoded <= Media
    /\ window \in Seq(BOOLEAN)
    /\ pc \in {"wait", "cut", "tail", "done", "failed"}

\* The audio that left is the prefix of the window.
Left == SubSeq(window, 1, Lesser(base' - base, Len(window)))

\* No speech the detector reports is drained as silence.
DrainsSilenceOnly == did'.kind = "drain" => TRUE \notin Range(Left)

\* vw_vad.h: the cut is made "at a natural silence pause ... to avoid word clipping".  Speech goes
\* on on both sides of a cut only when the window is full.
ClipsOnlyWhenFull == window' # <<>> /\ window'[1] /\ Last(Left) => did'.full

\* Where the detector answers, no boundary it leads to drains speech, or cuts through it in a window
\* with room left.  (What the buffer clears at a time stamp that is off is lost before that.)
SpeechKept ==
    [][base' > base /\ did'.by = "silero" => DrainsSilenceOnly /\ ClipsOnlyWhenFull]_vars
=============================================================================
