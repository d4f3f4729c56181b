---------------------------- MODULE AudioCapture ----------------------------
(***************************************************************************)
(* vw_audio_capture_process_block: VLC's audio, in blocks of any length    *)
(* and at any rate, becomes chunks at the target rate for the plugin's     *)
(* queue.  An accumulator keeps the phase of the conversion from block to  *)
(* block.  What a sample is worth, the mix of the channels and its format, *)
(* is left out.                                                            *)
(***************************************************************************)
EXTENDS Integers

CONSTANTS
    Target,         \* target_sample_rate
    Rates,          \* the rates of the source
    ChunkCap,       \* samples in a chunk: VW_AUDIO_CHUNK_MAX_PCM_BYTES / 2
    Second,         \* 1000000: ticks of a time stamp in a second
    MaxBlock,       \* bound: frames in a block
    MaxFed          \* bound: frames in all

ASSUME CaptureAssumption ==
    /\ {Target, ChunkCap, Second} \subseteq Nat \ {0}
    /\ Rates \subseteq Nat \ {0}
    /\ {MaxBlock, MaxFed} \subseteq Nat

VARIABLES
    acc, rate,      \* resample_acc, resample_source_rate; rate 0 before the first block
    reset,          \* *reset_pending, set by the sender
    pc,             \* "idle", "frame" (the loop over the block), "emit" (the loop over samples)
    todo,           \* frames of the block not looked at
    chunk,          \* chunk_frames
    start, cur,     \* chunk.start_pts_us, current_pts_us, from the block's pts_us on
    full,           \* history: chunks of this block that were pushed
    first, fed,     \* history: the accumulator and the frames since the phase began
    made, pushed,   \* history: samples made since then, those in chunks pushed
    total           \* history: frames in all

vars == <<acc, rate, reset, pc, todo, chunk, start, cur, full, first, fed, made, pushed, total>>
phase == <<first, fed, made, pushed>>

Init ==
    /\ acc = 0 /\ rate = 0 /\ reset = FALSE /\ pc = "idle" /\ todo = 0 /\ chunk = 0
    /\ start = 0 /\ cur = 0 /\ full = 0 /\ first = 0 /\ fed = 0 /\ made = 0 /\ pushed = 0
    /\ total = 0

-----------------------------------------------------------------------------
\* The sender asks for a new phase, after a seek.
RequestReset ==
    /\ ~reset /\ reset' = TRUE
    /\ UNCHANGED <<acc, rate, pc, todo, chunk, start, cur, full, phase, total>>

\* Valid time stamps are back: the callback forgets the phase and skips the block.
ValidAgain ==
    /\ pc = "idle" /\ acc' = 0 /\ rate' = 0
    /\ first' = 0 /\ fed' = 0 /\ made' = 0 /\ pushed' = 0
    /\ UNCHANGED <<reset, pc, todo, chunk, start, cur, full, total>>

\* The accumulator of a new phase: the first frame of a faster source gives a sample.
FirstPhase(r) == IF r > Target THEN r - Target ELSE 0

\* The rate the phase is for, after a reset that was asked for.
RateBefore == IF reset THEN 0 ELSE rate

\* Mutant: every block begins a new phase.
NewPhase_Always(r) == r > 0

\* A block at rate r begins a new phase.
NewPhase(r) == RateBefore # r

\* A block of n frames at rate r.  The request is taken in the same step: one made between the
\* test of the flag and its clearing is one with the request that is served.
BeginBlock(r, n) ==
    /\ pc = "idle" /\ total + n <= MaxFed /\ total' = total + n
    /\ reset' = FALSE /\ rate' = r /\ todo' = n /\ pc' = "frame"
    /\ chunk' = 0 /\ start' = 0 /\ cur' = 0 /\ full' = 0
    /\ IF NewPhase(r) THEN acc' = FirstPhase(r) ELSE UNCHANGED acc
    /\ IF RateBefore # r THEN first' = FirstPhase(r) /\ fed' = 0 /\ made' = 0 /\ pushed' = 0
       ELSE UNCHANGED phase

\* Faster than four times: the block is dropped, a reset that was asked for is done.
DropBlock(n) ==
    /\ pc = "idle" /\ total + n <= MaxFed /\ total' = total + n /\ reset' = FALSE
    /\ IF reset THEN acc' = 0 /\ rate' = 0 /\ first' = 0 /\ fed' = 0 /\ made' = 0 /\ pushed' = 0
       ELSE UNCHANGED <<acc, rate, phase>>
    /\ UNCHANGED <<pc, todo, chunk, start, cur, full>>

\* The next frame of the block.
NextFrame ==
    /\ pc = "frame" /\ todo > 0 /\ todo' = todo - 1 /\ acc' = acc + Target /\ pc' = "emit"
    /\ fed' = fed + 1
    /\ UNCHANGED <<rate, reset, chunk, start, cur, full, first, made, pushed, total>>

\* The duration of n samples, rounded up.
Duration(n) == (n * Second + Target - 1) \div Target

\* A chunk of n samples goes to the queue, or nowhere when that is full; time goes on.
Push(n) ==
    /\ cur' = cur + Duration(n) /\ start' = cur + Duration(n) /\ chunk' = 0
    /\ full' = full + 1 /\ pushed' = pushed + n

\* The frame is in the sample that comes out; a full chunk is pushed.
Emit ==
    /\ pc = "emit" /\ acc >= rate /\ acc' = acc - rate /\ made' = made + 1
    /\ IF chunk + 1 = ChunkCap THEN Push(ChunkCap)
       ELSE chunk' = chunk + 1 /\ UNCHANGED <<start, cur, full, pushed>>
    /\ UNCHANGED <<rate, reset, pc, todo, first, fed, total>>

FrameDone ==
    /\ pc = "emit" /\ acc < rate /\ pc' = "frame"
    /\ UNCHANGED <<acc, rate, reset, todo, chunk, start, cur, full, phase, total>>

\* There are samples in the last chunk.
HasRest(n) == n > 0

\* The block is done: what is in the last chunk is pushed.
EndBlock ==
    /\ pc = "frame" /\ todo = 0 /\ pc' = "idle"
    /\ IF HasRest(chunk) THEN Push(chunk) ELSE UNCHANGED <<cur, start, chunk, full, pushed>>
    /\ UNCHANGED <<acc, rate, reset, todo, first, fed, made, total>>

Next ==
    \/ RequestReset \/ ValidAgain
    \/ \E r \in Rates, n \in 1 .. MaxBlock : BeginBlock(r, n)
    \/ \E n \in 1 .. MaxBlock : DropBlock(n)
    \/ NextFrame \/ Emit \/ FrameDone \/ EndBlock

Spec == Init /\ [][Next]_vars

-----------------------------------------------------------------------------
\* The types of the variables; vw_audio_capture.h: "resample_acc in [0, sample_rate)" between
\* frames, and a chunk is never full for long.
CaptureTypeOK ==
    /\ {acc, todo, chunk, start, cur, full, first, fed, made, pushed, total} \subseteq Nat
    /\ rate \in Rates \cup {0} /\ reset \in BOOLEAN /\ pc \in {"idle", "frame", "emit"}
    /\ pc # "idle" => rate \in Rates
    /\ pc # "emit" /\ rate # 0 => acc < rate
    /\ chunk < ChunkCap

\* vw_audio_capture.h: "exact, no floating drift".  Between two blocks the samples made are
\* those of one conversion of all frames since the phase began, however they came in blocks.
NoDrift == pc = "idle" /\ rate # 0 => made = (first + fed * Target) \div rate

\* Every sample made is in a chunk when the block is done.
AllPushed == pc = "idle" => pushed = made

\* A chunk is never stamped too early, and too late by less than a tick for each chunk before
\* it in the block, though durations are rounded: the samples before it are all in chunks, and
\* full ones.
StampsClose ==
    pc # "idle" =>
        /\ start * Target >= full * ChunkCap * Second
        /\ start * Target <= full * (ChunkCap * Second + Target - 1)
=============================================================================
