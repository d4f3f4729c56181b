----------------------------- MODULE AudioBuffer -----------------------------
(***************************************************************************)
(* vw_audio_buffer.c: the ring of 16 kHz samples Whisper's windows are cut *)
(* from.  One time stamp, of the oldest sample, dates them all; a sample   *)
(* is 62.5 microseconds, so the stamp carries a half in start_pts_frac_us. *)
(* A sample is represented by its true time in half microseconds, which is *)
(* what the producer's stamp says of it.                                   *)
(***************************************************************************)
EXTENDS Integers, Sequences, SequencesExt

CONSTANTS
    MaxSamples,     \* the ring's capacity
    Blocks,         \* sizes of the blocks appended
    Drains,         \* numbers of samples drained
    Gaps,           \* microseconds by which a block is late (early) on the one before
    MaxAppends      \* bound: blocks appended

ASSUME BufferAssumption ==
    /\ MaxSamples \in Nat \ {0} /\ Blocks \subseteq Nat \ {0} /\ Drains \subseteq Nat \ {0}
    /\ Gaps \subseteq Int /\ MaxAppends \in Nat

VARIABLES
    samples, head, count,   \* the ring
    pts,                    \* start_pts_us and start_pts_frac_us
    base, gone,             \* history: the stamp last set, and the samples dropped since
    clock,                  \* the stamp of the producer's next block, in microseconds
    appends

vars == <<samples, head, count, pts, base, gone, clock, appends>>

None == [us |-> -1, frac |-> 0]
Slots == 0 .. MaxSamples - 1

Init ==
    /\ samples = [i \in Slots |-> 0] /\ head = 0 /\ count = 0 /\ pts = None
    /\ base = -1 /\ gone = 0 /\ clock = 0 /\ appends = 0

-----------------------------------------------------------------------------
\* Mutant: the half microsecond is forgotten.
Advance_Whole(p, n) == [us |-> p.us + n * 62 + (n \div 2), frac |-> 0]

\* vw_audio_buffer_advance_pts.
Advance(p, n) ==
    [us |-> p.us + n * 62 + ((p.frac + n) \div 2), frac |-> (p.frac + n) % 2]

\* Where the next sample should be, if it follows on: rounded down.
ExpectedPts == pts.us + ((count * 125 + pts.frac) \div 2)

\* Mutant: any small step is taken for a follow-on, relative to where it should have been.
FollowsOn_Wide(at) == at - ExpectedPts \in -126 .. 126

\* One output sample of slack.
FollowsOn(at) == at - ExpectedPts \in -63 .. 63

\* The stamp moves on by one sample for every one that is overwritten.
AfterOverflow(p, dropped) == IF dropped > 0 THEN Advance(p, dropped) ELSE p

\* vw_audio_buffer_append_s16le: n samples stamped `clock`; the next block follows on, but for
\* the rounding of its stamp and a gap.
Append16(n, gap) ==
    LET fresh == count = 0 \/ ~FollowsOn(clock)
        h == IF count > 0 /\ fresh THEN 0 ELSE head
        c == IF fresh THEN 0 ELSE count
        p == IF fresh THEN [us |-> clock, frac |-> 0] ELSE pts
        drop == IF c + n > MaxSamples THEN c + n - MaxSamples ELSE 0
        \* the last sample of the block that lands in the slot
        At(s) == {k \in 0 .. n - 1 : (h + k) % MaxSamples = s /\ k + MaxSamples > n - 1}
    IN /\ appends < MaxAppends /\ appends' = appends + 1
       /\ samples' = [s \in Slots |-> IF At(s) = {} THEN samples[s]
                                      ELSE 2 * clock + 125 * (CHOOSE k \in At(s) : TRUE)]
       /\ head' = (h + n) % MaxSamples /\ count' = c + n - drop
       /\ pts' = AfterOverflow(p, drop)
       /\ base' = (IF fresh THEN clock ELSE base) /\ gone' = (IF fresh THEN 0 ELSE gone) + drop
       /\ clock' = clock + ((n * 125) \div 2) + gap

\* vw_audio_buffer_drain.
Drain(n) ==
    LET d == IF n < count THEN n ELSE count
    IN /\ count > 0 /\ count' = count - d /\ gone' = gone + d
       /\ pts' = IF d = count THEN None ELSE Advance(pts, d)
       /\ head' = IF d = count THEN 0 ELSE head
       /\ UNCHANGED <<samples, base, clock, appends>>

\* vw_audio_buffer_clear.
Clear ==
    /\ head' = 0 /\ count' = 0 /\ pts' = None
    /\ UNCHANGED <<samples, base, gone, clock, appends>>

Next ==
    \/ \E n \in Blocks, gap \in Gaps : Append16(n, gap)
    \/ \E n \in Drains : Drain(n)
    \/ Clear

Spec == Init /\ [][Next]_vars

-----------------------------------------------------------------------------
\* What vw_audio_buffer_get_samples copies out, and the stamp it gives the first of them.
Window ==
    [i \in 1 .. count |-> samples[(head + MaxSamples - count + i - 1) % MaxSamples]]

\* The types of the variables.
BufferTypeOK ==
    /\ samples \in [Slots -> Int] /\ head \in Slots /\ count \in 0 .. MaxSamples
    /\ pts.us \in Int /\ pts.frac \in 0 .. 1 /\ gone \in Nat /\ base \in Int
    /\ clock \in Int /\ appends \in 0 .. MaxAppends

\* However the samples left, by drains or by overflow, the stamp has moved by exactly 62.5
\* microseconds for each: it never drifts from the stamp it was set to.
NoDrift == count > 0 => 2 * pts.us + pts.frac = 2 * base + 125 * gone

\* Whatever blocks were accepted, dropped and drained, the one stamp dates every sample of
\* the window to within one sample of its true time.
StampIsTrue ==
    \A i \in 1 .. count : (2 * pts.us + pts.frac + 125 * (i - 1)) - Window[i] \in -127 .. 127
=============================================================================
