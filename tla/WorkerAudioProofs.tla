------------------------- MODULE WorkerAudioProofs --------------------------
(***************************************************************************)
(* From audio to captions in the worker: the time stamp of the audio       *)
(* buffer never drifts, for every capacity, block and drain; the decoder   *)
(* delivers any file whole, across any seeks; the look-ahead loses no      *)
(* speech and cuts through it only in a full window; the builder captions  *)
(* once what overlapping windows hear and hands its captions out in order; *)
(* and source mode leaves no hole ahead of the viewer but what a change of *)
(* the rate blanks, whatever the player and the decoder do.                *)
(***************************************************************************)
EXTENDS WorkerAudio, SequenceTheorems, WellFoundedInduction, TLAPS

-----------------------------------------------------------------------------
(* The ring of samples (AudioBuffer).                                        *)

\* A stamp's value in half microseconds.
Halves(p) == 2 * p.us + p.frac

\* vw_audio_buffer_advance_pts is exact: n samples are 125 * n half microseconds, and what is
\* carried stays below one microsecond.
LEMMA AdvanceExact ==
    ASSUME NEW p, p.us \in Int, p.frac \in 0 .. 1, NEW n \in Nat
    PROVE  /\ Advance(p, n).us \in Int /\ Advance(p, n).frac \in 0 .. 1
           /\ Halves(Advance(p, n)) = Halves(p) + 125 * n
<1>1. Advance(p, n).us = p.us + n * 62 + ((p.frac + n) \div 2)
    BY DEF Advance
<1>2. Advance(p, n).frac = (p.frac + n) % 2
    BY DEF Advance
<1>3. p.frac + n \in Nat
    OBVIOUS
<1>4. \A k \in Nat : /\ k \div 2 \in Int /\ k % 2 \in 0 .. 1
                     /\ 2 * (k \div 2) + (k % 2) = k
    OBVIOUS
<1> QED
    BY <1>1, <1>2, <1>3, <1>4 DEF Halves

\* Dropping the samples of an overflow one by one, as the code does, moves the stamp as far as
\* dropping them at once, as Append16 does.
THEOREM AdvanceAdds ==
    ASSUME NEW p, p.us \in Int, p.frac \in 0 .. 1, NEW m \in Nat, NEW n \in Nat
    PROVE  Advance(Advance(p, m), n) = Advance(p, m + n)
<1> DEFINE q == Advance(p, m)
           a == Advance(q, n)
           b == Advance(p, m + n)
<1>1. /\ q.us \in Int /\ q.frac \in 0 .. 1 /\ Halves(q) = Halves(p) + 125 * m
    BY AdvanceExact
<1>2. /\ a.us \in Int /\ a.frac \in 0 .. 1 /\ Halves(a) = Halves(q) + 125 * n
    <2> HIDE DEF q
    <2> QED BY ZenonT(60), <1>1, AdvanceExact
<1>3. /\ b.us \in Int /\ b.frac \in 0 .. 1 /\ Halves(b) = Halves(p) + 125 * (m + n)
    <2>1. m + n \in Nat
        OBVIOUS
    <2> QED BY <2>1, AdvanceExact
<1>4. Halves(a) = Halves(b)
    <2> HIDE DEF q, a, b
    <2> QED BY <1>1, <1>2, <1>3 DEF Halves
<1>5. a.us = b.us /\ a.frac = b.frac
    <2>1. \A x, y \in Int : \A u, v \in 0 .. 1 : 2 * x + u = 2 * y + v => x = y /\ u = v
        OBVIOUS
    <2>2. 2 * a.us + a.frac = 2 * b.us + b.frac
        BY <1>4 DEF Halves
    <2>3. a.us \in Int /\ b.us \in Int
        BY <1>2, <1>3
    <2>4. a.frac \in 0 .. 1 /\ b.frac \in 0 .. 1
        BY <1>2, <1>3
    <2> HIDE DEF q, a, b
    <2>5. \A v \in 0 .. 1 : 2 * a.us + a.frac = 2 * b.us + v => a.us = b.us /\ a.frac = v
        BY <2>1, <2>3, <2>4
    <2> QED BY <2>2, <2>4, <2>5
<1>6. a = [us |-> a.us, frac |-> a.frac] /\ b = [us |-> b.us, frac |-> b.frac]
    BY DEF Advance
<1> QED
    BY <1>5, <1>6

-----------------------------------------------------------------------------
\* What the steps preserve: the types, and that the stamp of a buffer that holds samples is
\* the one it was set to plus the samples gone since.
BufferInv == BufferTypeOK /\ NoDrift

LEMMA InitBuffer == Init => BufferInv
BY BufferAssumption DEF Init, BufferInv, BufferTypeOK, NoDrift, None, Slots

LEMMA AppendKeeps ==
    ASSUME BufferInv, NEW n \in Blocks, NEW gap \in Gaps, Append16(n, gap)
    PROVE  BufferInv'
<1> DEFINE fresh == count = 0 \/ ~FollowsOn(clock)
           h == IF count > 0 /\ fresh THEN 0 ELSE head
           c == IF fresh THEN 0 ELSE count
           p == IF fresh THEN [us |-> clock, frac |-> 0] ELSE pts
           g == IF fresh THEN 0 ELSE gone
           b == IF fresh THEN clock ELSE base
           drop == IF c + n > MaxSamples THEN c + n - MaxSamples ELSE 0
           At(s) == {k \in 0 .. n - 1 : (h + k) % MaxSamples = s /\ k + MaxSamples > n - 1}
<1>0. /\ n \in Nat \ {0} /\ gap \in Int /\ MaxSamples \in Nat \ {0} /\ clock \in Int
      /\ head \in Slots /\ count \in 0 .. MaxSamples /\ pts.us \in Int /\ pts.frac \in 0 .. 1
      /\ gone \in Nat /\ base \in Int /\ samples \in [Slots -> Int] /\ appends \in 0 .. MaxAppends
      /\ MaxAppends \in Nat
    BY BufferAssumption DEF BufferInv, BufferTypeOK
<1>1. /\ h \in Slots /\ c \in 0 .. MaxSamples /\ g \in Nat /\ b \in Int
      /\ drop \in Nat /\ c + n - drop \in 0 .. MaxSamples
    BY <1>0 DEF Slots
<1>2. /\ p.us \in Int /\ p.frac \in 0 .. 1 /\ Halves(p) = 2 * b + 125 * g
    <2>1. CASE fresh
        <3>1. p = [us |-> clock, frac |-> 0] /\ g = 0 /\ b = clock
            BY <2>1
        <3> QED BY <3>1, <1>0 DEF Halves
    <2>2. CASE ~fresh
        <3>1. p = pts /\ g = gone /\ b = base /\ count > 0
            BY <2>2, <1>0
        <3> QED BY <3>1, <1>0 DEF Halves, BufferInv, NoDrift
    <2> QED BY <2>1, <2>2
<1>3. /\ samples' = [s \in Slots |-> IF At(s) = {} THEN samples[s]
                                     ELSE 2 * clock + 125 * (CHOOSE k \in At(s) : TRUE)]
      /\ head' = (h + n) % MaxSamples /\ count' = c + n - drop
      /\ pts' = AfterOverflow(p, drop) /\ base' = b /\ gone' = g + drop
      /\ clock' = clock + ((n * 125) \div 2) + gap
      /\ appends < MaxAppends /\ appends' = appends + 1
    BY DEF Append16
<1>4. /\ pts'.us \in Int /\ pts'.frac \in 0 .. 1 /\ Halves(pts') = Halves(p) + 125 * drop
    <2> HIDE DEF p, drop
    <2>1. CASE drop > 0
        <3>1. pts' = Advance(p, drop)
            BY <2>1, <1>3 DEF AfterOverflow
        <3> QED BY ZenonT(60), <3>1, <1>1, <1>2, AdvanceExact
    <2>2. CASE ~(drop > 0)
        <3>1. pts' = p /\ drop = 0
            BY <2>2, <1>1, <1>3 DEF AfterOverflow
        <3> QED BY <3>1, <1>2 DEF Halves
    <2> QED BY <2>1, <2>2
<1>5. samples' \in [Slots -> Int]
    <2>1. ASSUME NEW s \in Slots
          PROVE  (IF At(s) = {} THEN samples[s]
                  ELSE 2 * clock + 125 * (CHOOSE k \in At(s) : TRUE)) \in Int
        <3>1. At(s) # {} => (CHOOSE k \in At(s) : TRUE) \in At(s)
            OBVIOUS
        <3>2. At(s) \subseteq Int
            BY <1>0
        <3> HIDE DEF At
        <3> QED BY <3>1, <3>2, <1>0
    <2> HIDE DEF At
    <2> QED BY <2>1, <1>3
<1>6. head' \in Slots /\ count' \in 0 .. MaxSamples
    <2>1. \A k \in Nat : k % MaxSamples \in 0 .. MaxSamples - 1
        BY <1>0
    <2>2. h + n \in Nat
        BY <1>0, <1>1 DEF Slots
    <2> HIDE DEF h, c, drop
    <2> QED BY <2>1, <2>2, <1>1, <1>3 DEF Slots
<1>7. gone' \in Nat /\ base' \in Int /\ clock' \in Int /\ appends' \in 0 .. MaxAppends
    <2>1. (n * 125) \div 2 \in Int
        BY <1>0
    <2> HIDE DEF g, b, drop
    <2> QED BY <2>1, <1>0, <1>1, <1>3
<1>8. Halves(pts') = 2 * base' + 125 * gone'
    <2> HIDE DEF p, g, b, drop
    <2> QED BY <1>1, <1>2, <1>3, <1>4 DEF Halves
<1> QED
    BY <1>4, <1>5, <1>6, <1>7, <1>8 DEF BufferInv, BufferTypeOK, NoDrift, Halves

LEMMA DrainKeeps ==
    ASSUME BufferInv, NEW n \in Drains, Drain(n)
    PROVE  BufferInv'
<1> DEFINE d == IF n < count THEN n ELSE count
<1>0. /\ n \in Nat \ {0} /\ MaxSamples \in Nat \ {0} /\ count \in 0 .. MaxSamples /\ count > 0
      /\ pts.us \in Int /\ pts.frac \in 0 .. 1 /\ gone \in Nat /\ base \in Int /\ head \in Slots
    BY BufferAssumption DEF BufferInv, BufferTypeOK, Drain
<1>1. d \in Nat /\ count - d \in 0 .. MaxSamples /\ (d = count \/ count - d > 0)
    BY <1>0
<1>2. /\ count' = count - d /\ gone' = gone + d
      /\ pts' = (IF d = count THEN None ELSE Advance(pts, d))
      /\ head' = (IF d = count THEN 0 ELSE head)
      /\ samples' = samples /\ base' = base /\ clock' = clock /\ appends' = appends
    BY DEF Drain
<1> HIDE DEF d
<1>3. CASE d = count
    <2>1. pts' = None /\ count' = 0 /\ head' = 0
        BY <1>0, <1>2, <1>3
    <2> QED BY <2>1, <1>0, <1>1, <1>2 DEF BufferInv, BufferTypeOK, NoDrift, None, Slots
<1>4. CASE d # count
    <2>1. pts' = Advance(pts, d) /\ head' = head
        BY <1>2, <1>4
    <2>2. /\ pts'.us \in Int /\ pts'.frac \in 0 .. 1 /\ Halves(pts') = Halves(pts) + 125 * d
        BY <2>1, <1>0, <1>1, AdvanceExact
    <2>3. Halves(pts) = 2 * base + 125 * gone
        BY <1>0 DEF BufferInv, NoDrift, Halves
    <2>4. Halves(pts') = 2 * base' + 125 * gone'
        BY <2>2, <2>3, <1>0, <1>1, <1>2 DEF Halves
    <2> QED BY <2>1, <2>2, <2>4, <1>0, <1>1, <1>2 DEF BufferInv, BufferTypeOK, NoDrift, Halves
<1> QED
    BY <1>3, <1>4

LEMMA ClearKeeps == BufferInv /\ Clear => BufferInv'
BY BufferAssumption DEF BufferInv, BufferTypeOK, NoDrift, Clear, None, Slots

LEMMA NextKeeps == BufferInv /\ [Next]_vars => BufferInv'
<1> SUFFICES ASSUME BufferInv, [Next]_vars PROVE BufferInv'
    OBVIOUS
<1>1. CASE \E n \in Blocks, gap \in Gaps : Append16(n, gap)
    BY <1>1, AppendKeeps
<1>2. CASE \E n \in Drains : Drain(n)
    BY <1>2, DrainKeeps
<1>3. CASE Clear
    BY <1>3, ClearKeeps
<1>4. CASE UNCHANGED vars
    BY <1>4 DEF vars, BufferInv, BufferTypeOK, NoDrift
<1> QED
    BY <1>1, <1>2, <1>3, <1>4 DEF Next

\* The variables of vw_audio_buffer_t keep their types: in particular the half carried in
\* start_pts_frac_us is 0 or 1, and the ring's head and count stay within the ring.
THEOREM BufferTypes == Spec => []BufferTypeOK
<1>1. BufferInv => BufferTypeOK
    BY DEF BufferInv
<1> QED
    BY <1>1, InitBuffer, NextKeeps, PTL DEF Spec

\* start_pts_us never drifts: it has moved by exactly 62.5 microseconds for every sample drained
\* or overwritten since it was set.
THEOREM StampNeverDrifts == Spec => []NoDrift
<1>1. BufferInv => NoDrift
    BY DEF BufferInv
<1> QED
    BY <1>1, InitBuffer, NextKeeps, PTL DEF Spec

-----------------------------------------------------------------------------
(* The ring: which sample of the window lies in which slot.                *)

\* Only zero is a multiple of the ring's size closer to zero than that size.
LEMMA SmallMultiple ==
    ASSUME NEW M \in Nat \ {0}, NEW z \in Int, -M < z * M, z * M < M
    PROVE  z = 0
<1>1. CASE z >= 1
    <2>1. PICK u \in Nat : z = u + 1
        <3>1. z - 1 \in Nat /\ z = (z - 1) + 1
            BY <1>1
        <3> QED BY <3>1
    <2>2. z * M = u * M + M /\ u * M \in Nat
        BY <2>1
    <2> QED BY <2>2
<1>2. CASE z <= -1
    <2>1. PICK u \in Nat : z = -1 - u
        <3>1. -1 - z \in Nat /\ z = -1 - (-1 - z)
            BY <1>2
        <3> QED BY <3>1
    <2>2. z * M = -M - u * M /\ u * M \in Nat
        BY <2>1
    <2> QED BY <2>2
<1> QED
    BY <1>1, <1>2

\* The remainder and the quotient behind it.
LEMMA RemainderFacts ==
    ASSUME NEW M \in Nat \ {0}, NEW x \in Int
    PROVE  /\ x % M \in 0 .. M - 1
           /\ \E q \in Int : x = q * M + (x % M)
<1>1. x % M \in 0 .. M - 1
    OBVIOUS
<1>2. x \div M \in Int /\ x = (x \div M) * M + (x % M)
    OBVIOUS
<1> QED
    BY <1>1, <1>2

\* Positions a whole number of rings apart share a slot.
LEMMA SameSlot ==
    ASSUME NEW M \in Nat \ {0}, NEW x \in Int, NEW y \in Int, NEW q \in Int, x = y + q * M
    PROVE  x % M = y % M
<1> DEFINE a == x % M
           b == y % M
<1>1. a \in 0 .. M - 1 /\ b \in 0 .. M - 1
    BY RemainderFacts
<1>2. PICK u \in Int : x = u * M + a
    BY RemainderFacts
<1>3. PICK v \in Int : y = v * M + b
    BY RemainderFacts
<1> HIDE DEF a, b
<1>4. (v - u + q) * M = v * M - u * M + q * M
    OBVIOUS
<1>5. a - b = (v - u + q) * M
    BY <1>1, <1>2, <1>3, <1>4
<1>6. v - u + q = 0
    <2>1. v - u + q \in Int /\ -M < (v - u + q) * M /\ (v - u + q) * M < M
        BY <1>1, <1>5
    <2> QED BY <2>1, SmallMultiple
<1>7. a = b
    BY <1>1, <1>5, <1>6
<1> QED
    BY <1>7 DEF a, b

\* Different positions less than a ring apart have different slots.
LEMMA OwnSlot ==
    ASSUME NEW M \in Nat \ {0}, NEW x \in Int, NEW y \in Int,
           x % M = y % M, -M < x - y, x - y < M
    PROVE  x = y
<1>1. x % M \in 0 .. M - 1
    BY RemainderFacts
<1>2. PICK u \in Int : x = u * M + (x % M)
    BY RemainderFacts
<1>3. PICK v \in Int : y = v * M + (y % M)
    BY RemainderFacts
<1>4. (u - v) * M = u * M - v * M
    OBVIOUS
<1>5. x - y = (u - v) * M
    BY <1>1, <1>2, <1>3, <1>4
<1>6. u - v = 0
    BY <1>5, SmallMultiple
<1> QED
    BY <1>5, <1>6

\* The stamp of a block that follows on misses the time its predecessor's
\* samples predict by at most one sample: the slack of FollowsOn, and the half
\* microsecond ExpectedPts rounds away.
LEMMA FollowOnSlack ==
    ASSUME BufferTypeOK, FollowsOn(clock)
    PROVE  Halves(pts) + 125 * count - 2 * clock \in -127 .. 127
<1> DEFINE x == count * 125 + pts.frac
<1>1. /\ count \in Nat /\ pts.us \in Int /\ pts.frac \in 0 .. 1 /\ clock \in Int
    BY BufferAssumption DEF BufferTypeOK
<1>2. x \in Int /\ x = 125 * count + pts.frac
    BY <1>1
<1> DEFINE y == x \div 2
<1>3. y \in Int /\ x - 2 * y \in 0 .. 1
    <2> HIDE DEF x
    <2> QED BY <1>2
<1>4. clock - (pts.us + y) \in -63 .. 63
    BY DEF FollowsOn, ExpectedPts
<1>5. \A u, v, f, m, k \in Int :
        /\ f \in 0 .. 1 /\ (125 * m + f) - 2 * v \in 0 .. 1 /\ k - (u + v) \in -63 .. 63
        => (2 * u + f) + 125 * m - 2 * k \in -127 .. 127
    OBVIOUS
<1>6. (125 * count + pts.frac) - 2 * y \in 0 .. 1
    <2> HIDE DEF y
    <2> QED BY <1>2, <1>3
<1> HIDE DEF x, y
<1>7. (2 * pts.us + pts.frac) + 125 * count - 2 * clock \in -127 .. 127
    BY <1>1, <1>3, <1>4, <1>5, <1>6
<1> QED
    BY <1>7 DEF Halves

\* Draining the oldest samples dates the others as before.
LEMMA DrainDates ==
    ASSUME BufferInv, StampIsTrue, NEW n \in Drains, Drain(n)
    PROVE  StampIsTrue'
<1> DEFINE d == IF n < count THEN n ELSE count
<1>0. /\ n \in Nat \ {0} /\ MaxSamples \in Nat \ {0} /\ count \in 0 .. MaxSamples /\ count > 0
      /\ pts.us \in Int /\ pts.frac \in 0 .. 1 /\ head \in 0 .. MaxSamples - 1
    BY BufferAssumption DEF BufferInv, BufferTypeOK, Drain, Slots
<1>1. /\ count' = count - d /\ samples' = samples
      /\ pts' = (IF d = count THEN None ELSE Advance(pts, d))
      /\ head' = (IF d = count THEN 0 ELSE head)
    BY DEF Drain
<1>2. d \in 1 .. count
    BY <1>0
<1> HIDE DEF d
<1> SUFFICES ASSUME NEW i \in 1 .. count'
             PROVE  (2 * pts'.us + pts'.frac + 125 * (i - 1)) - Window'[i] \in -127 .. 127
    BY DEF StampIsTrue
<1>3. /\ d # count /\ i \in Int /\ i + d \in 1 .. count /\ count - d \in Nat
      /\ count' = count - d /\ head' = head
    BY <1>0, <1>1, <1>2
<1>4. /\ pts'.us \in Int /\ pts'.frac \in 0 .. 1 /\ Halves(pts') = Halves(pts) + 125 * d
    <2>1. pts' = Advance(pts, d) /\ d \in Nat
        BY <1>0, <1>1, <1>2, <1>3
    <2> QED BY <1>0, <2>1, AdvanceExact
<1>5. Window'[i] = Window[i + d]
    <2>1. head' + MaxSamples - count' + i - 1 = head + MaxSamples - count + (i + d) - 1
        BY <1>0, <1>2, <1>3
    <2>2. Window'[i] = samples'[(head' + MaxSamples - count' + i - 1) % MaxSamples]
        BY DEF Window
    <2>3. Window[i + d] = samples[(head + MaxSamples - count + (i + d) - 1) % MaxSamples]
        BY <1>3 DEF Window
    <2> QED BY <1>1, <2>1, <2>2, <2>3
<1>6. (Halves(pts) + 125 * ((i + d) - 1)) - Window[i + d] \in -127 .. 127
    BY <1>3 DEF StampIsTrue, Halves
<1>7. Halves(pts) + 125 * ((i + d) - 1) = Halves(pts') + 125 * (i - 1)
    BY <1>0, <1>2, <1>3, <1>4 DEF Halves
<1> QED
    BY <1>5, <1>6, <1>7 DEF Halves

\* Appending a block, whether it follows on or starts the buffer anew and
\* however many samples it overwrites, dates the samples that stay as before
\* and the new ones to within one sample of the block's own stamp.
LEMMA AppendDates ==
    ASSUME BufferInv, StampIsTrue, NEW n \in Blocks, NEW gap \in Gaps, Append16(n, gap)
    PROVE  StampIsTrue'
<1> DEFINE M == MaxSamples
           fresh == count = 0 \/ ~FollowsOn(clock)
           h == IF count > 0 /\ fresh THEN 0 ELSE head
           c == IF fresh THEN 0 ELSE count
           p == IF fresh THEN [us |-> clock, frac |-> 0] ELSE pts
           drop == IF c + n > MaxSamples THEN c + n - MaxSamples ELSE 0
           At(s) == {k \in 0 .. n - 1 : (h + k) % MaxSamples = s /\ k + MaxSamples > n - 1}
<1>0. /\ n \in Nat \ {0} /\ M \in Nat \ {0} /\ clock \in Int
      /\ head \in 0 .. M - 1 /\ count \in 0 .. M /\ pts.us \in Int /\ pts.frac \in 0 .. 1
      /\ samples \in [Slots -> Int]
    BY BufferAssumption DEF BufferInv, BufferTypeOK, Slots
<1>1. /\ h \in 0 .. M - 1 /\ c \in 0 .. M /\ drop \in Nat
      /\ drop >= c + n - M /\ c + n - drop \in 0 .. M
      /\ (c > 0 => h = head /\ c = count /\ p = pts /\ ~fresh)
    BY <1>0
<1>2. /\ samples' = [s \in Slots |-> IF At(s) = {} THEN samples[s]
                                     ELSE 2 * clock + 125 * (CHOOSE k \in At(s) : TRUE)]
      /\ head' = (h + n) % MaxSamples /\ count' = c + n - drop
      /\ pts' = AfterOverflow(p, drop)
    BY DEF Append16
<1>3. /\ p.us \in Int /\ p.frac \in 0 .. 1
      /\ Halves(p) + 125 * c - 2 * clock \in -127 .. 127
    <2>1. CASE fresh
        <3>1. p = [us |-> clock, frac |-> 0] /\ c = 0
            BY <2>1
        <3>2. p.us = clock /\ p.frac = 0
            BY <3>1
        <3> HIDE DEF p, c
        <3> QED BY <1>0, <3>1, <3>2 DEF Halves
    <2>2. CASE ~fresh
        <3>1. p = pts /\ c = count /\ FollowsOn(clock)
            BY <2>2
        <3> QED BY <1>0, <3>1, FollowOnSlack DEF BufferInv
    <2> QED BY <2>1, <2>2
<1>4. /\ pts'.us \in Int /\ pts'.frac \in 0 .. 1 /\ Halves(pts') = Halves(p) + 125 * drop
    <2> HIDE DEF p, drop
    <2>1. CASE drop > 0
        <3>1. pts' = Advance(p, drop)
            BY <2>1, <1>2 DEF AfterOverflow
        <3> QED BY ZenonT(60), <3>1, <1>1, <1>3, AdvanceExact
    <2>2. CASE ~(drop > 0)
        <3>1. pts' = p /\ drop = 0
            BY SMTT(30), <2>2, <1>1, <1>2 DEF AfterOverflow
        <3> QED BY <3>1, <1>3 DEF Halves
    <2> QED BY <2>1, <2>2
<1> SUFFICES ASSUME NEW i \in 1 .. count'
             PROVE  (2 * pts'.us + pts'.frac + 125 * (i - 1)) - Window'[i] \in -127 .. 127
    BY DEF StampIsTrue
<1> DEFINE j == i + drop
           s == (h + (j - 1 - c)) % M
<1>5. /\ i \in Int /\ j \in 1 .. c + n /\ j \in Int /\ j - 1 - c \in Int
      /\ j - c > n - M
    <2> HIDE DEF c, drop
    <2> QED BY <1>0, <1>1, <1>2
<1>6. Window'[i] = samples'[s] /\ s \in Slots
    <2>1. Window'[i] = samples'[(head' + M - count' + i - 1) % M]
        BY DEF Window
    <2> DEFINE e == h + n
    <2>a. e \in Int /\ head' = e % M
        <3> HIDE DEF h
        <3> QED BY <1>0, <1>1, <1>2
    <2>b. head' \in 0 .. M - 1 /\ \E q \in Int : e = q * M + head'
        <3> HIDE DEF e, M
        <3> QED BY <1>0, <2>a, RemainderFacts
    <2>2. PICK q \in Int : h + n = q * M + head'
        BY <2>b
    <2>3. head' \in 0 .. M - 1
        BY <2>b
    <2> HIDE DEF h, c, drop, M
    <2>4. (1 - q) * M = M - q * M /\ q * M \in Int
        BY <1>0
    <2>5. head' + M - count' + i - 1 = (h + (j - 1 - c)) + (1 - q) * M
        BY <1>0, <1>1, <1>2, <1>5, <2>2, <2>3, <2>4
    <2>6. /\ head' + M - count' + i - 1 \in Int /\ h + (j - 1 - c) \in Int /\ 1 - q \in Int
        BY <1>0, <1>1, <1>2, <1>5, <2>3
    <2>7. (head' + M - count' + i - 1) % M = s
        <3> DEFINE x == head' + M - count' + i - 1
                   y == h + (j - 1 - c)
                   z == 1 - q
        <3>1. x \in Int /\ y \in Int /\ z \in Int /\ x = y + z * M
            BY <2>5, <2>6
        <3>2. x % M = y % M
            <4> HIDE DEF x, y, z
            <4> QED BY <1>0, <3>1, SameSlot
        <3> QED BY <3>2
    <2>8. s \in 0 .. M - 1
        <3> HIDE DEF j
        <3> QED BY <1>0, <2>6, RemainderFacts
    <2> QED BY <2>1, <2>7, <2>8 DEF Slots, M
<1>7. samples'[s] = IF At(s) = {} THEN samples[s]
                    ELSE 2 * clock + 125 * (CHOOSE k \in At(s) : TRUE)
    <2> HIDE DEF s, At
    <2> QED BY SMTT(30), <1>2, <1>6
<1>8. CASE j <= c
    <2>1. At(s) = {}
        <3>1. SUFFICES ASSUME NEW k \in 0 .. n - 1, (h + k) % M = s PROVE FALSE
            OBVIOUS
        <3> HIDE DEF h, c, drop, M
        <3>2. /\ h + k \in Int /\ h + (j - 1 - c) \in Int
              /\ (h + k) - (h + (j - 1 - c)) = k - (j - 1 - c)
              /\ k - (j - 1 - c) > 0 /\ k - (j - 1 - c) < M
            BY <1>0, <1>1, <1>5, <1>8
        <3> HIDE DEF j
        <3>3. h + k = h + (j - 1 - c)
            BY <1>0, <3>1, <3>2, OwnSlot
        <3> QED BY <1>5, <3>2, <3>3
    <2>2. Window'[i] = samples[s]
        BY <1>6, <1>7, <2>1
    <2>3. c > 0 /\ h = head /\ c = count /\ p = pts
        <3> HIDE DEF h, p, c, drop
        <3> QED BY <1>1, <1>5, <1>8
    <2>4. j \in 1 .. count /\ Window[j] = samples[(head + M - count + j - 1) % M]
        <3> HIDE DEF h, c, drop, M
        <3>1. j \in 1 .. count
            BY <1>5, <1>8, <2>3
        <3> QED BY <3>1 DEF Window, M
    <2>5. (head + M - count + j - 1) % M = s
        <3> HIDE DEF h, c, M
        <3>1. /\ head + M - count + j - 1 = (h + (j - 1 - c)) + 1 * M
              /\ head + M - count + j - 1 \in Int /\ h + (j - 1 - c) \in Int
            BY <1>0, <1>1, <1>5, <2>3
        <3> DEFINE x == head + M - count + j - 1
                   y == h + (j - 1 - c)
                   z == 1
        <3>2. x \in Int /\ y \in Int /\ z \in Int /\ x = y + z * M
            BY <3>1
        <3>3. x % M = y % M
            <4> HIDE DEF x, y, z
            <4> QED BY <1>0, <3>2, SameSlot
        <3> QED BY <3>3
    <2>6. Window'[i] = Window[j]
        BY <2>2, <2>4, <2>5
    <2>7. (Halves(pts) + 125 * (j - 1)) - Window[j] \in -127 .. 127
        BY ZenonT(60), <2>4 DEF StampIsTrue, Halves
    <2>8. Halves(pts') + 125 * (i - 1) = Halves(pts) + 125 * (j - 1)
        <3>1. Halves(pts) \in Int
            BY <1>0 DEF Halves
        <3> HIDE DEF drop, c, p
        <3> QED BY <1>1, <1>4, <1>5, <2>3, <3>1
    <2> QED BY <2>6, <2>7, <2>8 DEF Halves
<1>9. CASE j > c
    <2> DEFINE k == j - 1 - c
    <2>1. k \in 0 .. n - 1 /\ k + M > n - 1
        <3> HIDE DEF c, drop, M
        <3> QED BY <1>0, <1>1, <1>5, <1>9
    <2>2. k \in At(s)
        BY <2>1
    <2>3. \A m \in At(s) : m = k
        <3>1. SUFFICES ASSUME NEW m \in 0 .. n - 1, (h + m) % M = s, m + M > n - 1
                       PROVE  m = k
            OBVIOUS
        <3> HIDE DEF h, c, M, j
        <3>2. /\ h + m \in Int /\ h + k \in Int /\ (h + m) - (h + k) = m - k
              /\ -M < m - k /\ m - k < M
            <4> HIDE DEF k
            <4> QED BY <1>0, <1>1, <2>1, <3>1
        <3> HIDE DEF k
        <3>3. h + m = h + k
            BY <1>0, <3>1, <3>2, OwnSlot DEF k
        <3> QED BY <1>0, <1>1, <2>1, <3>3
    <2>4. (CHOOSE m \in At(s) : TRUE) = k /\ At(s) # {}
        <3> HIDE DEF At, k, s
        <3> QED BY <2>2, <2>3
    <2>5. Window'[i] = 2 * clock + 125 * k
        <3> HIDE DEF At, k, s
        <3> QED BY <1>6, <1>7, <2>4
    <2>6. (Halves(pts') + 125 * (i - 1)) - Window'[i] = Halves(p) + 125 * c - 2 * clock
        <3>1. Halves(p) \in Int
            <4> HIDE DEF p
            <4> QED BY <1>3 DEF Halves
        <3> HIDE DEF c, drop, p
        <3> QED BY <1>0, <1>1, <1>4, <1>5, <2>5, <3>1
    <2> QED BY <1>3, <2>6 DEF Halves
<1> QED
    <2> HIDE DEF c, drop
    <2> QED BY <1>1, <1>5, <1>8, <1>9

\* Whatever blocks came and went, in whatever order, the one stamp
\* vw_audio_buffer_get_samples gives the oldest sample dates every sample it
\* copies out to within one sample of its true time, for every capacity,
\* block and drain size.
THEOREM StampDatesEverySample == Spec => []StampIsTrue
<1>1. Init => StampIsTrue
    BY DEF Init, StampIsTrue
<1>2. BufferInv /\ StampIsTrue /\ [Next]_vars => StampIsTrue'
    <2> SUFFICES ASSUME BufferInv, StampIsTrue, [Next]_vars PROVE StampIsTrue'
        OBVIOUS
    <2>1. CASE \E n \in Blocks, gap \in Gaps : Append16(n, gap)
        BY <2>1, AppendDates
    <2>2. CASE \E n \in Drains : Drain(n)
        BY <2>2, DrainDates
    <2>3. CASE Clear
        BY SMTT(30), <2>3 DEF Clear, StampIsTrue
    <2>4. CASE UNCHANGED vars
        BY <2>4 DEF vars, StampIsTrue, Window
    <2> QED
        BY <2>1, <2>2, <2>3, <2>4 DEF Next
<1> QED
    BY <1>1, <1>2, InitBuffer, NextKeeps, PTL DEF Spec

-----------------------------------------------------------------------------
(* The decoder of a file (SourceDecoder).                                    *)

Decs == [pts : Int, target : Nat \cup {Decoder!NoTarget}, demuxEof : BOOLEAN, flushSent : BOOLEAN,
         eof : BOOLEAN, left : Seq(Int)]

\* s is the samples from a on.
IsSpan(s, a) == s \in Seq(Int) /\ \A i \in 1 .. Len(s) : s[i] = a + i - 1

\* The frames of c follow each other and end before sample e; where they start.
Contiguous(c, e) ==
    /\ \A i \in 1 .. Len(c) : Len(c[i]) > 0 /\ c[i][1] \in Int /\ IsSpan(c[i], c[i][1])
    /\ \A i \in 1 .. Len(c) - 1 : c[i + 1][1] = c[i][1] + Len(c[i])
    /\ c # <<>> => c[Len(c)][1] + Len(c[Len(c)]) = e
FirstOf(c, e) == IF c = <<>> THEN e ELSE c[1][1]

\* The pending packet has not gone into the codec.
Unsent == pkt \notin {Decoder!NoPacket, Decoder!Other} /\ decPc # "recv"

\* Where the pending packet, the codec, the resampler and the left-overs start.
PacketStart == IF Unsent THEN at - Len(pkt) ELSE at
HeldStart == FirstOf(codec, PacketStart) - Len(held)
LeftStart == HeldStart - Len(dec.left)

DecoderTyped ==
    /\ at \in 0 .. Samples /\ codec \in Seq(Seq(Int)) /\ held \in Seq(Int) /\ dec \in Decs
    /\ pkt \in Seq(Int) /\ decPc \in {"idle", "loop", "room", "recv", "failed"}
    /\ out \in Seq(Int) /\ expect \in Nat /\ Len(out) <= BlockSize

\* From the block on everything that is kept back is one unbroken stretch of the file.
Unbroken ==
    /\ Unsent => IsSpan(pkt, at - Len(pkt))
    /\ Contiguous(codec, PacketStart)
    /\ IsSpan(held, HeldStart) /\ IsSpan(dec.left, LeftStart) /\ IsSpan(out, expect)

\* It goes on where the block ends, or is before the target of a seek, and then nothing was given.
Joined(d, o, from) ==
    \/ from = expect + Len(o) /\ d.target <= expect + Len(o)
    \/ d.target = expect /\ o = <<>> /\ d.left = <<>> /\ from < d.target

\* The clock of the decoder is the time of the first sample kept back.
Dated ==
    /\ held # <<>> \/ dec.left # <<>> => dec.pts = LeftStart
    /\ out # <<>> => label = expect

Orderly ==
    /\ decPc \in {"room", "recv"} => pkt \notin {Decoder!NoPacket, Decoder!Other}
    /\ decPc = "idle" => out = <<>>
    /\ decPc # "idle" /\ dec.left # <<>> => Len(out) = BlockSize
    /\ dec.demuxEof => at = Samples /\ pkt = Decoder!NoPacket
    /\ dec.eof => decPc \in {"idle", "loop"} /\ expect + Len(out) >= Samples
    /\ dec.target <= Samples

DecoderInv ==
    \/ decPc = "failed" /\ ~dec.eof /\ out = <<>>
    \/ /\ decPc # "failed"
       /\ DecoderTyped /\ Unbroken /\ Joined(dec, out, LeftStart) /\ Dated /\ Orderly

-----------------------------------------------------------------------------
(* Stretches of samples.                                                    *)

LEMMA EmptySpan ==
    ASSUME NEW a
    PROVE  IsSpan(<<>>, a)
BY EmptySeq DEF IsSpan

LEMMA SpanIsSpan ==
    ASSUME NEW a \in Int, NEW b \in Int, a <= b
    PROVE  IsSpan(Decoder!Span(a, b), a) /\ Len(Decoder!Span(a, b)) = b - a
<1>1. PICK n \in Nat : n = b - a
  OBVIOUS
<1>2. Decoder!Greater(b - a, 0) = n
  BY <1>1 DEF Decoder!Greater
<1>3. Decoder!Span(a, b) = [i \in 1 .. n |-> a + i - 1]
  BY <1>2 DEF Decoder!Span
<1>4. Decoder!Span(a, b) \in Seq(Int) /\ Len(Decoder!Span(a, b)) = n /\ \A i \in 1 .. n : Decoder!Span(a,
        b)[i] = a + i - 1
  BY <1>3
<1>5. QED
  BY <1>1, <1>4 DEF IsSpan

\* A part of a stretch is one.
LEMMA SubSpan ==
    ASSUME NEW s, NEW a \in Int, IsSpan(s, a), NEW m \in Nat, NEW n \in Nat, m <= n, n <= Len(s)
    PROVE  IsSpan(SubSeq(s, m + 1, n), a + m) /\ Len(SubSeq(s, m + 1, n)) = n - m
<1>1. s \in Seq(Int) /\ Len(s) \in Nat
  BY LenProperties DEF IsSpan
<1>2. \A i \in m + 1 .. n : s[i] \in Int
  <2>1. \A i \in m + 1 .. n : i \in 1 .. Len(s)
    BY <1>1
  <2>2. QED
    BY <1>1, <2>1, ElementOfSeq
<1>3. m + 1 \in Int /\ n \in Int
  OBVIOUS
<1> DEFINE z == SubSeq(s, m + 1, n)
<1>4. z \in Seq(Int) /\ (Len(z) = IF m + 1 <= n THEN n - (m + 1) + 1 ELSE 0)
      /\ \A i \in 1 .. n - (m + 1) + 1 : z[i] = s[(m + 1) + i - 1]
  BY <1>2, <1>3, SubSeqProperties
<1> HIDE DEF z
<1>5. Len(z) = n - m
  BY <1>4
<1>6. ASSUME NEW i \in 1 .. Len(z)
      PROVE  z[i] = (a + m) + i - 1
  <2>1. i \in 1 .. n - (m + 1) + 1 /\ (m + 1) + i - 1 = m + i /\ m + i \in 1 .. Len(s)
    BY <1>1, <1>5
  <2>2. z[i] = s[m + i] /\ s[m + i] = a + (m + i) - 1
    BY <1>4, <2>1 DEF IsSpan
  <2>3. QED
    BY <2>2
<1>7. QED
  BY <1>4, <1>5, <1>6 DEF IsSpan, z

\* Two that follow each other are one.
LEMMA JoinSpans ==
    ASSUME NEW s, NEW t, NEW a \in Int, IsSpan(s, a), IsSpan(t, a + Len(s))
    PROVE  IsSpan(s \o t, a) /\ Len(s \o t) = Len(s) + Len(t)
<1>1. s \in Seq(Int) /\ t \in Seq(Int) /\ Len(s) \in Nat /\ Len(t) \in Nat
  BY LenProperties DEF IsSpan
<1> DEFINE z == s \o t
<1>2. z \in Seq(Int) /\ Len(z) = Len(s) + Len(t)
      /\ \A i \in 1 .. Len(s) + Len(t) : z[i] = IF i <= Len(s) THEN s[i] ELSE t[i - Len(s)]
  BY <1>1, ConcatProperties
<1> HIDE DEF z
<1>3. ASSUME NEW i \in 1 .. Len(z)
      PROVE  z[i] = a + i - 1
  <2>1. CASE i <= Len(s)
    <3>1. i \in 1 .. Len(s) /\ z[i] = s[i]
      BY <1>1, <1>2, <2>1
    <3>2. QED
      BY <3>1 DEF IsSpan
  <2>2. CASE i > Len(s)
    <3>1. i - Len(s) \in 1 .. Len(t) /\ z[i] = t[i - Len(s)]
      BY <1>1, <1>2, <2>2
    <3>2. t[i - Len(s)] = (a + Len(s)) + (i - Len(s)) - 1
      BY <3>1 DEF IsSpan
    <3>3. QED
      BY <1>1, <3>1, <3>2
  <2>3. QED
    BY <1>1, <2>1, <2>2
<1>4. QED
  BY <1>2, <1>3 DEF IsSpan, z

-----------------------------------------------------------------------------
(* The frames in the codec.                                                 *)

LEMMA FirstFrame ==
    ASSUME NEW c \in Seq(Seq(Int)), NEW e \in Int, Contiguous(c, e), c # <<>>
    PROVE  /\ IsSpan(Head(c), FirstOf(c, e)) /\ Head(c)[1] = FirstOf(c, e) /\ FirstOf(c, e) \in Int
           /\ Tail(c) \in Seq(Seq(Int)) /\ Contiguous(Tail(c), e)
           /\ FirstOf(Tail(c), e) = FirstOf(c, e) + Len(Head(c))
<1> DEFINE g == Tail(c)
<1>1. /\ g \in Seq(Seq(Int)) /\ Head(c) = c[1] /\ Len(c) \in Nat /\ Len(c) > 0
      /\ Len(g) = Len(c) - 1 /\ \A i \in 1 .. Len(c) - 1 : g[i] = c[i + 1]
  BY HeadTailProperties, LenProperties, EmptySeq
<1>2. g = <<>> <=> Len(c) = 1
  <2>1. (g = <<>> => Len(g) = 0) /\ (g # <<>> => Len(g) \in Nat \ {0})
    BY <1>1, EmptySeq
  <2>2. QED
    BY SMTT(30), <1>1, <2>1
<1> HIDE DEF g
<1>3. FirstOf(c, e) = c[1][1] /\ c[1][1] \in Int /\ IsSpan(c[1], c[1][1])
  BY <1>1 DEF FirstOf, Contiguous
<1>4. \A i \in 1 .. Len(g) : Len(g[i]) > 0 /\ g[i][1] \in Int /\ IsSpan(g[i], g[i][1])
  <2>1. \A i \in 1 .. Len(g) : i + 1 \in 1 .. Len(c) /\ g[i] = c[i + 1]
    BY <1>1
  <2>2. QED
    BY <2>1 DEF Contiguous
<1>5. \A i \in 1 .. Len(g) - 1 : g[i + 1][1] = g[i][1] + Len(g[i])
  <2>1. \A i \in 1 .. Len(g) - 1 : i + 1 \in 1 .. Len(c) - 1 /\ g[i] = c[i + 1]
          /\ g[i + 1] = c[(i + 1) + 1]
    <3>1. PICK n \in Nat : n = Len(c)
      BY <1>1
    <3>2. SUFFICES ASSUME NEW i \in 1 .. Len(g) - 1
                   PROVE  i + 1 \in 1 .. Len(c) - 1 /\ g[i] = c[i + 1] /\ g[i + 1] = c[(i + 1) + 1]
      OBVIOUS
    <3>3. i \in 1 .. n - 1 /\ i + 1 \in 1 .. n - 1
      BY <1>1, <3>1
    <3>4. QED
      BY <1>1, <3>1, <3>3
  <2>2. QED
    BY <2>1 DEF Contiguous
<1>6. CASE Len(c) = 1
  BY <1>1, <1>2, <1>3, <1>4, <1>5, <1>6 DEF Contiguous, FirstOf, g
<1>7. CASE Len(c) # 1
  <2>1. g[Len(g)] = c[Len(c)] /\ g[1] = c[1 + 1] /\ 1 \in 1 .. Len(c) - 1
    BY SMTT(30), <1>1, <1>7
  <2>2. g[1][1] = c[1][1] + Len(c[1])
    BY <2>1 DEF Contiguous
  <2>3. Contiguous(g, e)
    BY <1>4, <1>5, <2>1 DEF Contiguous
  <2>4. QED
    BY <1>1, <1>2, <1>3, <1>7, <2>2, <2>3 DEF FirstOf, g
<1>8. QED
  BY <1>6, <1>7

LEMMA AppendFrame ==
    ASSUME NEW c \in Seq(Seq(Int)), NEW e \in Int, NEW p \in Seq(Int), Contiguous(c, e),
           IsSpan(p, e), p # <<>>
    PROVE  /\ Append(c, p) \in Seq(Seq(Int))
           /\ Contiguous(Append(c, p), e + Len(p))
           /\ FirstOf(Append(c, p), e + Len(p)) = FirstOf(c, e)
<1> DEFINE g == Append(c, p)
<1>1. /\ g \in Seq(Seq(Int)) /\ g # <<>> /\ Len(c) \in Nat /\ Len(g) = Len(c) + 1
      /\ (\A i \in 1 .. Len(c) : g[i] = c[i]) /\ g[Len(c) + 1] = p
  <2> DEFINE S == Seq(Int)
  <2>1. c \in Seq(S) /\ p \in S
    OBVIOUS
  <2> HIDE DEF S
  <2>2. /\ g \in Seq(S) /\ g # <<>> /\ Len(c) \in Nat /\ Len(g) = Len(c) + 1
        /\ (\A i \in 1 .. Len(c) : g[i] = c[i]) /\ g[Len(c) + 1] = p
    BY <2>1, AppendProperties, LenProperties
  <2>3. QED
    BY <2>2 DEF S
<1> HIDE DEF g
<1>2. Len(p) \in Nat /\ Len(p) > 0 /\ 1 \in 1 .. Len(p)
  BY LenProperties, EmptySeq
<1>3. p[1] = e
  BY <1>2 DEF IsSpan
<1>4. \A i \in 1 .. Len(g) : Len(g[i]) > 0 /\ g[i][1] \in Int /\ IsSpan(g[i], g[i][1])
  <2>1. \A i \in 1 .. Len(g) : (i \in 1 .. Len(c) /\ g[i] = c[i]) \/ g[i] = p
    BY SMTT(30), <1>1
  <2>2. QED
    BY <1>2, <1>3, <2>1 DEF Contiguous
<1>5. g[Len(g)][1] + Len(g[Len(g)]) = e + Len(p)
  BY <1>1, <1>3
<1>6. CASE c = <<>>
  <2>1. Len(c) = 0
    BY <1>6, EmptySeq
  <2>2. Contiguous(g, e + Len(p))
    BY <1>1, <1>4, <1>5, <2>1 DEF Contiguous
  <2>3. QED
    BY <1>1, <1>3, <1>6, <2>1, <2>2 DEF FirstOf, g
<1>7. CASE c # <<>>
  <2>1. Len(c) > 0
    BY <1>1, <1>7, EmptySeq
  <2>2. c[Len(c)][1] + Len(c[Len(c)]) = e
    BY <1>7 DEF Contiguous
  <2>3. \A i \in 1 .. Len(g) - 1 : g[i + 1][1] = g[i][1] + Len(g[i])
    <3> SUFFICES ASSUME NEW i \in 1 .. Len(g) - 1
                 PROVE  g[i + 1][1] = g[i][1] + Len(g[i])
      OBVIOUS
    <3>1. CASE i = Len(c)
      BY SMTT(30), <1>1, <1>3, <2>1, <2>2, <3>1
    <3>2. CASE i # Len(c)
      <4>1. i \in 1 .. Len(c) /\ i + 1 \in 1 .. Len(c) /\ i \in 1 .. Len(c) - 1
        BY <1>1, <3>2
      <4>2. g[i] = c[i] /\ g[i + 1] = c[i + 1]
        BY <1>1, <4>1
      <4>3. QED
        BY <4>1, <4>2 DEF Contiguous
    <3>3. QED
      BY <3>1, <3>2
  <2>4. Contiguous(g, e + Len(p))
    BY <1>4, <1>5, <2>3 DEF Contiguous
  <2>5. g[1] = c[1]
    BY <1>1, <2>1
  <2>6. QED
    BY <1>1, <1>7, <2>4, <2>5 DEF FirstOf, g
<1>8. QED
  BY <1>6, <1>7

-----------------------------------------------------------------------------
(* vw_source_decoder_copy_samples.                                          *)

\* The samples rest, which follow the block, fill it up; what does not fit is left over.
LEMMA CopyRest ==
    ASSUME NEW rest, NEW r \in Int, IsSpan(rest, r), expect \in Nat, IsSpan(out, expect),
           r = expect + Len(out), BlockSize \in Nat, Len(out) < BlockSize
    PROVE  /\ Decoder!Fits(rest) \in Nat /\ Decoder!Fits(rest) <= Len(rest) /\ Len(rest) \in Nat
           /\ IsSpan(out \o SubSeq(rest, 1, Decoder!Fits(rest)), expect)
           /\ Len(out \o SubSeq(rest, 1, Decoder!Fits(rest))) = Len(out) + Decoder!Fits(rest)
           /\ Len(out) + Decoder!Fits(rest) <= BlockSize
           /\ Decoder!Fits(rest) < Len(rest) =>
                 /\ Len(out) + Decoder!Fits(rest) = BlockSize
                 /\ IsSpan(SubSeq(rest, Decoder!Fits(rest) + 1, Len(rest)), r + Decoder!Fits(rest))
                 /\ Len(SubSeq(rest, Decoder!Fits(rest) + 1,
                      Len(rest))) = Len(rest) - Decoder!Fits(rest)
<1>1. Len(rest) \in Nat /\ Len(out) \in Nat
  BY LenProperties DEF IsSpan
<1>2. PICK n \in Nat : n = Decoder!Fits(rest)
  BY <1>1 DEF Decoder!Fits, Decoder!Lesser
<1>3. n <= Len(rest) /\ Len(out) + n <= BlockSize /\ (n < Len(rest) => Len(out) + n = BlockSize)
  BY <1>1, <1>2 DEF Decoder!Fits, Decoder!Lesser
<1>4. IsSpan(SubSeq(rest, 1, n), r) /\ Len(SubSeq(rest, 1, n)) = n
  <2>1. IsSpan(SubSeq(rest, 0 + 1, n), r + 0) /\ Len(SubSeq(rest, 0 + 1, n)) = n - 0
    BY <1>3, SubSpan
  <2>2. 0 + 1 = 1 /\ r + 0 = r /\ n - 0 = n
    OBVIOUS
  <2>3. QED
    BY <2>1, <2>2
<1>5. IsSpan(out \o SubSeq(rest, 1, n), expect) /\ Len(out \o SubSeq(rest, 1, n)) = Len(out) + n
  BY <1>4, JoinSpans
<1>6. IsSpan(SubSeq(rest, n + 1, Len(rest)), r + n) /\ Len(SubSeq(rest, n + 1,
        Len(rest))) = Len(rest) - n
  BY <1>1, <1>3, SubSpan
<1>7. QED
  BY <1>1, <1>2, <1>3, <1>5, <1>6

LEMMA SpanSkips ==
    ASSUME NEW d \in Decs, NEW s, NEW a \in Int, IsSpan(s, a), d.pts = a, expect \in Nat,
           IsSpan(out, expect), Joined(d, out, a)
    PROVE  /\ Decoder!PreRoll(d, s) \in Nat /\ Decoder!PreRoll(d, s) <= Len(s) /\ Len(s) \in Nat
           /\ \/ a + Decoder!PreRoll(d, s) = expect + Len(out)
              \/ Decoder!PreRoll(d, s) = Len(s) /\ a + Len(s) < d.target /\ out = <<>>
                   /\ d.target = expect
           /\ \/ a = expect + Len(out) /\ d.target <= a /\ Decoder!PreRoll(d, s) = 0
              \/ out = <<>> /\ d.target = expect /\ a < d.target /\ d.target # Decoder!NoTarget
<1>1. Len(s) \in Nat /\ Len(out) \in Nat /\ Len(<<>>) = 0 /\ d.target \in Nat \cup {-1}
        /\ Decoder!NoTarget = -1
  BY LenProperties, EmptySeq DEF IsSpan, Decs, Decoder!NoTarget
<1>2. CASE a = expect + Len(out) /\ d.target <= expect + Len(out)
  <2>1. Decoder!PreRoll(d, s) = 0
    BY <1>1, <1>2 DEF Decoder!PreRoll
  <2>2. QED
    BY <1>1, <1>2, <2>1
<1>3. CASE d.target = expect /\ out = <<>> /\ a < d.target
  <2>1. Decoder!PreRoll(d, s) = Decoder!Lesser(d.target - a, Len(s)) /\ d.target # Decoder!NoTarget
          /\ Len(out) = 0
    BY <1>1, <1>3 DEF Decoder!PreRoll
  <2>2. QED
    BY <1>1, <1>3, <2>1 DEF Decoder!Lesser
<1>4. QED
  BY <1>2, <1>3 DEF Joined

LEMMA DeliverDoes ==
    ASSUME NEW d \in Decs, NEW s, NEW a \in Int, IsSpan(s, a), d.pts = a, d.left = <<>>,
           expect \in Nat, IsSpan(out, expect), Joined(d, out, a),
           BlockSize \in Nat, Len(out) < BlockSize, out # <<>> => label = expect,
           Decoder!Deliver(d, s)
    PROVE  /\ dec' \in Decs /\ dec'.demuxEof = d.demuxEof /\ dec'.eof = d.eof
           /\ dec'.target \in {d.target, Decoder!NoTarget}
           /\ dec'.pts = a + Len(s) - Len(dec'.left) /\ IsSpan(dec'.left, dec'.pts)
           /\ IsSpan(out', expect) /\ Len(out') <= BlockSize
           /\ \/ dec'.pts = expect + Len(out') /\ dec'.target <= expect + Len(out')
              \/ dec'.target = expect /\ out' = <<>> /\ dec'.left = <<>> /\ dec'.pts < dec'.target
           /\ dec'.left # <<>> => Len(out') = BlockSize
           /\ out' # <<>> => label' = expect
<1>1. PICK k \in Nat : k = Decoder!PreRoll(d, s)
  BY SpanSkips
<1>2. /\ k <= Len(s) /\ Len(s) \in Nat
      /\ \/ a + k = expect + Len(out)
         \/ k = Len(s) /\ a + Len(s) < d.target /\ out = <<>> /\ d.target = expect
      /\ \/ a = expect + Len(out) /\ d.target <= a /\ k = 0
         \/ out = <<>> /\ d.target = expect /\ a < d.target /\ d.target # Decoder!NoTarget
  BY <1>1, SpanSkips
<1> DEFINE rest == SubSeq(s, k + 1, Len(s))
           n == Decoder!Fits(rest)
           o == out \o SubSeq(rest, 1, n)
           over == SubSeq(rest, n + 1, Len(rest))
           lft == IF n < Len(rest) THEN over ELSE d.left
           arrives == d.target # Decoder!NoTarget /\ d.pts < d.target /\ d.pts + k >= d.target
           tgt == IF arrives THEN Decoder!NoTarget ELSE d.target
           after == [d EXCEPT !.pts = d.pts + k + n, !.target = tgt, !.left = lft]
<1>3. IsSpan(rest, a + k) /\ Len(rest) = Len(s) - k
  BY <1>2, SubSpan
<1>4. /\ dec' = after /\ out' = o
      /\ label' = IF s # <<>> /\ out = <<>> /\ o # <<>> THEN dec'.pts - Len(o) ELSE label
  <2>1. Decoder!Copied(d, s) = [dec |-> after, out |-> o]
    BY <1>1, Zenon DEF Decoder!Copied
  <2> HIDE DEF after, o
  <2>2. Decoder!Copied(d, s).dec = after /\ Decoder!Copied(d, s).out = o
    BY <2>1
  <2>3. QED
    BY <2>2 DEF Decoder!Deliver
<1> HIDE DEF rest, o, after
<1>5. Len(out) \in Nat /\ out \in Seq(Int) /\ d.target \in Nat \cup {Decoder!NoTarget}
        /\ Decoder!NoTarget = -1
      /\ Len(<<>>) = 0 /\ s \in Seq(Int)
  BY LenProperties, EmptySeq DEF IsSpan, Decs, Decoder!NoTarget
<1>6. /\ n \in Nat /\ n <= Len(rest) /\ Len(rest) \in Nat
      /\ IsSpan(o, expect) /\ Len(o) = Len(out) + n /\ Len(o) <= BlockSize
      /\ IsSpan(lft, a + k + n) /\ Len(lft) = Len(rest) - n
      /\ lft # <<>> => Len(o) = BlockSize
  <2>1. CASE a + k = expect + Len(out)
    <3>1. a + k \in Int
      OBVIOUS
    <3>2. /\ n \in Nat /\ n <= Len(rest) /\ Len(rest) \in Nat
          /\ IsSpan(o, expect) /\ Len(o) = Len(out) + n /\ Len(out) + n <= BlockSize
          /\ n < Len(rest) => /\ Len(out) + n = BlockSize
                              /\ IsSpan(over, (a + k) + n)
                              /\ Len(over) = Len(rest) - n
      BY <1>3, <2>1, <3>1, CopyRest DEF o
    <3> HIDE DEF n, over
    <3>3. CASE n < Len(rest)
      BY <3>2, <3>3
    <3>4. CASE ~(n < Len(rest))
      <4>1. lft = <<>> /\ n = Len(rest)
        BY <3>2, <3>4
      <4>2. IsSpan(lft, a + k + n) /\ Len(lft) = Len(rest) - n
        BY <1>5, <3>2, <4>1, EmptySpan
      <4>3. QED
        BY <3>2, <4>1, <4>2
    <3>5. QED
      BY <3>3, <3>4
  <2>2. CASE k = Len(s) /\ out = <<>>
    <3>1. rest = <<>> /\ Len(rest) = 0
      <4>1. Len(rest) = 0 /\ rest \in Seq(Int)
        BY <1>2, <1>3, <2>2 DEF IsSpan
      <4>2. QED
        BY <4>1, EmptySeq
    <3>2. n = 0
      BY <1>5, <2>2, <3>1 DEF Decoder!Fits, Decoder!Lesser
    <3>3. SubSeq(rest, 1, n) = <<>>
      BY <3>2, SubSeqEmpty
    <3>4. o = <<>>
      <4>1. <<>> \in Seq(Int)
        BY EmptySeq
      <4>2. QED
        BY <2>2, <3>3, <4>1, ConcatEmptySeq DEF o
    <3>5. lft = <<>>
      BY <3>1, <3>2
    <3> HIDE DEF n, lft
    <3>6. QED
      BY <1>5, <2>2, <3>1, <3>2, <3>4, <3>5, EmptySpan
  <2>3. QED
    BY <1>2, <2>1, <2>2
<1> HIDE DEF n, lft
<1>7. tgt \in {d.target, Decoder!NoTarget} /\ tgt \in Nat \cup {Decoder!NoTarget}
  BY <1>5
<1>8. a + k + n \in Int /\ lft \in Seq(Int)
  BY <1>6 DEF IsSpan
<1> HIDE DEF tgt
<1>9. dec' \in Decs /\ dec'.demuxEof = d.demuxEof /\ dec'.eof = d.eof /\ dec'.target = tgt
      /\ dec'.pts = a + k + n /\ dec'.left = lft
  <2>1. dec' = [d EXCEPT !.pts = a + k + n, !.target = tgt, !.left = lft]
    BY <1>4 DEF after
  <2>2. QED
    BY <1>7, <1>8, <2>1 DEF Decs
<1>10. dec'.pts = a + Len(s) - Len(dec'.left)
  <2>1. PICK y \in Nat : y = Len(s)
    BY <1>2
  <2>2. PICK z \in Nat : z = Len(rest)
    BY <1>6
  <2>3. z = y - k /\ n \in Nat /\ n <= z
    BY <1>3, <1>6, <2>1, <2>2
  <2>4. PICK x \in Nat : x = Len(lft)
    BY <1>8, LenProperties
  <2>5. x = z - n
    BY <1>6, <2>2, <2>4
  <2>6. a + k + n = a + y - x
    BY <2>3, <2>5
  <2>7. QED
    BY <1>9, <2>1, <2>4, <2>6
<1>11. \/ dec'.pts = expect + Len(o) /\ tgt <= expect + Len(o)
       \/ tgt = expect /\ o = <<>> /\ lft = <<>> /\ dec'.pts < tgt
  <2>1. CASE a + k = expect + Len(out)
    <3>1. dec'.pts = expect + Len(o)
      <4>1. PICK l \in Nat : l = Len(out)
        BY <1>5
      <4>2. n \in Nat /\ Len(o) = l + n /\ a + k = expect + l /\ dec'.pts = a + k + n
        BY <1>6, <1>9, <2>1, <4>1
      <4>3. QED
        BY <4>2
    <3>2. tgt <= expect + Len(out)
      <4>1. CASE a = expect + Len(out) /\ d.target <= a /\ k = 0
        BY <1>5, <1>7, <4>1
      <4>2. CASE out = <<>> /\ d.target = expect /\ a < d.target /\ d.target # Decoder!NoTarget
        BY <1>5, <2>1, <4>2 DEF tgt
      <4>3. QED
        BY <1>2, <4>1, <4>2
    <3>3. tgt <= expect + Len(o)
      <4>1. PICK l \in Nat : l = Len(out)
        BY <1>5
      <4>2. n \in Nat /\ Len(o) = l + n /\ tgt <= expect + l
        BY <1>6, <3>2, <4>1
      <4>3. tgt \in Int
        BY <1>5, <1>7
      <4>4. QED
        BY <4>2, <4>3
    <3>4. QED
      BY <3>1, <3>3
  <2>2. CASE k = Len(s) /\ a + Len(s) < d.target /\ out = <<>> /\ d.target = expect
    <3>1. tgt = d.target
      BY <1>2, <1>5, <2>2 DEF tgt
    <3>2. Len(rest) = 0 /\ n = 0 /\ Len(o) = 0 /\ Len(lft) = 0
      BY <1>2, <1>3, <1>5, <1>6, <2>2
    <3>3. o = <<>> /\ lft = <<>>
      BY <1>6, <3>2, EmptySeq DEF IsSpan
    <3>4. dec'.pts < tgt
      BY <1>2, <1>9, <2>2, <3>1, <3>2
    <3>5. QED
      BY <2>2, <3>1, <3>3, <3>4
  <2>3. QED
    BY <1>2, <2>1, <2>2
<1>12. o # <<>> => label' = expect
  <2> SUFFICES ASSUME o # <<>>
               PROVE  label' = expect
    OBVIOUS
  <2>1. dec'.pts = expect + Len(o)
    BY <1>11
  <2>2. Len(o) \in Nat /\ Len(o) > 0
    BY <1>6, LenProperties, EmptySeq DEF IsSpan
  <2>3. CASE out # <<>>
    BY <1>4, <2>3
  <2>4. CASE out = <<>>
    <3>1. s # <<>>
      BY <1>2, <1>3, <1>5, <1>6, <2>2, <2>4
    <3>2. QED
      BY <1>4, <2>1, <2>2, <2>4, <3>1
  <2>5. QED
    BY <2>3, <2>4
<1>13. QED
  BY <1>4, <1>6, <1>7, <1>9, <1>10, <1>11, <1>12

-----------------------------------------------------------------------------
(* The steps of a read.                                                     *)

\* The invariant of a decoder that has not failed.
Sound == DecoderTyped /\ Unbroken /\ Joined(dec, out, LeftStart) /\ Dated /\ Orderly

\* The numbers and sequences of a sound decoder.
LEMMA SoundNumbers ==
    ASSUME Sound
    PROVE  /\ at \in Int /\ expect \in Nat /\ Len(pkt) \in Nat /\ Len(held) \in Nat
           /\ Len(dec.left) \in Nat /\ Len(out) \in Nat
           /\ PacketStart \in Int /\ FirstOf(codec, PacketStart) \in Int
           /\ HeldStart \in Int /\ LeftStart \in Int
           /\ dec.left \in Seq(Int) /\ dec.pts \in Int /\ dec.target \in Int
<1>1. /\ at \in Int /\ expect \in Nat /\ pkt \in Seq(Int) /\ held \in Seq(Int) /\ out \in Seq(Int)
      /\ dec.left \in Seq(Int) /\ dec.pts \in Int /\ dec.target \in Int
  BY DEF Sound, DecoderTyped, Decs, Decoder!NoTarget
<1>2. Len(pkt) \in Nat /\ Len(held) \in Nat /\ Len(dec.left) \in Nat /\ Len(out) \in Nat
  BY <1>1, LenProperties
<1>3. PacketStart \in Int
  BY <1>1, <1>2 DEF PacketStart
<1>4. FirstOf(codec, PacketStart) \in Int
  <2>1. CASE codec = <<>>
    BY <1>3, <2>1 DEF FirstOf
  <2>2. CASE codec # <<>>
    <3>1. codec \in Seq(Seq(Int)) /\ Contiguous(codec, PacketStart)
      BY DEF Sound, DecoderTyped, Unbroken
    <3>2. QED
      BY <1>3, <2>2, <3>1, FirstFrame
  <2>3. QED
    BY <2>1, <2>2
<1>5. QED
  BY <1>1, <1>2, <1>3, <1>4 DEF HeldStart, LeftStart

\* Samples s come out of the resampler and are delivered.
LEMMA DeliverKeeps ==
    ASSUME Decoder!DecoderConstants, Sound, decPc \in {"loop", "room", "recv"}, dec.left = <<>>,
             ~dec.eof,
           Len(out) < BlockSize, UNCHANGED <<at, pkt, decPc, expect>>,
           codec' \in Seq(Seq(Int)), Contiguous(codec', PacketStart),
           NEW d \in Decs, d.pts = HeldStart, d.left = <<>>, d.target = dec.target,
           d.demuxEof = dec.demuxEof, d.eof = dec.eof,
           NEW s, IsSpan(s, HeldStart), Decoder!Deliver(d, s),
           IsSpan(held', HeldStart + Len(s)),
           FirstOf(codec', PacketStart) - Len(held') = HeldStart + Len(s)
    PROVE  Sound'
<1>0. DecoderTyped /\ Unbroken /\ Joined(dec, out, LeftStart) /\ Dated /\ Orderly
  BY DEF Sound
<1>1. /\ expect \in Nat /\ HeldStart \in Int /\ LeftStart \in Int /\ Len(dec.left) = 0
      /\ LeftStart = HeldStart /\ BlockSize \in Nat
  BY SoundNumbers, EmptySeq DEF LeftStart, Decoder!DecoderConstants
<1>2. Joined(d, out, HeldStart)
  BY <1>0, <1>1 DEF Joined
<1>3. /\ dec' \in Decs /\ dec'.demuxEof = dec.demuxEof /\ dec'.eof = dec.eof
      /\ dec'.target \in {dec.target, Decoder!NoTarget}
      /\ dec'.pts = HeldStart + Len(s) - Len(dec'.left) /\ IsSpan(dec'.left, dec'.pts)
      /\ IsSpan(out', expect) /\ Len(out') <= BlockSize
      /\ \/ dec'.pts = expect + Len(out') /\ dec'.target <= expect + Len(out')
         \/ dec'.target = expect /\ out' = <<>> /\ dec'.left = <<>> /\ dec'.pts < dec'.target
      /\ dec'.left # <<>> => Len(out') = BlockSize
      /\ out' # <<>> => label' = expect
  <2>1. IsSpan(out, expect) /\ (out # <<>> => label = expect)
    BY <1>0 DEF Unbroken, Dated
  <2>2. QED
    BY <1>1, <1>2, <2>1, DeliverDoes
<1>4. PacketStart' = PacketStart /\ (Unsent' <=> Unsent)
  BY DEF PacketStart, Unsent
<1>5. HeldStart' = HeldStart + Len(s) /\ LeftStart' = dec'.pts
  <2>1. HeldStart' = HeldStart + Len(s)
    BY <1>4 DEF HeldStart
  <2>2. LeftStart' = HeldStart' - Len(dec'.left)
    BY DEF LeftStart
  <2>3. dec'.pts = HeldStart + Len(s) - Len(dec'.left)
    BY <1>3
  <2>4. PICK l \in Nat, m \in Nat, h \in Int : l = Len(s) /\ m = Len(dec'.left) /\ h = HeldStart
    BY <1>1, <1>3, LenProperties DEF IsSpan
  <2>5. QED
    BY <2>1, <2>2, <2>3, <2>4
<1>6. DecoderTyped'
  BY <1>0, <1>3 DEF DecoderTyped, IsSpan
<1>7. Unbroken'
  BY <1>0, <1>3, <1>4, <1>5 DEF Unbroken
<1>8. Joined(dec, out, LeftStart)'
  BY <1>3, <1>5 DEF Joined
<1>9. Dated'
  BY <1>3, <1>5 DEF Dated
<1>10. Orderly'
  <2>1. dec'.target <= Samples
    <3>1. Decoder!NoTarget <= Samples
      BY DEF Decoder!NoTarget, Decoder!DecoderConstants
    <3>2. QED
      BY <1>0, <1>3, <3>1 DEF Orderly
  <2>2. QED
    BY <1>0, <1>3, <2>1 DEF Orderly
<1>11. QED
  BY <1>6, <1>7, <1>8, <1>9, <1>10 DEF Sound

LEMMA ProcessFrameKeeps ==
    ASSUME Decoder!DecoderConstants, Sound, decPc \in {"loop", "room", "recv"}, dec.left = <<>>,
             ~dec.eof,
           Len(out) < BlockSize, UNCHANGED <<at, pkt, decPc, expect>>, codec # <<>>,
           NEW d \in Decs, d.left = <<>>, d.target = dec.target,
           d.demuxEof = dec.demuxEof, d.eof = dec.eof, Decoder!ProcessFrame(d)
    PROVE  Sound'
<1> DEFINE frame == Head(codec)
           all == held \o frame
           n == Decoder!Lesser(Decoder!Greater(Len(all) - Delay, 0), OutCap)
           s == SubSeq(all, 1, n)
           d0 == [d EXCEPT !.pts = Decoder!FrameTime(frame)]
<1>1. /\ codec \in Seq(Seq(Int)) /\ Contiguous(codec, PacketStart) /\ IsSpan(held, HeldStart)
      /\ PacketStart \in Int /\ HeldStart \in Int /\ Len(held) \in Nat
  BY SoundNumbers DEF Sound, DecoderTyped, Unbroken
<1>2. /\ IsSpan(frame, FirstOf(codec, PacketStart)) /\ frame[1] = FirstOf(codec, PacketStart)
      /\ FirstOf(codec, PacketStart) \in Int
      /\ Tail(codec) \in Seq(Seq(Int)) /\ Contiguous(Tail(codec), PacketStart)
      /\ FirstOf(Tail(codec), PacketStart) = FirstOf(codec, PacketStart) + Len(frame)
  BY <1>1, FirstFrame
<1>3. codec' = Tail(codec) /\ held' = SubSeq(all, n + 1, Len(all)) /\ Decoder!Deliver(d0, s)
  BY DEF Decoder!ProcessFrame
<1> HIDE DEF frame
<1>4. Decoder!FrameTime(frame) = HeldStart
  BY <1>1, <1>2 DEF Decoder!FrameTime, HeldStart
<1>5. d0 \in Decs /\ d0.pts = HeldStart /\ d0.left = <<>> /\ d0.target = dec.target
      /\ d0.demuxEof = dec.demuxEof /\ d0.eof = dec.eof
  BY <1>1, <1>4 DEF Decs
<1>6. PICK c \in Int : c = FirstOf(codec, PacketStart)
  BY <1>2
<1>7. PICK h \in Int : h = HeldStart
  BY <1>1
<1>8. h = c - Len(held)
  BY <1>6, <1>7 DEF HeldStart
<1>9. IsSpan(all, h) /\ Len(all) = Len(held) + Len(frame) /\ Len(frame) \in Nat
  <2>1. h + Len(held) = c
    BY <1>1, <1>8
  <2>2. Len(frame) \in Nat
    BY <1>2, LenProperties DEF IsSpan
  <2>3. QED
    BY <1>1, <1>2, <1>6, <1>7, <2>1, <2>2, JoinSpans
<1> HIDE DEF all, d0
<1>10. n \in Nat /\ n <= Len(all) /\ Len(all) \in Nat
  <2>1. Delay \in Nat /\ OutCap \in Nat
    BY DEF Decoder!DecoderConstants
  <2>2. PICK l \in Nat : l = Len(all)
    BY <1>1, <1>9
  <2>3. PICK g \in Nat : g = Decoder!Greater(Len(all) - Delay, 0) /\ g <= l
    BY <2>1, <2>2 DEF Decoder!Greater
  <2>4. Decoder!Lesser(g, OutCap) \in Nat /\ Decoder!Lesser(g, OutCap) <= g
    BY <2>1 DEF Decoder!Lesser
  <2>5. n = Decoder!Lesser(g, OutCap)
    BY <2>3
  <2> HIDE DEF n
  <2>6. QED
    BY <2>2, <2>3, <2>4, <2>5
<1> HIDE DEF n
<1>11. IsSpan(s, h) /\ Len(s) = n
  <2>1. IsSpan(SubSeq(all, 0 + 1, n), h + 0) /\ Len(SubSeq(all, 0 + 1, n)) = n - 0
    BY <1>9, <1>10, SubSpan
  <2>2. 0 + 1 = 1 /\ h + 0 = h /\ n - 0 = n
    BY <1>10
  <2>3. QED
    BY <2>1, <2>2
<1>12. IsSpan(held', h + n) /\ Len(held') = Len(all) - n
  <2>1. IsSpan(SubSeq(all, n + 1, Len(all)), h + n) /\ Len(SubSeq(all, n + 1, Len(all))) = Len(all) - n
    <3>1. PICK l \in Nat : l = Len(all)
      BY <1>10
    <3>2. IsSpan(SubSeq(all, n + 1, l), h + n) /\ Len(SubSeq(all, n + 1, l)) = l - n
      BY <1>9, <1>10, <3>1, SubSpan
    <3>3. QED
      BY <3>1, <3>2
  <2>2. QED
    BY <1>3, <2>1
<1>13. FirstOf(codec', PacketStart) - Len(held') = h + n
  <2>1. PICK lh \in Nat, lf \in Nat : lh = Len(held) /\ lf = Len(frame)
    BY <1>1, <1>9
  <2>2. FirstOf(codec', PacketStart) = c + lf /\ Len(held') = lh + lf - n /\ h = c - lh
    <3>1. FirstOf(codec', PacketStart) = c + lf
      BY <1>2, <1>3, <1>6, <2>1
    <3>2. Len(held') = Len(all) - n /\ Len(all) = lh + lf
      BY <1>9, <1>12, <2>1
    <3>3. h = c - lh
      BY <1>8, <2>1
    <3>4. QED
      BY <1>10, <3>1, <3>2, <3>3
  <2>3. QED
    BY <1>10, <2>2
<1> HIDE DEF s
<1>14. QED
  BY <1>2, <1>3, <1>5, <1>7, <1>11, <1>12, <1>13, DeliverKeeps

LEMMA DecoderDrainKeeps ==
    ASSUME Decoder!DecoderConstants, Sound, decPc = "loop", dec.left = <<>>, ~dec.eof, dec.demuxEof,
           Len(out) < BlockSize, UNCHANGED <<at, pkt, decPc, expect, codec>>, codec = <<>>,
           NEW d \in Decs, d.left = <<>>, d.target = dec.target, d.pts = dec.pts,
           d.demuxEof = dec.demuxEof, d.eof = dec.eof, Decoder!DrainSwr(d)
    PROVE  Sound'
<1> DEFINE n == Decoder!Lesser(Len(held), OutCap)
           s == SubSeq(held, 1, n)
<1>0. DecoderTyped /\ Unbroken /\ Joined(dec, out, LeftStart) /\ Dated /\ Orderly
  BY DEF Sound
<1>1. /\ codec \in Seq(Seq(Int)) /\ Contiguous(codec, PacketStart) /\ IsSpan(held, HeldStart)
      /\ PacketStart \in Int /\ HeldStart \in Int /\ Len(held) \in Nat /\ LeftStart \in Int
      /\ FirstOf(codec, PacketStart) \in Int /\ OutCap \in Nat \ {0} /\ Len(<<>>) = 0
  BY SoundNumbers, EmptySeq DEF Sound, DecoderTyped, Unbroken, Decoder!DecoderConstants
<1>2. n \in Nat /\ n <= Len(held) /\ (n = 0 => Len(held) = 0)
  BY <1>1 DEF Decoder!Lesser
<1>3. LeftStart = HeldStart
  BY <1>1 DEF LeftStart
<1>4. CASE n = 0
  <2>1. dec' = [d EXCEPT !.eof = d.left = <<>>] /\ held' = held /\ out' = out /\ label' = label
    BY <1>4 DEF Decoder!DrainSwr
  <2>2. dec' \in Decs /\ dec'.left = <<>> /\ dec'.target = dec.target /\ dec'.pts = dec.pts
        /\ dec'.demuxEof = dec.demuxEof
    BY <2>1 DEF Decs
  <2>3. Len(held) = 0 /\ held = <<>>
    BY <1>0, <1>1, <1>2, <1>4, EmptySeq DEF DecoderTyped
  <2>4. at = Samples /\ ~Unsent /\ PacketStart = Samples /\ HeldStart = Samples /\ Samples \in Nat
    <3>1. at = Samples /\ pkt = Decoder!NoPacket /\ Samples \in Nat
      BY <1>0 DEF Orderly, Decoder!DecoderConstants
    <3>2. PacketStart = Samples
      BY <3>1 DEF PacketStart, Unsent
    <3>3. FirstOf(codec, PacketStart) = Samples
      BY <3>2 DEF FirstOf
    <3>4. QED
      BY <2>3, <3>1, <3>2, <3>3 DEF HeldStart, Unsent
  <2>5. expect + Len(out) >= Samples
    <3>1. Len(out) \in Nat /\ expect \in Nat /\ dec.target \in Int
      BY SoundNumbers
    <3>2. dec.target <= Samples
      BY <1>0 DEF Orderly
    <3>3. QED
      BY <1>0, <1>3, <2>4, <3>1, <3>2 DEF Joined
  <2>6. PacketStart' = PacketStart /\ HeldStart' = HeldStart /\ LeftStart' = LeftStart
          /\ (Unsent' <=> Unsent)
    <3>1. PacketStart' = PacketStart /\ (Unsent' <=> Unsent)
      BY DEF PacketStart, Unsent
    <3>2. HeldStart' = HeldStart
      BY <2>1, <3>1 DEF HeldStart
    <3>3. QED
      BY <2>2, <3>1, <3>2 DEF LeftStart
  <2>7. DecoderTyped' /\ Unbroken'
    BY <1>0, <2>1, <2>2, <2>6 DEF DecoderTyped, Unbroken
  <2>8. Joined(dec, out, LeftStart)' /\ Dated'
    BY <1>0, <2>1, <2>2, <2>6 DEF Joined, Dated
  <2>9. Orderly'
    BY <1>0, <2>1, <2>2, <2>5 DEF Orderly
  <2>10. QED
    BY <2>7, <2>8, <2>9 DEF Sound
<1>5. CASE n # 0
  <2>1. held' = SubSeq(held, n + 1, Len(held)) /\ Decoder!Deliver(d, s)
    BY <1>5 DEF Decoder!DrainSwr
  <2>2. held # <<>>
    BY <1>1, <1>2, <1>5
  <2>3. d.pts = HeldStart
    BY <1>0, <1>3, <2>2 DEF Dated
  <2> HIDE DEF n
  <2>4. PICK h \in Int : h = HeldStart
    BY <1>1
  <2>5. IsSpan(s, h) /\ Len(s) = n
    <3>1. IsSpan(SubSeq(held, 0 + 1, n), h + 0) /\ Len(SubSeq(held, 0 + 1, n)) = n - 0
      <4>1. IsSpan(held, h)
        BY <1>1, <2>4
      <4>2. QED
        BY <1>2, <4>1, SubSpan
    <3>2. 0 + 1 = 1 /\ h + 0 = h /\ n - 0 = n
      BY <1>2
    <3>3. QED
      BY <3>1, <3>2
  <2>6. IsSpan(held', h + n) /\ Len(held') = Len(held) - n
    BY <1>1, <1>2, <2>1, <2>4, SubSpan
  <2>7. FirstOf(codec, PacketStart) - Len(held') = h + n
    <3>1. h = FirstOf(codec, PacketStart) - Len(held)
      BY <2>4 DEF HeldStart
    <3>2. PICK c \in Int : c = FirstOf(codec, PacketStart)
      BY <1>1
    <3>3. QED
      BY <1>1, <1>2, <2>6, <3>1, <3>2
  <2> HIDE DEF s
  <2>8. QED
    BY <1>1, <2>1, <2>3, <2>4, <2>5, <2>6, <2>7, DeliverKeeps
<1>6. QED
  BY <1>4, <1>5

\* Steps that move packets and frames: what comes after them starts where it did.
LEMMA MovesKeep ==
    ASSUME Sound, DecoderTyped', Orderly', UNCHANGED <<held, out, label, expect>>,
           dec'.left = dec.left, dec'.pts = dec.pts, dec'.target = dec.target,
           Unsent' => IsSpan(pkt', at' - Len(pkt')),
           Contiguous(codec', PacketStart'),
           FirstOf(codec', PacketStart') = FirstOf(codec, PacketStart)
    PROVE  Sound'
<1>0. DecoderTyped /\ Unbroken /\ Joined(dec, out, LeftStart) /\ Dated /\ Orderly
  BY DEF Sound
<1>1. HeldStart' = HeldStart
  BY DEF HeldStart
<1>2. LeftStart' = LeftStart
  BY <1>1 DEF LeftStart
<1>3. Unbroken'
  BY <1>0, <1>1, <1>2 DEF Unbroken
<1>4. Joined(dec, out, LeftStart)' /\ Dated'
  BY <1>0, <1>2 DEF Joined, Dated
<1>5. QED
  BY <1>3, <1>4 DEF Sound

LEMMA LoopingMeans ==
    ASSUME Sound, Decoder!Looping
    PROVE  decPc = "loop" /\ dec.left = <<>> /\ ~dec.eof /\ Len(out) < BlockSize
<1>1. Len(out) \in Nat /\ decPc = "loop" /\ Len(out) < BlockSize /\ ~dec.eof
  BY SoundNumbers DEF Decoder!Looping
<1>2. dec.left # <<>> => Len(out) = BlockSize
  BY <1>1 DEF Sound, Orderly
<1>3. QED
  BY <1>1, <1>2

LEMMA BeginReadKeeps ==
    ASSUME Decoder!DecoderConstants, Sound, Decoder!BeginRead
    PROVE  Sound'
<1>0. DecoderTyped /\ Unbroken /\ Joined(dec, out, LeftStart) /\ Dated /\ Orderly
  BY DEF Sound
<1>1. /\ decPc = "idle" /\ ~dec.eof /\ out = <<>> /\ Len(out) = 0 /\ decPc' = "loop"
      /\ UNCHANGED <<at, codec, held, pkt, expect>>
  BY <1>0, EmptySeq DEF Decoder!BeginRead, Orderly
<1>2. PICK l \in Nat : l = Len(dec.left)
  BY SoundNumbers
<1>3. PICK n \in Nat : n = Decoder!Lesser(Len(dec.left), BlockSize)
  BY <1>2 DEF Decoder!Lesser, Decoder!DecoderConstants
<1>4. n <= l /\ n <= BlockSize /\ (n < l => n = BlockSize) /\ BlockSize \in Nat
  BY <1>2, <1>3 DEF Decoder!Lesser, Decoder!DecoderConstants
<1>5. /\ out' = SubSeq(dec.left, 1, n)
      /\ label' = IF n > 0 THEN dec.pts ELSE Decoder!NoTarget
      /\ dec' = [dec EXCEPT !.pts = @ + n, !.left = SubSeq(@, n + 1, Len(@))]
  BY <1>3 DEF Decoder!BeginRead
<1>6. PICK s \in Int : s = LeftStart
  BY SoundNumbers
<1>7. /\ IsSpan(SubSeq(dec.left, 1, n), s) /\ Len(SubSeq(dec.left, 1, n)) = n
      /\ IsSpan(SubSeq(dec.left, n + 1, l), s + n) /\ Len(SubSeq(dec.left, n + 1, l)) = l - n
  <2>1. IsSpan(dec.left, s)
    BY <1>0, <1>6 DEF Unbroken
  <2>2. IsSpan(SubSeq(dec.left, 0 + 1, n), s + 0) /\ Len(SubSeq(dec.left, 0 + 1, n)) = n - 0
    <3>1. n <= Len(dec.left) /\ 0 \in Nat /\ 0 <= n
      BY <1>2, <1>4
    <3>2. QED
      BY <2>1, <3>1, SubSpan
  <2>3. IsSpan(SubSeq(dec.left, n + 1, l), s + n) /\ Len(SubSeq(dec.left, n + 1, l)) = l - n
    BY <1>2, <1>4, <2>1, SubSpan
  <2>4. 0 + 1 = 1 /\ s + 0 = s /\ n - 0 = n
    OBVIOUS
  <2>5. QED
    BY <2>2, <2>3, <2>4
<1>8. /\ dec' \in Decs /\ dec'.pts = dec.pts + n /\ dec'.left = SubSeq(dec.left, n + 1, l)
      /\ dec'.target = dec.target /\ dec'.demuxEof = dec.demuxEof /\ dec'.eof = dec.eof
      /\ dec'.left \in Seq(Int)
  <2> DEFINE lft == SubSeq(dec.left, n + 1, l)
             p == dec.pts + n
  <2>1. lft \in Seq(Int) /\ p \in Int /\ dec \in Decs
    BY SMTT(30), <1>0, <1>7, SoundNumbers DEF IsSpan, DecoderTyped
  <2>2. dec' = [dec EXCEPT !.pts = p, !.left = lft]
    BY <1>2, <1>5, <2>1 DEF Decs
  <2> HIDE DEF lft, p
  <2>3. dec' \in Decs /\ dec'.pts = p /\ dec'.left = lft /\ dec'.target = dec.target
        /\ dec'.demuxEof = dec.demuxEof /\ dec'.eof = dec.eof
    BY <2>1, <2>2 DEF Decs
  <2>4. QED
    BY <2>1, <2>3 DEF lft, p
<1>9. HeldStart' = HeldStart /\ PacketStart' = PacketStart /\ (Unsent' <=> Unsent)
  <2>1. PacketStart' = PacketStart /\ (Unsent' <=> Unsent)
    BY <1>1 DEF PacketStart, Unsent
  <2>2. QED
    BY <1>1, <2>1 DEF HeldStart
<1>10. LeftStart' = s + n
  <2>1. PICK h \in Int : h = HeldStart
    BY SoundNumbers
  <2>2. s = h - l
    BY <1>2, <1>6, <2>1 DEF LeftStart
  <2>3. LeftStart' = HeldStart' - Len(dec'.left)
    BY DEF LeftStart
  <2>4. QED
    BY <1>7, <1>8, <1>9, <2>1, <2>2, <2>3
<1>11. /\ s = expect \/ (n = 0 /\ dec.target = expect /\ s < dec.target)
       /\ dec.target <= expect
       /\ expect \in Nat /\ dec.target \in Int /\ dec.pts \in Int
  <2>1. expect \in Nat /\ dec.target \in Int /\ dec.pts \in Int
    BY SoundNumbers
  <2>2. CASE LeftStart = expect + Len(out) /\ dec.target <= expect + Len(out)
    BY <1>1, <1>6, <2>1, <2>2
  <2>3. CASE dec.target = expect /\ dec.left = <<>> /\ LeftStart < dec.target
    BY <1>2, <1>4, <1>6, <2>1, <2>3, EmptySeq
  <2>4. QED
    BY <1>0, <2>1, <2>2, <2>3 DEF Joined
<1>12. DecoderTyped'
  BY <1>0, <1>1, <1>4, <1>5, <1>7, <1>8 DEF DecoderTyped, IsSpan
<1>13. Unbroken'
  <2>1. IsSpan(out', expect)
    <3>1. CASE s = expect
      BY <1>5, <1>7, <3>1
    <3>2. CASE n = 0
      <4>1. Len(out') = 0
        BY <1>5, <1>7, <3>2
      <4>2. QED
        BY <1>5, <1>7, <4>1 DEF IsSpan
    <3>3. QED
      BY <1>11, <3>1, <3>2
  <2>2. IsSpan(dec'.left, LeftStart')
    BY <1>7, <1>8, <1>10
  <2>3. QED
    BY <1>0, <1>1, <1>9, <2>1, <2>2 DEF Unbroken
<1>14. Joined(dec, out, LeftStart)'
  <2>1. Len(out') = n
    BY <1>5, <1>7
  <2>2. CASE s = expect
    <3>1. LeftStart' = expect + Len(out')
      BY <1>10, <2>1, <2>2
    <3>2. dec'.target <= expect + Len(out')
      BY <1>8, <1>11, <2>1
    <3>3. QED
      BY <1>1, <3>1, <3>2 DEF Joined
  <2>3. CASE n = 0 /\ dec.target = expect /\ s < dec.target /\ s # expect
    <3>1. out' = <<>>
      BY <1>5, <1>7, <2>1, <2>3, EmptySeq DEF IsSpan
    <3>2. dec.left = <<>>
      BY <1>0, <1>1, <1>6, <2>3, SoundNumbers DEF Joined
    <3>3. dec'.left = <<>>
      <4>1. l = 0
        BY <1>2, <3>2, EmptySeq
      <4>2. QED
        BY <1>7, <1>8, <2>3, <4>1, EmptySeq DEF IsSpan
    <3>4. LeftStart' < dec'.target
      BY <1>8, <1>10, <2>3
    <3>5. QED
      BY <1>1, <1>8, <2>3, <3>1, <3>3, <3>4 DEF Joined
  <2>4. QED
    BY <1>11, <2>2, <2>3
<1>15. Dated'
  <2>1. dec'.left # <<>> => dec.left # <<>>
    <3>1. dec.left = <<>> => l = 0
      BY <1>2, EmptySeq
    <3>2. l = 0 => Len(dec'.left) = 0
      BY <1>4, <1>7, <1>8
    <3>3. Len(dec'.left) = 0 => dec'.left = <<>>
      BY <1>8, EmptySeq
    <3>4. QED
      BY <3>1, <3>2, <3>3
  <2>2. held' # <<>> \/ dec'.left # <<>> => dec'.pts = LeftStart'
    BY <1>0, <1>1, <1>6, <1>8, <1>10, <1>11, <2>1 DEF Dated
  <2>3. out' # <<>> => label' = expect
    <3> SUFFICES ASSUME out' # <<>>
                 PROVE  label' = expect
      OBVIOUS
    <3>1. n > 0
      <4>1. n = 0 => out' = <<>>
        BY <1>5, <1>7, EmptySeq DEF IsSpan
      <4>2. QED
        BY <4>1
    <3>2. dec.left # <<>> /\ s = expect
      BY <1>2, <1>4, <1>11, <3>1, EmptySeq
    <3>3. QED
      BY <1>0, <1>5, <1>6, <3>1, <3>2 DEF Dated
  <2>4. QED
    BY <1>1, <2>2, <2>3 DEF Dated
<1>16. Orderly'
  <2>1. dec'.left # <<>> => Len(out') = BlockSize
    <3>1. n = l => dec'.left = <<>>
      BY <1>7, <1>8, EmptySeq
    <3>2. QED
      BY SMTT(30), <1>4, <1>5, <1>7, <3>1
  <2>2. QED
    BY <1>0, <1>1, <1>8, <2>1 DEF Orderly
<1>17. QED
  BY <1>12, <1>13, <1>14, <1>15, <1>16 DEF Sound

LEMMA ReturnKeeps ==
    ASSUME Decoder!DecoderConstants, Sound, decPc = "loop", Decoder!Return, UNCHANGED <<at, codec, held,
             dec, pkt>>
    PROVE  Sound'
<1>0. DecoderTyped /\ Unbroken /\ Joined(dec, out, LeftStart) /\ Dated /\ Orderly
  BY DEF Sound
<1>1. decPc' = "idle" /\ expect' = expect + Len(out) /\ out' = <<>> /\ Len(out') = 0
        /\ out' \in Seq(Int)
  BY EmptySeq DEF Decoder!Return
<1>2. expect \in Nat /\ Len(out) \in Nat /\ expect' \in Nat /\ BlockSize \in Nat /\ LeftStart \in Int
      /\ dec.target \in Int
  <2>1. expect \in Nat /\ Len(out) \in Nat /\ LeftStart \in Int /\ dec.target \in Int
    BY SoundNumbers
  <2>2. QED
    BY <1>1, <2>1 DEF Decoder!DecoderConstants
<1>3. PacketStart' = PacketStart /\ (Unsent' <=> Unsent)
  BY <1>1 DEF PacketStart, Unsent
<1>4. HeldStart' = HeldStart
  BY <1>3 DEF HeldStart
<1>5. LeftStart' = LeftStart
  BY <1>4 DEF LeftStart
<1>6. DecoderTyped'
  BY <1>0, <1>1, <1>2 DEF DecoderTyped
<1>7. Unbroken'
  BY <1>0, <1>1, <1>3, <1>4, <1>5, EmptySpan DEF Unbroken
<1>8. Joined(dec, out, LeftStart)'
  <2>1. out = <<>> => expect' = expect
    BY <1>1, <1>2, EmptySeq
  <2>2. expect' + Len(out') = expect + Len(out)
    BY <1>1, <1>2
  <2>3. QED
    BY <1>0, <1>1, <1>5, <2>1, <2>2 DEF Joined
<1>9. Dated'
  BY <1>0, <1>1, <1>5 DEF Dated
<1>10. Orderly'
  <2>1. expect' + Len(out') = expect + Len(out)
    BY <1>1, <1>2
  <2>2. QED
    BY <1>0, <1>1, <2>1 DEF Orderly
<1>11. QED
  BY <1>6, <1>7, <1>8, <1>9, <1>10 DEF Sound

LEMMA ReadPacketKeeps ==
    ASSUME Decoder!DecoderConstants, Sound, Decoder!ReadPacket
    PROVE  Sound'
<1>0. DecoderTyped /\ Unbroken /\ Joined(dec, out, LeftStart) /\ Dated /\ Orderly
  BY DEF Sound
<1>1. /\ decPc = "loop" /\ dec.left = <<>> /\ ~dec.eof /\ Len(out) < BlockSize /\ pkt = Decoder!NoPacket
      /\ ~dec.demuxEof /\ codec' = codec /\ held' = held
  BY LoopingMeans DEF Decoder!ReadPacket
<1>2. /\ at \in Int /\ 0 <= at /\ at <= Samples /\ Samples \in Int /\ ~Unsent /\ PacketStart = at
      /\ Contiguous(codec, at) /\ PacketSize \in Nat
  BY <1>0, <1>1 DEF DecoderTyped, Decoder!DecoderConstants, Unsent, PacketStart, Unbroken
<1>3. ASSUME NEW next \in at + 1 .. Decoder!Lesser(at + PacketSize, Samples),
             pkt' = Decoder!Span(at, next), at' = next, UNCHANGED <<dec, decPc, out, label, expect>>
      PROVE  Sound'
  <2>1. next \in Int /\ at < next /\ next <= Samples
    BY <1>2 DEF Decoder!Lesser
  <2>2. IsSpan(pkt', at) /\ Len(pkt') = next - at
    <3>1. at <= next
      BY <1>2, <2>1
    <3>2. IsSpan(Decoder!Span(at, next), at) /\ Len(Decoder!Span(at, next)) = next - at
      BY <1>2, <2>1, <3>1, SpanIsSpan
    <3>3. QED
      BY <1>3, <3>2
  <2>3. pkt' \in Seq(Int) /\ pkt' # Decoder!NoPacket /\ pkt' # Decoder!Other
    <3>1. pkt' \in Seq(Int) /\ Len(pkt') > 0 /\ 1 \in 1 .. Len(pkt') /\ pkt'[1] = at
      BY <1>2, <2>1, <2>2 DEF IsSpan
    <3>2. QED
      BY <1>2, <3>1, EmptySeq DEF Decoder!NoPacket, Decoder!Other
  <2>4. Unsent' /\ PacketStart' = at /\ at' - Len(pkt') = at
    <3>1. at' - Len(pkt') = at
      BY <1>2, <1>3, <2>1, <2>2
    <3>2. QED
      BY <1>1, <1>3, <2>3, <3>1 DEF Unsent, PacketStart
  <2>5. DecoderTyped'
    BY <1>0, <1>1, <1>2, <1>3, <2>1, <2>3 DEF DecoderTyped
  <2>6. Orderly'
    BY <1>0, <1>1, <1>3, <2>3 DEF Orderly
  <2>7. QED
    BY <1>1, <1>2, <1>3, <2>2, <2>4, <2>5, <2>6, MovesKeep
<1>4. ASSUME pkt' = Decoder!Other, UNCHANGED <<at, dec, decPc, out, label, expect>>
      PROVE  Sound'
  <2>1. ~Unsent' /\ PacketStart' = at
    BY <1>4 DEF Unsent, PacketStart
  <2>2. DecoderTyped' /\ Orderly'
    BY <1>0, <1>1, <1>4 DEF DecoderTyped, Orderly, Decoder!Other
  <2>3. QED
    BY <1>1, <1>2, <1>4, <2>1, <2>2, MovesKeep
<1>5. ASSUME at = Samples, dec' = [dec EXCEPT !.demuxEof = TRUE],
             UNCHANGED <<at, pkt, decPc, out, label, expect>>
      PROVE  Sound'
  <2>1. dec' \in Decs /\ dec'.left = dec.left /\ dec'.pts = dec.pts /\ dec'.target = dec.target
        /\ dec'.eof = dec.eof
    BY <1>0, <1>5 DEF DecoderTyped, Decs
  <2>2. ~Unsent' /\ PacketStart' = at
    BY <1>1, <1>5 DEF Unsent, PacketStart
  <2>3. DecoderTyped' /\ Orderly'
    BY <1>0, <1>1, <1>5, <2>1 DEF DecoderTyped, Orderly
  <2>4. QED
    BY <1>1, <1>2, <1>5, <2>1, <2>2, <2>3, MovesKeep
<1>6. ASSUME Decoder!Return, UNCHANGED <<at, dec, pkt>>
      PROVE  Sound'
  BY <1>1, <1>6, ReturnKeeps
<1>7. QED
  BY <1>3, <1>4, <1>5, <1>6 DEF Decoder!ReadPacket

LEMMA PacketsKeep ==
    ASSUME Decoder!DecoderConstants, Sound, Decoder!SkipPacket \/ Decoder!SendPacket
             \/ Decoder!StopReceiving
    PROVE  Sound'
<1>0. DecoderTyped /\ Unbroken /\ Joined(dec, out, LeftStart) /\ Dated /\ Orderly
  BY DEF Sound
<1>1. UNCHANGED <<at, held, dec, out, label, expect>>
  BY DEF Decoder!SkipPacket, Decoder!SendPacket, Decoder!StopReceiving
<1>2. /\ at \in Int /\ Len(pkt) \in Nat /\ PacketStart \in Int /\ pkt \in Seq(Int)
      /\ codec \in Seq(Seq(Int)) /\ Contiguous(codec, PacketStart)
  BY <1>0, SoundNumbers DEF DecoderTyped, Unbroken
\* The pending packet goes into the codec.
<1>3. ASSUME Unsent, codec' = Append(codec, pkt), decPc' = "recv", pkt' = pkt
      PROVE  Sound'
  <2>1. PacketStart = at - Len(pkt) /\ IsSpan(pkt, PacketStart) /\ pkt # <<>>
    BY <1>0, <1>3 DEF PacketStart, Unbroken, Unsent, Decoder!NoPacket
  <2>2. ~Unsent' /\ PacketStart' = at /\ PacketStart + Len(pkt) = at
    BY <1>1, <1>2, <1>3, <2>1 DEF PacketStart, Unsent
  <2>3. /\ codec' \in Seq(Seq(Int)) /\ Contiguous(codec', PacketStart')
        /\ FirstOf(codec', PacketStart') = FirstOf(codec, PacketStart)
    BY <1>2, <1>3, <2>1, <2>2, AppendFrame
  <2>4. DecoderTyped'
    BY <1>0, <1>1, <1>3, <2>3 DEF DecoderTyped
  <2>5. Orderly'
    <3>1. pkt # Decoder!NoPacket
      BY <1>3 DEF Unsent
    <3>2. ~dec.eof
      <4>1. dec.eof => decPc \in {"idle", "loop"}
        BY <1>0 DEF Orderly
      <4>2. decPc \in {"room", "loop"} /\ (decPc = "loop" => ~dec.eof)
        BY <1>3, LoopingMeans DEF Decoder!SkipPacket, Decoder!SendPacket, Decoder!StopReceiving, Unsent
      <4>3. QED
        BY <4>1, <4>2
    <3>3. decPc # "idle"
      BY <1>3 DEF Decoder!SkipPacket, Decoder!SendPacket, Decoder!StopReceiving, Decoder!Looping, Unsent
    <3>4. QED
      BY <1>0, <1>1, <1>3, <3>1, <3>2, <3>3 DEF Orderly, Unsent
  <2>6. QED
    BY <1>1, <2>2, <2>3, <2>4, <2>5, MovesKeep
\* Nothing moves.
<1>4. ASSUME codec' = codec, decPc # "idle", decPc' \in {"loop", "room"}, ~dec.eof,
             \/ Unsent /\ pkt' = pkt
             \/ ~Unsent /\ pkt' = Decoder!NoPacket /\ decPc' = "loop"
      PROVE  Sound'
  <2>1. (Unsent' <=> Unsent) /\ PacketStart' = PacketStart
    BY <1>1, <1>4 DEF Unsent, PacketStart
  <2>2. DecoderTyped'
    <3>1. pkt' \in Seq(Int)
      BY <1>2, <1>4, EmptySeq DEF Decoder!NoPacket
    <3>2. QED
      BY <1>0, <1>1, <1>4, <3>1 DEF DecoderTyped
  <2>3. Orderly'
    BY <1>0, <1>1, <1>4 DEF Orderly, Unsent
  <2>4. Unsent' => IsSpan(pkt', at' - Len(pkt'))
    BY <1>0, <1>1, <1>4, <2>1 DEF Unbroken
  <2>5. QED
    BY <1>1, <1>2, <1>4, <2>1, <2>2, <2>3, <2>4, MovesKeep
<1>5. CASE Decoder!SkipPacket
  <2>1. decPc = "loop" /\ ~dec.eof /\ pkt = Decoder!Other /\ pkt' = Decoder!NoPacket /\ decPc' = decPc
          /\ codec' = codec
    BY <1>5, LoopingMeans DEF Decoder!SkipPacket
  <2>2. QED
    BY <1>4, <2>1 DEF Unsent
<1>6. CASE Decoder!SendPacket
  <2>1. decPc = "loop" /\ ~dec.eof /\ pkt \notin {Decoder!NoPacket, Decoder!Other} /\ pkt' = pkt
    BY <1>6, LoopingMeans DEF Decoder!SendPacket
  <2>2. QED
    BY <1>3, <1>4, <1>6, <2>1 DEF Decoder!SendPacket, Unsent
<1>7. CASE Decoder!StopReceiving
  <2>1. decPc \in {"recv", "room"} /\ ~dec.eof /\ pkt \notin {Decoder!NoPacket, Decoder!Other}
    BY <1>0, <1>7 DEF Decoder!StopReceiving, Orderly
  <2>2. CASE decPc = "recv"
    BY <1>4, <1>7, <2>1, <2>2 DEF Decoder!StopReceiving, Unsent
  <2>3. CASE decPc = "room"
    BY <1>3, <1>4, <1>7, <2>1, <2>3 DEF Decoder!StopReceiving, Unsent
  <2>4. QED
    BY <2>1, <2>2, <2>3
<1>8. QED
  BY <1>5, <1>6, <1>7

LEMMA FramesKeep ==
    ASSUME Decoder!DecoderConstants, Sound, Decoder!ReceiveFrame \/ Decoder!Flush
    PROVE  Sound'
<1>0. dec \in Decs /\ Orderly
  BY DEF Sound, DecoderTyped
<1>1. CASE Decoder!ReceiveFrame
  <2>1. /\ decPc \in {"recv", "room"} /\ dec.left = <<>> /\ Len(out) < BlockSize /\ codec # <<>>
        /\ Decoder!ProcessFrame(dec) /\ UNCHANGED <<at, pkt, decPc, expect>>
    BY <1>1 DEF Decoder!ReceiveFrame, Decoder!Receiving
  <2>2. ~dec.eof
    BY <1>0, <2>1 DEF Orderly
  <2>3. QED
    BY <1>0, <2>1, <2>2, ProcessFrameKeeps
<1>2. CASE Decoder!Flush
  <2> DEFINE told == dec.flushSent \/ Len(codec) < CodecDepth
             d == [dec EXCEPT !.flushSent = told]
  <2>1. /\ decPc = "loop" /\ dec.left = <<>> /\ ~dec.eof /\ Len(out) < BlockSize /\ dec.demuxEof
        /\ UNCHANGED <<at, pkt, decPc, expect>>
    BY <1>2, LoopingMeans DEF Decoder!Flush
  <2>2. (codec # <<>> /\ Decoder!ProcessFrame(d)) \/ (codec = <<>> /\ Decoder!DrainSwr(d)
          /\ codec' = codec)
    BY <1>2 DEF Decoder!Flush
  <2>3. told \in BOOLEAN
    OBVIOUS
  <2> HIDE DEF told
  <2>4. /\ d \in Decs /\ d.left = dec.left /\ d.target = dec.target /\ d.pts = dec.pts
        /\ d.demuxEof = dec.demuxEof /\ d.eof = dec.eof
    BY <1>0, <2>3 DEF Decs
  <2> HIDE DEF d
  <2>5. QED
    BY <2>1, <2>2, <2>4, ProcessFrameKeeps, DecoderDrainKeeps
<1>3. QED
  BY <1>1, <1>2

LEMMA SeekKeeps ==
    ASSUME Decoder!DecoderConstants, Sound, NEW t \in 0 .. Samples, Decoder!Seek(t)
    PROVE  Sound'
<1>0. DecoderTyped /\ Orderly
  BY DEF Sound
<1>1. /\ decPc = "idle" /\ decPc' = "idle" /\ out' = out /\ at' \in 0 .. t /\ codec' = <<>>
           /\ held' = <<>>
      /\ dec' = Decoder!Sought(t) /\ pkt' = Decoder!NoPacket /\ expect' = t /\ Samples \in Nat
  BY DEF Decoder!Seek, Decoder!DecoderConstants
<1>2. out = <<>> /\ Len(<<>>) = 0 /\ BlockSize \in Nat
  BY <1>0, <1>1, EmptySeq DEF Orderly, Decoder!DecoderConstants
<1>3. dec' \in Decs /\ dec'.left = <<>> /\ dec'.target = t /\ ~dec'.eof /\ ~dec'.demuxEof
  BY <1>1, EmptySeq DEF Decoder!Sought, Decs
<1>4. ~Unsent' /\ PacketStart' = at' /\ HeldStart' = at' /\ LeftStart' = at'
  <2>1. ~Unsent' /\ PacketStart' = at'
    BY <1>1 DEF Unsent, PacketStart
  <2>2. FirstOf(codec', PacketStart') = at'
    BY <1>1, <2>1 DEF FirstOf
  <2>3. HeldStart' = at' /\ at' \in Int
    BY <1>1, <1>2, <2>2 DEF HeldStart
  <2>4. LeftStart' = at'
    <3>1. LeftStart' = HeldStart' - Len(dec'.left)
      BY DEF LeftStart
    <3>2. Len(dec'.left) = 0
      BY <1>2, <1>3
    <3>3. \A x \in Int : x - 0 = x
      OBVIOUS
    <3>4. QED
      BY <2>3, <3>1, <3>2, <3>3, Zenon
  <2>5. QED
    BY <2>1, <2>3, <2>4
<1>5. DecoderTyped'
  BY <1>0, <1>1, <1>2, <1>3, EmptySeq DEF DecoderTyped, Decoder!NoPacket
<1>6. Unbroken'
  <2>1. Contiguous(codec', PacketStart')
    BY <1>1, <1>2 DEF Contiguous
  <2>2. QED
    BY <1>1, <1>2, <1>3, <1>4, <2>1, EmptySpan DEF Unbroken
<1>7. Joined(dec, out, LeftStart)'
  <2>1. at' \in Int /\ at' <= t /\ t \in Int
    BY <1>1
  <2>2. CASE at' = t
    BY <1>1, <1>2, <1>3, <1>4, <2>1, <2>2 DEF Joined
  <2>3. CASE at' # t
    BY <1>1, <1>2, <1>3, <1>4, <2>1, <2>3 DEF Joined
  <2>4. QED
    BY <2>2, <2>3
<1>8. Dated' /\ Orderly'
  BY <1>1, <1>2, <1>3 DEF Dated, Orderly
<1>9. QED
  BY <1>5, <1>6, <1>7, <1>8 DEF Sound

LEMMA DecoderInitially ==
    ASSUME Decoder!DecoderConstants, Decoder!Init
    PROVE  Sound
<1>1. /\ at = 0 /\ codec = <<>> /\ held = <<>> /\ pkt = Decoder!NoPacket /\ decPc = "idle" /\ out = <<>>
      /\ expect = 0 /\ Len(<<>>) = 0 /\ Samples \in Nat /\ BlockSize \in Nat
  BY EmptySeq DEF Decoder!Init, Decoder!DecoderConstants
<1>2. dec \in Decs /\ dec.left = <<>> /\ dec.target = Decoder!NoTarget /\ ~dec.eof /\ ~dec.demuxEof
  BY EmptySeq DEF Decoder!Init, Decs, Decoder!NoTarget
<1>3. ~Unsent /\ PacketStart = 0 /\ HeldStart = 0 /\ LeftStart = 0
  BY <1>1, <1>2 DEF Unsent, PacketStart, FirstOf, HeldStart, LeftStart
<1>4. DecoderTyped
  BY <1>1, <1>2, EmptySeq DEF DecoderTyped, Decoder!NoPacket
<1>5. Unbroken
  BY <1>1, <1>2, <1>3, EmptySpan DEF Unbroken, Contiguous
<1>6. Joined(dec, out, LeftStart) /\ Dated /\ Orderly
  BY <1>1, <1>2, <1>3 DEF Joined, Dated, Orderly, Decoder!NoTarget
<1>7. QED
  BY <1>4, <1>5, <1>6 DEF Sound

LEMMA DecoderStep ==
    ASSUME Decoder!DecoderConstants, DecoderInv, [Decoder!Next]_Decoder!vars
    PROVE  DecoderInv'
<1>1. CASE decPc = "failed" /\ ~dec.eof /\ out = <<>>
  <2>1. UNCHANGED Decoder!vars
    BY <1>1 DEF Decoder!Next, Decoder!Reading, Decoder!BeginRead, Decoder!EndRead, Decoder!ReadPacket,
       Decoder!SkipPacket, Decoder!SendPacket, Decoder!ReceiveFrame,
                Decoder!StopReceiving, Decoder!Flush, Decoder!Fail, Decoder!Seek, Decoder!Looping
  <2>2. QED
    BY <1>1, <2>1 DEF DecoderInv, Decoder!vars
<1>2. CASE decPc # "failed" /\ Sound
  <2>1. CASE Decoder!Fail
    <3>1. decPc' = "failed" /\ out' = <<>> /\ dec' = dec
      BY <2>1 DEF Decoder!Fail
    <3>2. ~dec.eof
      BY <1>2, <2>1, LoopingMeans DEF Decoder!Fail, Sound, Orderly
    <3>3. QED
      BY <3>1, <3>2 DEF DecoderInv
  <2>2. CASE Decoder!EndRead
    <3>1. Sound' /\ decPc' = "idle"
      BY <1>2, <2>2, ReturnKeeps DEF Decoder!EndRead, Decoder!Return
    <3>2. QED
      BY <3>1 DEF DecoderInv, Sound
  <2>3. CASE UNCHANGED Decoder!vars
    BY <1>2, <2>3 DEF Decoder!vars, DecoderInv, Sound, DecoderTyped, Unbroken, Joined, Dated, Orderly,
       LeftStart,
                      HeldStart, PacketStart, Unsent
  <2>4. CASE Decoder!Reading \/ \E t \in 0 .. Samples : Decoder!Seek(t)
    <3>1. Sound'
      BY <1>2, <2>2, <2>4, BeginReadKeeps, ReadPacketKeeps, PacketsKeep, FramesKeep, SeekKeeps,
         ReturnKeeps
         DEF Decoder!Reading, Decoder!EndRead
    <3>2. decPc' # "failed"
      BY <1>2, <2>4 DEF Decoder!Reading, Decoder!BeginRead, Decoder!EndRead, Decoder!ReadPacket,
         Decoder!SkipPacket, Decoder!SendPacket, Decoder!ReceiveFrame,
                        Decoder!StopReceiving, Decoder!Flush, Decoder!Seek, Decoder!Return
    <3>3. QED
      BY <3>1, <3>2 DEF DecoderInv, Sound
  <2>5. QED
    BY <2>1, <2>2, <2>3, <2>4 DEF Decoder!Next
<1>3. QED
  BY <1>1, <1>2 DEF DecoderInv, Sound

\* The inductive invariant of the decoder: the block, the left-overs, the resampler, the codec and
\* the pending packet are one unbroken stretch of the file up to the demuxer.
THEOREM DecoderInvariant ==
    ASSUME Decoder!DecoderConstants
    PROVE  Decoder!Spec => []DecoderInv
<1>1. Decoder!Init => DecoderInv
  BY DecoderInitially DEF DecoderInv, Sound, Decoder!Init
<1>2. DecoderInv /\ [Decoder!Next]_Decoder!vars => DecoderInv'
  BY DecoderStep
<1>3. QED
  BY <1>1, <1>2, PTL DEF Decoder!Spec

\* For any file, packets, codec and resampler delay, block size and any number of seeks: the reads
\* deliver the file from its start or the last seek on, nothing twice, nothing missing, rightly
\* dated, to the end.
THEOREM DecoderDeliversTheFile ==
    ASSUME Decoder!DecoderConstants
    PROVE  Decoder!Spec => []Decoder!DeliversTheFile
<1>1. DecoderInv => Decoder!DeliversTheFile
  <2>1. CASE decPc = "failed" /\ ~dec.eof /\ out = <<>>
    <3>1. DOMAIN out = {}
      BY <2>1
    <3>2. QED
      BY <2>1, <3>1 DEF Decoder!DeliversTheFile, Decoder!InOrderNoGap, Decoder!LabelIsTrue,
         Decoder!EofMeansAll
  <2>2. CASE DecoderTyped /\ Unbroken /\ Dated /\ Orderly
    <3>1. out \in Seq(Int) /\ DOMAIN out = 1 .. Len(out) /\ Len(out) \in Nat /\ expect \in Nat
      BY <2>2, LenProperties DEF DecoderTyped
    <3>2. \A i \in 1 .. Len(out) : out[i] = expect + i - 1
      BY <2>2 DEF Unbroken, IsSpan
    <3>3. out # <<>> => label = out[1]
      <4> SUFFICES ASSUME out # <<>>
                   PROVE  label = out[1]
        OBVIOUS
      <4>1. 1 \in 1 .. Len(out)
        BY <3>1, EmptySeq
      <4>2. label = expect
        BY <2>2 DEF Dated
      <4>3. QED
        BY <3>1, <3>2, <4>1, <4>2
    <3>4. dec.eof => expect + Len(out) >= Samples
      BY <2>2 DEF Orderly
    <3>5. QED
      BY <3>1, <3>2, <3>3, <3>4 DEF Decoder!DeliversTheFile, Decoder!InOrderNoGap, Decoder!LabelIsTrue,
         Decoder!EofMeansAll
  <2>3. QED
    BY <2>1, <2>2 DEF DecoderInv
<1>2. QED
  BY <1>1, DecoderInvariant, PTL

\* The decoder of the composition runs as SourceDecoder says.
LEMMA DecoderRuns == AudioSpec => Decoder!Spec
<1>1. AudioInit => Decoder!Init
  BY DEF AudioInit
<1>2. [AudioNext]_<<part, vars, lookVars, decVars, builderVars, timeVars>>
          => [Decoder!Next]_(Decoder!vars)
  <2>1. UNCHANGED decVars => UNCHANGED Decoder!vars
    BY DEF decVars, Decoder!vars
  <2>2. QED
    BY <2>1 DEF AudioNext
<1>3. QED
  BY <1>1, <1>2, PTL DEF AudioSpec, Decoder!Spec

\* The same of the composition that the run checks: every sample once, in order, rightly dated, to
\* the end.
THEOREM AudioDeliversTheFile == AudioSpec => []DeliversTheFile
<1>1. Decoder!Spec => []Decoder!DeliversTheFile
  BY WorkerAudioAssumption, DecoderDeliversTheFile
<1>2. QED
  BY <1>1, DecoderRuns, PTL DEF DeliversTheFile

-----------------------------------------------------------------------------
(* The look-ahead (LookAhead).                                               *)

\* A set of naturals that is not empty has a least member.
LEMMA LookLeast ==
    ASSUME NEW T \in SUBSET Nat, T # {}
    PROVE  \E x \in T : \A y \in T : x <= y
<1> DEFINE R == {p \in Nat \X Nat : p[1] < p[2]}
<1>1. IsWellFoundedOn(R, Nat)
  <2>1. R = OpToRel(<, Nat)
    BY DEF OpToRel
  <2>2. QED
    BY <2>1, NatLessThanWellFounded
<1>2. PICK x \in T : \A y \in T : ~(<<y, x>> \in R)
  <2> HIDE DEF R
  <2> QED
    BY <1>1, WFMin
<1>3. ASSUME NEW y \in T, y < x
      PROVE  FALSE
  <2>1. <<y, x>> \in Nat \X Nat /\ <<y, x>>[1] < <<y, x>>[2]
    BY <1>3
  <2>2. QED
    BY <1>2, <2>1
<1>4. QED
  BY <1>3

\* Min is that member.
LEMMA MinIsLeast ==
    ASSUME NEW T \in SUBSET Nat, T # {}
    PROVE  Look!Min(T) \in T /\ \A y \in T : Look!Min(T) <= y
<1>1. \E x \in T : \A y \in T : x <= y
  BY LookLeast
<1>2. QED
  BY <1>1 DEF Look!Min

\* Max is one of the members of a set of naturals with a bound.
LEMMA MaxIsMember ==
    ASSUME NEW T \in SUBSET Nat, T # {}, NEW n \in Nat, \A x \in T : x <= n
    PROVE  Look!Max(T) \in T
<1> DEFINE D == {n - x : x \in T}
<1>1. D \in SUBSET Nat /\ D # {}
  <2>1. PICK x \in T : TRUE
    OBVIOUS
  <2>2. n - x \in D
    BY <2>1
  <2>3. \A y \in T : n - y \in Nat
    OBVIOUS
  <2>4. QED
    BY <2>2, <2>3
<1>2. PICK d \in D : \A y \in D : d <= y
  <2> HIDE DEF D
  <2> QED
    BY <1>1, LookLeast
<1>3. PICK x \in T : d = n - x
  BY <1>2
<1>4. \A y \in T : x >= y
  <2> TAKE y \in T
  <2>1. n - y \in D
    OBVIOUS
  <2>2. d <= n - y
    BY <1>2, <2>1
  <2>3. QED
    BY <1>3, <2>2
<1>5. QED
  BY <1>4 DEF Look!Max

\* What is known in every state: the types, and that the tail of the file is never refused.
LookInv == Look!LookAheadTypeOK /\ lookPc # "failed"

\* The part of the window that the detector is given.
LEMMA SeenIs ==
    ASSUME Look!LookAheadConstants, unheard \in Seq(BOOLEAN)
    PROVE  /\ Look!Seen \in Seq(BOOLEAN) /\ Len(Look!Seen) <= Len(unheard) /\ Len(Look!Seen) <= ChunkMax
           /\ \A i \in 1 .. Len(Look!Seen) : Look!Seen[i] = unheard[i]
           /\ Len(unheard) < ChunkMax => Len(Look!Seen) = Len(unheard)
           /\ Len(unheard) >= ChunkMax => Len(Look!Seen) = ChunkMax
           /\ unheard # <<>> => Len(Look!Seen) > 0
<1>1. PICK k \in Nat : k = Look!Lesser(Len(unheard), ChunkMax)
  BY LenProperties DEF Look!Lesser, Look!LookAheadConstants
<1>2. k <= Len(unheard) /\ k <= ChunkMax /\ (k = Len(unheard) \/ k = ChunkMax) /\ Len(unheard) \in Nat
  BY <1>1, LenProperties DEF Look!Lesser, Look!LookAheadConstants
<1>3. Look!Seen = SubSeq(unheard, 1, k)
  BY <1>1 DEF Look!Seen
<1>4. /\ Look!Seen \in Seq(BOOLEAN) /\ Len(Look!Seen) = k
      /\ \A i \in 1 .. k : Look!Seen[i] = unheard[i]
  BY <1>2, <1>3, SubSeqProperties
<1>5. unheard # <<>> => Len(unheard) > 0
  BY <1>2, EmptySeq
<1>6. QED
  BY <1>2, <1>4, <1>5 DEF Look!LookAheadConstants

\* The answer when nobody speaks.
LEMMA SilenceIs ==
    ASSUME Look!LookAheadConstants, NEW v \in Seq(BOOLEAN), NEW eof \in BOOLEAN
    PROVE  /\ Look!Silence(v, eof) = Look!Nothing \/ \E n \in 0 .. Len(v) : Look!Silence(v,
                eof) = Look!DrainOf(n)
           /\ eof /\ Len(v) > 0 => \E n \in 1 .. Len(v) : Look!Silence(v, eof) = Look!DrainOf(n)
<1>1. PICK k \in Nat : k = Len(v)
  BY LenProperties
<1>2. QED
  BY <1>1 DEF Look!Silence, Look!LookAheadConstants

\* Where the speech of a window begins.
LEMMA FirstSpeech ==
    ASSUME NEW v \in Seq(BOOLEAN), NEW e \in Nat, Look!SpeechFrom(e, v) # {}
    PROVE  /\ Look!Min(Look!SpeechFrom(e, v)) \in e .. Len(v) - 1
           /\ v[Look!Min(Look!SpeechFrom(e, v)) + 1]
           /\ \A i \in e + 1 .. Look!Min(Look!SpeechFrom(e, v)) : ~v[i]
<1>0. PICK l \in Nat : l = Len(v)
  BY LenProperties
<1>1. Look!SpeechFrom(e, v) \in SUBSET Nat
  BY <1>0 DEF Look!SpeechFrom
<1>2. PICK m \in Look!SpeechFrom(e, v) : m = Look!Min(Look!SpeechFrom(e, v))
        /\ \A y \in Look!SpeechFrom(e, v) : m <= y
  BY <1>1, MinIsLeast
<1>3. m \in e .. l - 1 /\ v[m + 1]
  BY <1>0, <1>2 DEF Look!SpeechFrom
<1>4. ASSUME NEW i \in e + 1 .. m, v[i]
      PROVE  FALSE
  <2>1. i - 1 \in e .. l - 1 /\ (i - 1) + 1 = i
    BY <1>3
  <2>2. i - 1 \in Look!SpeechFrom(e, v)
    BY <1>0, <1>4, <2>1 DEF Look!SpeechFrom
  <2>3. QED
    BY <1>2, <1>3, <2>2
<1>5. QED
  BY <1>0, <1>2, <1>3, <1>4

\* Where there is no speech from e on.
LEMMA NoSpeech ==
    ASSUME NEW v \in Seq(BOOLEAN), NEW e \in Nat, Look!SpeechFrom(e, v) = {}
    PROVE  \A i \in e + 1 .. Len(v) : ~v[i]
<1>0. PICK l \in Nat : l = Len(v)
  BY LenProperties
<1>1. ASSUME NEW i \in e + 1 .. l, v[i]
      PROVE  FALSE
  <2>1. i - 1 \in e .. l - 1 /\ (i - 1) + 1 = i
    BY <1>0
  <2>2. i - 1 \in Look!SpeechFrom(e, v)
    BY <1>0, <1>1, <2>1 DEF Look!SpeechFrom
  <2>3. QED
    BY <2>2
<1>2. QED
  BY <1>0, <1>1

\* A cut in a pause: after the segment, and in silence unless the window ends there.
LEMMA CutInIs ==
    ASSUME Look!LookAheadConstants, NEW v \in Seq(BOOLEAN), NEW eof \in BOOLEAN,
           NEW e \in Look!SegmentEnds(v), Look!PauseAfter(e, v, eof)
    PROVE  /\ Look!CutIn(e, v) \in Nat /\ Look!CutIn(e, v) > 0
           /\ Look!CutIn(e, v) < Len(v) => ~v[Look!CutIn(e, v) + 1]
<1>0. PICK l \in Nat : l = Len(v)
  BY LenProperties
<1>1. e \in Nat /\ e \in 1 .. l
  BY <1>0, LenProperties DEF Look!SegmentEnds
<1>2. Pad \in Nat /\ Pad > 0 /\ Gap \in Nat /\ 2 * Pad <= Gap /\ Trailing \in Nat /\ Pad <= Trailing
  BY DEF Look!LookAheadConstants
<1>3. CASE Look!SpeechFrom(e, v) # {}
  <2>1. PICK m \in Nat : m = Look!Min(Look!SpeechFrom(e, v))
    BY <1>1, <1>3, FirstSpeech
  <2>2. m \in e .. l - 1 /\ \A i \in e + 1 .. m : ~v[i]
    BY <1>0, <1>1, <1>3, <2>1, FirstSpeech
  <2>3. m >= e + Gap
    BY <1>3, <2>1 DEF Look!PauseAfter
  <2>4. Look!CutIn(e, v) = Look!Greater(e + Pad, ((e + Pad) + (IF m > Pad THEN m - Pad ELSE m)) \div 2)
    BY <1>3, <2>1 DEF Look!CutIn
  <2>5. PICK h \in Nat : h = ((e + Pad) + (m - Pad)) \div 2
    BY <1>1, <1>2, <2>3
  <2>6. h <= m - Pad
    BY <1>1, <1>2, <2>3, <2>5
  <2>7. Look!CutIn(e, v) = Look!Greater(e + Pad, h)
    BY <1>1, <1>2, <2>3, <2>4, <2>5
  <2>8. PICK c \in Nat : c = Look!CutIn(e, v)
    BY <1>1, <1>2, <2>7 DEF Look!Greater
  <2>9. c >= e + Pad /\ c <= m - Pad
    BY <1>1, <1>2, <2>3, <2>6, <2>7, <2>8 DEF Look!Greater
  <2>10. c + 1 \in e + 1 .. m /\ c > 0
    BY <1>1, <1>2, <2>2, <2>9
  <2>11. QED
    BY <2>2, <2>8, <2>10
<1>4. CASE Look!SpeechFrom(e, v) = {}
  <2>1. Look!CutIn(e, v) = Look!Greater(e + Pad, Look!Lesser(l, Look!Lesser(e + Trailing,
          ((e + Pad) + l) \div 2)))
    BY <1>0, <1>4 DEF Look!CutIn
  <2>2. PICK h \in Nat : h = Look!Lesser(l, Look!Lesser(e + Trailing, ((e + Pad) + l) \div 2))
    BY <1>0, <1>1, <1>2 DEF Look!Lesser
  <2>3. PICK c \in Nat : c = Look!CutIn(e, v) /\ c >= e + Pad
    BY <1>1, <1>2, <2>1, <2>2 DEF Look!Greater
  <2>4. c > 0 /\ (c < l => c + 1 \in e + 1 .. l)
    BY <1>1, <1>2, <2>3
  <2>5. \A i \in e + 1 .. l : ~v[i]
    BY <1>0, <1>1, <1>4, NoSpeech
  <2>6. QED
    BY <1>0, <2>3, <2>4, <2>5
<1>5. QED
  BY <1>3, <1>4

\* An answer that takes some of v, or nothing before the end of the file.
Takes(a, v, eof) ==
    \/ a = Look!Nothing /\ ~eof
    \/ \E n \in 1 .. Len(v) : a = Look!DrainOf(n) \/ a = Look!CutAt(n)

\* An answer that drains no speech, and cuts through it only when the window is full.
KeepsSpeech(a, v) ==
    /\ \A n \in 1 .. Len(v) : a = Look!DrainOf(n) => \A i \in 1 .. n : ~v[i]
    /\ \A n \in 1 .. Len(v) : a = Look!CutAt(n) /\ n < Len(v) /\ Len(v) < ChunkMax => ~v[n + 1]

\* A drain is no cut.
LEMMA AnswersDiffer ==
    ASSUME NEW m \in Nat, NEW n \in Nat
    PROVE  /\ Look!DrainOf(m) = Look!DrainOf(n) <=> m = n
           /\ Look!CutAt(m) = Look!CutAt(n) <=> m = n
           /\ Look!DrainOf(m) = Look!CutAt(n) <=> m = 0 /\ n = 0
           /\ Look!DrainOf(0) = Look!Nothing /\ Look!CutAt(0) = Look!Nothing
           /\ Look!DrainOf(n).cut = 0 /\ Look!DrainOf(n).drain = n
           /\ Look!CutAt(n).cut = n /\ Look!CutAt(n).drain = 0
<1>1. \A c, d, x, y \in Nat : [cut |-> c, drain |-> d] = [cut |-> x, drain |-> y] <=> c = x /\ d = y
  OBVIOUS
<1>2. QED
  BY <1>1 DEF Look!DrainOf, Look!CutAt, Look!Nothing

LEMMA SilenceKeeps ==
    ASSUME Look!LookAheadConstants, NEW v \in Seq(BOOLEAN), NEW eof \in BOOLEAN, Len(v) > 0
    PROVE  /\ Takes(Look!Silence(v, eof), v, eof)
           /\ (\A i \in 1 .. Len(v) : ~v[i]) => KeepsSpeech(Look!Silence(v, eof), v)
<1>0. PICK l \in Nat : l = Len(v) /\ l > 0
  BY LenProperties
<1>1. CASE Look!Silence(v, eof) = Look!Nothing /\ ~eof
  <2>1. \A n \in 1 .. l : Look!Nothing # Look!DrainOf(n) /\ Look!Nothing # Look!CutAt(n)
    BY AnswersDiffer
  <2>2. QED
    BY <1>0, <1>1, <2>1 DEF Takes, KeepsSpeech
<1>2. CASE \E n \in 1 .. l : Look!Silence(v, eof) = Look!DrainOf(n)
  <2>1. PICK n \in 1 .. l : Look!Silence(v, eof) = Look!DrainOf(n)
    BY <1>2
  <2>2. \A m \in 1 .. l : (Look!DrainOf(n) = Look!DrainOf(m) => m = n)
          /\ Look!DrainOf(n) # Look!CutAt(m)
    BY AnswersDiffer
  <2>3. QED
    BY <1>0, <2>1, <2>2 DEF Takes, KeepsSpeech
<1>3. ~eof => Look!Silence(v, eof) = Look!Nothing \/ \E n \in 1 .. l : Look!Silence(v,
        eof) = Look!DrainOf(n)
  <2>1. Look!Silence(v, eof) = Look!Nothing \/ \E n \in 0 .. l : Look!Silence(v, eof) = Look!DrainOf(n)
    BY <1>0, SilenceIs
  <2>2. Look!DrainOf(0) = Look!Nothing
    BY DEF Look!DrainOf, Look!Nothing
  <2>3. \A n \in 0 .. l : n = 0 \/ n \in 1 .. l
    BY <1>0
  <2>4. QED
    BY <2>1, <2>2, <2>3
<1>4. eof => \E n \in 1 .. l : Look!Silence(v, eof) = Look!DrainOf(n)
  BY <1>0, SilenceIs
<1>5. QED
  BY <1>1, <1>2, <1>3, <1>4

\* A cut of at least one unit.
LEMMA CutKeeps ==
    ASSUME Look!LookAheadConstants, NEW v \in Seq(BOOLEAN), NEW eof \in BOOLEAN, Len(v) > 0,
           NEW c \in Nat, c = 0 => ~eof
    PROVE  /\ Takes(Look!CutWithin(c, v), v, eof)
           /\ (c < Len(v) /\ Len(v) < ChunkMax /\ c > 0 => ~v[c + 1]) => KeepsSpeech(Look!CutWithin(c,
                v), v)
<1>0. PICK l \in Nat : l = Len(v) /\ l > 0
  BY LenProperties
<1>1. CASE c = 0
  <2>1. Look!CutWithin(c, v) = Look!CutAt(0)
    BY <1>0, <1>1 DEF Look!CutWithin, Look!Lesser
  <2>2. Look!CutAt(0) = Look!Nothing /\ \A n \in 1 .. l : Look!CutAt(0) # Look!DrainOf(n)
          /\ Look!CutAt(0) # Look!CutAt(n)
    BY AnswersDiffer
  <2>3. QED
    BY <1>0, <1>1, <2>1, <2>2 DEF Takes, KeepsSpeech
<1>2. CASE c > 0
  <2>1. PICK n \in 1 .. l : n = Look!Lesser(c, l) /\ (n = c \/ n = l)
    BY <1>0, <1>2 DEF Look!Lesser
  <2>2. Look!CutWithin(c, v) = Look!CutAt(n)
    BY <1>0, <2>1 DEF Look!CutWithin
  <2>3. \A m \in 1 .. l : (Look!CutAt(n) = Look!CutAt(m) => m = n) /\ Look!CutAt(n) # Look!DrainOf(m)
    BY AnswersDiffer
  <2>4. Takes(Look!CutWithin(c, v), v, eof)
    BY <1>0, <2>2 DEF Takes
  <2>5. ASSUME c < l /\ l < ChunkMax => ~v[c + 1]
        PROVE  KeepsSpeech(Look!CutWithin(c, v), v)
    <3>1. n < l => n = c /\ c < l
      BY <2>1
    <3>2. QED
      BY <1>0, <2>2, <2>3, <2>5, <3>1 DEF KeepsSpeech
  <2>6. QED
    BY <1>0, <1>2, <2>4, <2>5
<1>3. QED
  BY <1>1, <1>2

\* The boundary by the segments takes something, at the end of the file always, and keeps speech.
LEMMA BySegmentsKeeps ==
    ASSUME Look!LookAheadConstants, NEW v \in Seq(BOOLEAN), NEW eof \in BOOLEAN, Len(v) > 0
    PROVE  Takes(Look!BySegments(v, eof), v, eof) /\ KeepsSpeech(Look!BySegments(v, eof), v)
<1> DEFINE first == Look!Min(Look!SpeechFrom(0, v))
           fits == {e \in Look!SegmentEnds(v) : e + Pad >= ChunkMin /\ e + Pad <= ChunkMax}
           breaks == {e \in fits : Look!PauseAfter(e, v, eof)}
           chosen == IF breaks # {} THEN Look!CutIn(Look!Min(breaks), v)
                     ELSE IF Len(v) >= ChunkMax THEN Look!FullWindow(fits)
                     ELSE IF eof THEN Len(v) ELSE 0
<1>0. PICK l \in Nat : l = Len(v) /\ l > 0
  BY LenProperties
<1>1. Look!BySegments(v, eof) = IF Look!SpeechFrom(0, v) = {} THEN Look!Silence(v, eof)
                                ELSE IF first > Leading + Pad THEN Look!BeforeSpeech(first)
                                ELSE Look!CutWithin(chosen, v)
  BY DEF Look!BySegments
<1>2. CASE Look!SpeechFrom(0, v) = {}
  <2>1. \A i \in 1 .. l : ~v[i]
    BY <1>0, <1>2, NoSpeech
  <2>2. QED
    BY <1>0, <1>1, <1>2, <2>1, SilenceKeeps
<1>3. CASE Look!SpeechFrom(0, v) # {} /\ first > Leading + Pad
  <2>1. first \in 0 .. l - 1 /\ \A i \in 1 .. first : ~v[i]
    BY <1>0, <1>3, FirstSpeech
  <2>2. PICK f \in Nat : f = first
    BY <1>0, <2>1
  <2>3. Look!BySegments(v, eof) = Look!DrainOf(f - Pad)
    BY <1>1, <1>3, <2>2 DEF Look!BeforeSpeech
  <2>4. PICK n \in 1 .. l : n = f - Pad /\ n <= f
    BY SMTT(30), <1>0, <1>3, <2>1, <2>2 DEF Look!LookAheadConstants
  <2>5. \A m \in 1 .. l : (Look!DrainOf(n) = Look!DrainOf(m) => m = n)
          /\ Look!DrainOf(n) # Look!CutAt(m)
    BY AnswersDiffer
  <2>6. \A i \in 1 .. n : ~v[i]
    BY <2>1, <2>2, <2>4
  <2>7. QED
    BY <1>0, <2>3, <2>4, <2>5, <2>6 DEF Takes, KeepsSpeech
<1>4. CASE Look!SpeechFrom(0, v) # {} /\ ~(first > Leading + Pad)
  <2>1. Look!BySegments(v, eof) = Look!CutWithin(chosen, v)
    BY <1>1, <1>4
  <2>2. Look!SegmentEnds(v) \in SUBSET Nat /\ \A e \in Look!SegmentEnds(v) : e <= l
    BY <1>0, LenProperties DEF Look!SegmentEnds
  <2>3. chosen \in Nat /\ (chosen = 0 => ~eof)
        /\ (chosen < l /\ l < ChunkMax /\ chosen > 0 => ~v[chosen + 1])
    <3>1. CASE breaks # {}
      <4>1. Look!Min(breaks) \in breaks
        BY <2>2, <3>1, MinIsLeast
      <4>2. Look!Min(breaks) \in Look!SegmentEnds(v) /\ Look!PauseAfter(Look!Min(breaks), v, eof)
        BY <4>1
      <4>3. chosen = Look!CutIn(Look!Min(breaks), v)
        BY <3>1
      <4> HIDE DEF chosen, breaks
      <4>4. QED
        BY <1>0, <4>2, <4>3, CutInIs
    <3>2. CASE breaks = {} /\ l >= ChunkMax
      <4>1. chosen = Look!FullWindow(fits)
        BY <1>0, <3>2
      <4>2. fits # {} => Look!Max(fits) \in fits
        <5>1. fits \in SUBSET Nat /\ \A e \in fits : e <= l
          BY <2>2
        <5> HIDE DEF fits
        <5>2. QED
          BY <5>1, MaxIsMember
      <4>3. fits # {} => Look!Max(fits) \in Nat
        BY <2>2, <4>2
      <4>4. Look!FullWindow(fits) \in Nat /\ Look!FullWindow(fits) > 0
        BY SMTT(30), <4>3 DEF Look!FullWindow, Look!LookAheadConstants
      <4>5. QED
        BY <1>0, <3>2, <4>1, <4>4 DEF Look!LookAheadConstants
    <3>3. CASE breaks = {} /\ ~(l >= ChunkMax)
      BY <1>0, <3>3
    <3>4. QED
      BY <3>1, <3>2, <3>3
  <2> HIDE DEF chosen
  <2>4. QED
    BY <1>0, <2>1, <2>3, CutKeeps
<1>5. QED
  BY <1>2, <1>3, <1>4

\* The boundary by the energy takes something, at the end of the file always.
LEMMA ByEnergyTakes ==
    ASSUME Look!LookAheadConstants, NEW v \in Seq(BOOLEAN), NEW eof \in BOOLEAN, NEW loud, Len(v) > 0
    PROVE  Takes(Look!ByEnergy(v, eof, loud), v, eof)
<1>0. PICK l \in Nat : l = Len(v) /\ l > 0
  BY LenProperties
<1>1. PICK t \in Nat : t = (ChunkMin + ChunkMax) \div 2 /\ t > 0
  BY DEF Look!LookAheadConstants
<1>2. Look!ByEnergy(v, eof, loud) = IF ~loud THEN Look!Silence(v, eof)
                                    ELSE IF l >= t \/ eof THEN Look!CutWithin(t, v) ELSE Look!Nothing
  BY <1>0, <1>1 DEF Look!ByEnergy
<1>3. CASE ~loud
  BY <1>0, <1>2, <1>3, SilenceKeeps
<1>4. CASE loud /\ (l >= t \/ eof)
  BY <1>0, <1>1, <1>2, <1>4, CutKeeps
<1>5. CASE loud /\ ~(l >= t \/ eof)
  BY <1>2, <1>5 DEF Takes
<1>6. QED
  BY <1>3, <1>4, <1>5

\* Whatever the detectors answer.
LEMMA BoundariesTake ==
    ASSUME Look!LookAheadConstants, NEW v \in Seq(BOOLEAN), NEW eof \in BOOLEAN, Len(v) > 0,
           NEW b \in Look!Boundaries(v, eof)
    PROVE  /\ Takes(b.at, v, eof)
           /\ b.by = "silero" => KeepsSpeech(b.at, v)
<1>1. CASE b = [by |-> "silero", at |-> Look!BySegments(v, eof)]
  BY <1>1, BySegmentsKeeps
<1>2. CASE \E loud \in BOOLEAN : b = [by |-> "energy", at |-> Look!ByEnergy(v, eof, loud)]
  BY <1>2, ByEnergyTakes
<1>3. \/ b = [by |-> "silero", at |-> Look!BySegments(v, eof)]
      \/ \E loud \in BOOLEAN : b = [by |-> "energy", at |-> Look!ByEnergy(v, eof, loud)]
  BY DEF Look!Boundaries
<1>4. QED
  BY <1>1, <1>2, <1>3

\* What leaves the window is a prefix of it, and it keeps the speech.
LEMMA LeavesIs ==
    ASSUME Look!LookAheadConstants, unheard \in Seq(BOOLEAN), unheard # <<>>, unheardFrom \in Nat,
           NEW eof \in BOOLEAN, NEW b \in Look!Boundaries(Look!Seen, eof), Look!Leaves(b)
    PROVE  /\ \E n \in 1 .. Len(unheard) : /\ unheardFrom' = unheardFrom + n
                                           /\ unheard' \in Seq(BOOLEAN)
                                           /\ Len(unheard') = Len(unheard) - n
           /\ did'.by = "silero" => Look!DrainsSilenceOnly /\ Look!ClipsOnlyWhenFull
<1>0. /\ Look!Seen \in Seq(BOOLEAN) /\ Len(Look!Seen) > 0 /\ Len(Look!Seen) <= Len(unheard)
      /\ \A i \in 1 .. Len(Look!Seen) : Look!Seen[i] = unheard[i]
      /\ Len(unheard) < ChunkMax => Len(Look!Seen) = Len(unheard)
      /\ Len(unheard) >= ChunkMax => Len(Look!Seen) = ChunkMax
  BY SeenIs
<1>1. PICK l \in Nat : l = Len(unheard)
  BY LenProperties
<1>2. PICK s \in Nat : s = Len(Look!Seen) /\ s > 0 /\ s <= l
  BY <1>0, <1>1, LenProperties
<1>3. Takes(b.at, Look!Seen, eof) /\ (b.by = "silero" => KeepsSpeech(b.at, Look!Seen))
  BY <1>0, BoundariesTake
<1>4. PICK n \in 1 .. s : b.at = Look!DrainOf(n) \/ b.at = Look!CutAt(n)
  <2>1. Look!Nothing.cut + Look!Nothing.drain = 0
    BY DEF Look!Nothing
  <2>2. b.at # Look!Nothing
    BY <2>1 DEF Look!Leaves
  <2>3. QED
    BY <1>2, <1>3, <2>2 DEF Takes
<1>5. n = b.at.cut + b.at.drain /\ n \in Nat /\ n <= l /\ n > 0
  BY <1>2, <1>4, AnswersDiffer
<1>6. unheardFrom' = unheardFrom + n /\ unheard' = SubSeq(unheard, n + 1, l)
      /\ did' = [kind |-> IF b.at.cut > 0 THEN "cut" ELSE "drain", by |-> b.by,
                 full |-> Look!Lesser(l, ChunkMax) = ChunkMax]
  BY <1>1, <1>5 DEF Look!Leaves
<1>7. /\ unheard' \in Seq(BOOLEAN) /\ Len(unheard') = l - n
      /\ \A i \in 1 .. l - n : unheard'[i] = unheard[n + i]
  <2>1. n + 1 \in 1 .. l + 1 /\ l \in n .. l
    BY <1>5
  <2>2. /\ SubSeq(unheard, n + 1, l) \in Seq(BOOLEAN)
        /\ Len(SubSeq(unheard, n + 1, l)) = l - n
        /\ \A i \in 1 .. l - n : SubSeq(unheard, n + 1, l)[i] = unheard[n + i]
    <3>1. /\ SubSeq(unheard, n + 1, l) \in Seq(BOOLEAN)
          /\ Len(SubSeq(unheard, n + 1, l)) = l - (n + 1) + 1
          /\ \A i \in 1 .. l - (n + 1) + 1 :
               SubSeq(unheard, n + 1, l)[i] = unheard[(n + 1) + i - 1]
      <4>1. n + 1 \in 1 .. Len(unheard) + 1 /\ l \in (n + 1) - 1 .. Len(unheard)
        BY <1>1, <1>5
      <4> HIDE <1>6
      <4>2. QED
        BY <4>1, SubSeqProperties
    <3>2. l - (n + 1) + 1 = l - n /\ \A i \in 1 .. l - n : (n + 1) + i - 1 = n + i
      BY <1>5
    <3>3. QED
      BY <3>1, <3>2
  <2>3. QED
    BY <1>6, <2>2
<1>8. /\ Look!Left = SubSeq(unheard, 1, n) /\ Look!Left \in Seq(BOOLEAN) /\ Len(Look!Left) = n
      /\ DOMAIN Look!Left = 1 .. n /\ \A i \in 1 .. n : Look!Left[i] = unheard[i]
  <2>1. unheardFrom' - unheardFrom = n
    BY <1>5, <1>6
  <2>2. Look!Lesser(unheardFrom' - unheardFrom, Len(unheard)) = n
    BY <1>1, <1>5, <2>1 DEF Look!Lesser
  <2>3. Look!Left = SubSeq(unheard, 1, n)
    BY <2>2 DEF Look!Left
  <2>4. QED
    BY <1>1, <1>5, <2>3, SubSeqProperties, LenProperties
<1>9. ASSUME did'.by = "silero"
      PROVE  Look!DrainsSilenceOnly /\ Look!ClipsOnlyWhenFull
  <2>1. KeepsSpeech(b.at, Look!Seen)
    BY <1>3, <1>6, <1>9
  <2>2. CASE b.at = Look!DrainOf(n)
    <3>1. \A i \in 1 .. n : ~Look!Seen[i]
      BY <1>2, <2>1, <2>2 DEF KeepsSpeech
    <3>2. \A i \in 1 .. n : ~Look!Left[i] /\ Look!Left[i] \in BOOLEAN
      BY <1>0, <1>2, <1>5, <1>8, <3>1, ElementOfSeq
    <3>3. TRUE \notin Look!Range(Look!Left)
      BY <1>8, <3>2 DEF Look!Range
    <3>4. ~Look!Last(Look!Left)
      BY <1>5, <1>8, <3>2 DEF Look!Last
    <3>5. QED
      BY <3>3, <3>4 DEF Look!DrainsSilenceOnly, Look!ClipsOnlyWhenFull
  <2>3. CASE b.at = Look!CutAt(n)
    <3>1. b.at.cut = n
      BY <1>5, <2>3, AnswersDiffer
    <3>2. did'.kind = "cut"
      BY <1>5, <1>6, <3>1
    <3>3. CASE l >= ChunkMax
      <4>0. Look!Lesser(l, ChunkMax) = ChunkMax
        BY <3>3 DEF Look!Lesser, Look!LookAheadConstants
      <4>1. did'.full
        BY Zenon, <1>6, <4>0
      <4>2. QED
        BY <3>2, <4>1 DEF Look!DrainsSilenceOnly, Look!ClipsOnlyWhenFull
    <3>4. CASE l < ChunkMax
      <4>1. s = l
        BY <1>0, <1>1, <1>2, <3>4
      <4>2. n < l => ~Look!Seen[n + 1]
        BY <1>2, <2>1, <2>3, <3>4, <4>1 DEF KeepsSpeech
      <4>3. n < l => ~unheard'[1]
        <5>1. n < l => 1 \in 1 .. l - n /\ n + 1 \in 1 .. s
          BY <1>5, <4>1
        <5>2. n < l => unheard'[1] = unheard[n + 1] /\ unheard[n + 1] = Look!Seen[n + 1]
          BY <1>0, <1>2, <1>7, <5>1
        <5>3. QED
          BY Zenon, <4>2, <5>2
      <4>4. n = l => unheard' = <<>>
        BY <1>5, <1>7, EmptySeq
      <4>5. QED
        BY <1>2, <3>2, <4>1, <4>3, <4>4 DEF Look!DrainsSilenceOnly, Look!ClipsOnlyWhenFull
    <3>5. QED
      BY <1>1, <3>3, <3>4 DEF Look!LookAheadConstants
  <2>4. QED
    BY <1>4, <2>2, <2>3
<1>10. \E k \in 1 .. l : unheardFrom' = unheardFrom + k /\ unheard' \in Seq(BOOLEAN)
         /\ Len(unheard') = l - k
  <2>1. n \in 1 .. l
    BY <1>5
  <2>2. QED
    BY <1>6, <1>7, <2>1
<1>11. QED
  BY <1>1, <1>9, <1>10

\* Initially.
LEMMA LookStarts == Look!LookAheadConstants /\ Look!Init => LookInv
<1> SUFFICES ASSUME Look!LookAheadConstants, Look!Init
             PROVE  LookInv
  OBVIOUS
<1>1. unheard \in Seq(BOOLEAN) /\ Len(unheard) = 0
  BY EmptySeq DEF Look!Init
<1>2. QED
  BY <1>1 DEF Look!Init, LookInv, Look!LookAheadTypeOK, Look!decoded, Look!LookAheadConstants

\* A step that takes audio from the window.
LEMMA LeavesKeepsTypes ==
    ASSUME Look!LookAheadConstants, LookInv, unheard # <<>>,
           NEW eof \in BOOLEAN, NEW b \in Look!Boundaries(Look!Seen, eof), Look!Leaves(b)
    PROVE  LookInv'
<1>1. PICK l \in Nat : l = Len(unheard)
  BY LenProperties DEF LookInv, Look!LookAheadTypeOK
<1>2. LookMedia \in Nat /\ unheardFrom \in 0 .. LookMedia /\ unheardFrom + l <= LookMedia
  BY <1>1 DEF LookInv, Look!LookAheadTypeOK, Look!LookAheadConstants, Look!decoded
<1>3. PICK n \in 1 .. l : unheardFrom' = unheardFrom + n /\ unheard' \in Seq(BOOLEAN)
        /\ Len(unheard') = l - n
  BY <1>1, <1>2, LeavesIs DEF LookInv, Look!LookAheadTypeOK
<1>4. unheardFrom' \in 0 .. LookMedia /\ unheardFrom' + Len(unheard') <= LookMedia
  BY <1>2, <1>3
<1>5. QED
  BY <1>3, <1>4 DEF LookInv, Look!LookAheadTypeOK, Look!decoded, Look!Leaves

\* Every step keeps the invariant.
LEMMA LookStep ==
    ASSUME Look!LookAheadConstants, LookInv, [Look!Next]_Look!vars
    PROVE  LookInv'
<1> USE DEF LookInv, Look!LookAheadTypeOK, Look!decoded
<1>1. CASE Look!Read
  <2>1. PICK l \in Nat : l = Len(unheard)
    BY LenProperties
  <2>2. PICK k \in Nat : k = Look!Lesser(ReadSize, LookMedia - Look!decoded)
          /\ k <= LookMedia - (unheardFrom + l)
    BY SMTT(30), <1>1, <2>1 DEF Look!Read, Look!Lesser, Look!LookAheadConstants
  <2>3. PICK audio \in [1 .. k -> BOOLEAN] : Look!Joins(audio) \/ Look!Replaces(audio)
    BY <1>1, <2>2 DEF Look!Read
  <2>4. audio \in Seq(BOOLEAN) /\ Len(audio) = k
    <3>1. audio \in Seq(BOOLEAN)
      BY <2>3, SeqDef
    <3>2. Len(audio) \in Nat /\ DOMAIN audio = 1 .. Len(audio) /\ DOMAIN audio = 1 .. k
      BY <2>3, <3>1, LenProperties
    <3>3. QED
      BY <3>1, <3>2
  <2>5. unheard' \in Seq(BOOLEAN) /\ unheardFrom' \in Nat
          /\ unheardFrom' + Len(unheard') = unheardFrom + (l + k)
    <3>1. unheardFrom \in Nat
      OBVIOUS
    <3>2. CASE Look!Joins(audio)
      <4>1. unheard' \in Seq(BOOLEAN) /\ Len(unheard') = l + k /\ unheardFrom' = unheardFrom
        BY <2>1, <2>4, <3>2, ConcatProperties DEF Look!Joins
      <4>2. QED
        BY <3>1, <4>1
    <3>3. CASE Look!Replaces(audio)
      <4>1. unheard' = audio /\ unheardFrom' = unheardFrom + l
        BY <2>1, <3>3 DEF Look!Replaces
      <4>2. QED
        BY <2>4, <3>1, <4>1
    <3>4. QED
      BY <2>3, <3>2, <3>3
  <2>6. unheardFrom + (l + k) <= LookMedia
    <3>1. unheardFrom \in Nat /\ LookMedia \in Nat
      BY DEF Look!LookAheadConstants
    <3>2. QED
      BY <2>2, <3>1
  <2>7. unheardFrom' \in 0 .. LookMedia /\ unheardFrom' + Len(unheard') <= LookMedia
    <3>1. Len(unheard') \in Nat /\ LookMedia \in Nat
      BY <2>5, LenProperties DEF Look!LookAheadConstants
    <3>2. QED
      BY <2>5, <2>6, <3>1
  <2>8. QED
    BY <1>1, <2>5, <2>7 DEF Look!Read
<1>2. CASE Look!ChunkLoop
  <2>1. CASE Look!Stops
    BY <1>2, <2>1 DEF Look!Stops
  <2>2. ASSUME NEW b \in Look!Boundaries(Look!Seen, FALSE), Look!Leaves(b), ~(Len(unheard) < ChunkMin)
        PROVE  LookInv'
    <3>1. unheard # <<>>
      BY <2>2, EmptySeq DEF Look!LookAheadConstants
    <3>2. QED
      BY <2>2, <3>1, LeavesKeepsTypes
  <2>3. QED
    BY <1>2, <2>1, <2>2 DEF Look!ChunkLoop
<1>3. CASE Look!Eof
  BY <1>3 DEF Look!Eof
<1>4. CASE Look!FlushTail
  <2>1. CASE unheard = <<>>
    BY <1>4, <2>1 DEF Look!FlushTail
  <2>2. CASE unheard # <<>>
    <3>1. PICK b \in Look!Boundaries(Look!Seen, TRUE) :
            IF b.at = Look!Nothing THEN lookPc' = "failed" /\ UNCHANGED <<playhead, unheard, unheardFrom,
              did>>
            ELSE Look!Leaves(b)
      BY <1>4, <2>2 DEF Look!FlushTail
    <3>2. b.at # Look!Nothing
      <4>1. Look!Seen \in Seq(BOOLEAN) /\ Len(Look!Seen) > 0
        BY <2>2, SeenIs
      <4>2. Takes(b.at, Look!Seen, TRUE)
        BY <4>1, BoundariesTake
      <4>3. PICK s \in Nat : s = Len(Look!Seen)
        BY <4>1, LenProperties
      <4>4. PICK n \in 1 .. s : b.at = Look!DrainOf(n) \/ b.at = Look!CutAt(n)
        BY <4>2, <4>3 DEF Takes
      <4>5. Look!DrainOf(n) # Look!Nothing /\ Look!CutAt(n) # Look!Nothing
        BY <4>3, AnswersDiffer
      <4>6. QED
        BY <4>4, <4>5
    <3>3. QED
      BY <2>2, <3>1, <3>2, LeavesKeepsTypes
  <2>3. QED
    BY <2>1, <2>2
<1>5. CASE Look!Play
  BY SMTT(30), <1>5 DEF Look!Play, Look!LookAheadConstants
<1>6. CASE UNCHANGED Look!vars
  BY <1>6 DEF Look!vars
<1>7. QED
  BY <1>1, <1>2, <1>3, <1>4, <1>5, <1>6 DEF Look!Next, Look!Worker, Look!Done

\* The window, its time stamp and the playhead stay what they are for every size of the chunks, and
\* vw_worker_flush_audio_tail never meets a tail that the boundary search will not take.
THEOREM LookInvariant ==
    ASSUME Look!LookAheadConstants
    PROVE  Look!Spec => []LookInv
<1>1. Look!Init => LookInv
  BY LookStarts
<1>2. LookInv /\ [Look!Next]_Look!vars => LookInv'
  BY LookStep
<1>3. QED
  BY <1>1, <1>2, PTL DEF Look!Spec

\* Where the detector answers, vw_vad_find_chunk_boundary drains no speech, and cuts through it only
\* when the window is full: for every size of chunk, padding, pause and file, every speech in it
\* and every mixture with windows that the energy decides.
THEOREM LookKeepsSpeech ==
    ASSUME Look!LookAheadConstants
    PROVE  Look!Spec => Look!SpeechKept
<1>1. LookInv /\ [Look!Next]_Look!vars
        => [unheardFrom' > unheardFrom /\ did'.by = "silero" => Look!DrainsSilenceOnly
          /\ Look!ClipsOnlyWhenFull]_Look!vars
  <2> SUFFICES ASSUME LookInv, Look!Next, unheardFrom' > unheardFrom, did'.by = "silero"
               PROVE  Look!DrainsSilenceOnly /\ Look!ClipsOnlyWhenFull
    BY Zenon
  <2>1. unheard \in Seq(BOOLEAN) /\ unheardFrom \in Nat
    BY DEF LookInv, Look!LookAheadTypeOK
  <2>2. unheardFrom' # unheardFrom
    BY <2>1
  <2>3. ~Look!Read /\ ~Look!Eof /\ ~Look!Play /\ ~Look!Done /\ ~Look!Stops
    <3>1. ASSUME NEW audio
          PROVE  ~Look!Joins(audio) /\ ~Look!Replaces(audio)
      BY <2>2 DEF Look!Joins, Look!Replaces
    <3>2. QED
      BY <2>2, <3>1 DEF Look!Read, Look!Eof, Look!Play, Look!Done, Look!Stops, Look!vars
  <2>4. ASSUME Look!ChunkLoop
        PROVE  Look!DrainsSilenceOnly /\ Look!ClipsOnlyWhenFull
    <3>1. PICK b \in Look!Boundaries(Look!Seen, FALSE) : Look!Leaves(b) /\ ~(Len(unheard) < ChunkMin)
      BY <2>3, <2>4 DEF Look!ChunkLoop
    <3>2. unheard # <<>>
      BY <3>1, EmptySeq DEF Look!LookAheadConstants
    <3>3. QED
      BY <2>1, <3>1, <3>2, LeavesIs
  <2>5. ASSUME Look!FlushTail
        PROVE  Look!DrainsSilenceOnly /\ Look!ClipsOnlyWhenFull
    <3>1. PICK b \in Look!Boundaries(Look!Seen, TRUE) : Look!Leaves(b) /\ unheard # <<>>
      BY <2>2, <2>5 DEF Look!FlushTail
    <3>2. QED
      BY <2>1, <3>1, LeavesIs
  <2>6. QED
    BY <2>3, <2>4, <2>5 DEF Look!Next, Look!Worker
<1>2. Look!Spec => []LookInv
  BY LookInvariant
<1>3. QED
  BY <1>1, <1>2, PTL DEF Look!Spec, Look!SpeechKept

\* The look-ahead of the composition runs as LookAhead says.
LEMMA LookRuns == AudioSpec => Look!Spec
<1>1. AudioInit => Look!Init
  BY DEF AudioInit
<1>2. [AudioNext]_<<part, vars, lookVars, decVars, builderVars, timeVars>>
          => [Look!Next]_(Look!vars)
  <2>1. UNCHANGED lookVars => UNCHANGED Look!vars
    BY DEF lookVars, Look!vars
  <2>2. QED
    BY <2>1 DEF AudioNext
<1>3. QED
  BY <1>1, <1>2, PTL DEF AudioSpec, Look!Spec

\* The same of the composition that the run checks: where the detector answers, no speech is drained
\* and none is cut through in a window with room left.
THEOREM AudioKeepsSpeech == AudioSpec => SpeechKept
<1>1. Look!Spec => Look!SpeechKept
  BY WorkerAudioAssumption, LookKeepsSpeech
<1>2. QED
  BY <1>1, LookRuns, PTL DEF SpeechKept

-----------------------------------------------------------------------------
(* The captions (SegmentBuilder).                                            *)

\* The words i .. j as a sequence.
LEMMA SpokenIs ==
    ASSUME NEW i \in Nat, NEW j \in Nat, i <= j
    PROVE  /\ Builder!Spoken(i, j) \in Seq(Nat) /\ Len(Builder!Spoken(i, j)) = j - i + 1
           /\ \A k \in 1 .. j - i + 1 : Builder!Spoken(i, j)[k] = i + k - 1
<1>1. PICK n \in Nat : n = j - i + 1
  OBVIOUS
<1>2. Builder!Spoken(i, j) = [k \in 1 .. n |-> i + k - 1]
  BY <1>1 DEF Builder!Spoken
<1>3. \A k \in 1 .. n : i + k - 1 \in Nat
  OBVIOUS
<1>4. Builder!Spoken(i, j) \in [1 .. n -> Nat]
  BY <1>2, <1>3
<1>5. Builder!Spoken(i, j) \in Seq(Nat)
  BY <1>4, SeqDef
<1>6. Len(Builder!Spoken(i, j)) \in Nat /\ DOMAIN Builder!Spoken(i, j) = 1 .. Len(Builder!Spoken(i, j))
  BY <1>5, LenProperties
<1>7. Len(Builder!Spoken(i, j)) = n
  BY <1>1, <1>4, <1>6
<1>8. QED
  BY <1>1, <1>2, <1>5, <1>7

\* A part of a run is a run.
LEMMA SpokenPart ==
    ASSUME NEW i \in Nat, NEW j \in Nat, NEW a \in Nat, NEW b \in Nat, i <= a, a <= b, b <= j,
           NEW f \in Nat, NEW m \in Nat, f = a - i + 1, m = b - i + 1
    PROVE  SubSeq(Builder!Spoken(i, j), f, m) = Builder!Spoken(a, b)
<1>1. /\ Builder!Spoken(i, j) \in Seq(Nat) /\ Len(Builder!Spoken(i, j)) = j - i + 1
      /\ \A x \in 1 .. j - i + 1 : Builder!Spoken(i, j)[x] = i + x - 1
  BY SpokenIs
<1>2. PICK n \in Nat : n = b - a + 1 /\ n = m - f + 1
  OBVIOUS
<1>3. /\ Builder!Spoken(a, b) \in Seq(Nat) /\ Len(Builder!Spoken(a, b)) = n
      /\ \A x \in 1 .. n : Builder!Spoken(a, b)[x] = a + x - 1
  <2>1. /\ Builder!Spoken(a, b) \in Seq(Nat) /\ Len(Builder!Spoken(a, b)) = b - a + 1
        /\ \A x \in 1 .. b - a + 1 : Builder!Spoken(a, b)[x] = a + x - 1
    BY SpokenIs
  <2>2. QED
    BY <1>2, <2>1
<1>4. \A x \in f .. m : Builder!Spoken(i, j)[x] \in Nat
  <2> TAKE x \in f .. m
  <2>1. x \in 1 .. j - i + 1 /\ i + x - 1 \in Nat
    OBVIOUS
  <2>2. QED
    BY <1>1, <2>1
<1>5. /\ SubSeq(Builder!Spoken(i, j), f, m) \in Seq(Nat)
      /\ Len(SubSeq(Builder!Spoken(i, j), f, m)) = n
      /\ \A x \in 1 .. n : SubSeq(Builder!Spoken(i, j), f, m)[x] = Builder!Spoken(i, j)[f + x - 1]
  <2>1. f \in Int /\ m \in Int /\ f <= m
    OBVIOUS
  <2>2. /\ SubSeq(Builder!Spoken(i, j), f, m) \in Seq(Nat)
        /\ Len(SubSeq(Builder!Spoken(i, j), f, m)) = m - f + 1
        /\ \A x \in 1 .. m - f + 1 :
             SubSeq(Builder!Spoken(i, j), f, m)[x] = Builder!Spoken(i, j)[f + x - 1]
    BY <1>4, <2>1, SubSeqProperties
  <2>3. QED
    BY <1>2, <2>2
<1>6. \A x \in 1 .. n : SubSeq(Builder!Spoken(i, j), f, m)[x] = Builder!Spoken(a, b)[x]
  <2> TAKE x \in 1 .. n
  <2>1. f + x - 1 \in 1 .. j - i + 1 /\ i + (f + x - 1) - 1 = a + x - 1
    BY <1>2
  <2>2. QED
    BY <1>1, <1>3, <1>5, <2>1
<1>7. QED
  BY <1>3, <1>5, <1>6, SeqEqual

\* A run begins with its first word.
LEMMA SpokenFirst ==
    ASSUME NEW i \in Nat, NEW j \in Nat, i <= j
    PROVE  Builder!Spoken(i, j)[1] = i
<1>1. 1 \in 1 .. j - i + 1 /\ i + 1 - 1 = i
  OBVIOUS
<1>2. QED
  BY <1>1, SpokenIs

\* A pair of words within a run.
LEMMA PairWithin ==
    ASSUME NEW i \in Nat, NEW j \in Nat, i <= j, NEW v \in Nat,
           Builder!Within(<<v, v + 1>>, Builder!Spoken(i, j))
    PROVE  i <= v /\ v + 1 <= j
<1>1. Len(<<v, v + 1>>) = 2 /\ Len(Builder!Spoken(i, j)) = j - i + 1
  BY SpokenIs
<1>2. PICK k \in 0 .. j - i + 1 - 2 : SubSeq(Builder!Spoken(i, j), k + 1, k + 2) = <<v, v + 1>>
  BY <1>1 DEF Builder!Within
<1>3. PICK a \in Nat : a = i + k
  OBVIOUS
<1>4. PICK b \in Nat : b = a + 1
  BY <1>3
<1>5. PICK f \in Nat : f = k + 1
  OBVIOUS
<1>6. PICK m \in Nat : m = k + 2
  OBVIOUS
<1>7. i <= a /\ a <= b /\ b <= j /\ f = a - i + 1 /\ m = b - i + 1
  BY <1>3, <1>4, <1>5, <1>6
<1>8. SubSeq(Builder!Spoken(i, j), f, m) = Builder!Spoken(a, b)
  BY <1>7, SpokenPart
<1>9. Builder!Spoken(a, b) = <<v, v + 1>>
  BY <1>2, <1>5, <1>6, <1>8
<1>10. Builder!Spoken(a, b)[1] = a
  BY <1>7, SpokenFirst
<1>11. v = a
  BY <1>9, <1>10
<1>12. QED
  BY <1>4, <1>7, <1>11

\* Max is one of the members of a set of naturals with a bound.
LEMMA LargestMember ==
    ASSUME NEW T \in SUBSET Nat, T # {}, NEW n \in Nat, \A x \in T : x <= n
    PROVE  Builder!Max(T) \in T
<1> DEFINE D == {n - x : x \in T}
<1>1. D \in SUBSET Nat /\ D # {}
  <2>1. PICK x \in T : TRUE
    OBVIOUS
  <2>2. n - x \in D
    BY <2>1
  <2>3. \A y \in T : n - y \in Nat
    OBVIOUS
  <2>4. QED
    BY <2>2, <2>3
<1>2. PICK d \in D : \A y \in D : d <= y
  <2> HIDE DEF D
  <2> QED
    BY <1>1, LookLeast
<1>3. PICK x \in T : d = n - x
  BY <1>2
<1>4. \A y \in T : x >= y
  <2> TAKE y \in T
  <2>1. n - y \in D
    OBVIOUS
  <2>2. d <= n - y
    BY <1>2, <2>1
  <2>3. QED
    BY <1>3, <2>2
<1>5. QED
  BY <1>4 DEF Builder!Max

\* The longest end of the run a .. e that the run i .. j begins with: it begins at i, or there is
\* none.
LEMMA TailPrefixOfRuns ==
    ASSUME NEW a \in Nat, NEW e \in Nat, a <= e, NEW i \in Nat, NEW j \in Nat, i <= j,
           NEW len, len = Builder!TailPrefixLen(Builder!Spoken(a, e), Builder!Spoken(i, j))
    PROVE  /\ len \in 0 .. j - i + 1
           /\ len > 0 => len = e - i + 1
           /\ a <= i /\ i < e /\ e <= j => len = e - i + 1
<1>1. Len(Builder!Spoken(a, e)) = e - a + 1 /\ Len(Builder!Spoken(i, j)) = j - i + 1
  BY SpokenIs
<1>2. PICK n \in Nat : n = IF e - a + 1 < j - i + 1 THEN e - a + 1 ELSE j - i + 1
  <2>1. e - a + 1 \in Nat /\ j - i + 1 \in Nat
    OBVIOUS
  <2>2. (IF e - a + 1 < j - i + 1 THEN e - a + 1 ELSE j - i + 1) \in Nat
    BY <2>1
  <2>3. QED
    BY <2>2
<1>3. n <= e - a + 1 /\ n <= j - i + 1
  BY <1>2
<1> DEFINE M == {m \in 2 .. n : SubSeq(Builder!Spoken(a, e), (e - a + 1) - m + 1, e - a + 1)
                                  = SubSeq(Builder!Spoken(i, j), 1, m)}
<1>4. len = Builder!Max({0} \cup M)
  BY <1>1, <1>2 DEF Builder!TailPrefixLen
<1>5. ASSUME NEW m \in 2 .. n
      PROVE  /\ SubSeq(Builder!Spoken(a, e), (e - a + 1) - m + 1, e - a + 1)
                  = Builder!Spoken(e - m + 1, e)
             /\ SubSeq(Builder!Spoken(i, j), 1, m) = Builder!Spoken(i, i + m - 1)
             /\ e - m + 1 \in Nat /\ i + m - 1 \in Nat /\ e - m + 1 <= e /\ i <= i + m - 1
  <2>1. PICK x \in Nat : x = e - m + 1
    BY <1>3
  <2>2. PICK f \in Nat : f = (e - a + 1) - m + 1
    BY <1>3
  <2>3. PICK l \in Nat : l = e - a + 1
    OBVIOUS
  <2>4. a <= x /\ x <= e /\ f = x - a + 1
    BY <1>3, <2>1, <2>2
  <2>5. SubSeq(Builder!Spoken(a, e), f, l) = Builder!Spoken(x, e)
    BY <2>3, <2>4, SpokenPart
  <2>6. PICK y \in Nat : y = i + m - 1
    OBVIOUS
  <2>7. i <= i /\ i <= y /\ y <= j /\ 1 = i - i + 1 /\ m = y - i + 1 /\ m \in Nat
    BY <1>3, <2>6
  <2>8. SubSeq(Builder!Spoken(i, j), 1, m) = Builder!Spoken(i, y)
    BY <2>7, SpokenPart
  <2>9. QED
    BY <2>1, <2>2, <2>3, <2>4, <2>5, <2>6, <2>7, <2>8
<1>6. \A m \in M : m = e - i + 1
  <2> TAKE m \in M
  <2>1. Builder!Spoken(e - m + 1, e) = Builder!Spoken(i, i + m - 1)
    BY <1>5
  <2>2. Builder!Spoken(e - m + 1, e)[1] = e - m + 1 /\ Builder!Spoken(i, i + m - 1)[1] = i
    BY <1>5, SpokenFirst
  <2>3. QED
    BY <2>1, <2>2
<1>7. {0} \cup M \in SUBSET Nat /\ {0} \cup M # {} /\ \A x \in {0} \cup M : x <= n
  OBVIOUS
<1>8. a <= i /\ i < e /\ e <= j => e - i + 1 \in M
  <2> SUFFICES ASSUME a <= i, i < e, e <= j
               PROVE  e - i + 1 \in M
    OBVIOUS
  <2>1. PICK m \in 2 .. n : m = e - i + 1
    BY <1>2
  <2>2. e - m + 1 = i /\ i + m - 1 = e
    BY <2>1
  <2>3. Builder!Spoken(e - m + 1, e) = Builder!Spoken(i, i + m - 1)
    BY <2>2
  <2>4. QED
    BY <1>5, <2>1, <2>3
<1> HIDE DEF M
<1>9. Builder!Max({0} \cup M) \in {0} \cup M
  BY <1>7, LargestMember
<1>10. PICK x \in Nat : x = Builder!Max({0} \cup M) /\ (x = 0 \/ x = e - i + 1) /\ x <= n
  BY <1>6, <1>7, <1>9
<1>11. e - i + 1 \in M => x # 0
  <2>1. \E y \in {0} \cup M : \A z \in {0} \cup M : y >= z
    <3>1. CASE M = {}
      BY <3>1
    <3>2. CASE M # {}
      <4>1. \A z \in {0} \cup M : e - i + 1 >= z
        BY <1>6, <1>7, <3>2
      <4>2. QED
        BY <1>6, <3>2, <4>1
    <3>3. QED
      BY <3>1, <3>2
  <2>2. \A z \in {0} \cup M : x >= z
    BY <1>10, <2>1 DEF Builder!Max
  <2>3. M \subseteq 1 .. n
    <3>1. QED
      BY DEF M
  <2>4. QED
    BY <2>2, <2>3
<1>12. QED
  BY <1>3, <1>4, <1>8, <1>10, <1>11

\* Slots are counted below twice the size of the ring, so that % wraps at most once.
LEMMA RingWraps ==
    ASSUME NEW n \in Nat \ {0}, NEW a \in Nat, a < n + n
    PROVE  a % n = IF a < n THEN a ELSE a - n
<1>1. CASE a < n
  BY <1>1
<1>2. CASE ~(a < n)
  <2>1. n <= a
    BY <1>2
  <2>2. a % n = a - n
    BY <2>1
  <2>3. QED
    BY <1>2, <2>2
<1>3. QED
  BY <1>1, <1>2

\* Where the i-th oldest of n captions is in a ring of c slots that is next written at h.
Place(h, c, n, i) == IF h + i < n THEN h + c - n + i ELSE h - n + i

LEMMA PlaceIs ==
    ASSUME NEW c \in Nat \ {0}, NEW h \in 0 .. c - 1, NEW n \in 0 .. c, NEW i \in 0 .. n - 1
    PROVE  (h + c - n + i) % c = Place(h, c, n, i) /\ Place(h, c, n, i) \in 0 .. c - 1
<1>1. PICK a \in Nat : a = h + c - n + i /\ a < c + c
  OBVIOUS
<1>2. a % c = IF a < c THEN a ELSE a - c
  BY <1>1, RingWraps
<1>3. QED
  BY <1>1, <1>2 DEF Place

\* Two captions of a ring are in two slots.
LEMMA PlacesDiffer ==
    ASSUME NEW c \in Nat \ {0}, NEW h \in 0 .. c - 1, NEW n \in 0 .. c,
           NEW i \in 0 .. n - 1, NEW j \in 0 .. n - 1, i # j
    PROVE  Place(h, c, n, i) # Place(h, c, n, j)
  BY DEF Place

\* The ring q holds what has been made, s, and not yet taken.
Holds(q, h, c, n, s, t) == \A i \in 0 .. n - 1 : q[Place(h, c, n, i)] = s[(t + i) + 1]

\* The ring and the captions made: the counts agree, the contents are what is not yet popped, and
\* the ids are consecutive up to the next one.
RingHolds ==
    /\ capacity \in Nat \ {0} /\ queueHead \in 0 .. capacity - 1 /\ pending \in 0 .. capacity
    /\ taken \in Nat /\ nextId \in Nat
    /\ \E S : Builder!NoCue \in S /\ queue \in [0 .. capacity - 1 -> S] /\ emitted \in Seq(S)
    /\ Len(emitted) = taken + pending
    /\ Holds(queue, queueHead, capacity, pending, emitted, taken)
    /\ \A i \in 1 .. Len(emitted) : emitted[i].id = (nextId - Len(emitted)) + (i - 1)

\* Nothing is known of the speech before the first caption, and there is one after the first
\* hypothesis.
StartsAnew ==
    /\ emitted = <<>> => history = <<>> /\ covered = -1
    /\ pushes \in Nat /\ (pushes > 0 => emitted # <<>>)

\* The history is of captions made, and ends with the newest.
HistoryEnds ==
    /\ \E S : history \in Seq(S)
    /\ \A x \in 1 .. Len(history) : \E y \in 1 .. Len(emitted) : history[x] = emitted[y]
    /\ emitted # <<>> => history # <<>> /\ history[Len(history)] = emitted[Len(emitted)]

\* Caption c has the words that end where it ends.
IsRun(c) ==
    /\ c.end \in Nat /\ c.start \in Nat /\ c.start < c.end
    /\ c.text[1] \in 1 .. c.end /\ c.text = Builder!Spoken(c.text[1], c.end)

\* While no word has been missed: a caption begins no earlier than the captions before it end,
\* and the newest one ends at the frontier.
WordsOnce ==
    /\ covered \in Int
    /\ \A k \in 1 .. Len(emitted) : IsRun(emitted[k]) /\ emitted[k].end <= covered
    /\ \A k, l \in 1 .. Len(emitted) : k < l => emitted[k].end <= emitted[l].text[1]
    /\ emitted # <<>> => covered = emitted[Len(emitted)].end

BuilderInv ==
    RingHolds /\ StartsAnew /\ HistoryEnds /\ intact \in BOOLEAN /\ (intact => WordsOnce)

LEMMA BuilderStarts == Builder!BuilderConstants /\ Builder!Init => BuilderInv
<1> SUFFICES ASSUME Builder!BuilderConstants, Builder!Init
             PROVE  BuilderInv
  OBVIOUS
<1>1. QueueCap \in Nat \ {0}
  BY DEF Builder!BuilderConstants
<1>2. <<>> \in Seq({Builder!NoCue}) /\ Len(<<>>) = 0
  BY EmptySeq
<1>3. queue \in [0 .. capacity - 1 -> {Builder!NoCue}] /\ emitted \in Seq({Builder!NoCue})
        /\ Len(emitted) = 0
  BY <1>2 DEF Builder!Init
<1>4. RingHolds
  <2>1. \E S : Builder!NoCue \in S /\ queue \in [0 .. capacity - 1 -> S] /\ emitted \in Seq(S)
    BY <1>3
  <2>2. /\ capacity \in Nat \ {0} /\ queueHead \in 0 .. capacity - 1 /\ pending \in 0 .. capacity
        /\ taken \in Nat /\ nextId \in Nat /\ Len(emitted) = taken + pending
    BY <1>1, <1>3 DEF Builder!Init
  <2>3. Holds(queue, queueHead, capacity, pending, emitted, taken)
    BY DEF Builder!Init, Holds
  <2>4. \A i \in 1 .. Len(emitted) : emitted[i].id = (nextId - Len(emitted)) + (i - 1)
    BY <1>3
  <2>5. QED
    BY <2>1, <2>2, <2>3, <2>4 DEF RingHolds
<1>5. StartsAnew
  BY DEF Builder!Init, StartsAnew
<1>6. HistoryEnds
  <2>1. history = <<>> /\ emitted = <<>> /\ <<>> \in Seq({Builder!NoCue}) /\ Len(<<>>) = 0
    BY <1>2 DEF Builder!Init
  <2>2. QED
    BY <2>1 DEF HistoryEnds
<1>7. WordsOnce
  BY <1>3 DEF Builder!Init, WordsOnce
<1>8. QED
  BY <1>4, <1>5, <1>6, <1>7 DEF BuilderInv, Builder!Init

\* A caption is queued, in a ring with room or in one that grows.
LEMMA EnqueueKeeps ==
    ASSUME RingHolds, NEW text, NEW start, NEW end, Builder!Enqueue(text, start, end), taken' = taken
    PROVE  RingHolds' /\ emitted' # <<>>
<1> DEFINE cue == [id |-> nextId, text |-> text, start |-> start, end |-> end]
<1>1. PICK S : Builder!NoCue \in S /\ queue \in [0 .. capacity - 1 -> S] /\ emitted \in Seq(S)
  BY DEF RingHolds
<1> DEFINE T == S \cup {cue}
<1>2. emitted \in Seq(T) /\ cue \in T /\ Builder!NoCue \in T /\ queue \in [0 .. capacity - 1 -> T]
  BY <1>1, SeqMonotonic
<1>3. PICK c \in Nat \ {0} : c = capacity
  BY DEF RingHolds
<1>4. PICK h \in 0 .. c - 1 : h = queueHead
  BY <1>3 DEF RingHolds
<1>5. PICK n \in 0 .. c : n = pending
  BY <1>3 DEF RingHolds
<1>6. PICK t \in Nat : t = taken
  BY DEF RingHolds
<1>7. PICK e : e = emitted
  OBVIOUS
<1>8. e \in Seq(T) /\ Len(e) = t + n /\ Holds(queue, h, c, n, e, t) /\ nextId \in Nat
      /\ \A i \in 1 .. Len(e) : e[i].id = (nextId - Len(e)) + (i - 1)
  BY <1>2, <1>3, <1>4, <1>5, <1>6, <1>7 DEF RingHolds
<1>9. /\ emitted' = Append(e, cue) /\ nextId' = nextId + 1 /\ pending' = n + 1 /\ taken' = t
      /\ capacity' = IF n = c THEN 2 * c ELSE c
      /\ queueHead' = ((IF n = c THEN n ELSE h) + 1) % (IF n = c THEN 2 * c ELSE c)
      /\ queue' = [(IF n = c THEN Builder!Grown ELSE queue) EXCEPT ![IF n = c THEN n ELSE h] = cue]
  BY <1>3, <1>4, <1>5, <1>6, <1>7 DEF Builder!Enqueue
<1> HIDE DEF cue, T
<1>10. /\ emitted' \in Seq(T) /\ Len(emitted') = t + n + 1
       /\ \A i \in 1 .. t + n : emitted'[i] = e[i]
       /\ emitted'[t + n + 1] = cue
  <2>1. /\ Append(e, cue) \in Seq(T) /\ Len(Append(e, cue)) = Len(e) + 1
        /\ \A i \in 1 .. Len(e) : Append(e, cue)[i] = e[i]
        /\ Append(e, cue)[Len(e) + 1] = cue
    BY <1>2, <1>8, AppendProperties
  <2>2. QED
    BY <1>8, <1>9, <2>1
<1>11. \A i \in 1 .. Len(emitted') : emitted'[i].id = (nextId' - Len(emitted')) + (i - 1)
  <2>1. cue.id = nextId
    BY DEF cue
  <2>2. TAKE i \in 1 .. Len(emitted')
  <2>3. CASE i <= t + n
    <3>1. i \in 1 .. t + n /\ emitted'[i].id = (nextId - (t + n)) + (i - 1)
      BY SMTT(30), <1>8, <1>10, <2>3
    <3>2. (nextId - (t + n)) + (i - 1) = (nextId' - Len(emitted')) + (i - 1)
      BY SMTT(30), <1>8, <1>9, <1>10
    <3>3. QED
      BY <3>1, <3>2
  <2>4. CASE i = t + n + 1
    BY <1>8, <1>9, <1>10, <2>1, <2>4
  <2>5. QED
    BY <1>10, <2>3, <2>4
<1>12. ASSUME n # c
       PROVE  /\ queueHead' \in 0 .. c - 1 /\ queue' \in [0 .. c - 1 -> T]
              /\ Holds(queue', queueHead', c, n + 1, emitted', t)
  <2>1. n \in 0 .. c - 1 /\ n + 1 \in 0 .. c
    BY <1>12
  <2>2. queueHead' = (h + 1) % c /\ queue' = [queue EXCEPT ![h] = cue]
    BY <1>9, <1>12
  <2>3. queueHead' = IF h + 1 < c THEN h + 1 ELSE 0
    <3>1. PICK a \in Nat : a = h + 1 /\ a < c + c /\ a <= c
      OBVIOUS
    <3>2. a % c = IF a < c THEN a ELSE a - c
      BY <3>1, RingWraps
    <3>3. QED
      BY <2>2, <3>1, <3>2
  <2>4. queueHead' \in 0 .. c - 1
    BY <2>3
  <2>5. ASSUME NEW i \in 0 .. n
        PROVE  queue'[Place(queueHead', c, n + 1, i)] = emitted'[(t + i) + 1]
    <3>1. CASE i < n
      <4>1. Place(queueHead', c, n + 1, i) = Place(h, c, n, i)
        BY <2>1, <2>3, <3>1 DEF Place
      <4>2. i \in 0 .. n - 1 /\ (t + i) + 1 \in 1 .. t + n
        BY <3>1
      <4>3. Place(h, c, n, i) # h /\ Place(h, c, n, i) \in 0 .. c - 1
        BY <2>1, <3>1 DEF Place
      <4>4. queue'[Place(h, c, n, i)] = queue[Place(h, c, n, i)]
        BY <1>2, <1>3, <2>2, <4>3
      <4>5. queue[Place(h, c, n, i)] = e[(t + i) + 1]
        BY <1>8, <4>2 DEF Holds
      <4>6. emitted'[(t + i) + 1] = e[(t + i) + 1]
        BY <1>10, <4>2
      <4>7. QED
        BY <4>1, <4>4, <4>5, <4>6
    <3>2. CASE i = n
      <4>1. Place(queueHead', c, n + 1, n) = h
        BY <2>1, <2>3 DEF Place
      <4>2. queue'[h] = cue
        BY <1>2, <1>3, <2>2
      <4>3. QED
        BY <1>10, <3>2, <4>1, <4>2
    <3>3. QED
      BY <3>1, <3>2
  <2>6. (n + 1) - 1 = n
    OBVIOUS
  <2>7. queue' \in [0 .. c - 1 -> T]
    BY <1>2, <1>3, <2>2
  <2>8. QED
    BY <2>4, <2>5, <2>6, <2>7 DEF Holds
<1>13. ASSUME n = c
       PROVE  /\ queueHead' \in 0 .. 2 * c - 1 /\ queue' \in [0 .. 2 * c - 1 -> T]
              /\ Holds(queue', queueHead', 2 * c, n + 1, emitted', t)
  <2>1. queueHead' = (c + 1) % (2 * c) /\ queue' = [Builder!Grown EXCEPT ![c] = cue]
    BY <1>9, <1>13
  <2>2. queueHead' = IF c + 1 < 2 * c THEN c + 1 ELSE 0
    <3>1. PICK a \in Nat : a = c + 1 /\ a <= 2 * c
      OBVIOUS
    <3>2. PICK m \in Nat \ {0} : m = 2 * c /\ a < m + m
      BY <3>1
    <3>3. a % m = IF a < m THEN a ELSE a - m
      BY <3>1, <3>2, RingWraps
    <3>4. QED
      BY <2>1, <3>1, <3>2, <3>3
  <2>3. queueHead' \in 0 .. 2 * c - 1
    BY <2>2
  <2>4. Builder!Grown = [i \in 0 .. 2 * c - 1 |-> IF i < n THEN queue[Builder!Slot(i)] ELSE Builder!NoCue]
    BY <1>3, <1>5 DEF Builder!Grown
  <2>5. \A i \in 0 .. n - 1 : Builder!Slot(i) = Place(h, c, n, i) /\ Builder!Slot(i) \in 0 .. c - 1
    <3> TAKE i \in 0 .. n - 1
    <3>1. Builder!Slot(i) = (h + c - n + i) % c
      BY <1>3, <1>4, <1>5 DEF Builder!Slot
    <3>2. QED
      BY <3>1, PlaceIs
  <2>6. Builder!Grown \in [0 .. 2 * c - 1 -> T]
    <3>1. \A i \in 0 .. 2 * c - 1 : i < n => queue[Builder!Slot(i)] \in T
      BY <1>2, <1>3, <2>5
    <3>2. QED
      BY <1>2, <2>4, <3>1
  <2>7. queue' \in [0 .. 2 * c - 1 -> T]
    BY <1>2, <2>1, <2>6
  <2>8. \A i \in 0 .. c : Place(queueHead', 2 * c, c + 1, i) = i
    BY <2>2 DEF Place
  <2>9. ASSUME NEW i \in 0 .. c
        PROVE  queue'[i] = emitted'[(t + i) + 1]
    <3>1. CASE i < c
      <4>1. i \in 0 .. n - 1 /\ i \in 0 .. 2 * c - 1 /\ i # c /\ (t + i) + 1 \in 1 .. t + n
        BY <1>13, <3>1
      <4>2. queue'[i] = Builder!Grown[i]
        BY <2>1, <2>6, <4>1
      <4>3. Builder!Grown[i] = queue[Place(h, c, n, i)]
        BY <2>4, <2>5, <4>1
      <4>4. queue[Place(h, c, n, i)] = e[(t + i) + 1]
        BY <1>8, <4>1 DEF Holds
      <4>5. QED
        BY <1>10, <4>1, <4>2, <4>3, <4>4
    <3>2. CASE i = c
      <4>1. queue'[c] = cue
        BY <2>1, <2>6
      <4>2. QED
        BY <1>10, <1>13, <3>2, <4>1
    <3>3. QED
      BY <3>1, <3>2
  <2>10. (n + 1) - 1 = c
    BY <1>13
  <2>11. \A i \in 0 .. c : queue'[Place(queueHead', 2 * c, c + 1, i)] = emitted'[(t + i) + 1]
    BY <2>8, <2>9
  <2>12. QED
    BY <1>13, <2>3, <2>7, <2>10, <2>11 DEF Holds
<1>14. RingHolds'
  <2>1. PICK d \in Nat \ {0} : d = capacity' /\ n + 1 \in 0 .. d /\ d = IF n = c THEN 2 * c ELSE c
    BY <1>9
  <2>2. /\ queueHead' \in 0 .. d - 1 /\ queue' \in [0 .. d - 1 -> T]
        /\ Holds(queue', queueHead', d, n + 1, emitted', t)
    BY <1>12, <1>13, <2>1
  <2>3. Len(emitted') = taken' + pending' /\ nextId' \in Nat /\ taken' \in Nat
    BY <1>8, <1>9, <1>10
  <2>4. \E X : Builder!NoCue \in X /\ queue' \in [0 .. capacity' - 1 -> X] /\ emitted' \in Seq(X)
    BY <1>2, <1>10, <2>1, <2>2
  <2>5. QED
    BY <1>9, <1>11, <2>1, <2>2, <2>3, <2>4 DEF RingHolds
<1>15. emitted' # <<>>
  BY <1>10, EmptySeq
<1>16. QED
  BY <1>14, <1>15

\* The first hypothesis is not compared with anything and not covered by anything.
LEMMA FirstPasses ==
    ASSUME RingHolds, emitted = <<>>, history = <<>>, covered = -1,
           NEW h, h.start \in Nat, h.end \in Nat, h.start < h.end, Builder!PushHypothesis(h)
    PROVE  Builder!Enqueue(h.text, Builder!EmitStart(h), h.end)
<1>1. pending = 0
  <2>1. Len(emitted) = 0
    BY EmptySeq
  <2>2. QED
    BY <2>1 DEF RingHolds
<1>2. Len(history) = 0
  BY EmptySeq
<1>3. Builder!Against = <<>>
  <2>1. Builder!Against = <<>> \o [i \in 1 .. 0 |-> [cue |-> history[0 + 1 - i], pending |-> FALSE]]
    BY <1>1, <1>2 DEF Builder!Against
  <2>2. [i \in 1 .. 0 |-> [cue |-> history[0 + 1 - i], pending |-> FALSE]] = <<>>
    OBVIOUS
  <2>3. <<>> \o <<>> = <<>>
    BY EmptySeq, ConcatEmptySeq
  <2>4. QED
    BY <2>1, <2>2, <2>3
<1>4. Builder!Deciding(h) = {}
  BY <1>3 DEF Builder!Deciding
<1>5. ~Builder!Recovers(h) /\ Builder!EmitStart(h) = h.start
  BY DEF Builder!Recovers, Builder!EmitStart
<1>6. QED
  BY <1>4, <1>5 DEF Builder!PushHypothesis

\* A hypothesis changes nothing or queues a caption.
LEMMA PushIs ==
    ASSUME NEW h, Builder!PushHypothesis(h)
    PROVE  Builder!Dropped \/ \E text, start, end : Builder!Enqueue(text, start, end)
  BY DEF Builder!PushHypothesis

\* A new caption becomes the newest of the history, which may forget its oldest.
LEMMA EnqueueHistory ==
    ASSUME Builder!BuilderConstants, RingHolds, HistoryEnds, NEW text, NEW start, NEW end,
           Builder!Enqueue(text, start, end)
    PROVE  HistoryEnds'
<1> DEFINE cue == [id |-> nextId, text |-> text, start |-> start, end |-> end]
           known == Append(history, cue)
<1>1. PICK S1 : history \in Seq(S1)
  BY DEF HistoryEnds
<1>2. PICK S2 : emitted \in Seq(S2)
  BY DEF RingHolds
<1> DEFINE S == (S1 \cup S2) \cup {cue}
<1>3. history \in Seq(S) /\ emitted \in Seq(S) /\ cue \in S
  BY <1>1, <1>2, SeqMonotonic
<1>4. history' = (IF Len(known) > HistoryCap THEN Tail(known) ELSE known)
      /\ emitted' = Append(emitted, cue)
  BY DEF Builder!Enqueue
<1> HIDE DEF cue, S
<1>5. PICK n \in Nat : n = Len(history)
  BY <1>3, LenProperties
<1>6. PICK e \in Nat : e = Len(emitted)
  BY <1>3, LenProperties
<1>7. /\ known \in Seq(S) /\ known # <<>> /\ Len(known) = n + 1
      /\ \A x \in 1 .. n : known[x] = history[x]
      /\ known[n + 1] = cue
  BY <1>3, <1>5, AppendProperties
<1>8. /\ emitted' \in Seq(S) /\ Len(emitted') = e + 1
      /\ \A x \in 1 .. e : emitted'[x] = emitted[x]
      /\ emitted'[e + 1] = cue
  BY <1>3, <1>4, <1>6, AppendProperties
<1>9. \A x \in 1 .. n + 1 : \E y \in 1 .. e + 1 : known[x] = emitted'[y]
  <2> TAKE x \in 1 .. n + 1
  <2>1. CASE x = n + 1
    <3>1. e + 1 \in 1 .. e + 1
      OBVIOUS
    <3>2. QED
      BY <1>7, <1>8, <2>1, <3>1
  <2>2. CASE x \in 1 .. n
    <3>1. PICK y \in 1 .. e : history[x] = emitted[y]
      BY <1>5, <1>6, <2>2 DEF HistoryEnds
    <3>2. y \in 1 .. e + 1
      OBVIOUS
    <3>3. QED
      BY <1>7, <1>8, <2>2, <3>1, <3>2
  <2>3. x = n + 1 \/ x \in 1 .. n
    OBVIOUS
  <2>4. QED
    BY <2>1, <2>2, <2>3
<1>10. CASE ~(Len(known) > HistoryCap)
  <2>1. history' = known
    BY <1>4, <1>10
  <2>2. history' # <<>> /\ history'[Len(history')] = emitted'[Len(emitted')]
    BY <1>7, <1>8, <2>1
  <2>3. \A x \in 1 .. Len(history') : \E y \in 1 .. Len(emitted') : history'[x] = emitted'[y]
    BY <1>7, <1>8, <1>9, <2>1
  <2>4. \E X : history' \in Seq(X)
    BY <1>7, <2>1
  <2>5. QED
    BY <2>2, <2>3, <2>4 DEF HistoryEnds
<1>11. CASE Len(known) > HistoryCap
  <2>1. history' = Tail(known)
    BY <1>4, <1>11
  <2>2. n \in Nat \ {0}
    BY <1>7, <1>11 DEF Builder!BuilderConstants
  <2> HIDE DEF known
  <2>3. /\ history' \in Seq(S) /\ Len(history') = n
        /\ \A x \in 1 .. n : history'[x] = known[x + 1]
    <3>1. Len(Tail(known)) = Len(known) - 1 /\ Tail(known) \in Seq(S)
          /\ \A x \in 1 .. Len(Tail(known)) : Tail(known)[x] = known[x + 1]
      BY <1>7, HeadTailProperties
    <3>2. QED
      BY <1>7, <2>1, <3>1
  <2>4. history'[n] = cue /\ history' # <<>>
    <3>1. history'[n] = known[n + 1]
      BY <2>2, <2>3
    <3>2. history' # <<>>
      BY <2>2, <2>3, EmptySeq
    <3>3. QED
      BY <1>7, <3>1, <3>2
  <2>5. \A x \in 1 .. n : \E y \in 1 .. e + 1 : history'[x] = emitted'[y]
    <3> TAKE x \in 1 .. n
    <3>1. x + 1 \in 1 .. n + 1 /\ history'[x] = known[x + 1]
      BY <2>3
    <3>2. QED
      BY <1>9, <3>1
  <2>6. QED
    BY <1>8, <2>3, <2>4, <2>5 DEF HistoryEnds
<1>12. QED
  BY <1>10, <1>11

\* A caption whose words begin at the frontier or later and end later.
LEMMA EnqueueWords ==
    ASSUME RingHolds, WordsOnce, NEW f \in Nat \ {0}, NEW end \in Nat, f <= end, NEW start \in Nat,
           start < end, covered < end, covered <= f, Builder!Enqueue(Builder!Spoken(f, end), start, end)
    PROVE  WordsOnce'
<1> DEFINE cue == [id |-> nextId, text |-> Builder!Spoken(f, end), start |-> start, end |-> end]
<1>1. PICK S2 : emitted \in Seq(S2)
  BY DEF RingHolds
<1> DEFINE S == S2 \cup {cue}
<1>2. emitted \in Seq(S) /\ cue \in S
  BY <1>1, SeqMonotonic
<1>3. emitted' = Append(emitted, cue) /\ covered' = IF end > covered THEN end ELSE covered
  BY DEF Builder!Enqueue
<1>4. /\ cue.end = end /\ cue.start = start /\ cue.text = Builder!Spoken(f, end)
  OBVIOUS
<1> HIDE DEF cue, S
<1>5. PICK e \in Nat : e = Len(emitted)
  BY <1>2, LenProperties
<1>6. /\ emitted' # <<>> /\ Len(emitted') = e + 1
      /\ \A x \in 1 .. e : emitted'[x] = emitted[x]
      /\ emitted'[e + 1] = cue
  BY <1>2, <1>3, <1>5, AppendProperties
<1>7. covered' = end /\ covered \in Int
  BY <1>3 DEF WordsOnce
<1>8. cue.text[1] = f
  BY <1>4, SpokenFirst
<1>9. IsRun(cue)
  BY <1>4, <1>8 DEF IsRun
<1>10. ASSUME NEW k \in 1 .. e + 1
       PROVE  IsRun(emitted'[k]) /\ emitted'[k].end <= covered'
  <2>1. CASE k = e + 1
    BY <1>4, <1>6, <1>7, <1>9, <2>1
  <2>2. CASE k \in 1 .. e
    <3>1. IsRun(emitted[k]) /\ emitted[k].end <= covered
      BY <1>5, <2>2 DEF WordsOnce
    <3>2. PICK x \in Nat : x = emitted[k].end
      BY <3>1 DEF IsRun
    <3>3. x <= end
      BY <1>7, <3>1, <3>2
    <3>4. QED
      BY <1>6, <1>7, <2>2, <3>1, <3>2, <3>3
  <2>3. QED
    BY <2>1, <2>2
<1>11. ASSUME NEW k \in 1 .. e + 1, NEW l \in 1 .. e + 1, k < l
       PROVE  emitted'[k].end <= emitted'[l].text[1]
  <2>1. k \in 1 .. e
    BY <1>11
  <2>2. CASE l = e + 1
    <3>1. IsRun(emitted[k]) /\ emitted[k].end <= covered
      BY <1>5, <2>1 DEF WordsOnce
    <3>2. PICK x \in Nat : x = emitted[k].end
      BY <3>1 DEF IsRun
    <3>3. x <= f
      BY <1>7, <3>1, <3>2
    <3>4. QED
      BY <1>6, <1>8, <2>1, <2>2, <3>2, <3>3
  <2>3. CASE l \in 1 .. e
    <3>1. emitted[k].end <= emitted[l].text[1]
      BY <1>5, <1>11, <2>1, <2>3 DEF WordsOnce
    <3>2. QED
      BY <1>6, <2>1, <2>3, <3>1
  <2>4. QED
    BY <2>2, <2>3
<1>12. covered' = emitted'[Len(emitted')].end
  BY <1>4, <1>6, <1>7
<1>13. QED
  BY <1>6, <1>7, <1>10, <1>11, <1>12 DEF WordsOnce

\* A run is within a run that begins no later and ends no earlier.
LEMMA RunWithin ==
    ASSUME NEW a \in Nat, NEW e \in Nat, NEW i \in Nat, NEW j \in Nat, i <= a, a <= e, e <= j
    PROVE  Builder!Within(Builder!Spoken(a, e), Builder!Spoken(i, j))
<1>1. PICK f \in Nat : f = a - i + 1
  OBVIOUS
<1>2. PICK l \in Nat : l = e - i + 1
  OBVIOUS
<1>3. SubSeq(Builder!Spoken(i, j), f, l) = Builder!Spoken(a, e)
  BY <1>1, <1>2, SpokenPart
<1>4. Len(Builder!Spoken(a, e)) = e - a + 1 /\ Len(Builder!Spoken(i, j)) = j - i + 1
  BY SpokenIs
<1>5. PICK k \in 0 .. (j - i + 1) - (e - a + 1) : k = a - i
  OBVIOUS
<1>6. k + 1 = f /\ k + (e - a + 1) = l
  BY <1>1, <1>2, <1>5
<1>7. \E x \in 0 .. (j - i + 1) - (e - a + 1) :
        SubSeq(Builder!Spoken(i, j), x + 1, x + (e - a + 1)) = Builder!Spoken(a, e)
  BY <1>3, <1>6
<1>8. QED
  BY <1>4, <1>7 DEF Builder!Within

\* What a caption that is a run makes of a hypothesis that is one.  It does not let pass a
\* hypothesis that begins before its last word and ends after it; and what it trims ends with its
\* own last word.
LEMMA VerdictOnRuns ==
    ASSUME NEW c, IsRun(c), NEW i \in Nat, NEW j \in Nat, 0 < i, i <= j, NEW p, NEW h,
           h.text = Builder!Spoken(i, j), h.start = i - 1, h.end = j
    PROVE  /\ i < c.end /\ c.end < j => Builder!Verdict(h, c, p) # "pass"
           /\ Builder!Verdict(h, c, p) = "trim" =>
                /\ Builder!TailPrefixLen(c.text, h.text) \in 1 .. j - i
                /\ Builder!TailPrefixLen(c.text, h.text) = c.end - i + 1
                /\ c.end < j
<1>1. PICK e \in Nat : e = c.end
  BY DEF IsRun
<1>2. PICK a \in Nat : a = c.text[1] /\ 0 < a /\ a <= e
  BY <1>1 DEF IsRun
<1>3. c.text = Builder!Spoken(a, e)
  BY <1>1, <1>2 DEF IsRun
<1>4. PICK s \in Nat : s = c.start /\ s < e
  BY <1>1 DEF IsRun
<1>5. h.text = Builder!Spoken(i, j) /\ h.start = i - 1 /\ h.end = j
  OBVIOUS
<1>6. PICK m : m = Builder!TailPrefixLen(c.text, h.text)
  OBVIOUS
<1>7. m \in 0 .. j - i + 1 /\ (m > 0 => m = e - i + 1) /\ (a <= i /\ i < e /\ e <= j => m = e - i + 1)
  <2>1. m = Builder!TailPrefixLen(Builder!Spoken(a, e), Builder!Spoken(i, j))
    BY <1>3, <1>5, <1>6
  <2>2. a <= e
    BY <1>2
  <2>3. m \in 0 .. j - i + 1
    BY <2>1, <2>2, TailPrefixOfRuns
  <2>4. m > 0 => m = e - i + 1
    BY <2>1, <2>2, TailPrefixOfRuns
  <2>5. a <= i /\ i < e /\ e <= j => m = e - i + 1
    BY <2>1, <2>2, TailPrefixOfRuns
  <2>6. QED
    BY <2>3, <2>4, <2>5
<1>8. Len(h.text) = j - i + 1
  BY <1>5, SpokenIs
<1>9. ASSUME i < e, e < j
      PROVE  Builder!Verdict(h, c, p) # "pass"
  <2>1. Builder!Overlap(h, c)
    BY <1>1, <1>4, <1>5, <1>9 DEF Builder!Overlap
  <2>2. Builder!TimeMatches(h, c) /\ Builder!NearCue(h, c)
    BY <2>1 DEF Builder!TimeMatches, Builder!NearCue
  <2>3. m > 0 \/ Builder!Within(c.text, h.text)
    <3>1. CASE a <= i
      BY <1>7, <1>9, <3>1
    <3>2. CASE i < a
      <4>1. Builder!Within(Builder!Spoken(a, e), Builder!Spoken(i, j))
        BY <1>2, <1>9, <3>2, RunWithin
      <4>2. QED
        BY <1>3, <1>5, <4>1
    <3>3. QED
      BY <3>1, <3>2
  <2>4. QED
    BY <1>6, <2>2, <2>3 DEF Builder!Verdict
<1>10. ASSUME Builder!Verdict(h, c, p) = "trim"
       PROVE  m \in 1 .. j - i /\ m = e - i + 1 /\ e < j
  <2>1. m > 0 /\ ~(m = Len(h.text) \/ c.end >= h.end)
    BY <1>6, <1>10 DEF Builder!Verdict
  <2>2. m # j - i + 1 /\ ~(e >= j)
    BY <1>1, <1>5, <1>8, <2>1
  <2>3. QED
    BY <1>7, <2>1, <2>2
<1>11. QED
  BY <1>1, <1>6, <1>9, <1>10

\* A hypothesis is compared with captions that were made, and first with the newest.
LEMMA AgainstIs ==
    ASSUME RingHolds, HistoryEnds
    PROVE  /\ DOMAIN Builder!Against \subseteq Nat \ {0}
           /\ \A d \in DOMAIN Builder!Against : \E y \in 1 .. Len(emitted) : Builder!Against[d].cue = emitted[y]
           /\ emitted # <<>> => 1 \in DOMAIN Builder!Against
                /\ Builder!Against[1].cue = emitted[Len(emitted)]
<1>1. PICK n \in Nat : n = Len(history)
  BY LenProperties DEF HistoryEnds
<1>2. PICK e \in Nat : e = Len(emitted) /\ e = taken + pending
  BY LenProperties DEF RingHolds
<1> DEFINE last == [cue |-> queue[Builder!Slot(pending - 1)], pending |-> TRUE]
           old(x) == [cue |-> history[n + 1 - x], pending |-> FALSE]
           T == {last} \cup {old(x) : x \in 1 .. n}
           P == IF pending > 0 THEN <<last>> ELSE <<>>
           H == [x \in 1 .. n |-> old(x)]
<1>3. Builder!Against = P \o H
  BY <1>1 DEF Builder!Against
<1>4. H \in Seq(T) /\ Len(H) = n
  <2>1. H \in [1 .. n -> T]
    OBVIOUS
  <2> HIDE DEF H, T
  <2>2. H \in Seq(T)
    BY <2>1, SeqDef
  <2>3. Len(H) \in Nat /\ DOMAIN H = 1 .. Len(H)
    BY <2>2, LenProperties
  <2>4. QED
    BY <2>1, <2>2, <2>3
<1>5. PICK p \in 0 .. 1 : p = (IF pending > 0 THEN 1 ELSE 0)
  OBVIOUS
<1>6. P \in Seq(T) /\ Len(P) = p /\ (p = 1 => P[1] = last)
  <2>1. CASE pending > 0
    <3>1. P = <<last>> /\ last \in T
      BY <2>1
    <3> HIDE DEF P, T, last
    <3>2. QED
      BY <1>5, <2>1, <3>1
  <2>2. CASE ~(pending > 0)
    <3>1. P = <<>>
      BY <2>2
    <3> HIDE DEF P, T
    <3>2. QED
      BY <1>5, <2>2, <3>1, EmptySeq
  <2>3. QED
    BY <2>1, <2>2
<1>7. /\ DOMAIN Builder!Against = 1 .. p + n
      /\ \A d \in 1 .. p + n : Builder!Against[d] = IF d <= p THEN P[d] ELSE H[d - p]
  <2> HIDE DEF P, H, T
  <2>1. /\ P \o H \in Seq(T) /\ Len(P \o H) = Len(P) + Len(H)
        /\ \A d \in 1 .. Len(P) + Len(H) : (P \o H)[d] = IF d <= Len(P) THEN P[d] ELSE H[d - Len(P)]
    BY <1>4, <1>6, ConcatProperties
  <2>2. DOMAIN (P \o H) = 1 .. Len(P \o H)
    BY <2>1, LenProperties
  <2>3. QED
    BY <1>3, <1>4, <1>6, <2>1, <2>2
<1>8. pending > 0 => e \in 1 .. e /\ last.cue = emitted[e]
  <2> SUFFICES ASSUME pending > 0
               PROVE  e \in 1 .. e /\ last.cue = emitted[e]
    OBVIOUS
  <2>1. PICK c \in Nat \ {0} : c = capacity
    BY DEF RingHolds
  <2>2. PICK hd \in 0 .. c - 1 : hd = queueHead
    BY <2>1 DEF RingHolds
  <2>3. PICK k \in 0 .. c : k = pending
    BY <2>1 DEF RingHolds
  <2>4. PICK t \in Nat : t = taken
    BY DEF RingHolds
  <2>5. PICK i \in 0 .. k - 1 : i = k - 1
    BY <2>3
  <2>6. Builder!Slot(pending - 1) = (hd + c - k + i) % c
    BY <2>1, <2>2, <2>3, <2>5 DEF Builder!Slot
  <2>7. Builder!Slot(pending - 1) = Place(hd, c, k, i)
    BY <2>6, PlaceIs
  <2>8. Holds(queue, hd, c, k, emitted, t)
    BY <2>1, <2>2, <2>3, <2>4 DEF RingHolds
  <2>9. queue[Place(hd, c, k, i)] = emitted[(t + i) + 1]
    BY <2>8 DEF Holds
  <2>10. (t + i) + 1 = e /\ e \in 1 .. e
    BY <1>2, <2>3, <2>4, <2>5
  <2>11. last.cue = queue[Builder!Slot(pending - 1)]
    OBVIOUS
  <2>12. QED
    BY <2>7, <2>9, <2>10, <2>11
<1>9. \A x \in 1 .. n : H[x].cue = history[n + 1 - x]
  OBVIOUS
<1> HIDE DEF P, H, T, last
<1>10. ASSUME NEW d \in DOMAIN Builder!Against
       PROVE  \E y \in 1 .. Len(emitted) : Builder!Against[d].cue = emitted[y]
  <2>1. d \in 1 .. p + n
    BY <1>7
  <2>2. CASE d <= p
    <3>1. p = 1 /\ d = 1 /\ pending > 0
      BY <1>5, <2>1, <2>2
    <3>2. Builder!Against[d] = last
      BY <1>6, <1>7, <2>1, <3>1
    <3>3. QED
      BY <1>2, <1>8, <3>1, <3>2
  <2>3. CASE ~(d <= p)
    <3>1. PICK x \in 1 .. n : x = d - p
      BY <2>1, <2>3
    <3>2. Builder!Against[d].cue = history[n + 1 - x]
      BY <1>7, <1>9, <2>1, <2>3, <3>1
    <3>3. n + 1 - x \in 1 .. n
      OBVIOUS
    <3>4. QED
      BY <1>1, <3>2, <3>3 DEF HistoryEnds
  <2>4. QED
    BY <2>2, <2>3
<1>11. ASSUME emitted # <<>>
       PROVE  1 \in DOMAIN Builder!Against /\ Builder!Against[1].cue = emitted[Len(emitted)]
  <2>1. n \in Nat \ {0} /\ history[n] = emitted[e]
    <3>1. history # <<>> /\ history[Len(history)] = emitted[Len(emitted)]
      BY <1>11 DEF HistoryEnds
    <3>2. Len(history) # 0
      BY <3>1, EmptySeq DEF HistoryEnds
    <3>3. QED
      BY <1>1, <1>2, <3>1, <3>2
  <2>2. 1 \in 1 .. p + n
    BY <2>1
  <2>3. CASE p = 1
    <3>1. Builder!Against[1] = last /\ pending > 0
      BY <1>5, <1>6, <1>7, <2>2, <2>3
    <3>2. QED
      BY <1>2, <1>7, <1>8, <2>2, <3>1
  <2>4. CASE p = 0
    <3>1. Builder!Against[1] = H[1]
      BY <1>7, <2>2, <2>4
    <3>2. 1 \in 1 .. n /\ n + 1 - 1 = n
      BY <2>1
    <3>3. H[1].cue = history[n]
      BY <1>9, <3>2
    <3>4. QED
      BY <1>2, <1>7, <2>1, <2>2, <3>1, <3>3
  <2>5. QED
    BY <2>3, <2>4
<1>12. DOMAIN Builder!Against \subseteq Nat \ {0}
  BY <1>7
<1>13. QED
  BY <1>10, <1>11, <1>12

\* The newest caption does not let pass a hypothesis that begins before the frontier.
LEMMA NewestStops ==
    ASSUME RingHolds, HistoryEnds, StartsAnew, WordsOnce,
           NEW i \in Nat, NEW j \in Nat, 0 < i, i <= j, i < covered, covered < j, NEW h,
           h.text = Builder!Spoken(i, j), h.start = i - 1, h.end = j
    PROVE  /\ 1 \in DOMAIN Builder!Against /\ Builder!Against[1].cue.end = covered
           /\ Builder!Verdict(h, Builder!Against[1].cue, Builder!Against[1].pending) # "pass"
<1>1. covered \in Int /\ emitted # <<>>
  BY DEF StartsAnew, WordsOnce
<1>2. 1 \in DOMAIN Builder!Against /\ Builder!Against[1].cue = emitted[Len(emitted)]
  BY <1>1, AgainstIs
<1>3. PICK c : c = Builder!Against[1].cue
  OBVIOUS
<1>4. c.end = covered /\ IsRun(c)
  <2>1. PICK S : emitted \in Seq(S)
    BY DEF RingHolds
  <2>2. Len(emitted) \in Nat \ {0}
    BY <1>1, <2>1, EmptySeq
  <2>3. Len(emitted) \in 1 .. Len(emitted)
    BY <2>2
  <2>4. QED
    BY <1>1, <1>2, <1>3, <2>3 DEF WordsOnce
<1>5. PICK p : p = Builder!Against[1].pending
  OBVIOUS
<1>6. i < c.end /\ c.end < j
  BY <1>1, <1>4
<1>7. Builder!Verdict(h, c, p) # "pass"
  BY <1>4, <1>6, VerdictOnRuns
<1>8. QED
  BY <1>2, <1>3, <1>4, <1>5, <1>7

\* While no word has been missed, a hypothesis is dropped or makes a caption whose words begin at
\* the frontier or later: one that begins before it is stopped by the newest caption, and trimmed
\* to what follows that caption if at all.
LEMMA PushWords ==
    ASSUME Builder!BuilderConstants, RingHolds, HistoryEnds, StartsAnew, WordsOnce,
           NEW i \in Nat, NEW j \in Nat, 0 < i, i <= j, NEW h,
           h.text = Builder!Spoken(i, j), h.start = i - 1, h.end = j, Builder!PushHypothesis(h),
             ~Builder!Dropped
    PROVE  \E f \in Nat \ {0}, start \in Nat :
             /\ f <= j /\ start < j /\ covered < j /\ covered <= f
             /\ Builder!Enqueue(Builder!Spoken(f, j), start, j)
<1>1. Len(h.text) = j - i + 1
  BY ZenonT(60), SpokenIs
<1>2. ~Builder!Recovers(h)
  BY DEF Builder!PushHypothesis
<1>3. PICK v \in Int : v = covered
  BY DEF WordsOnce
<1>4. v < j
  BY <1>2, <1>3 DEF Builder!Recovers, Builder!BuilderConstants
<1>5. ASSUME NEW d \in DOMAIN Builder!Against, NEW m,
               m = Builder!TailPrefixLen(Builder!Against[d].cue.text, h.text),
             Builder!Verdict(h, Builder!Against[d].cue, Builder!Against[d].pending) = "trim"
      PROVE  /\ m \in 1 .. j - i /\ m = Builder!Against[d].cue.end - i + 1
             /\ Builder!Against[d].cue.end \in Nat /\ Builder!Against[d].cue.end < j
             /\ SubSeq(h.text, m + 1, Len(h.text)) = Builder!Spoken(i + m, j)
  <2>1. PICK y \in 1 .. Len(emitted) : Builder!Against[d].cue = emitted[y]
    BY AgainstIs
  <2>2. PICK c : c = Builder!Against[d].cue
    OBVIOUS
  <2>3. IsRun(c)
    BY <2>1, <2>2 DEF WordsOnce
  <2>4. PICK p : p = Builder!Against[d].pending
    OBVIOUS
  <2>5. Builder!Verdict(h, c, p) = "trim" /\ m = Builder!TailPrefixLen(c.text, h.text)
    BY <1>5, <2>2, <2>4
  <2>6. m \in 1 .. j - i /\ m = c.end - i + 1 /\ c.end < j
    BY <2>3, <2>5, VerdictOnRuns
  <2>7. c.end \in Nat
    BY <2>3 DEF IsRun
  <2>8. PICK a \in Nat : a = i + m
    BY <2>6
  <2>9. PICK x \in Nat : x = m + 1
    BY <2>6
  <2>10. PICK l \in Nat : l = j - i + 1
    OBVIOUS
  <2>11. i <= a /\ a <= j /\ j <= j /\ x = a - i + 1
    BY SMTT(30), <2>6, <2>8, <2>9
  <2>12. SubSeq(Builder!Spoken(i, j), x, l) = Builder!Spoken(a, j)
    BY SMTT(30), <2>10, <2>11, SpokenPart
  <2>13. QED
    BY <1>1, <2>2, <2>6, <2>7, <2>8, <2>9, <2>10, <2>12
<1>6. CASE Builder!Deciding(h) # {}
  <2>1. PICK d : d = (CHOOSE x \in Builder!Deciding(h) : TRUE)
    OBVIOUS
  <2>2. d \in Builder!Deciding(h)
    BY <1>6, <2>1
  <2>3. d \in DOMAIN Builder!Against
    BY <2>2 DEF Builder!Deciding
  <2>4. PICK m : m = Builder!TailPrefixLen(Builder!Against[d].cue.text, h.text)
    OBVIOUS
  <2>5. /\ Builder!Verdict(h, Builder!Against[d].cue, Builder!Against[d].pending) = "trim"
        /\ Builder!Enqueue(SubSeq(h.text, m + 1, Len(h.text)), Builder!Against[d].cue.end, h.end)
    BY <1>2, <1>6, <2>1, <2>4 DEF Builder!PushHypothesis
  <2>6. PICK e \in Nat : e = Builder!Against[d].cue.end
    BY <1>5, <2>3, <2>4, <2>5
  <2>7. m \in 1 .. j - i /\ m = e - i + 1 /\ e < j
        /\ SubSeq(h.text, m + 1, Len(h.text)) = Builder!Spoken(i + m, j)
    BY <1>5, <2>3, <2>4, <2>5, <2>6
  <2>8. PICK f \in Nat \ {0} : f = i + m /\ f <= j
    BY <2>7
  <2>9. Builder!Enqueue(Builder!Spoken(f, j), e, j)
    BY <2>5, <2>6, <2>7, <2>8
  <2>10. v <= f
    <3>1. CASE v <= i
      BY <2>7, <2>8, <3>1
    <3>2. CASE i < v
      <4>1. i < covered /\ covered < j
        BY <1>3, <1>4, <3>2
      <4>2. Builder!Against[1].cue.end = v
            /\ Builder!Verdict(h, Builder!Against[1].cue, Builder!Against[1].pending) # "pass"
        BY <1>3, <4>1, NewestStops
      <4>3. d = 1
        <5>1. d \in Nat \ {0}
          BY <2>3, AgainstIs
        <5>2. ASSUME d # 1
              PROVE  FALSE
          <6>1. 1 \in 1 .. d - 1
            BY <5>1, <5>2
          <6>2. Builder!Verdict(h, Builder!Against[1].cue, Builder!Against[1].pending) = "pass"
            BY <2>2, <6>1 DEF Builder!Deciding
          <6>3. QED
            BY <4>2, <6>2
        <5>3. QED
          BY <5>2
      <4>4. e = v
        BY <2>6, <4>2, <4>3
      <4>5. QED
        BY <2>7, <2>8, <4>4
    <3>3. QED
      BY <3>1, <3>2
  <2>11. QED
    BY <1>3, <1>4, <2>7, <2>8, <2>9, <2>10
<1>7. CASE Builder!Deciding(h) = {}
  <2>1. ~(Builder!EmitStart(h) >= h.end) /\ Builder!Enqueue(h.text, Builder!EmitStart(h), h.end)
    BY <1>2, <1>7 DEF Builder!PushHypothesis
  <2>2. PICK s \in Nat : s = Builder!EmitStart(h)
    BY <1>3 DEF Builder!EmitStart
  <2>3. s < j /\ Builder!Enqueue(Builder!Spoken(i, j), s, j)
    BY <2>1, <2>2
  <2>4. v <= i
    <3> SUFFICES ASSUME i < v
                 PROVE  FALSE
      OBVIOUS
    <3>1. i < covered /\ covered < j
      BY <1>3, <1>4
    <3>2. 1 \in DOMAIN Builder!Against
          /\ Builder!Verdict(h, Builder!Against[1].cue, Builder!Against[1].pending) # "pass"
      BY <3>1, NewestStops
    <3>3. 1 \in Builder!Deciding(h)
      <4>1. 1 .. 1 - 1 = {}
        OBVIOUS
      <4>2. QED
        BY <3>2, <4>1 DEF Builder!Deciding
    <3>4. QED
      BY <1>7, <3>3
  <2>5. QED
    BY <1>3, <1>4, <2>3, <2>4
<1>8. QED
  BY <1>6, <1>7

LEMMA HypothesisKeeps ==
    ASSUME Builder!BuilderConstants, BuilderInv, NEW i \in Nat, NEW j \in Nat, 0 < i, i <= j,
           Builder!Hypothesis(i, j)
    PROVE  BuilderInv'
<1>1. PICK text \in Builder!Hearings(i, j) :
        /\ Builder!PushHypothesis([text |-> text, start |-> i - 1, end |-> j])
        /\ intact' = (intact /\ text = Builder!Spoken(i, j))
  BY DEF Builder!Hypothesis
<1>2. PICK h : h = [text |-> text, start |-> i - 1, end |-> j]
  OBVIOUS
<1>3. h.text = text /\ h.start = i - 1 /\ h.end = j /\ Builder!PushHypothesis(h)
  BY <1>1, <1>2
<1>4. h.start \in Nat /\ h.end \in Nat /\ h.start < h.end
  BY <1>3
<1>5. taken' = taken /\ pushes' = pushes + 1
  BY DEF Builder!Hypothesis
<1>6. RingHolds /\ StartsAnew /\ HistoryEnds /\ (intact => WordsOnce)
  BY DEF BuilderInv
<1>7. intact' \in BOOLEAN /\ (intact' => intact /\ h.text = Builder!Spoken(i, j))
  BY <1>1, <1>3
<1>8. CASE ~Builder!Dropped
  <2>1. PICK x, s, e : Builder!Enqueue(x, s, e)
    BY <1>3, <1>8, PushIs
  <2>2. RingHolds' /\ emitted' # <<>>
    BY <1>5, <1>6, <2>1, EnqueueKeeps
  <2>3. StartsAnew'
    BY <1>5, <1>6, <2>2 DEF StartsAnew
  <2>4. HistoryEnds'
    BY <1>6, <2>1, EnqueueHistory
  <2>5. ASSUME intact'
        PROVE  WordsOnce'
    <3>1. PICK f \in Nat \ {0}, start \in Nat :
             /\ f <= j /\ start < j /\ covered < j /\ covered <= f
             /\ Builder!Enqueue(Builder!Spoken(f, j), start, j)
      BY <1>3, <1>6, <1>7, <1>8, <2>5, PushWords
    <3>2. WordsOnce
      BY <1>6, <1>7, <2>5
    <3>3. QED
      BY <1>6, <3>1, <3>2, EnqueueWords
  <2>6. QED
    BY <1>7, <2>2, <2>3, <2>4, <2>5 DEF BuilderInv
<1>9. CASE Builder!Dropped
  <2>1. UNCHANGED <<queue, queueHead, pending, capacity, nextId, history, covered, emitted, taken>>
    BY <1>5, <1>9 DEF Builder!Dropped, Builder!ring
  <2>2. emitted # <<>>
    <3> SUFFICES ASSUME emitted = <<>>
                 PROVE  FALSE
      OBVIOUS
    <3>1. Builder!Enqueue(h.text, Builder!EmitStart(h), h.end)
      BY <1>3, <1>4, <1>6, FirstPasses DEF StartsAnew
    <3>2. emitted' # <<>>
      BY <1>5, <1>6, <3>1, EnqueueKeeps
    <3>3. QED
      BY <2>1, <3>2
  <2>3. RingHolds'
    BY <1>6, <2>1 DEF RingHolds
  <2>4. StartsAnew'
    BY <1>5, <1>6, <2>1, <2>2 DEF StartsAnew
  <2>5. HistoryEnds'
    BY <1>6, <2>1 DEF HistoryEnds
  <2>6. intact' => WordsOnce'
    BY <1>6, <1>7, <2>1 DEF WordsOnce
  <2>7. QED
    BY <1>7, <2>3, <2>4, <2>5, <2>6 DEF BuilderInv
<1>10. QED
  BY <1>8, <1>9

\* The oldest caption is taken.
LEMMA PopKeeps ==
    ASSUME BuilderInv, Builder!Pop
    PROVE  BuilderInv'
<1>1. PICK S : Builder!NoCue \in S /\ queue \in [0 .. capacity - 1 -> S] /\ emitted \in Seq(S)
  BY DEF BuilderInv, RingHolds
<1>2. PICK c \in Nat \ {0} : c = capacity
  BY DEF BuilderInv, RingHolds
<1>3. PICK h \in 0 .. c - 1 : h = queueHead
  BY <1>2 DEF BuilderInv, RingHolds
<1>4. PICK n \in 1 .. c : n = pending
  BY <1>2 DEF BuilderInv, RingHolds, Builder!Pop
<1>5. PICK t \in Nat : t = taken
  BY DEF BuilderInv, RingHolds
<1>6. Builder!Slot(0) = Place(h, c, n, 0) /\ Place(h, c, n, 0) \in 0 .. c - 1
  <2>1. Builder!Slot(0) = (h + c - n + 0) % c
    BY <1>2, <1>3, <1>4 DEF Builder!Slot
  <2>2. n \in 0 .. c /\ 0 \in 0 .. n - 1
    OBVIOUS
  <2>3. QED
    BY <2>1, <2>2, PlaceIs
<1>7. /\ queue' = [queue EXCEPT ![Place(h, c, n, 0)] = Builder!NoCue]
      /\ queueHead' = h /\ capacity' = c /\ pending' = n - 1 /\ taken' = t + 1
      /\ UNCHANGED <<nextId, emitted, history, covered, intact, pushes>>
  BY <1>2, <1>3, <1>4, <1>5, <1>6 DEF Builder!Pop
<1>8. queue' \in [0 .. c - 1 -> S]
  BY <1>1, <1>2, <1>6, <1>7
<1>9. Holds(queue', h, c, n - 1, emitted, t + 1)
  <2>1. Holds(queue, h, c, n, emitted, t)
    BY <1>2, <1>3, <1>4, <1>5 DEF BuilderInv, RingHolds
  <2>2. ASSUME NEW i \in 0 .. (n - 1) - 1
        PROVE  queue'[Place(h, c, n - 1, i)] = emitted[((t + 1) + i) + 1]
    <3>1. i + 1 \in 0 .. n - 1 /\ 0 \in 0 .. n - 1 /\ i + 1 # 0 /\ n \in 0 .. c
      OBVIOUS
    <3>2. Place(h, c, n - 1, i) = Place(h, c, n, i + 1)
      BY DEF Place
    <3>3. Place(h, c, n, i + 1) # Place(h, c, n, 0) /\ Place(h, c, n, i + 1) \in 0 .. c - 1
      BY <3>1, PlacesDiffer, PlaceIs
    <3>4. queue'[Place(h, c, n, i + 1)] = queue[Place(h, c, n, i + 1)]
      BY <1>1, <1>2, <1>7, <3>3
    <3>5. queue[Place(h, c, n, i + 1)] = emitted[(t + (i + 1)) + 1]
      BY <2>1, <3>1 DEF Holds
    <3>6. (t + (i + 1)) + 1 = ((t + 1) + i) + 1
      OBVIOUS
    <3>7. QED
      BY <3>2, <3>4, <3>5, <3>6
  <2>3. QED
    BY <2>2 DEF Holds
<1>10. RingHolds'
  <2>1. \E X : Builder!NoCue \in X /\ queue' \in [0 .. capacity' - 1 -> X] /\ emitted' \in Seq(X)
    BY <1>1, <1>7, <1>8
  <2>2. Len(emitted) = t + n
    BY <1>4, <1>5 DEF BuilderInv, RingHolds
  <2>3. /\ capacity' \in Nat \ {0} /\ queueHead' \in 0 .. capacity' - 1 /\ pending' \in 0 .. capacity'
        /\ taken' \in Nat /\ nextId' \in Nat /\ Len(emitted') = taken' + pending'
    <3>1. nextId \in Nat
      BY DEF BuilderInv, RingHolds
    <3>2. n - 1 \in 0 .. c /\ t + n = (t + 1) + (n - 1)
      OBVIOUS
    <3>3. QED
      BY <1>7, <2>2, <3>1, <3>2
  <2>4. \A i \in 1 .. Len(emitted') : emitted'[i].id = (nextId' - Len(emitted')) + (i - 1)
    BY <1>7 DEF BuilderInv, RingHolds
  <2>5. Holds(queue', queueHead', capacity', pending', emitted', taken')
    BY <1>7, <1>9
  <2>6. QED
    BY <2>1, <2>3, <2>4, <2>5 DEF RingHolds
<1>11. StartsAnew'
  BY <1>7 DEF BuilderInv, StartsAnew
<1>12. HistoryEnds' /\ intact' \in BOOLEAN /\ (intact' => WordsOnce')
  BY <1>7 DEF BuilderInv, HistoryEnds, WordsOnce
<1>13. QED
  BY <1>10, <1>11, <1>12 DEF BuilderInv

\* The ring is emptied, at the size it has.
LEMMA ClearKeepsBuilder ==
    ASSUME BuilderInv, Builder!Clear
    PROVE  BuilderInv'
<1>1. PICK S : Builder!NoCue \in S /\ queue \in [0 .. capacity - 1 -> S]
  BY DEF BuilderInv, RingHolds
<1>2. PICK c \in Nat \ {0} : c = capacity
  BY DEF BuilderInv, RingHolds
<1>3. DOMAIN queue = 0 .. c - 1
  BY <1>1, <1>2
<1>4. /\ queue' = [i \in 0 .. c - 1 |-> Builder!NoCue] /\ queueHead' = 0 /\ pending' = 0
           /\ capacity' = c
      /\ history' = <<>> /\ covered' = -1 /\ emitted' = <<>> /\ taken' = 0 /\ pushes' = 0
      /\ nextId' = nextId /\ intact' = TRUE
  BY <1>2, <1>3 DEF Builder!Clear, Builder!ClearedFrontier
<1>5. emitted' \in Seq(S) /\ Len(emitted') = 0
  BY <1>4, EmptySeq
<1>6. RingHolds'
  <2>1. \E X : Builder!NoCue \in X /\ queue' \in [0 .. capacity' - 1 -> X] /\ emitted' \in Seq(X)
    BY <1>1, <1>4, <1>5
  <2>2. /\ capacity' \in Nat \ {0} /\ queueHead' \in 0 .. capacity' - 1 /\ pending' \in 0 .. capacity'
        /\ taken' \in Nat /\ nextId' \in Nat /\ Len(emitted') = taken' + pending'
    BY <1>4, <1>5 DEF BuilderInv, RingHolds
  <2>3. Holds(queue', queueHead', capacity', pending', emitted', taken')
    BY <1>4 DEF Holds
  <2>4. \A i \in 1 .. Len(emitted') : emitted'[i].id = (nextId' - Len(emitted')) + (i - 1)
    BY <1>5
  <2>5. QED
    BY <2>1, <2>2, <2>3, <2>4 DEF RingHolds
<1>7. StartsAnew'
  BY <1>4 DEF StartsAnew
<1>8. HistoryEnds'
  <2>1. history' \in Seq(S) /\ Len(history') = 0
    BY <1>4, EmptySeq
  <2>2. QED
    BY <1>4, <2>1 DEF HistoryEnds
<1>9. WordsOnce'
  BY <1>4, <1>5 DEF WordsOnce
<1>10. QED
  BY <1>4, <1>6, <1>7, <1>8, <1>9 DEF BuilderInv

\* Every step keeps the invariant.
LEMMA BuilderStep ==
    ASSUME Builder!BuilderConstants, BuilderInv, [Builder!Next]_Builder!vars
    PROVE  BuilderInv'
<1>1. ASSUME NEW i \in 1 .. Speech, NEW j \in i .. Speech, Builder!Hypothesis(i, j)
      PROVE  BuilderInv'
  <2>1. i \in Nat /\ j \in Nat /\ 0 < i /\ i <= j
    BY DEF Builder!BuilderConstants
  <2>2. QED
    BY <1>1, <2>1, HypothesisKeeps
<1>2. ASSUME UNCHANGED <<Builder!ring, history, covered, emitted, taken, intact, pushes>>
      PROVE  BuilderInv'
  BY ZenonT(60), <1>2 DEF BuilderInv, RingHolds, StartsAnew, HistoryEnds, WordsOnce, Builder!ring
<1>3. ASSUME NEW k \in 0 .. Speech - 1, Builder!NextWindow(k)
      PROVE  BuilderInv'
  BY <1>2, <1>3 DEF Builder!NextWindow
<1>4. UNCHANGED Builder!vars => BuilderInv'
  BY <1>2 DEF Builder!vars
<1>5. QED
  BY <1>1, <1>3, <1>4, PopKeeps, ClearKeepsBuilder DEF Builder!Next

\* The invariant of the builder, for every size of the ring, the history and the windows.
THEOREM BuilderInvariant ==
    ASSUME Builder!BuilderConstants
    PROVE  Builder!Spec => []BuilderInv
<1>1. Builder!Init => BuilderInv
  BY BuilderStarts
<1>2. BuilderInv /\ [Builder!Next]_Builder!vars => BuilderInv'
  BY BuilderStep
<1>3. QED
  BY <1>1, <1>2, PTL DEF Builder!Spec

\* vw_segment_builder_pop hands the captions out in the order vw_segment_builder_enqueue made them,
\* each once and with its own id, whatever the ring's first size, however often and wherever in the
\* ring it grows; and the first hypothesis after vw_segment_builder_clear becomes a caption.
THEOREM BuilderHandsOutInOrder ==
    ASSUME Builder!BuilderConstants
    PROVE  Builder!Spec => [](Builder!RingIsFifo /\ Builder!FirstIsCaptioned)
<1>1. ASSUME BuilderInv
      PROVE  Builder!RingIsFifo /\ Builder!FirstIsCaptioned
  <2>1. PICK c \in Nat \ {0} : c = capacity
    BY <1>1 DEF BuilderInv, RingHolds
  <2>2. PICK h \in 0 .. c - 1 : h = queueHead
    BY <1>1, <2>1 DEF BuilderInv, RingHolds
  <2>3. PICK n \in 0 .. c : n = pending
    BY <1>1, <2>1 DEF BuilderInv, RingHolds
  <2>4. PICK t \in Nat : t = taken /\ Len(emitted) = t + n
    BY <1>1, <2>3 DEF BuilderInv, RingHolds
  <2>5. pending = Len(emitted) - taken
    BY <2>3, <2>4
  <2>6. ASSUME NEW i \in 1 .. n
        PROVE  queue[Builder!Slot(i - 1)] = emitted[t + i]
    <3>1. i - 1 \in 0 .. n - 1 /\ (t + (i - 1)) + 1 = t + i
      OBVIOUS
    <3>2. Builder!Slot(i - 1) = (h + c - n + (i - 1)) % c
      BY <2>1, <2>2, <2>3 DEF Builder!Slot
    <3>3. Builder!Slot(i - 1) = Place(h, c, n, i - 1)
      BY <3>1, <3>2, PlaceIs
    <3>4. Holds(queue, h, c, n, emitted, t)
      BY <1>1, <2>1, <2>2, <2>3, <2>4 DEF BuilderInv, RingHolds
    <3>5. QED
      BY <3>1, <3>3, <3>4 DEF Holds
  <2>7. \A i \in 1 .. Len(emitted) - 1 : emitted[i + 1].id = emitted[i].id + 1
    <3> TAKE i \in 1 .. Len(emitted) - 1
    <3>1. i \in 1 .. Len(emitted) /\ i + 1 \in 1 .. Len(emitted) /\ Len(emitted) \in Nat
      BY <2>4
    <3>2. PICK d \in Int : d = nextId - Len(emitted)
      BY <1>1, <3>1 DEF BuilderInv, RingHolds
    <3>3. emitted[i].id = d + (i - 1) /\ emitted[i + 1].id = d + ((i + 1) - 1)
      BY <1>1, <3>1, <3>2 DEF BuilderInv, RingHolds
    <3>4. QED
      BY <2>4, <3>3
  <2>8. Builder!RingIsFifo
    BY <2>3, <2>4, <2>5, <2>6, <2>7 DEF Builder!RingIsFifo
  <2>9. QED
    BY <1>1, <2>8 DEF BuilderInv, StartsAnew, Builder!FirstIsCaptioned
<1>2. Builder!Spec => []BuilderInv
  BY BuilderInvariant
<1>3. QED
  BY <1>1, <1>2, PTL

\* While no hypothesis misses a word, two captions share at most one word: the windows may hear
\* anything any number of times, and the history may be of any size.
LEMMA PairsApart ==
    ASSUME BuilderInv
    PROVE  Builder!NoPairTwice
<1> SUFFICES ASSUME intact, NEW k \in DOMAIN emitted, NEW l \in DOMAIN emitted, k < l,
                    NEW v \in 1 .. Speech - 1,
                    Builder!Within(<<v, v + 1>>, emitted[k].text),
                    Builder!Within(<<v, v + 1>>, emitted[l].text)
             PROVE  FALSE
  BY DEF Builder!NoPairTwice
<1>1. k \in 1 .. Len(emitted) /\ l \in 1 .. Len(emitted)
  BY LenProperties DEF BuilderInv, RingHolds
<1>2. IsRun(emitted[k]) /\ IsRun(emitted[l]) /\ emitted[k].end <= emitted[l].text[1]
  BY <1>1 DEF BuilderInv, WordsOnce
<1>3. v \in Nat
  OBVIOUS
<1>4. ASSUME NEW c, IsRun(c), Builder!Within(<<v, v + 1>>, c.text)
      PROVE  c.text[1] <= v /\ v + 1 <= c.end
  <2>1. PICK e \in Nat : e = c.end
    BY <1>4 DEF IsRun
  <2>2. PICK a \in Nat : a = c.text[1] /\ a <= e /\ c.text = Builder!Spoken(a, e)
    BY <1>4, <2>1 DEF IsRun
  <2>3. Builder!Within(<<v, v + 1>>, Builder!Spoken(a, e))
    BY <1>4, <2>2
  <2>4. a <= v /\ v + 1 <= e
    BY <1>3, <2>2, <2>3, PairWithin
  <2>5. QED
    BY <2>1, <2>2, <2>4
<1>5. PICK e \in Nat : e = emitted[k].end
  BY <1>2 DEF IsRun
<1>6. PICK a \in Nat : a = emitted[l].text[1]
  BY <1>2 DEF IsRun
<1>7. v + 1 <= e /\ e <= a /\ a <= v
  BY <1>2, <1>4, <1>5, <1>6
<1>8. QED
  BY <1>3, <1>7

\* What overlapping windows hear again is not captioned again, as long as they hear the same words;
\* the captions come out in the order they were made; and nothing from before a clear drops the
\* first hypothesis after it.  For every size of the ring, the history and the windows.
THEOREM BuilderCaptionsOnce ==
    ASSUME Builder!BuilderConstants
    PROVE  Builder!Spec => []Builder!CaptionedOnce
<1>1. Builder!Spec => []BuilderInv
  BY BuilderInvariant
<1>2. Builder!Spec => [](Builder!RingIsFifo /\ Builder!FirstIsCaptioned)
  BY BuilderHandsOutInOrder
<1>3. BuilderInv /\ Builder!RingIsFifo /\ Builder!FirstIsCaptioned => Builder!CaptionedOnce
  BY PairsApart DEF Builder!CaptionedOnce
<1>4. QED
  BY <1>1, <1>2, <1>3, PTL

\* The builder of the composition runs as SegmentBuilder says.
LEMMA BuilderRuns == AudioSpec => Builder!Spec
<1>1. AudioInit => Builder!Init
  BY DEF AudioInit
<1>2. [AudioNext]_<<part, vars, lookVars, decVars, builderVars, timeVars>>
          => [Builder!Next]_(Builder!vars)
  <2>1. UNCHANGED builderVars => UNCHANGED Builder!vars
    BY DEF builderVars, Builder!vars, Builder!ring
  <2>2. QED
    BY <2>1 DEF AudioNext
<1>3. QED
  BY <1>1, <1>2, PTL DEF AudioSpec, Builder!Spec

\* The same of the composition that the run checks: what overlapping windows hear again is not
\* captioned again, and captions come out as they were made.
THEOREM AudioCaptionedOnce == AudioSpec => []CaptionedOnce
<1>1. Builder!Spec => []Builder!CaptionedOnce
  BY WorkerAudioAssumption, BuilderCaptionsOnce
<1>2. QED
  BY <1>1, BuilderRuns, PTL DEF CaptionedOnce

-----------------------------------------------------------------------------
(* Source mode from the player to the screen (SourceTimeline).               *)

PolledFrames == [kind : {"start", "position", "pause", "resume"}, sid : Nat, at : Nat, halt : BOOLEAN]
Cues == [sid : Nat, at : Nat]
Sessions == [sid : Nat, active : BOOLEAN, paused : BOOLEAN, eof : BOOLEAN, pend : BOOLEAN,
             cur : Nat, last : Nat, dec : Nat]

\* The types of the variables that matter.
TimelineTyped ==
    /\ pos \in Nat /\ halted \in BOOLEAN
    /\ sid \in Nat /\ paused \in BOOLEAN /\ lastPos \in Nat \cup {Timeline!None}
    /\ lastSeek \in Nat \cup {Timeline!None} /\ lastSeek <= lastPos
    /\ frames \in Seq(PolledFrames) /\ wire \in Seq(Cues) /\ pool \in Seq(Cues)
    /\ w \in Sessions /\ reached \in Nat /\ cutAt \in Nat /\ cutAt <= reached
    /\ translates \in BOOLEAN /\ spoiled \in BOOLEAN

\* An implicit seek that failed has left its mark in the session.
MarkedFailure == tries \in {0, 1} /\ (tries = 1 => w.pend)

\* Behind frame i of f there is the START of another session; or that or a RESUME.
StartAfter(f, i) == \E j \in 1 .. Len(f) : j > i /\ f[j].kind = "start"
ReliefAfter(f, i) == \E j \in 1 .. Len(f) : j > i /\ f[j].kind \in {"start", "resume"}

\* Frame e makes a worker that is not paused drop what it has.
Drops(e) == e.kind = "pause" \/ (e.kind = "position" /\ e.halt)

\* The frames f on their way are, but for those that a START is behind, of the plugin's session
\* sd, from its seek sk on and in the order of the film to the last position lp.  What makes the
\* worker drop captions is one with the plugin's pause pz, or a RESUME or START is behind it.
FramesOrdered(f, sd, lp, sk, pz) ==
    \A i \in 1 .. Len(f) :
        /\ ~StartAfter(f, i) =>
              /\ f[i].sid = sd /\ f[i].at <= lp /\ sk <= f[i].at
              /\ \A j \in i .. Len(f) : f[i].at <= f[j].at
        /\ Drops(f[i]) => pz \/ ReliefAfter(f, i)

\* Without a START on its way the worker is in the plugin's session, behind all of its frames.
InSession ==
    ~StartAfter(frames, 0) =>
        /\ w.sid = sid /\ lastSeek <= w.cur
        /\ w.cur <= lastPos \/ (lastPos = Timeline!None /\ w.cur = 0)
        /\ \A i \in 1 .. Len(frames) : w.cur <= frames[i].at

\* The caption of second t is on its way in s.
OnItsWay(s, t) == \E i \in 1 .. Len(s) : s[i].sid = sid /\ s[i].at = t

\* No second ahead of the playhead is lost, unless the worker is about to decode it again, a
\* failed seek or read has spoiled it or a new playback rate has blanked its caption.
NothingLost ==
    \/ ~w.active \/ spoiled \/ paused \/ ReliefAfter(frames, 0)
    \/ \A t \in w.cur .. w.dec - 1 :
          t >= cutAt \/ t \in shown \cup lost \/ OnItsWay(wire, t) \/ OnItsWay(pool, t)

TimelineInv ==
    /\ TimelineTyped /\ Timeline!AnchorIsTrue /\ MarkedFailure
    /\ FramesOrdered(frames, sid, lastPos, lastSeek, paused) /\ InSession /\ NothingLost

-----------------------------------------------------------------------------
\* The invariant without the frames and captions: what the worker's own steps are about.
WorkerSound ==
    /\ w \in Sessions /\ reached \in Nat /\ cutAt \in Nat /\ cutAt <= reached
    /\ spoiled \in BOOLEAN /\ pool \in Seq(Cues) /\ Timeline!AnchorIsTrue /\ MarkedFailure

\* What a frame m may make of the worker's session.
Handled(m) ==
    /\ WorkerSound'
    /\ \/ m.kind = "start" /\ w'.sid = m.sid /\ w'.cur = m.at
       \/ m.kind # "start" /\ w'.sid = w.sid /\ w'.cur \in {w.cur, m.at}
    /\ \/ ~w'.active \/ spoiled' \/ w'.dec = w'.cur
       \/ Drops(m)
       \/ /\ m.kind \in {"start", "resume"} => m.kind # "start" /\ ~(w.active /\ m.sid = w.sid)
          /\ w'.dec = w.dec /\ w'.active = w.active
          /\ cutAt' = cutAt /\ pool' = pool /\ spoiled' = spoiled

LEMMA MovesToDoes ==
    ASSUME NEW p, Timeline!MovesTo(p)
    PROVE  reached' = p /\ cutAt' = p /\ spoiled' \in BOOLEAN
BY Zenon DEF Timeline!MovesTo

LEMMA FollowDoes ==
    ASSUME NEW s \in Sessions, NEW b \in Nat, NEW n \in {0, 1}, NEW p \in Nat,
           WorkerSound, s.active, s.pend = w.pend, s.dec = w.dec, s.cur = w.cur, s.sid = w.sid,
           w.active, b <= reached,
           Timeline!Follow(s, b, n, p)
    PROVE  /\ WorkerSound'
           /\ w'.sid = w.sid /\ w'.cur \in {w.cur, p} /\ w'.active
           /\ \/ spoiled' \/ w'.dec = w'.cur
              \/ w'.dec = w.dec /\ cutAt' = b /\ pool' = pool /\ spoiled' = spoiled
<1>0. /\ w \in Sessions /\ reached \in Nat /\ cutAt \in Nat /\ spoiled \in BOOLEAN /\ pool \in Seq(Cues)
      /\ w.dec = reached /\ tries \in {0, 1} /\ (tries = 1 => w.pend)
  BY DEF WorkerSound, Timeline!AnchorIsTrue, MarkedFailure
<1>1. CASE Timeline!RequiresSeek(s, p) /\ w' = [s EXCEPT !.pend = FALSE, !.cur = p, !.last = p,
             !.dec = p, !.eof = FALSE]
           /\ Timeline!MovesTo(p) /\ pool' = <<>> /\ tries' = 0
  <2>1. w' \in Sessions /\ w'.sid = s.sid /\ w'.cur = p /\ w'.dec = p /\ w'.active = s.active
    BY <1>1 DEF Sessions
  <2>2. reached' = p /\ cutAt' = p /\ spoiled' \in BOOLEAN /\ pool' \in Seq(Cues)
    BY <1>1, MovesToDoes
  <2>3. QED
    BY <1>1, <2>1, <2>2 DEF WorkerSound, Timeline!AnchorIsTrue, MarkedFailure
<1>2. CASE /\ Timeline!RequiresSeek(s, p) /\ Timeline!SeeksFail(n + 1) /\ spoiled' = TRUE
                /\ tries' = tries + 1
           /\ cutAt' = b /\ UNCHANGED pool
           /\ w' = LET f == Timeline!AfterFailure(s, p)
                   IN IF s.cur = p THEN [f EXCEPT !.last = p] ELSE f
  <2>1. w' \in Sessions /\ w'.sid = s.sid /\ w'.cur = s.cur /\ w'.dec = s.dec
        /\ w'.active = s.active /\ w'.pend
    BY <1>2 DEF Sessions, Timeline!AfterFailure
  <2>2. ~w.pend
    BY <1>2 DEF Timeline!RequiresSeek
  <2>3. tries' = 1 /\ reached' = reached
    BY <1>0, <1>2, <2>2 DEF Timeline!SeeksFail
  <2>4. QED
    BY <1>0, <1>2, <2>1, <2>3 DEF WorkerSound, Timeline!AnchorIsTrue, MarkedFailure
<1>3. CASE /\ Timeline!SeeksFail(n) /\ spoiled' = (spoiled \/ n > 0) /\ cutAt' = b
           /\ w' = [s EXCEPT !.cur = p, !.last = p] /\ UNCHANGED <<pool, tries>>
  <2>1. w' \in Sessions /\ w'.sid = s.sid /\ w'.cur = p /\ w'.dec = s.dec /\ w'.active = s.active
        /\ w'.pend = s.pend
    BY <1>3 DEF Sessions
  <2>2. reached' = reached
    BY <1>3 DEF Timeline!SeeksFail
  <2>3. spoiled' \in BOOLEAN /\ (spoiled' = spoiled \/ spoiled')
    BY <1>0, <1>3
  <2>4. QED
    BY <1>0, <1>3, <2>1, <2>2, <2>3 DEF WorkerSound, Timeline!AnchorIsTrue, MarkedFailure
<1>4. QED
  BY <1>1, <1>2, <1>3 DEF Timeline!Follow

LEMMA PositionDoes ==
    ASSUME WorkerSound, w.active, NEW m \in PolledFrames, m.kind = "position", Timeline!OnPosition(m)
    PROVE  Handled(m)
<1>0. /\ w \in Sessions /\ reached \in Nat /\ cutAt \in Nat /\ spoiled \in BOOLEAN /\ pool \in Seq(Cues)
      /\ tries \in {0, 1} /\ (tries = 1 => w.pend) /\ cutAt <= reached /\ m.at \in Nat
  BY DEF WorkerSound, Timeline!AnchorIsTrue, MarkedFailure, PolledFrames
<1>1. CASE m.halt = w.paused /\ Timeline!Follow(w, cutAt, 0, m.at)
  BY <1>0, <1>1, FollowDoes DEF Handled
<1>2. CASE m.halt /\ ~w.paused /\ Timeline!Follow([w EXCEPT !.paused = TRUE], reached, 0, m.at)
  <2> DEFINE s == [w EXCEPT !.paused = TRUE]
  <2>1. s \in Sessions /\ s.active /\ s.pend = w.pend /\ s.dec = w.dec /\ s.cur = w.cur /\ s.sid = w.sid
    BY <1>0 DEF Sessions
  <2>2. Timeline!Follow(s, reached, 0, m.at)
    BY <1>2
  <2> HIDE DEF s
  <2>3. WorkerSound' /\ w'.sid = w.sid /\ w'.cur \in {w.cur, m.at}
    BY <1>0, <2>1, <2>2, FollowDoes
  <2>4. QED
    BY <1>2, <2>3 DEF Handled, Drops
<1>3. CASE /\ Timeline!MovesTo(m.at) /\ w' = Timeline!Resumed(m.at, m.at)
           /\ UNCHANGED <<pool, fails, tries>>
  <2>1. w' \in Sessions /\ w'.sid = w.sid /\ w'.cur = m.at /\ w'.dec = m.at /\ w'.pend = w.pend
    BY <1>0, <1>3 DEF Timeline!Resumed, Sessions
  <2>2. reached' = m.at /\ cutAt' = m.at /\ spoiled' \in BOOLEAN
    BY <1>3, MovesToDoes
  <2>3. QED
    BY <1>0, <1>3, <2>1, <2>2 DEF Handled, WorkerSound, Timeline!AnchorIsTrue, MarkedFailure
<1>4. CASE ~m.halt /\ w.paused /\ Timeline!Follow([w EXCEPT !.paused = FALSE], cutAt, 1, m.at)
  <2> DEFINE s == [w EXCEPT !.paused = FALSE]
  <2>1. s \in Sessions /\ s.active /\ s.pend = w.pend /\ s.dec = w.dec /\ s.cur = w.cur /\ s.sid = w.sid
    BY <1>0 DEF Sessions
  <2>2. Timeline!Follow(s, cutAt, 1, m.at)
    BY <1>4
  <2> HIDE DEF s
  <2>3. QED
    BY <1>0, <2>1, <2>2, FollowDoes DEF Handled
<1>5. QED
  BY <1>1, <1>2, <1>3, <1>4 DEF Timeline!OnPosition

LEMMA HandleDoes ==
    ASSUME WorkerSound, NEW m \in PolledFrames,
           LET ours == w.active /\ m.sid = w.sid
           IN \/ m.kind = "start" /\ Timeline!OnStart(m)
              \/ m.kind = "position" /\ ours /\ Timeline!OnPosition(m)
              \/ m.kind = "pause" /\ ours /\ Timeline!OnPause
              \/ m.kind = "resume" /\ ours /\ Timeline!OnResume
              \/ m.kind # "start" /\ ~ours /\ UNCHANGED <<w, reached, cutAt, pool, Timeline!failures>>
    PROVE  Handled(m)
<1>0. /\ w \in Sessions /\ reached \in Nat /\ cutAt \in Nat /\ spoiled \in BOOLEAN /\ pool \in Seq(Cues)
      /\ tries \in {0, 1} /\ (tries = 1 => w.pend) /\ cutAt <= reached /\ m.at \in Nat /\ m.sid \in Nat
  BY DEF WorkerSound, Timeline!AnchorIsTrue, MarkedFailure, PolledFrames
<1>1. CASE m.kind = "start" /\ Timeline!OnStart(m)
  <2>1. w' \in Sessions /\ w'.sid = m.sid /\ w'.cur = m.at /\ w'.dec = m.at
    BY <1>0, <1>1 DEF Timeline!OnStart, Timeline!Session, Sessions
  <2>2. reached' = m.at /\ cutAt' = m.at /\ spoiled' \in BOOLEAN /\ pool' \in Seq(Cues) /\ tries' = 0
    BY <1>1, MovesToDoes DEF Timeline!OnStart
  <2>3. QED
    BY <1>0, <1>1, <2>1, <2>2 DEF Handled, WorkerSound, Timeline!AnchorIsTrue, MarkedFailure
<1>2. CASE m.kind = "position" /\ w.active /\ Timeline!OnPosition(m)
  BY <1>2, PositionDoes
<1>3. CASE m.kind = "pause" /\ w.active /\ Timeline!OnPause
  <2>1. w' \in Sessions /\ w'.sid = w.sid /\ w'.cur = w.cur /\ w'.dec = w.dec /\ w'.active = w.active
        /\ w'.pend = w.pend
    BY <1>0, <1>3 DEF Timeline!OnPause, Sessions
  <2>2. reached' = reached /\ cutAt' = reached /\ spoiled' = spoiled /\ pool' \in Seq(Cues)
          /\ tries' = tries
    BY <1>3 DEF Timeline!OnPause, Timeline!failures
  <2>3. QED
    BY <1>0, <1>3, <2>1, <2>2 DEF Handled, WorkerSound, Timeline!AnchorIsTrue, MarkedFailure, Drops
<1>4. CASE m.kind = "resume" /\ w.active /\ Timeline!OnResume
  <2>1. CASE Timeline!MovesTo(Timeline!ResumePoint) /\ pool' = <<>> /\ UNCHANGED <<fails, tries>>
             /\ w' = Timeline!Resumed(w.cur, Timeline!ResumePoint)
    <3>1. w' \in Sessions /\ w'.sid = w.sid /\ w'.cur = w.cur /\ w'.dec = w.cur /\ w'.pend = w.pend
      BY <1>0, <2>1 DEF Timeline!Resumed, Timeline!ResumePoint, Sessions
    <3>2. reached' = w.cur /\ cutAt' = w.cur /\ spoiled' \in BOOLEAN /\ w.cur \in Nat
            /\ pool' \in Seq(Cues)
      BY <1>0, <2>1, MovesToDoes DEF Timeline!ResumePoint, Sessions
    <3>3. QED
      BY <1>0, <1>4, <2>1, <3>1, <3>2 DEF Handled, WorkerSound, Timeline!AnchorIsTrue, MarkedFailure
  <2>2. CASE Timeline!SeeksFail(1) /\ spoiled' = TRUE /\ w' = [w EXCEPT !.paused = FALSE]
             /\ UNCHANGED <<cutAt, pool, tries>>
    <3>1. w' \in Sessions /\ w'.sid = w.sid /\ w'.cur = w.cur /\ w'.dec = w.dec /\ w'.active = w.active
          /\ w'.pend = w.pend
      BY <1>0, <2>2 DEF Sessions
    <3>2. reached' = reached
      BY <2>2 DEF Timeline!SeeksFail
    <3>3. QED
      BY <1>0, <1>4, <2>2, <3>1, <3>2 DEF Handled, WorkerSound, Timeline!AnchorIsTrue, MarkedFailure
  <2>3. QED
    BY <1>4, <2>1, <2>2 DEF Timeline!OnResume
<1>5. CASE m.kind # "start" /\ ~(w.active /\ m.sid = w.sid) /\ UNCHANGED <<w, reached, cutAt, pool,
             Timeline!failures>>
  BY <1>0, <1>5 DEF Handled, WorkerSound, Timeline!AnchorIsTrue, MarkedFailure, Timeline!failures
<1>6. QED
  BY <1>1, <1>2, <1>3, <1>4, <1>5

-----------------------------------------------------------------------------
\* One frame fewer: the rest is what it was, one place further in front.
LEMMA TailFrames ==
    ASSUME NEW f \in Seq(PolledFrames), f # <<>>
    PROVE  /\ Tail(f) \in Seq(PolledFrames) /\ Head(f) = f[1] /\ Head(f) \in PolledFrames
           /\ Len(f) \in Nat /\ 1 <= Len(f) /\ Len(Tail(f)) = Len(f) - 1
           /\ \A i \in 1 .. Len(f) - 1 : Tail(f)[i] = f[i + 1]
BY HeadTailProperties, LenProperties, EmptySeq

LEMMA TailAfter ==
    ASSUME NEW f \in Seq(PolledFrames), f # <<>>, NEW i \in Nat
    PROVE  /\ StartAfter(Tail(f), i) <=> StartAfter(f, i + 1)
           /\ ReliefAfter(Tail(f), i) <=> ReliefAfter(f, i + 1)
<1> DEFINE g == Tail(f)
<1>1. Len(f) \in Nat /\ Len(g) = Len(f) - 1 /\ \A j \in 1 .. Len(f) - 1 : g[j] = f[j + 1]
  BY TailFrames
<1> HIDE DEF g
<1>2. ASSUME NEW j \in 1 .. Len(g), j > i
      PROVE  j + 1 \in 1 .. Len(f) /\ j + 1 > i + 1 /\ f[j + 1] = g[j]
  BY <1>1, <1>2
<1>3. ASSUME NEW j \in 1 .. Len(f), j > i + 1
      PROVE  j - 1 \in 1 .. Len(g) /\ j - 1 > i /\ g[j - 1] = f[j]
  BY <1>1, <1>3
<1>4. StartAfter(g, i) <=> StartAfter(f, i + 1)
  BY <1>2, <1>3 DEF StartAfter
<1>5. ReliefAfter(g, i) <=> ReliefAfter(f, i + 1)
  BY <1>2, <1>3 DEF ReliefAfter
<1>6. QED
  BY <1>4, <1>5 DEF g

LEMMA TailOrdered ==
    ASSUME NEW f \in Seq(PolledFrames), f # <<>>, NEW sd, NEW lp, NEW sk, NEW pz,
           FramesOrdered(f, sd, lp, sk, pz)
    PROVE  FramesOrdered(Tail(f), sd, lp, sk, pz)
<1> DEFINE g == Tail(f)
<1>1. Len(f) \in Nat /\ Len(g) = Len(f) - 1 /\ \A j \in 1 .. Len(f) - 1 : g[j] = f[j + 1]
  BY TailFrames
<1>2. \A i \in Nat : (StartAfter(g, i) <=> StartAfter(f, i + 1))
                     /\ (ReliefAfter(g, i) <=> ReliefAfter(f, i + 1))
  BY TailAfter
<1> HIDE DEF g
<1>3. SUFFICES ASSUME NEW i \in 1 .. Len(g)
      PROVE  /\ ~StartAfter(g, i) =>
                    /\ g[i].sid = sd /\ g[i].at <= lp /\ sk <= g[i].at
                    /\ \A j \in i .. Len(g) : g[i].at <= g[j].at
             /\ Drops(g[i]) => pz \/ ReliefAfter(g, i)
  BY DEF FramesOrdered, g
<1>4. i + 1 \in 1 .. Len(f) /\ g[i] = f[i + 1] /\ i \in Nat
  BY <1>1
<1>5. \A j \in i .. Len(g) : j + 1 \in (i + 1) .. Len(f) /\ g[j] = f[j + 1]
  BY <1>1
<1>6. Drops(g[i]) => pz \/ ReliefAfter(g, i)
  BY <1>2, <1>4 DEF FramesOrdered
<1>7. ~StartAfter(g, i) => g[i].sid = sd /\ g[i].at <= lp /\ sk <= g[i].at
  BY <1>2, <1>4 DEF FramesOrdered
<1>8. ~StartAfter(g, i) => \A j \in (i + 1) .. Len(f) : f[i + 1].at <= f[j].at
  BY <1>2, <1>4 DEF FramesOrdered
<1>9. QED
  BY <1>4, <1>5, <1>6, <1>7, <1>8

LEMMA HandleKeepsTimeline ==
    ASSUME TimelineInv, Timeline!Handle
    PROVE  TimelineInv'
<1> DEFINE m == Head(frames)
<1>0. /\ TimelineTyped /\ Timeline!AnchorIsTrue /\ MarkedFailure /\ InSession /\ NothingLost
      /\ FramesOrdered(frames, sid, lastPos, lastSeek, paused)
  BY DEF TimelineInv
<1>1. /\ frames \in Seq(PolledFrames) /\ frames # <<>> /\ frames' = Tail(frames)
      /\ pos' = pos /\ halted' = halted /\ sid' = sid /\ paused' = paused /\ lastPos' = lastPos
      /\ lastSeek' = lastSeek /\ shown' = shown /\ lost' = lost /\ wire' = wire
      /\ translates' = translates
  BY <1>0 DEF Timeline!Handle, TimelineTyped, Timeline!player, Timeline!plugin
<1>2. m \in PolledFrames /\ m = frames[1] /\ frames' \in Seq(PolledFrames) /\ Len(frames) \in Nat
      /\ 1 <= Len(frames) /\ Len(frames') = Len(frames) - 1
      /\ \A i \in 1 .. Len(frames) - 1 : frames'[i] = frames[i + 1]
  BY <1>1, TailFrames
<1>3. WorkerSound
  BY <1>0 DEF TimelineTyped, WorkerSound
<1>4. Handled(m)
  BY <1>2, <1>3, HandleDoes DEF Timeline!Handle
<1>5. WorkerSound'
  BY <1>4 DEF Handled
<1>6. TimelineTyped' /\ Timeline!AnchorIsTrue' /\ MarkedFailure'
  BY <1>0, <1>1, <1>2, <1>5 DEF TimelineTyped, WorkerSound
<1>7. FramesOrdered(frames, sid, lastPos, lastSeek, paused)'
  BY <1>0, <1>1, TailOrdered
<1>8. (StartAfter(frames', 0) <=> StartAfter(frames, 1)) /\ (ReliefAfter(frames',
        0) <=> ReliefAfter(frames, 1))
  BY <1>1, TailAfter, 0 + 1 = 1
<1>9. /\ StartAfter(frames, 0) <=> StartAfter(frames, 1) \/ m.kind = "start"
      /\ ReliefAfter(frames, 0) <=> ReliefAfter(frames, 1) \/ m.kind \in {"start", "resume"}
  <2>1. \A j \in 1 .. Len(frames) : j > 0 <=> j > 1 \/ j = 1
    BY <1>2
  <2>2. 1 \in 1 .. Len(frames) /\ 1 > 0
    BY <1>2
  <2>3. QED
    BY <1>2, <2>1, <2>2 DEF StartAfter, ReliefAfter
<1>10. ASSUME ~StartAfter(frames', 0)
       PROVE  /\ m.sid = sid /\ m.at <= lastPos /\ lastSeek <= m.at
              /\ \A i \in 1 .. Len(frames') : m.at <= frames'[i].at
  <2>1. ~StartAfter(frames, 1) /\ 1 \in 1 .. Len(frames)
    BY <1>2, <1>8, <1>10
  <2>2. \A j \in 1 .. Len(frames) : m.at <= frames[j].at
    BY <1>0, <1>2, <2>1 DEF FramesOrdered
  <2>3. \A i \in 1 .. Len(frames') : i + 1 \in 1 .. Len(frames) /\ frames'[i] = frames[i + 1]
    BY <1>2
  <2>4. QED
    BY <1>0, <1>2, <2>1, <2>2, <2>3 DEF FramesOrdered
<1>11. ASSUME ~StartAfter(frames', 0), m.kind # "start"
       PROVE  /\ w.sid = sid /\ lastSeek <= w.cur
              /\ w.cur <= lastPos \/ (lastPos = Timeline!None /\ w.cur = 0)
              /\ w.cur <= m.at
              /\ \A i \in 1 .. Len(frames') : w.cur <= frames'[i].at
  <2>1. ~StartAfter(frames, 0)
    BY <1>8, <1>9, <1>11
  <2>2. \A i \in 1 .. Len(frames') : i + 1 \in 1 .. Len(frames) /\ frames'[i] = frames[i + 1]
    BY <1>2
  <2>3. 1 \in 1 .. Len(frames)
    BY <1>2
  <2>4. QED
    BY <1>0, <1>2, <2>1, <2>2, <2>3 DEF InSession
<1>12. InSession'
  <2> SUFFICES ASSUME ~StartAfter(frames', 0)
               PROVE  /\ w'.sid = sid /\ lastSeek <= w'.cur
                      /\ w'.cur <= lastPos \/ (lastPos = Timeline!None /\ w'.cur = 0)
                      /\ \A i \in 1 .. Len(frames') : w'.cur <= frames'[i].at
    BY <1>1 DEF InSession
  <2>1. CASE m.kind = "start"
    <3>1. w'.sid = m.sid /\ w'.cur = m.at
      BY <1>4, <2>1 DEF Handled
    <3>2. QED
      BY <1>10, <3>1
  <2>2. CASE m.kind # "start"
    <3>1. w'.sid = w.sid /\ w'.cur \in {w.cur, m.at}
      BY <1>4, <2>2 DEF Handled
    <3>2. QED
      BY <1>10, <1>11, <2>2, <3>1
  <2>3. QED
    BY <2>1, <2>2
<1>13. NothingLost'
  <2> SUFFICES ASSUME w'.active, ~spoiled', ~paused, ~ReliefAfter(frames', 0),
                      NEW t \in w'.cur .. w'.dec - 1
               PROVE  t >= cutAt' \/ t \in shown \cup lost \/ OnItsWay(wire, t) \/ OnItsWay(pool', t)
    BY <1>1 DEF NothingLost, OnItsWay
  <2>0. ~StartAfter(frames', 0)
    BY DEF StartAfter, ReliefAfter
  <2>1. w'.dec \in Nat /\ w'.cur \in Nat /\ w.cur \in Nat /\ m.at \in Nat
    BY <1>2, <1>3, <1>5 DEF WorkerSound, Sessions, PolledFrames
  <2>2. w'.dec # w'.cur
    BY <2>1
  <2>3. ~Drops(m)
    <3>1. 1 \in 1 .. Len(frames)
      BY <1>2
    <3>2. QED
      BY <1>0, <1>2, <1>8, <3>1 DEF FramesOrdered
  <2>4. /\ m.kind \in {"start", "resume"} => m.kind # "start" /\ ~(w.active /\ m.sid = w.sid)
        /\ w'.dec = w.dec /\ w'.active = w.active
        /\ cutAt' = cutAt /\ pool' = pool /\ spoiled' = spoiled
    BY <1>4, <2>2, <2>3 DEF Handled
  <2>5. m.kind # "start" /\ w'.cur \in {w.cur, m.at}
    BY <1>4, <2>4 DEF Handled
  <2>6. m.sid = w.sid /\ w.cur <= m.at
    BY <1>10, <1>11, <2>0, <2>5
  <2>7. ~ReliefAfter(frames, 0)
    BY <1>8, <1>9, <2>4, <2>6
  <2>8. t \in w.cur .. w.dec - 1
    BY <2>1, <2>4, <2>5, <2>6
  <2>9. QED
    BY <1>0, <2>4, <2>7, <2>8 DEF NothingLost
<1>14. QED
  BY <1>6, <1>7, <1>12, <1>13 DEF TimelineInv

-----------------------------------------------------------------------------
\* What a poll sends: all at the position read, of the session before it unless the position was
\* sought, with the pause flag only in a pause, a RESUME where a pause ends and a START at a seek.
LEMMA PollSends ==
    ASSUME TimelineTyped, Timeline!Poll
    PROVE  /\ frames' \in Seq(PolledFrames) /\ Len(frames) \in Nat /\ Len(frames') \in Nat
           /\ Len(frames) < Len(frames')
           /\ \A i \in 1 .. Len(frames) : frames'[i] = frames[i]
           /\ \A i \in Len(frames) + 1 .. Len(frames') :
                 /\ frames'[i].at = pos
                 /\ ~Timeline!Sought => frames'[i].kind # "start" /\ frames'[i].sid = sid
                 /\ Drops(frames'[i]) => halted
           /\ Timeline!Sought => \E k \in Len(frames) + 1 .. Len(frames') :
                                    /\ frames'[k].kind = "start"
                                    /\ \A i \in k .. Len(frames') : frames'[i].sid = sid + 1
           /\ ~halted /\ paused => \E k \in Len(frames) + 1 .. Len(frames') : frames'[k].kind = "resume"
<1> DEFINE a == Timeline!Frame("position", sid, halted)
           b == Timeline!Frame(IF halted THEN "pause" ELSE "resume", sid, FALSE)
           c == Timeline!Frame("start", sid + 1, FALSE)
           d == Timeline!Frame("position", sid + 1, halted)
           toggle == IF halted = paused THEN <<>> ELSE <<b>>
           seek == IF Timeline!Sought THEN <<c, d>> ELSE <<>>
           n == Len(frames)
           f1 == frames \o <<a>>
           f2 == f1 \o toggle
           f3 == f2 \o seek
<1>0. pos \in Nat /\ halted \in BOOLEAN /\ sid \in Nat /\ paused \in BOOLEAN
        /\ frames \in Seq(PolledFrames)
  BY DEF TimelineTyped
<1>1. frames' = f3
  BY DEF Timeline!Poll, Timeline!SeekFrames
<1>2. a \in PolledFrames /\ b \in PolledFrames /\ c \in PolledFrames /\ d \in PolledFrames
  BY <1>0 DEF Timeline!Frame, PolledFrames
<1>3. /\ a.kind = "position" /\ a.sid = sid /\ a.at = pos /\ a.halt = halted
      /\ b.kind \in {"pause", "resume"} /\ (b.kind = "pause" <=> halted) /\ b.sid = sid /\ b.at = pos
      /\ c.kind = "start" /\ c.sid = sid + 1 /\ c.at = pos
      /\ d.kind = "position" /\ d.sid = sid + 1 /\ d.at = pos /\ d.halt = halted
  BY <1>0 DEF Timeline!Frame
<1> HIDE DEF a, b, c, d
<1>4. n \in Nat /\ f1 \in Seq(PolledFrames) /\ Len(f1) = n + 1
      /\ (\A i \in 1 .. n : f1[i] = frames[i]) /\ f1[n + 1] = a
  <2>1. <<a>> \in Seq(PolledFrames) /\ Len(<<a>>) = 1 /\ <<a>>[1] = a /\ n \in Nat
    BY <1>0, <1>2, LenProperties
  <2>2. f1 \in Seq(PolledFrames) /\ Len(f1) = n + Len(<<a>>)
        /\ \A i \in 1 .. n + Len(<<a>>) : f1[i] = IF i <= n THEN frames[i] ELSE <<a>>[i - n]
    BY <1>0, <2>1, ConcatProperties
  <2>3. QED
    BY <2>1, <2>2
<1> HIDE DEF f1
<1>5. CASE halted = paused
  <2>1. f2 = f1
    BY <1>4, <1>5, ConcatEmptySeq
  <2>2. CASE ~Timeline!Sought
    <3>1. frames' = f1
      BY <1>1, <1>4, <2>1, <2>2, ConcatEmptySeq
    <3>2. \A i \in n + 1 .. n + 1 : f1[i] = a
      BY <1>4
    <3>3. QED
      BY <1>0, <1>3, <1>4, <1>5, <2>2, <3>1, <3>2 DEF Drops
  <2>3. CASE Timeline!Sought
    <3>1. frames' = f1 \o <<c, d>>
      BY <1>1, <2>1, <2>3
    <3>2. <<c, d>> \in Seq(PolledFrames) /\ Len(<<c, d>>) = 2 /\ <<c, d>>[1] = c /\ <<c, d>>[2] = d
      BY <1>2
    <3>3. frames' \in Seq(PolledFrames) /\ Len(frames') = n + 3
          /\ (\A i \in 1 .. n : frames'[i] = frames[i])
          /\ frames'[n + 1] = a /\ frames'[n + 2] = c /\ frames'[n + 3] = d
      BY <1>4, <3>1, <3>2, ConcatProperties
    <3>4. \A i \in n + 1 .. n + 3 : i = n + 1 \/ i = n + 2 \/ i = n + 3
      BY <1>4
    <3>5. n + 2 \in n + 1 .. n + 3 /\ \A i \in n + 2 .. n + 3 : i = n + 2 \/ i = n + 3
      BY <1>4
    <3>6. \A i \in n + 1 .. Len(frames') : frames'[i].at = pos /\ (Drops(frames'[i]) => halted)
      BY <1>0, <1>3, <3>3, <3>4 DEF Drops
    <3>7. \E k \in n + 1 .. Len(frames') :
             frames'[k].kind = "start" /\ \A i \in k .. Len(frames') : frames'[i].sid = sid + 1
      BY <1>3, <3>3, <3>5
    <3>8. QED
      BY <1>3, <1>4, <1>5, <2>3, <3>3, <3>5, <3>6, <3>7
  <2>4. QED
    BY <2>2, <2>3
<1>6. CASE halted # paused
  <2>1. f2 = f1 \o <<b>>
    BY <1>6
  <2>2. f2 \in Seq(PolledFrames) /\ Len(f2) = n + 2
        /\ (\A i \in 1 .. n : f2[i] = frames[i]) /\ f2[n + 1] = a /\ f2[n + 2] = b
    <3>1. <<b>> \in Seq(PolledFrames) /\ Len(<<b>>) = 1 /\ <<b>>[1] = b
      BY <1>2
    <3>2. QED
      BY <1>4, <2>1, <3>1, ConcatProperties
  <2> HIDE DEF f2
  <2>3. ~halted /\ paused => b.kind = "resume"
    BY <1>0, <1>3
  <2>4. CASE ~Timeline!Sought
    <3>1. frames' = f2
      BY <1>1, <2>2, <2>4, ConcatEmptySeq
    <3>2. n + 2 \in n + 1 .. n + 2 /\ \A i \in n + 1 .. n + 2 : i = n + 1 \/ i = n + 2
      BY <1>4
    <3>3. \A i \in n + 1 .. Len(frames') :
             frames'[i].at = pos /\ frames'[i].kind # "start" /\ frames'[i].sid = sid
      BY <1>3, <2>2, <3>1, <3>2
    <3>4. \A i \in n + 1 .. Len(frames') : Drops(frames'[i]) => halted
      BY <1>0, <1>3, <2>2, <3>1, <3>2 DEF Drops
    <3>5. QED
      BY <1>4, <2>2, <2>3, <2>4, <3>1, <3>2, <3>3, <3>4
  <2>5. CASE Timeline!Sought
    <3>1. frames' = f2 \o <<c, d>>
      BY <1>1, <2>5
    <3>2. <<c, d>> \in Seq(PolledFrames) /\ Len(<<c, d>>) = 2 /\ <<c, d>>[1] = c /\ <<c, d>>[2] = d
      BY <1>2
    <3>3. frames' \in Seq(PolledFrames) /\ Len(frames') = n + 4
          /\ (\A i \in 1 .. n : frames'[i] = frames[i])
          /\ frames'[n + 1] = a /\ frames'[n + 2] = b /\ frames'[n + 3] = c /\ frames'[n + 4] = d
      BY <1>4, <2>2, <3>1, <3>2, ConcatProperties
    <3>4. \A i \in n + 1 .. n + 4 : i = n + 1 \/ i = n + 2 \/ i = n + 3 \/ i = n + 4
      BY <1>4
    <3>5. /\ n + 2 \in n + 1 .. n + 4 /\ n + 3 \in n + 1 .. n + 4
          /\ \A i \in n + 3 .. n + 4 : i = n + 3 \/ i = n + 4
      BY <1>4
    <3>6. \A i \in n + 1 .. Len(frames') : frames'[i].at = pos /\ (Drops(frames'[i]) => halted)
      BY <1>0, <1>3, <3>3, <3>4 DEF Drops
    <3>7. \E k \in n + 1 .. Len(frames') :
             frames'[k].kind = "start" /\ \A i \in k .. Len(frames') : frames'[i].sid = sid + 1
      BY <1>3, <3>3, <3>5
    <3>8. ~halted /\ paused => \E k \in n + 1 .. Len(frames') : frames'[k].kind = "resume"
      BY <2>3, <3>3, <3>5
    <3>9. n + 4 \in Nat /\ n < n + 4
      BY <1>4
    <3>10. QED
      BY <1>4, <2>5, <3>3, <3>6, <3>7, <3>8, <3>9
  <2>6. QED
    BY <2>4, <2>5
<1>7. QED
  BY <1>5, <1>6

LEMMA PollKeepsTimeline ==
    ASSUME TimelineInv, Timeline!Poll
    PROVE  TimelineInv'
<1> DEFINE n == Len(frames)
           f == frames'
<1>0. /\ TimelineTyped /\ Timeline!AnchorIsTrue /\ MarkedFailure /\ InSession /\ NothingLost
      /\ FramesOrdered(frames, sid, lastPos, lastSeek, paused)
  BY DEF TimelineInv
<1>1. /\ f \in Seq(PolledFrames) /\ n \in Nat /\ Len(f) \in Nat /\ n < Len(f)
      /\ \A i \in 1 .. n : f[i] = frames[i]
  BY <1>0, PollSends
<1>2. /\ \A i \in n + 1 .. Len(f) : f[i].at = pos /\ (Drops(f[i]) => halted)
      /\ ~Timeline!Sought => \A i \in n + 1 .. Len(f) : f[i].kind # "start" /\ f[i].sid = sid
      /\ Timeline!Sought => \E k \in n + 1 .. Len(f) :
                               f[k].kind = "start" /\ \A i \in k .. Len(f) : f[i].sid = sid + 1
      /\ ~halted /\ paused => \E k \in n + 1 .. Len(f) : f[k].kind = "resume"
  BY <1>0, PollSends
<1>3. /\ sid' = IF Timeline!Sought THEN sid + 1 ELSE sid
      /\ lastSeek' = IF Timeline!Sought THEN pos
                      ELSE IF Timeline!Rated THEN Timeline!None ELSE lastSeek
      /\ paused' = halted /\ lastPos' = pos
      /\ pos' = pos /\ halted' = halted
      /\ shown' = IF Timeline!Restarts \/ Timeline!Rated THEN {} ELSE shown
      /\ lost' = IF Timeline!Restarts THEN {} ELSE IF Timeline!Rated THEN lost \cup shown ELSE lost
      /\ w' = w /\ wire' = wire /\ pool' = pool /\ reached' = reached /\ cutAt' = cutAt
      /\ translates' = translates /\ spoiled' = spoiled /\ tries' = tries
  BY DEF Timeline!Poll, Timeline!player, Timeline!failures
<1>4. pos \in Nat /\ w.cur \in Nat /\ lastPos \in Nat \cup {Timeline!None}
        /\ lastSeek \in Nat \cup {Timeline!None}
      /\ \A i \in 1 .. n : frames[i].at \in Nat
  <2>1. \A i \in 1 .. n : frames[i] \in PolledFrames
    BY <1>0, ElementOfSeq DEF TimelineTyped
  <2>2. QED
    BY <1>0, <2>1 DEF TimelineTyped, Sessions, PolledFrames
<1>5. ~Timeline!Sought => lastPos <= pos
  <2>1. Timeline!None = -1
    BY DEF Timeline!None
  <2>2. QED
    BY <1>4, <2>1 DEF Timeline!Sought
<1>6. ~Timeline!Sought => lastSeek' <= pos /\ \A x \in Nat : lastSeek <= x => lastSeek' <= x
  BY <1>0, <1>3, <1>4, <1>5 DEF TimelineTyped, Timeline!None
<1>7. TimelineTyped' /\ Timeline!AnchorIsTrue' /\ MarkedFailure'
  <2>1. sid' \in Nat /\ lastSeek' \in Nat \cup {Timeline!None} /\ lastPos' \in Nat \cup {Timeline!None}
    BY <1>0, <1>3 DEF TimelineTyped
  <2>2. lastSeek' <= lastPos'
    BY <1>3, <1>4, <1>6
  <2>3. QED
    BY <1>0, <1>1, <1>3, <2>1, <2>2 DEF TimelineTyped, Timeline!AnchorIsTrue, MarkedFailure
<1> HIDE DEF f, n
<1>8. \A i \in 1 .. Len(f) : i \in 1 .. n \/ i \in n + 1 .. Len(f)
  BY <1>1
<1>9. \A i \in 1 .. n : i \in 1 .. Len(f) /\ \A j \in n + 1 .. Len(f) : j > i /\ j \in 1 .. Len(f)
  BY <1>1
<1>10. ASSUME ~Timeline!Sought, NEW i \in Nat
      PROVE  StartAfter(f, i) <=> StartAfter(frames, i)
  BY <1>1, <1>2, <1>8, <1>9, <1>10 DEF StartAfter, n
<1>11. ASSUME NEW i \in Nat, ReliefAfter(frames, i)
       PROVE  ReliefAfter(f, i)
  BY <1>1, <1>9, <1>11 DEF ReliefAfter, n
<1>12. FramesOrdered(f, sid', lastPos', lastSeek', paused')
  <2> SUFFICES ASSUME NEW i \in 1 .. Len(f)
               PROVE  /\ ~StartAfter(f, i) =>
                            /\ f[i].sid = sid' /\ f[i].at <= lastPos' /\ lastSeek' <= f[i].at
                            /\ \A j \in i .. Len(f) : f[i].at <= f[j].at
                      /\ Drops(f[i]) => paused' \/ ReliefAfter(f, i)
    BY DEF FramesOrdered
  <2>0. i \in Nat /\ \A j \in i .. Len(f) : j \in 1 .. Len(f)
    BY <1>1
  <2>1. CASE i \in 1 .. n
    <3>1. f[i] = frames[i] /\ f[i].at \in Nat
      BY <1>1, <1>4, <2>1
    <3>2. Drops(f[i]) => paused' \/ ReliefAfter(f, i)
      <4> SUFFICES ASSUME Drops(f[i]), ~halted
                   PROVE  ReliefAfter(f, i)
        BY <1>3
      <4>1. CASE paused
        <5>1. PICK k \in n + 1 .. Len(f) : f[k].kind = "resume"
          BY <1>2, <4>1
        <5>2. QED
          BY <1>9, <2>1, <5>1 DEF ReliefAfter
      <4>2. CASE ~paused
        BY <1>0, <1>11, <2>0, <2>1, <3>1, <4>2 DEF FramesOrdered, n
      <4>3. QED
        BY <4>1, <4>2
    <3>3. CASE Timeline!Sought
      <4>1. StartAfter(f, i)
        BY <1>2, <1>9, <2>1, <3>3 DEF StartAfter
      <4>2. QED
        BY <3>2, <4>1
    <3>4. CASE ~Timeline!Sought
      <4> SUFFICES ASSUME ~StartAfter(f, i)
                   PROVE  /\ f[i].sid = sid /\ f[i].at <= pos /\ lastSeek' <= f[i].at
                          /\ \A j \in i .. Len(f) : f[i].at <= f[j].at
        BY <1>3, <3>2, <3>4
      <4>1. /\ f[i].sid = sid /\ f[i].at <= lastPos /\ lastSeek <= f[i].at
            /\ \A j \in i .. n : f[i].at <= frames[j].at
        <5>1. ~StartAfter(frames, i)
          BY <1>10, <2>0, <3>4
        <5>2. QED
          BY <1>0, <2>1, <3>1, <5>1 DEF FramesOrdered, n
      <4>2. f[i].at <= pos
        BY <1>4, <1>5, <3>1, <3>4, <4>1 DEF Timeline!None
      <4>3. \A j \in i .. Len(f) : (j \in i .. n /\ j \in 1 .. n) \/ j \in n + 1 .. Len(f)
        BY <1>1
      <4>4. QED
        BY <1>1, <1>2, <1>6, <3>1, <3>4, <4>1, <4>2, <4>3
    <3>5. QED
      BY <3>3, <3>4
  <2>2. CASE i \in n + 1 .. Len(f)
    <3>1. f[i].at = pos /\ (Drops(f[i]) => paused')
      BY <1>2, <1>3, <2>2
    <3>2. \A j \in i .. Len(f) : j \in n + 1 .. Len(f)
      BY <1>1, <2>2
    <3>3. f[i].at <= lastPos' /\ \A j \in i .. Len(f) : f[i].at <= f[j].at
      BY <1>2, <1>3, <1>4, <3>1, <3>2
    <3>4. CASE ~Timeline!Sought
      <4>1. lastSeek' <= pos
        BY <1>6, <3>4
      <4>2. QED
        BY <1>2, <1>3, <2>2, <3>1, <3>3, <3>4, <4>1
    <3>5. CASE Timeline!Sought
      <4>1. PICK k \in n + 1 .. Len(f) :
               f[k].kind = "start" /\ \A j \in k .. Len(f) : f[j].sid = sid + 1
        BY <1>2, <3>5
      <4>2. ~StartAfter(f, i) => i \in k .. Len(f)
        BY <1>1, <4>1, <2>2 DEF StartAfter
      <4>3. QED
        BY <1>3, <1>4, <3>1, <3>3, <3>5, <4>1, <4>2
    <3>6. QED
      BY <3>4, <3>5
  <2>3. QED
    BY <1>8, <2>1, <2>2
<1>13. InSession'
  <2>1. CASE Timeline!Sought
    <3>1. StartAfter(f, 0)
      BY <1>1, <1>2, <2>1 DEF StartAfter
    <3>2. QED
      BY <3>1 DEF InSession, f
  <2>2. CASE ~Timeline!Sought
    <3> SUFFICES ASSUME ~StartAfter(f, 0)
                 PROVE  /\ w.sid = sid /\ lastSeek' <= w.cur /\ w.cur <= pos
                        /\ \A i \in 1 .. Len(f) : w.cur <= f[i].at
      BY <1>3, <2>2 DEF InSession, f
    <3>1. ~StartAfter(frames, 0)
      BY <1>10, <2>2
    <3>2. /\ w.sid = sid /\ lastSeek <= w.cur
          /\ w.cur <= lastPos \/ (lastPos = Timeline!None /\ w.cur = 0)
          /\ \A i \in 1 .. n : w.cur <= frames[i].at
      BY <1>0, <3>1 DEF InSession, n
    <3>3. w.cur <= pos
      BY <1>4, <1>5, <2>2, <3>2 DEF Timeline!None
    <3>4. QED
      BY <1>1, <1>2, <1>4, <1>6, <1>8, <2>2, <3>2, <3>3
  <2>3. QED
    BY <2>1, <2>2
<1>14. NothingLost'
  <2>1. CASE halted
    BY <1>3, <2>1 DEF NothingLost
  <2>2. CASE Timeline!Sought
    <3>1. ReliefAfter(f, 0)
      BY <1>1, <1>2, <2>2 DEF ReliefAfter
    <3>2. QED
      BY <3>1 DEF NothingLost, f
  <2>3. CASE ~halted /\ paused
    <3>1. ReliefAfter(f, 0)
      BY <1>1, <1>2, <2>3 DEF ReliefAfter
    <3>2. QED
      BY <3>1 DEF NothingLost, f
  <2>4. CASE ~halted /\ ~paused /\ ~Timeline!Sought
    <3>1. shown' \cup lost' = shown \cup lost /\ sid' = sid
      BY <1>0, <1>3, <2>4 DEF TimelineTyped, Timeline!Restarts
    <3>2. ReliefAfter(frames, 0) => ReliefAfter(f, 0)
      BY <1>11
    <3>3. \A t : (OnItsWay(wire, t)' <=> OnItsWay(wire, t)) /\ (OnItsWay(pool, t)' <=> OnItsWay(pool,
            t))
      BY <1>3, <3>1 DEF OnItsWay
    <3>4. QED
      BY <1>0, <1>3, <2>4, <3>1, <3>2, <3>3 DEF NothingLost, f
  <2>5. QED
    BY <2>1, <2>2, <2>3, <2>4
<1>15. QED
  BY <1>7, <1>12, <1>13, <1>14 DEF TimelineInv, f

-----------------------------------------------------------------------------
\* The captions of a .. b - 1 go to the pool or to the plugin, behind what is there.
LEMMA EmitDoes ==
    ASSUME NEW a \in Nat, NEW b \in Nat, a <= b, Timeline!Emit(a, b), w.sid \in Nat,
           wire \in Seq(Cues), pool \in Seq(Cues)
    PROVE  /\ wire' \in Seq(Cues) /\ pool' \in Seq(Cues)
           /\ \A i \in 1 .. Len(wire) : i \in 1 .. Len(wire') /\ wire'[i] = wire[i]
           /\ \A i \in 1 .. Len(pool) : i \in 1 .. Len(pool') /\ pool'[i] = pool[i]
           /\ \A t \in a .. b - 1 : \/ \E i \in 1 .. Len(wire') : wire'[i] = [sid |-> w.sid, at |-> t]
                                    \/ \E i \in 1 .. Len(pool') : pool'[i] = [sid |-> w.sid, at |-> t]
<1>0. PICK n \in Nat : n = b - a
  OBVIOUS
<1> DEFINE cue(i) == [sid |-> w.sid, at |-> a + i - 1]
           cues == [i \in 1 .. n |-> cue(i)]
<1>1. \A i \in 1 .. n : cue(i) \in Cues
  BY DEF Cues
<1>2. cues \in Seq(Cues) /\ Len(cues) = n /\ \A i \in 1 .. n : cues[i] = cue(i)
  <2> HIDE DEF cue
  <2>1. QED
    BY <1>1
<1>3. \A t \in a .. b - 1 : t - a + 1 \in 1 .. n /\ cue(t - a + 1) = [sid |-> w.sid, at |-> t]
  BY <1>0
<1> HIDE DEF cues
<1>4. ASSUME NEW s \in Seq(Cues)
      PROVE  /\ s \o cues \in Seq(Cues)
             /\ \A i \in 1 .. Len(s) : i \in 1 .. Len(s \o cues) /\ (s \o cues)[i] = s[i]
             /\ \A t \in a .. b - 1 : \E i \in 1 .. Len(s \o cues) :
                   (s \o cues)[i] = [sid |-> w.sid, at |-> t]
  <2> DEFINE z == s \o cues
  <2>1. z \in Seq(Cues) /\ Len(s) \in Nat /\ Len(z) = Len(s) + Len(cues)
        /\ \A i \in 1 .. Len(s) + Len(cues) : z[i] = IF i <= Len(s) THEN s[i] ELSE cues[i - Len(s)]
    BY <1>2, ConcatProperties, LenProperties
  <2> HIDE DEF z
  <2>2. \A i \in 1 .. Len(s) : i \in 1 .. Len(z) /\ z[i] = s[i]
    BY <1>2, <2>1
  <2>3. \A k \in 1 .. n : Len(s) + k \in 1 .. Len(z) /\ z[Len(s) + k] = cues[k]
    <3>1. PICK l \in Nat : l = Len(s)
      BY <2>1
    <3>2. SUFFICES ASSUME NEW k \in 1 .. n
                   PROVE  l + k \in 1 .. Len(z) /\ z[l + k] = cues[k]
      BY <3>1
    <3>3. l + k \in 1 .. l + n /\ ~(l + k <= l) /\ (l + k) - l = k
      OBVIOUS
    <3>4. QED
      BY <1>2, <2>1, <3>1, <3>3
  <2>4. \A t \in a .. b - 1 : \E i \in 1 .. Len(z) : z[i] = [sid |-> w.sid, at |-> t]
    <3> SUFFICES ASSUME NEW t \in a .. b - 1
                 PROVE  \E i \in 1 .. Len(z) : z[i] = [sid |-> w.sid, at |-> t]
      OBVIOUS
    <3>1. t - a + 1 \in 1 .. n /\ cues[t - a + 1] = [sid |-> w.sid, at |-> t]
      BY <1>2, <1>3
    <3>2. QED
      BY <2>3, <3>1
  <2>5. QED
    BY <2>1, <2>2, <2>4 DEF z
<1>5. CASE translates /\ pool' = pool \o cues /\ wire' = wire
  BY SMTT(30), <1>4, <1>5
<1>6. CASE ~translates /\ wire' = wire \o cues /\ pool' = pool
  BY ZenonT(60), <1>4, <1>6
<1>7. QED
  BY <1>0, <1>5, <1>6 DEF Timeline!Emit, cues

\* A step of the decoder that moves it on and cuts the window at b.
LEMMA EmitKeeps ==
    ASSUME TimelineInv, NEW b \in Nat, cutAt <= b, Timeline!Emit(cutAt, b),
           b <= reached', reached' \in Nat, cutAt' = b, reached <= reached',
           w' \in Sessions, w'.sid = w.sid, w'.cur = w.cur, w'.pend = w.pend, w'.active = w.active,
           w.active, w'.dec = reached', reached' # reached => reached' = reached + 1,
           UNCHANGED <<Timeline!player, Timeline!plugin, frames, translates, Timeline!failures>>
    PROVE  TimelineInv'
<1>0. /\ TimelineTyped /\ Timeline!AnchorIsTrue /\ MarkedFailure /\ InSession /\ NothingLost
      /\ FramesOrdered(frames, sid, lastPos, lastSeek, paused)
  BY DEF TimelineInv
<1>1. /\ UNCHANGED <<pos, halted, sid, paused, lastPos, lastSeek, shown, lost, frames, translates>>
      /\ UNCHANGED <<spoiled, tries>>
  BY DEF Timeline!player, Timeline!plugin, Timeline!failures
<1>2. /\ wire' \in Seq(Cues) /\ pool' \in Seq(Cues)
      /\ \A i \in 1 .. Len(wire) : i \in 1 .. Len(wire') /\ wire'[i] = wire[i]
      /\ \A i \in 1 .. Len(pool) : i \in 1 .. Len(pool') /\ pool'[i] = pool[i]
      /\ \A t \in cutAt .. b - 1 : \/ \E i \in 1 .. Len(wire') : wire'[i] = [sid |-> w.sid, at |-> t]
                                   \/ \E i \in 1 .. Len(pool') : pool'[i] = [sid |-> w.sid, at |-> t]
  <2>1. cutAt \in Nat /\ w.sid \in Nat /\ wire \in Seq(Cues) /\ pool \in Seq(Cues)
    BY <1>0 DEF TimelineTyped, Sessions
  <2>2. QED
    BY ZenonT(60), <2>1, EmitDoes
<1>3. TimelineTyped'
  BY <1>0, <1>1, <1>2 DEF TimelineTyped
<1>4. Timeline!AnchorIsTrue' /\ MarkedFailure'
  BY <1>0, <1>1 DEF Timeline!AnchorIsTrue, MarkedFailure
<1>5. FramesOrdered(frames, sid, lastPos, lastSeek, paused)' /\ InSession'
  BY <1>0, <1>1 DEF InSession
<1>6. NothingLost'
  <2> SUFFICES ASSUME ~spoiled, ~paused, ~ReliefAfter(frames, 0), NEW t \in w.cur .. w'.dec - 1
               PROVE  t >= b \/ t \in shown \cup lost \/ OnItsWay(wire', t) \/ OnItsWay(pool', t)
    BY <1>1 DEF NothingLost, OnItsWay
  <2>0. w.sid = sid
    BY <1>0 DEF InSession, StartAfter, ReliefAfter
  <2>1. reached \in Nat /\ cutAt \in Nat /\ cutAt <= reached /\ w.cur \in Nat /\ w.dec = reached
    BY <1>0 DEF TimelineTyped, Timeline!AnchorIsTrue, Sessions
  <2>2. CASE t >= cutAt
    <3>1. t >= b \/ t \in cutAt .. b - 1
      BY <2>1, <2>2
    <3>2. QED
      <4> SUFFICES ASSUME t \in cutAt .. b - 1
                   PROVE  OnItsWay(wire', t) \/ OnItsWay(pool', t)
        BY <3>1
      <4> DEFINE c == [sid |-> w.sid, at |-> t]
      <4>1. c.sid = sid /\ c.at = t
        BY <2>0
      <4>2. (\E i \in 1 .. Len(wire') : wire'[i] = c) \/ (\E i \in 1 .. Len(pool') : pool'[i] = c)
        BY <1>2
      <4>3. QED
        BY <4>1, <4>2 DEF OnItsWay
  <2>3. CASE t < cutAt
    <3>1. t \in w.cur .. w.dec - 1 /\ ~(t >= cutAt)
      BY <2>1, <2>3
    <3>2. t \in shown \cup lost \/ OnItsWay(wire, t) \/ OnItsWay(pool, t)
      BY <1>0, <3>1 DEF NothingLost
    <3>3. QED
      BY <1>2, <3>2 DEF OnItsWay
  <2>4. QED
    BY <2>1, <2>2, <2>3
<1>7. QED
  BY <1>3, <1>4, <1>5, <1>6 DEF TimelineInv

LEMMA DecodeKeeps ==
    ASSUME TimelineInv, Timeline!Decode \/ Timeline!Eof \/ Timeline!ReadFails
    PROVE  TimelineInv'
<1>0. TimelineTyped /\ MarkedFailure /\ Timeline!AnchorIsTrue
  BY DEF TimelineInv
<1>1. w \in Sessions /\ reached \in Nat /\ cutAt \in Nat /\ cutAt <= reached
  BY <1>0 DEF TimelineTyped
<1>2. CASE Timeline!Decode
  <2>1. PICK cut \in cutAt .. reached + 1 : cutAt' = cut /\ Timeline!Emit(cutAt, cut)
    BY <1>2 DEF Timeline!Decode
  <2>2. w.active /\ reached' = reached + 1 /\ w' = [w EXCEPT !.dec = reached + 1]
        /\ UNCHANGED <<Timeline!player, Timeline!plugin, frames, translates, Timeline!failures>>
    BY <1>2 DEF Timeline!Decode, Timeline!Decodes
  <2>3. w' \in Sessions /\ w'.sid = w.sid /\ w'.cur = w.cur /\ w'.pend = w.pend /\ w'.active = w.active
        /\ w'.dec = reached'
    <3>1. reached + 1 \in Nat
      BY <1>1
    <3>2. QED
      BY <1>1, <2>2, <3>1 DEF Sessions
  <2>4. cut \in Nat /\ cutAt <= cut /\ cut <= reached' /\ reached' \in Nat /\ reached <= reached'
    BY <1>1, <2>1, <2>2
  <2>5. QED
    BY <2>1, <2>2, <2>3, <2>4, EmitKeeps
<1>3. CASE Timeline!Eof
  <2>1. w.active /\ reached' = reached /\ cutAt' = reached /\ Timeline!Emit(cutAt, reached)
          /\ w' = [w EXCEPT !.eof = TRUE]
        /\ UNCHANGED <<Timeline!player, Timeline!plugin, frames, translates, Timeline!failures>>
    BY <1>3 DEF Timeline!Eof, Timeline!Decodes
  <2>2. w' \in Sessions /\ w'.sid = w.sid /\ w'.cur = w.cur /\ w'.pend = w.pend /\ w'.active = w.active
        /\ w'.dec = reached'
    BY <1>0, <1>1, <2>1 DEF Sessions, Timeline!AnchorIsTrue
  <2>3. reached <= reached' /\ reached' \in Nat
    BY <1>1, <2>1
  <2>4. QED
    BY <1>1, <2>1, <2>2, <2>3, EmitKeeps
<1>4. CASE Timeline!ReadFails
  <2>1. /\ w' = [w EXCEPT !.active = FALSE, !.eof = TRUE] /\ cutAt' = reached /\ pool' = <<>>
             /\ reached' = reached
        /\ UNCHANGED <<pos, halted, sid, paused, lastPos, lastSeek, shown, frames, wire, translates>>
        /\ UNCHANGED <<spoiled, tries>>
    BY <1>4 DEF Timeline!ReadFails, Timeline!player, Timeline!plugin, Timeline!failures
  <2>2. w' \in Sessions /\ w'.sid = w.sid /\ w'.cur = w.cur /\ w'.pend = w.pend /\ ~w'.active
    BY <1>1, <2>1 DEF Sessions
  <2>3. TimelineTyped'
    <3>1. pool' \in Seq(Cues) /\ cutAt' <= reached'
      BY <1>1, <2>1
    <3>2. QED
      BY <1>0, <1>1, <2>1, <2>2, <3>1 DEF TimelineTyped
  <2>4. Timeline!AnchorIsTrue' /\ MarkedFailure' /\ NothingLost'
    BY <1>0, <2>1, <2>2 DEF Timeline!AnchorIsTrue, MarkedFailure, NothingLost
  <2>5. FramesOrdered(frames, sid, lastPos, lastSeek, paused)' /\ InSession'
    BY <2>1, <2>2 DEF TimelineInv, InSession
  <2>6. QED
    BY <2>3, <2>4, <2>5 DEF TimelineInv
<1>5. QED
  BY <1>2, <1>3, <1>4

\* The first caption of s is taken out: one on its way is that or still is.
LEMMA HeadOnItsWay ==
    ASSUME NEW s \in Seq(Cues), s # <<>>, NEW t, OnItsWay(s, t)
    PROVE  \/ Head(s).sid = sid /\ Head(s).at = t
           \/ OnItsWay(Tail(s), t)
<1>1. /\ Tail(s) \in Seq(Cues) /\ Head(s) = s[1] /\ Len(s) \in Nat /\ Len(Tail(s)) = Len(s) - 1
      /\ \A i \in 1 .. Len(s) - 1 : Tail(s)[i] = s[i + 1]
  BY HeadTailProperties, LenProperties, EmptySeq
<1>2. PICK i \in 1 .. Len(s) : s[i].sid = sid /\ s[i].at = t
  BY DEF OnItsWay
<1>3. CASE i = 1
  BY <1>1, <1>2, <1>3
<1>4. CASE i # 1
  <2>1. i - 1 \in 1 .. Len(Tail(s)) /\ Tail(s)[i - 1] = s[i]
    BY <1>1, <1>4
  <2>2. QED
    BY <1>2, <2>1 DEF OnItsWay
<1>5. QED
  BY <1>3, <1>4

LEMMA CaptionsKeep ==
    ASSUME TimelineInv, Timeline!ShowCaption \/ Timeline!Translated
    PROVE  TimelineInv'
<1>0. /\ TimelineTyped /\ Timeline!AnchorIsTrue /\ MarkedFailure /\ InSession /\ NothingLost
      /\ FramesOrdered(frames, sid, lastPos, lastSeek, paused)
  BY DEF TimelineInv
<1>1. /\ UNCHANGED <<pos, halted, sid, paused, lastPos, lastSeek, lost, frames, translates>>
      /\ UNCHANGED <<w, reached, cutAt, spoiled, tries>>
  BY DEF Timeline!ShowCaption, Timeline!Translated, Timeline!player, Timeline!plugin, Timeline!failures
<1>2. wire \in Seq(Cues) /\ pool \in Seq(Cues)
  BY <1>0 DEF TimelineTyped
<1>3. Timeline!AnchorIsTrue' /\ MarkedFailure' /\ FramesOrdered(frames, sid, lastPos, lastSeek, paused)'
        /\ InSession'
  BY <1>0, <1>1 DEF Timeline!AnchorIsTrue, MarkedFailure, InSession
<1>4. ASSUME wire' \in Seq(Cues), pool' \in Seq(Cues),
             \A t : /\ ~paused /\ ~ReliefAfter(frames, 0) /\ t \in w.cur .. w.dec - 1
                    /\ t \in shown \/ OnItsWay(wire, t) \/ OnItsWay(pool, t)
                    => t \in shown' \/ OnItsWay(wire', t) \/ OnItsWay(pool', t)
      PROVE  TimelineInv'
  <2>1. TimelineTyped'
    BY <1>0, <1>1, <1>4 DEF TimelineTyped
  <2>2. NothingLost'
    <3> SUFFICES ASSUME w.active, ~spoiled, ~paused, ~ReliefAfter(frames, 0),
                        NEW t \in w.cur .. w.dec - 1
                 PROVE  t >= cutAt \/ t \in shown' \cup lost \/ OnItsWay(wire', t) \/ OnItsWay(pool', t)
      BY <1>1 DEF NothingLost, OnItsWay
    <3>1. t >= cutAt \/ t \in shown \cup lost \/ OnItsWay(wire, t) \/ OnItsWay(pool, t)
      BY <1>0 DEF NothingLost
    <3>2. QED
      BY <1>4, <3>1
  <2>3. QED
    BY <1>3, <2>1, <2>2 DEF TimelineInv
<1>5. CASE Timeline!ShowCaption
  <2>1. /\ wire # <<>> /\ wire' = Tail(wire) /\ pool' = pool
        /\ shown' = IF Head(wire).sid = sid /\ Head(wire).at >= lastSeek /\ ~paused
                    THEN shown \cup {Head(wire).at} ELSE shown
    BY <1>5 DEF Timeline!ShowCaption
  <2>2. ASSUME NEW t, ~paused, ~ReliefAfter(frames, 0), t \in w.cur .. w.dec - 1,
               OnItsWay(wire, t)
        PROVE  t \in shown' \/ OnItsWay(wire', t)
    <3>1. lastSeek <= w.cur
      BY <1>0, <2>2 DEF InSession, StartAfter, ReliefAfter
    <3>2. t >= lastSeek
      BY <1>0, <2>2, <3>1 DEF TimelineTyped, Sessions, Timeline!None
    <3>3. (Head(wire).sid = sid /\ Head(wire).at = t) \/ OnItsWay(Tail(wire), t)
      BY <1>2, <2>1, <2>2, HeadOnItsWay
    <3>4. QED
      BY <2>1, <2>2, <3>2, <3>3
  <2>3. wire' \in Seq(Cues) /\ \A t : t \in shown => t \in shown'
    BY <1>2, <2>1, HeadTailProperties
  <2>4. QED
    BY <1>2, <1>4, <2>1, <2>2, <2>3
<1>6. CASE Timeline!Translated
  <2>1. pool # <<>> /\ wire' = Append(wire, Head(pool)) /\ pool' = Tail(pool) /\ shown' = shown
    BY <1>6 DEF Timeline!Translated, Timeline!plugin
  <2>2. Head(pool) \in Cues /\ pool' \in Seq(Cues)
    BY <1>2, <2>1, HeadTailProperties
  <2>3. /\ wire' \in Seq(Cues) /\ Len(wire) \in Nat /\ Len(wire') = Len(wire) + 1
        /\ (\A i \in 1 .. Len(wire) : wire'[i] = wire[i]) /\ wire'[Len(wire) + 1] = Head(pool)
    BY <1>2, <2>1, <2>2, AppendProperties, LenProperties
  <2>4. Len(wire) + 1 \in 1 .. Len(wire') /\ \A i \in 1 .. Len(wire) : i \in 1 .. Len(wire')
    BY <2>3
  <2>5. \A t : OnItsWay(wire, t) => OnItsWay(wire', t)
    BY <2>3, <2>4 DEF OnItsWay
  <2>6. \A t : OnItsWay(pool, t) => OnItsWay(wire', t) \/ OnItsWay(pool', t)
    <3> SUFFICES ASSUME NEW t, OnItsWay(pool, t)
                 PROVE  OnItsWay(wire', t) \/ OnItsWay(pool', t)
      OBVIOUS
    <3>1. (Head(pool).sid = sid /\ Head(pool).at = t) \/ OnItsWay(Tail(pool), t)
      BY <1>2, <2>1, HeadOnItsWay
    <3>2. QED
      BY <2>1, <2>3, <2>4, <3>1 DEF OnItsWay
  <2>7. QED
    BY <1>4, <2>1, <2>2, <2>3, <2>5, <2>6
<1>7. QED
  BY <1>5, <1>6

LEMMA PlayerKeeps ==
    ASSUME TimelineInv, Timeline!TimelineConstants, Timeline!Play \/ Timeline!Jump
             \/ Timeline!ChangeRate \/ Timeline!Toggle \/ UNCHANGED Timeline!vars
    PROVE  TimelineInv'
<1>0. /\ TimelineTyped /\ Timeline!AnchorIsTrue /\ MarkedFailure /\ InSession /\ NothingLost
      /\ FramesOrdered(frames, sid, lastPos, lastSeek, paused)
  BY DEF TimelineInv
<1>1. /\ UNCHANGED <<sid, paused, lastPos, lastSeek, shown, lost, frames, wire, pool, translates>>
      /\ UNCHANGED <<w, reached, cutAt, spoiled, tries>>
  BY DEF Timeline!Play, Timeline!Jump, Timeline!ChangeRate, Timeline!Toggle, Timeline!vars, Timeline!player, Timeline!plugin,
     Timeline!failures
<1>2. Timeline!AnchorIsTrue' /\ MarkedFailure' /\ FramesOrdered(frames, sid, lastPos, lastSeek, paused)'
        /\ InSession'
  BY <1>0, <1>1 DEF Timeline!AnchorIsTrue, MarkedFailure, InSession
<1>3. NothingLost'
  BY <1>0, <1>1 DEF NothingLost, OnItsWay
<1>4. pos' \in Nat
  <2>1. pos \in Nat /\ Media \in Nat
    BY <1>0 DEF TimelineTyped, Timeline!TimelineConstants
  <2>2. pos' = pos + 1 \/ pos' \in 0 .. Media \/ pos' = pos
    BY DEF Timeline!Play, Timeline!Jump, Timeline!ChangeRate, Timeline!Toggle, Timeline!vars, Timeline!player
  <2>3. QED
    BY <2>1, <2>2
<1>5. halted' \in BOOLEAN
  <2>1. halted' = halted \/ halted' = (~halted)
    BY DEF Timeline!Play, Timeline!Jump, Timeline!ChangeRate, Timeline!Toggle, Timeline!vars, Timeline!player
  <2>2. QED
    BY <1>0, <2>1 DEF TimelineTyped
<1>6. TimelineTyped'
  BY <1>0, <1>1, <1>4, <1>5 DEF TimelineTyped
<1>7. QED
  BY <1>2, <1>3, <1>6 DEF TimelineInv

LEMMA TimelineInitially ==
    ASSUME Timeline!Init
    PROVE  TimelineInv
<1>1. w = Timeline!Session(1, 0) /\ frames = <<>> /\ wire = <<>> /\ pool = <<>> /\ reached = 0
        /\ cutAt = 0
      /\ lastPos = Timeline!None /\ lastSeek = Timeline!None /\ sid = 1 /\ tries = 0
  BY DEF Timeline!Init
<1>2. w \in Sessions /\ w.sid = 1 /\ w.cur = 0 /\ w.dec = 0
  BY <1>1 DEF Timeline!Session, Sessions
<1>3. frames \in Seq(PolledFrames) /\ wire \in Seq(Cues) /\ pool \in Seq(Cues) /\ Len(frames) = 0
  BY <1>1, EmptySeq
<1>4. pos \in Nat /\ sid \in Nat /\ reached \in Nat /\ cutAt \in Nat /\ cutAt <= reached
      /\ lastPos \in Nat \cup {Timeline!None} /\ lastSeek \in Nat \cup {Timeline!None}
           /\ lastSeek <= lastPos
  BY <1>1 DEF Timeline!Init, Timeline!None
<1>5. halted \in BOOLEAN /\ paused \in BOOLEAN /\ translates \in BOOLEAN /\ spoiled \in BOOLEAN
  BY Zenon DEF Timeline!Init
<1>6. TimelineTyped
  BY <1>2, <1>3, <1>4, <1>5 DEF TimelineTyped
<1>7. Timeline!AnchorIsTrue /\ MarkedFailure
  BY <1>1, <1>2 DEF Timeline!AnchorIsTrue, MarkedFailure
<1>8. FramesOrdered(frames, sid, lastPos, lastSeek, paused) /\ InSession
  BY <1>1, <1>2, <1>3 DEF FramesOrdered, InSession, Timeline!None
<1>9. NothingLost
  BY <1>2 DEF NothingLost
<1>10. QED
  BY <1>6, <1>7, <1>8, <1>9 DEF TimelineInv

\* The inductive invariant of source mode: frames in order behind the last START, the worker in
\* the plugin's session, and no caption lost without a RESUME or START on its way.
THEOREM TimelineInvariant ==
    ASSUME Timeline!TimelineConstants
    PROVE  Timeline!Spec => []TimelineInv
<1>1. Timeline!Init => TimelineInv
  BY TimelineInitially
<1>2. TimelineInv /\ [Timeline!Next]_Timeline!vars => TimelineInv'
  BY HandleKeepsTimeline, PollKeepsTimeline, DecodeKeeps, CaptionsKeep, PlayerKeeps DEF Timeline!Next,
     Timeline!Worker
<1>3. QED
  BY <1>1, <1>2, PTL DEF Timeline!Spec

\* For any file, lead, seek threshold, playback rates and any number of jumps, pauses, failures
\* and frames on their way: a source seek that fails leaves the anchor where the decoder is, and an implicit
\* one that failed is not tried again until a seek succeeds.
THEOREM TimelineFailuresContained ==
    ASSUME Timeline!TimelineConstants
    PROVE  Timeline!Spec => []Timeline!FailuresContained
<1>1. TimelineInv => Timeline!FailuresContained
  BY DEF TimelineInv, Timeline!FailuresContained, MarkedFailure, Timeline!RetriesSuppressed
<1>2. QED
  BY <1>1, TimelineInvariant, PTL

\* For all of these: once everything sent has arrived, every second from the playhead to the end
\* of what is decoded is on the screen or still in the window, or its caption was blanked for a
\* new playback rate.
THEOREM TimelineNoHoleAhead ==
    ASSUME Timeline!TimelineConstants
    PROVE  Timeline!Spec => []Timeline!NoHoleAhead
<1>1. TimelineInv => Timeline!NoHoleAhead
  <2> SUFFICES ASSUME TimelineInv, Timeline!Quiet, w.active, ~spoiled, NEW t \in w.cur .. w.dec - 1
               PROVE  t \in shown \/ t \in lost \/ t >= cutAt
    BY DEF Timeline!NoHoleAhead
  <2>1. ~ReliefAfter(frames, 0) /\ ~paused /\ ~OnItsWay(wire, t) /\ ~OnItsWay(pool, t)
    BY EmptySeq DEF Timeline!Quiet, ReliefAfter, OnItsWay
  <2>2. QED
    BY <2>1 DEF TimelineInv, NothingLost
<1>2. QED
  BY <1>1, TimelineInvariant, PTL

\* The timeline of the composition runs as SourceTimeline says.
LEMMA TimelineRuns == AudioSpec => Timeline!Spec
<1>1. AudioInit => Timeline!Init
  BY DEF AudioInit
<1>2. [AudioNext]_<<part, vars, lookVars, decVars, builderVars, timeVars>>
          => [Timeline!Next]_(Timeline!vars)
  <2>1. UNCHANGED timeVars => UNCHANGED Timeline!vars
    BY DEF timeVars, Timeline!vars, Timeline!player, Timeline!plugin, Timeline!failures
  <2>2. QED
    BY <2>1 DEF AudioNext
<1>3. QED
  BY <1>1, <1>2, PTL DEF AudioSpec, Timeline!Spec

\* The same of the composition that the run checks: a failed source seek keeps the anchor and is
\* not repeated.
THEOREM AudioFailuresContained == AudioSpec => []FailuresContained
<1>1. Timeline!Spec => []Timeline!FailuresContained
  BY WorkerAudioAssumption, TimelineFailuresContained
<1>2. QED
  BY <1>1, TimelineRuns, PTL DEF FailuresContained

\* And: no second ahead of the viewer goes uncaptioned but for what a new playback rate blanks.
THEOREM AudioNoHoleAhead == AudioSpec => []NoHoleAhead
<1>1. Timeline!Spec => []Timeline!NoHoleAhead
  BY WorkerAudioAssumption, TimelineNoHoleAhead
<1>2. QED
  BY <1>1, TimelineRuns, PTL DEF NoHoleAhead
=============================================================================
