------------------------ MODULE PluginThreadsProofs -------------------------
(***************************************************************************)
(* From audio to captions in the plugin: the resampler neither drifts nor  *)
(* loses samples, for every rate, chunk size and cut into blocks; the      *)
(* lock-free ring is a FIFO queue for every capacity; a session and the    *)
(* screen never mix both sides of a seek, for any number of seeks and      *)
(* pauses; and the presenter keeps its contract with VLC for any number of *)
(* video outputs.                                                          *)
(***************************************************************************)
EXTENDS PluginThreads, SequenceTheorems, TLAPS

-----------------------------------------------------------------------------
(* The resampler (AudioCapture).                                             *)

-----------------------------------------------------------------------------
(* Arithmetic.                                                              *)

\* A product grows by one factor when the other grows by one.
LEMMA OneMore == \A a, b \in Int : (a + 1) * b = a * b + b
    OBVIOUS

\* A quotient with its remainder is unique.
LEMMA DivUnique ==
    ASSUME NEW q \in Nat, NEW r \in Nat, NEW d \in Nat \ {0}, r < d
    PROVE  (q * d + r) \div d = q
<1> DEFINE k == (q * d + r) \div d
<1>1. k \in Int /\ k * d <= q * d + r /\ q * d + r < k * d + d
    OBVIOUS
<1>2. \A x, y \in Int : x < y => x * d + d <= y * d
    OBVIOUS
<1> QED
    BY <1>1, <1>2

\* Duration rounds up by less than a sample's worth.
LEMMA DurationUp ==
    ASSUME NEW n \in Nat
    PROVE  /\ Duration(n) \in Nat
           /\ n * Second <= Duration(n) * Target
           /\ Duration(n) * Target <= n * Second + Target - 1
<1>1. Target \in Nat \ {0} /\ n * Second \in Nat
    BY CaptureAssumption
<1>2. \A x \in Nat, t \in Nat \ {0} :
        /\ x \div t \in Nat /\ (x \div t) * t <= x /\ x < (x \div t) * t + t
    OBVIOUS
<1>3. n * Second + Target - 1 \in Nat
    BY <1>1
<1> QED
    BY <1>1, <1>2, <1>3 DEF Duration

-----------------------------------------------------------------------------
(* The inductive invariant.                                                 *)

\* What is made and what the accumulator still holds is what was fed, to the frame.
Exact == rate # 0 => made * rate + acc = first + fed * Target

\* A sample made is in the current chunk or in one pushed; an idle capture has no chunk.
InChunks == made = pushed + chunk /\ (pc = "idle" => chunk = 0)

\* The chunk begins where time stands, and no rounding is lost.
Stamped ==
    /\ start = cur
    /\ pc # "idle" => /\ start * Target >= full * (ChunkCap * Second)
                      /\ start * Target <= full * (ChunkCap * Second + Target - 1)

IInv == CaptureTypeOK /\ Exact /\ InChunks /\ Stamped

\* It holds at the start.
LEMMA InitIInv == Init => IInv
<1> SUFFICES ASSUME Init PROVE IInv
    OBVIOUS
<1>1. reset \in BOOLEAN
    BY DEF Init
<1>2. CaptureTypeOK
    BY <1>1, CaptureAssumption DEF Init, CaptureTypeOK
<1>3. Exact /\ InChunks /\ Stamped
    BY DEF Init, Exact, InChunks, Stamped
<1> QED BY <1>2, <1>3 DEF IInv

\* The accumulator of a new phase is below the rate.
LEMMA FirstPhaseBelow == \A r \in Rates : FirstPhase(r) \in Nat /\ FirstPhase(r) < r
    BY CaptureAssumption DEF FirstPhase

\* A push of a full chunk keeps the stamp within its bounds.
LEMMA PushStamps ==
    ASSUME CaptureTypeOK, Stamped, pc # "idle", Push(ChunkCap)
    PROVE  /\ start' = cur' /\ start' \in Nat /\ full' \in Nat
           /\ start' * Target >= full' * (ChunkCap * Second)
           /\ start' * Target <= full' * (ChunkCap * Second + Target - 1)
<1> DEFINE D == Duration(ChunkCap)
           L == ChunkCap * Second
           U == ChunkCap * Second + Target - 1
<1>1. /\ Target \in Nat /\ L \in Nat /\ U \in Nat /\ ChunkCap \in Nat
      /\ start \in Nat /\ full \in Nat /\ start = cur
    BY CaptureAssumption DEF CaptureTypeOK, Stamped
<1>2. D \in Nat /\ L <= D * Target /\ D * Target <= U
    BY <1>1, DurationUp
<1>3. start' = start + D /\ cur' = start + D /\ full' = full + 1
    BY <1>1 DEF Push
<1>4. start * Target >= full * L /\ start * Target <= full * U
    BY DEF Stamped
<1> HIDE DEF D, L, U
<1>5. (start + D) * Target = start * Target + D * Target
    BY <1>1, <1>2
<1>6. (full + 1) * L = full * L + L /\ (full + 1) * U = full * U + U
    BY <1>1, OneMore
<1>7. start * Target \in Int /\ D * Target \in Int /\ full * L \in Int /\ full * U \in Int
    BY <1>1, <1>2
<1>8. start' * Target >= full' * L /\ start' * Target <= full' * U
    BY <1>1, <1>2, <1>3, <1>4, <1>5, <1>6, <1>7
<1> QED
    BY <1>1, <1>2, <1>3, <1>8 DEF L, U

\* Every step keeps it.
LEMMA NextIInv == IInv /\ [Next]_vars => IInv'
<1> SUFFICES ASSUME IInv, [Next]_vars PROVE IInv'
    OBVIOUS
<1> USE CaptureAssumption
<1>1. CASE RequestReset
    BY <1>1 DEF RequestReset, IInv, CaptureTypeOK, Exact, InChunks, Stamped, phase
<1>2. CASE ValidAgain
    BY <1>2 DEF ValidAgain, IInv, CaptureTypeOK, Exact, InChunks, Stamped
<1>3. ASSUME NEW r \in Rates, NEW n \in 1 .. MaxBlock, BeginBlock(r, n) PROVE IInv'
    <2>1. FirstPhase(r) \in Nat /\ FirstPhase(r) < r
        BY FirstPhaseBelow
    <2>2. CaptureTypeOK'
        <3>1. reset' \in BOOLEAN
            BY <1>3 DEF BeginBlock
        <3>2. rate' = r /\ pc' = "frame" /\ acc' \in Nat /\ acc' < rate'
            <4>1. CASE RateBefore = r
                BY <1>3, <4>1 DEF BeginBlock, NewPhase, RateBefore, IInv, CaptureTypeOK
            <4>2. CASE RateBefore # r
                BY <1>3, <2>1, <4>2 DEF BeginBlock, NewPhase
            <4> QED BY <4>1, <4>2
        <3>3. {first', fed', made', pushed'} \subseteq Nat
            BY <1>3, <2>1 DEF BeginBlock, IInv, CaptureTypeOK, phase
        <3>4. todo' \in Nat /\ chunk' = 0 /\ start' = 0 /\ cur' = 0 /\ full' = 0 /\ total' \in Nat
            BY <1>3 DEF BeginBlock, IInv, CaptureTypeOK
        <3> QED BY <3>1, <3>2, <3>3, <3>4 DEF CaptureTypeOK
    <2>3. Exact' /\ InChunks'
        <3>1. CASE RateBefore = r
            BY <1>3, <3>1 DEF BeginBlock, NewPhase, RateBefore, IInv, CaptureTypeOK, Exact,
                              InChunks, phase
        <3>2. CASE RateBefore # r
            <4>1. first' = FirstPhase(r) /\ acc' = FirstPhase(r) /\ fed' = 0 /\ made' = 0 /\ pushed' = 0
                  /\ chunk' = 0 /\ rate' = r /\ pc' = "frame"
                BY <1>3, <3>2 DEF BeginBlock, NewPhase
            <4> QED BY <4>1, <2>1 DEF Exact, InChunks
        <3> QED BY <3>1, <3>2
    <2>4. Stamped'
        BY <1>3 DEF BeginBlock, Stamped
    <2> QED BY <2>2, <2>3, <2>4 DEF IInv
<1>4. ASSUME NEW n \in 1 .. MaxBlock, DropBlock(n) PROVE IInv'
    <2>1. reset' \in BOOLEAN
        BY <1>4 DEF DropBlock
    <2>2. total' \in Nat /\ UNCHANGED <<pc, todo, chunk, start, cur, full>> /\ pc = "idle"
        BY <1>4 DEF DropBlock, IInv, CaptureTypeOK
    <2>3. CASE reset
        <3>1. acc' = 0 /\ rate' = 0 /\ first' = 0 /\ fed' = 0 /\ made' = 0 /\ pushed' = 0
            BY <1>4, <2>3 DEF DropBlock
        <3> QED BY <2>1, <2>2, <3>1 DEF IInv, CaptureTypeOK, Exact, InChunks, Stamped
    <2>4. CASE ~reset
        <3>1. UNCHANGED <<acc, rate, first, fed, made, pushed>>
            BY <1>4, <2>4 DEF DropBlock, phase
        <3> QED BY <2>1, <2>2, <3>1 DEF IInv, CaptureTypeOK, Exact, InChunks, Stamped
    <2> QED BY <2>3, <2>4
<1>5. CASE NextFrame
    <2>1. CaptureTypeOK' /\ InChunks' /\ Stamped'
        BY <1>5 DEF NextFrame, IInv, CaptureTypeOK, InChunks, Stamped
    <2>2. Exact'
        <3>1. (fed + 1) * Target = fed * Target + Target
            BY OneMore DEF IInv, CaptureTypeOK
        <3> QED BY <1>5, <3>1 DEF NextFrame, IInv, CaptureTypeOK, Exact
    <2> QED BY <2>1, <2>2 DEF IInv
<1>6. CASE Emit
    <2>1. pc = "emit" /\ rate \in Rates /\ rate # 0 /\ acc \in Nat /\ made \in Nat /\ chunk \in Nat
        BY <1>6 DEF Emit, IInv, CaptureTypeOK
    <2>2. Exact'
        <3>1. (made + 1) * rate = made * rate + rate
            BY <2>1, OneMore
        <3> QED BY <1>6, <2>1, <3>1 DEF Emit, IInv, CaptureTypeOK, Exact
    <2>3. CASE chunk + 1 = ChunkCap
        <3>1. Push(ChunkCap)
            BY <1>6, <2>3 DEF Emit
        <3>2. /\ start' = cur' /\ start' \in Nat /\ full' \in Nat
              /\ start' * Target >= full' * (ChunkCap * Second)
              /\ start' * Target <= full' * (ChunkCap * Second + Target - 1)
            BY <2>1, <3>1, PushStamps DEF IInv
        <3>3. CaptureTypeOK'
            BY <1>6, <2>1, <2>3, <3>1, <3>2 DEF Emit, Push, IInv, CaptureTypeOK
        <3>4. InChunks'
            BY <1>6, <2>1, <2>3, <3>1 DEF Emit, Push, IInv, CaptureTypeOK, InChunks
        <3> QED BY <2>2, <3>2, <3>3, <3>4 DEF IInv, Stamped
    <2>4. CASE chunk + 1 # ChunkCap
        <3>1. chunk' = chunk + 1 /\ UNCHANGED <<start, cur, full, pushed>>
            BY <1>6, <2>4 DEF Emit
        <3>2. CaptureTypeOK'
            BY <1>6, <2>1, <2>4, <3>1 DEF Emit, IInv, CaptureTypeOK
        <3>3. InChunks' /\ Stamped'
            BY <1>6, <2>1, <3>1 DEF Emit, IInv, CaptureTypeOK, InChunks, Stamped
        <3> QED BY <2>2, <3>2, <3>3 DEF IInv
    <2> QED BY <2>3, <2>4
<1>7. CASE FrameDone
    BY <1>7 DEF FrameDone, IInv, CaptureTypeOK, Exact, InChunks, Stamped, phase
<1>8. CASE EndBlock
    <2>1. chunk \in Nat /\ Duration(chunk) \in Nat
        BY DurationUp DEF IInv, CaptureTypeOK
    <2> QED BY <1>8, <2>1 DEF EndBlock, HasRest, Push, IInv, CaptureTypeOK, Exact, InChunks, Stamped
<1>9. CASE UNCHANGED vars
    BY <1>9 DEF vars, IInv, CaptureTypeOK, Exact, InChunks, Stamped
<1> QED
    BY <1>1, <1>2, <1>3, <1>4, <1>5, <1>6, <1>7, <1>8, <1>9 DEF Next

\* The invariant is one of the specification.
LEMMA IInvHolds == Spec => []IInv
    BY InitIInv, NextIInv, PTL DEF Spec

\* resample_acc stays below the rate and a chunk is pushed before it overflows, for all rates.
THEOREM CaptureTypeCorrect == Spec => []CaptureTypeOK
<1>1. IInv => CaptureTypeOK
    BY DEF IInv
<1> QED BY <1>1, IInvHolds, PTL

\* However VLC cuts the audio into blocks, process_block makes the samples of one conversion.
THEOREM CaptureNoDrift == Spec => []NoDrift
<1>1. IInv => NoDrift
    <2> SUFFICES ASSUME IInv, pc = "idle", rate # 0
                 PROVE  made = (first + fed * Target) \div rate
        BY DEF NoDrift
    <2>1. rate \in Nat \ {0} /\ made \in Nat /\ acc \in Nat /\ acc < rate
        BY CaptureAssumption DEF IInv, CaptureTypeOK
    <2>2. first + fed * Target = made * rate + acc
        BY DEF IInv, Exact
    <2>3. (made * rate + acc) \div rate = made
        BY <2>1, DivUnique
    <2> QED BY <2>2, <2>3
<1> QED BY <1>1, IInvHolds, PTL

\* No sample stays behind at the end of a block.
THEOREM CaptureAllPushed == Spec => []AllPushed
<1>1. IInv => AllPushed
    BY DEF IInv, AllPushed, InChunks, CaptureTypeOK
<1> QED BY <1>1, IInvHolds, PTL

\* The rounded durations keep the stamps of the chunks within a tick for each chunk.
THEOREM CaptureStampsClose == Spec => []StampsClose
<1>1. IInv => StampsClose
    <2>1. full \in Nat /\ ChunkCap \in Nat /\ Second \in Nat
            => full * ChunkCap * Second = full * (ChunkCap * Second)
        OBVIOUS
    <2> QED BY <2>1, CaptureAssumption DEF IInv, StampsClose, Stamped, CaptureTypeOK
<1> QED BY <1>1, IInvHolds, PTL

-----------------------------------------------------------------------------
(* The ring (SpscQueue).  The slots from tail to head are whole chunks, the  *)
(* producer writes outside them and the consumer reads inside.               *)

\* How far b is after a in the ring, and the slot k places after a.
Dist(a, b) == IF a <= b THEN b - a ELSE b + Capacity + 1 - a
At(a, k) == IF a + k <= Capacity THEN a + k ELSE a + k - (Capacity + 1)

\* The producer's view of the tail is behind the tail, which is behind the head.
SeenTailBehind == Dist(seenTail, head) = Dist(seenTail, tail) + Dist(tail, head)

\* The consumer's view of the head is between the tail and the head.
SeenHeadBetween == Dist(tail, seenHead) <= Dist(tail, head)

\* A push under way has seen room, has a chunk, and has it in the slot before
\* it publishes.
PushUnderWay ==
    /\ producer # "idle" => Dist(seenTail, head) < Capacity /\ offered \in Queue!Chunks
    /\ producer = "publishing" => ring[head] = offered

\* A pop under way has seen a chunk, and its copy is the chunk.
PopUnderWay ==
    /\ consumer # "idle" => tail # seenHead
    /\ consumer \in {"half", "copied"} => out = ring[tail]

\* The slots from the tail to the head hold whole chunks.
InsideWhole == \A k \in 0 .. Capacity : k < Dist(tail, head) => ring[At(tail, k)] \in Queue!Chunks

\* The inductive invariant of the ring.
RingInv ==
    /\ Queue!TypeOK
    /\ SeenTailBehind
    /\ SeenHeadBetween
    /\ PushUnderWay
    /\ PopUnderWay
    /\ InsideWhole

-----------------------------------------------------------------------------
(* The arithmetic of the ring.                                              *)

\* Indices stay below twice the size of the ring, so that % wraps at most once.
LEMMA WrapsOnce ==
    ASSUME NEW n \in Nat \ {0}, NEW a \in Nat, a < n + n
    PROVE  a % n = IF a < n THEN a ELSE a - n
<1>1. CASE a < n
  BY <1>1
<1>2. CASE ~(a < n)
  <2>1. n <= a
    BY <1>2
  <2>2. a % n = a - n
    BY <2>1
  <2>3. QED
    BY <1>2, <2>2
<1>3. QED
  BY <1>1, <1>2

\* The index after a slot is one place after it.
LEMMA AfterIs ==
    ASSUME Queue!QueueConstants, NEW i \in Queue!Slots
    PROVE  Queue!After(i) = At(i, 1) /\ Queue!After(i) \in Queue!Slots
<1>1. /\ Capacity \in Nat /\ i \in Nat /\ i <= Capacity
      /\ i + 1 \in Nat /\ Capacity + 1 \in Nat \ {0} /\ i + 1 < (Capacity + 1) + (Capacity + 1)
  BY DEF Queue!QueueConstants, Queue!Slots
<1> DEFINE a == i + 1
           n == Capacity + 1
<1>2. a % n = IF a < n THEN a ELSE a - n
  <2>1. n \in Nat \ {0} /\ a \in Nat /\ a < n + n
    BY <1>1
  <2> HIDE DEF a, n
  <2>2. QED
    BY <2>1, WrapsOnce
<1>3. QED
  BY <1>1, <1>2 DEF Queue!After, At, Queue!Slots

\* Distances and places in the ring.
LEMMA DistFacts ==
    ASSUME Queue!QueueConstants, NEW a \in Queue!Slots, NEW b \in Queue!Slots
    PROVE  /\ Dist(a, b) \in 0 .. Capacity
           /\ Dist(a, b) = 0 <=> a = b
           /\ \A k \in 0 .. Capacity :
                 /\ At(a, k) \in Queue!Slots
                 /\ k < Dist(a, b) => At(a, k) # b
                 /\ k = Dist(a, b) => At(a, k) = b
           /\ At(a, 0) = a
  BY DEF Queue!QueueConstants, Queue!Slots, Dist, At

\* One place further: the end of a stretch moves away, its start comes nearer.
LEMMA DistSteps ==
    ASSUME Queue!QueueConstants, NEW a \in Queue!Slots, NEW b \in Queue!Slots
    PROVE  /\ Dist(a, b) < Capacity => Dist(a, At(b, 1)) = Dist(a, b) + 1
           /\ a # b => Dist(At(a, 1), b) = Dist(a, b) - 1
           /\ \A k \in 0 .. Capacity - 1 : At(At(a, 1), k) = At(a, k + 1)
           /\ At(b, 1) = a <=> Dist(a, b) = Capacity
  BY DEF Queue!QueueConstants, Queue!Slots, Dist, At

\* An index between two others divides the distance.
LEMMA DistDivides ==
    ASSUME Queue!QueueConstants, NEW a \in Queue!Slots, NEW b \in Queue!Slots, NEW c \in Queue!Slots
    PROVE  /\ Dist(a, b) <= Dist(a, c) <=> Dist(a, c) = Dist(a, b) + Dist(b, c)
           /\ Dist(b, c) <= Dist(a, c) <=> Dist(a, c) = Dist(a, b) + Dist(b, c)
  BY DEF Queue!QueueConstants, Queue!Slots, Dist

\* What a load may return lies between what was seen and what is there.
LEMMA SinceFacts ==
    ASSUME Queue!QueueConstants, NEW seen \in Queue!Slots, NEW now \in Queue!Slots,
             NEW t \in Queue!Since(seen, now)
    PROVE  t \in Queue!Slots /\ Dist(seen, t) <= Dist(seen, now)
  BY DEF Queue!QueueConstants, Queue!Slots, Dist, Queue!Since

-----------------------------------------------------------------------------
(* The invariant.                                                           *)

\* An empty ring, nothing seen, nothing under way.
LEMMA RingInit ==
    ASSUME Queue!QueueConstants, Queue!Init
    PROVE  RingInv
<1>1. 0 \in Queue!Slots /\ Capacity \in Nat /\ MaxChunks \in Nat
  BY DEF Queue!QueueConstants, Queue!Slots
<1>2. Dist(0, 0) = 0
  BY <1>1, DistFacts
<1>3. Queue!TypeOK
  BY <1>1 DEF Queue!Init, Queue!TypeOK, Queue!Empty, Queue!Torn, Queue!Chunks
<1>4. SeenTailBehind /\ SeenHeadBetween /\ InsideWhole
  BY <1>2 DEF Queue!Init, SeenTailBehind, SeenHeadBetween, InsideWhole
<1>5. PushUnderWay /\ PopUnderWay
  BY DEF Queue!Init, PushUnderWay, PopUnderWay
<1>6. QED
  BY <1>3, <1>4, <1>5 DEF RingInv

\* What the steps rely on: the consumer, in a pop, is at a chunk; the producer,
\* in a push, is at a slot outside the chunks.
LEMMA RingFacts ==
    ASSUME Queue!QueueConstants, RingInv
    PROVE  /\ head \in Queue!Slots /\ tail \in Queue!Slots /\ seenTail \in Queue!Slots
                /\ seenHead \in Queue!Slots
           /\ Dist(tail, head) \in 0 .. Capacity /\ Capacity \in Nat
           /\ consumer # "idle" => tail # head /\ ring[tail] \in Queue!Chunks
           /\ producer # "idle" => Dist(tail, head) < Capacity
<1>1. head \in Queue!Slots /\ tail \in Queue!Slots /\ seenTail \in Queue!Slots
        /\ seenHead \in Queue!Slots
  BY DEF RingInv, Queue!TypeOK
<1>2. /\ Dist(tail, head) \in 0 .. Capacity /\ Capacity \in Nat
      /\ Dist(seenTail, tail) \in 0 .. Capacity /\ Dist(tail, seenHead) \in 0 .. Capacity
      /\ At(tail, 0) = tail
  BY <1>1, DistFacts DEF Queue!QueueConstants
<1>3. consumer # "idle" => tail # head
  <2>1. consumer # "idle" => Dist(tail, seenHead) # 0
    BY <1>1, DistFacts DEF RingInv, PopUnderWay
  <2>2. consumer # "idle" => Dist(tail, head) # 0
    BY <1>2, <2>1 DEF RingInv, SeenHeadBetween
  <2>3. QED
    BY <1>1, <2>2, DistFacts
<1>4. consumer # "idle" => ring[tail] \in Queue!Chunks
  <2>1. consumer # "idle" => 0 < Dist(tail, head) /\ 0 \in 0 .. Capacity
    BY <1>1, <1>2, <1>3, DistFacts
  <2>2. QED
    BY <1>2, <2>1 DEF RingInv, InsideWhole
<1>5. producer # "idle" => Dist(tail, head) < Capacity
  BY <1>2 DEF RingInv, PushUnderWay, SeenTailBehind
<1>6. QED
  BY <1>1, <1>2, <1>3, <1>4, <1>5

\* The producer loads the tail, as late as it may: the room it sees is there.
LEMMA PushLoadTailKeeps ==
    ASSUME Queue!QueueConstants, RingInv, Queue!PushLoadTail
    PROVE  RingInv'
<1>1. PICK t \in Queue!Since(seenTail, tail) :
         /\ seenTail' = t
         /\ offered' = offered + 1
         /\ IF Queue!After(head) = t
            THEN dropped' = dropped + 1 /\ producer' = "idle"
            ELSE producer' = "copying" /\ dropped' = dropped
  BY DEF Queue!PushLoadTail
<1>2. /\ producer = "idle" /\ offered < MaxChunks /\ head' = head /\ tail' = tail /\ ring' = ring
      /\ consumer' = consumer /\ seenHead' = seenHead /\ out' = out /\ received' = received
  BY DEF Queue!PushLoadTail
<1>3. t \in Queue!Slots /\ Dist(seenTail, t) <= Dist(seenTail, tail)
  BY <1>1, RingFacts, SinceFacts
<1>4. offered' \in Queue!Chunks /\ offered' \in 0 .. MaxChunks
  BY <1>1, <1>2 DEF RingInv, Queue!TypeOK, Queue!QueueConstants, Queue!Chunks
<1>5. Queue!TypeOK'
  BY <1>1, <1>2, <1>3, <1>4 DEF RingInv, Queue!TypeOK
<1>6. Dist(t, head) = Dist(t, tail) + Dist(tail, head)
  <2>1. Dist(seenTail, tail) = Dist(seenTail, t) + Dist(t, tail)
    BY <1>3, RingFacts, DistDivides
  <2>2. Dist(seenTail, head) = Dist(seenTail, tail) + Dist(tail, head)
    BY DEF RingInv, SeenTailBehind
  <2>3. /\ Dist(seenTail, t) \in Nat /\ Dist(t, tail) \in Nat /\ Dist(tail, head) \in Nat
        /\ Dist(t, head) \in Nat /\ Dist(seenTail, head) \in Nat /\ Dist(seenTail, tail) \in Nat
    BY <1>3, RingFacts, DistFacts
  <2>4. Dist(seenTail, t) <= Dist(seenTail, head)
    BY <2>1, <2>2, <2>3
  <2>5. Dist(seenTail, head) = Dist(seenTail, t) + Dist(t, head)
    BY <1>3, <2>4, RingFacts, DistDivides
  <2>6. QED
    BY <2>1, <2>2, <2>3, <2>5
<1>7. SeenTailBehind' /\ SeenHeadBetween'
  BY <1>1, <1>2, <1>6 DEF RingInv, SeenTailBehind, SeenHeadBetween
<1>8. PushUnderWay'
  <2>1. Queue!After(head) # t => Dist(t, head) < Capacity
    <3>1. Queue!After(head) # t => Dist(t, head) # Capacity
      BY <1>3, RingFacts, AfterIs, DistSteps
    <3>2. Dist(t, head) \in 0 .. Capacity /\ Capacity \in Nat
      BY <1>3, RingFacts, DistFacts
    <3>3. QED
      BY <3>1, <3>2
  <2>2. producer' # "idle" => Queue!After(head) # t
    BY <1>1
  <2>3. producer' # "publishing"
    BY <1>1
  <2>4. QED
    BY <1>1, <1>2, <1>4, <2>1, <2>2, <2>3 DEF PushUnderWay
<1>9. PopUnderWay' /\ InsideWhole'
  BY <1>2 DEF RingInv, PopUnderWay, InsideWhole
<1>10. QED
  BY <1>5, <1>7, <1>8, <1>9 DEF RingInv

\* The producer writes its own slot, in two steps, outside the chunks.
LEMMA PushCopyKeeps ==
    ASSUME Queue!QueueConstants, RingInv, Queue!PushBeginCopy \/ Queue!PushEndCopy
    PROVE  RingInv'
<1>1. PICK v \in {Queue!Empty, Queue!Torn} \cup Queue!Chunks :
         /\ ring' = [ring EXCEPT ![head] = v] /\ producer # "idle"
         /\ \/ producer' = "torn"
            \/ (producer' = "publishing" /\ v = offered)
  <2>1. CASE Queue!PushBeginCopy
    BY <2>1 DEF Queue!PushBeginCopy
  <2>2. CASE Queue!PushEndCopy
    <3>1. offered \in Queue!Chunks
      BY <2>2 DEF Queue!PushEndCopy, RingInv, PushUnderWay
    <3>2. QED
      BY <2>2, <3>1 DEF Queue!PushEndCopy
  <2>3. QED
    BY <2>1, <2>2
<1>2. /\ head' = head /\ tail' = tail /\ dropped' = dropped /\ consumer' = consumer
      /\ seenTail' = seenTail /\ seenHead' = seenHead /\ out' = out /\ offered' = offered
      /\ received' = received
  BY DEF Queue!PushBeginCopy, Queue!PushEndCopy
<1>3. /\ ring \in [Queue!Slots -> {Queue!Empty, Queue!Torn} \cup Queue!Chunks]
      /\ ring'[head] = v /\ \A i \in Queue!Slots \ {head} : ring'[i] = ring[i]
  BY <1>1, RingFacts DEF RingInv, Queue!TypeOK
<1>4. Queue!TypeOK'
  BY <1>1, <1>2, <1>3 DEF RingInv, Queue!TypeOK
<1>5. SeenTailBehind' /\ SeenHeadBetween'
  BY <1>2 DEF RingInv, SeenTailBehind, SeenHeadBetween
<1>6. PushUnderWay'
  BY <1>1, <1>2, <1>3 DEF RingInv, PushUnderWay
<1>7. PopUnderWay'
  <2>1. consumer # "idle" => ring'[tail] = ring[tail]
    BY <1>3, RingFacts
  <2>2. QED
    BY <1>2, <2>1 DEF RingInv, PopUnderWay
<1>8. InsideWhole'
  <2>1. ASSUME NEW k \in 0 .. Capacity, k < Dist(tail, head)
        PROVE  ring'[At(tail, k)] \in Queue!Chunks
    <3>1. At(tail, k) \in Queue!Slots /\ At(tail, k) # head
      BY <2>1, RingFacts, DistFacts
    <3>2. QED
      BY <1>3, <2>1, <3>1 DEF RingInv, InsideWhole
  <2>2. QED
    BY <1>2, <2>1 DEF InsideWhole
<1>9. QED
  BY <1>4, <1>5, <1>6, <1>7, <1>8 DEF RingInv

\* The head is published: the slot joins the chunks.
LEMMA PushPublishKeeps ==
    ASSUME Queue!QueueConstants, RingInv, Queue!PushPublish
    PROVE  RingInv'
<1>1. /\ producer = "publishing" /\ head' = Queue!After(head) /\ producer' = "idle"
      /\ tail' = tail /\ ring' = ring /\ dropped' = dropped /\ consumer' = consumer
      /\ seenTail' = seenTail /\ seenHead' = seenHead /\ out' = out /\ offered' = offered
      /\ received' = received
  BY DEF Queue!PushPublish
<1>2. head' = At(head, 1) /\ head' \in Queue!Slots
  BY <1>1, RingFacts, AfterIs
<1>3. /\ Dist(seenTail, head) < Capacity /\ Dist(tail, head) < Capacity
      /\ Dist(seenTail, head) = Dist(seenTail, tail) + Dist(tail, head)
  BY <1>1, RingFacts DEF RingInv, PushUnderWay, SeenTailBehind
<1>4. /\ Dist(seenTail, head') = Dist(seenTail, head) + 1
      /\ Dist(tail, head') = Dist(tail, head) + 1
  BY <1>2, <1>3, RingFacts, DistSteps
<1>5. Dist(seenTail, tail) \in Nat /\ Dist(tail, head) \in Nat /\ Dist(tail, seenHead) \in Nat
  BY RingFacts, DistFacts
<1>6. Queue!TypeOK'
  BY <1>1, <1>2 DEF RingInv, Queue!TypeOK
<1>7. SeenTailBehind'
  <2>1. Dist(seenTail, head) + 1 = Dist(seenTail, tail) + (Dist(tail, head) + 1)
    BY <1>3, <1>5
  <2>2. QED
    BY <1>1, <1>4, <2>1 DEF SeenTailBehind
<1>8. SeenHeadBetween'
  <2>1. Dist(tail, seenHead) <= Dist(tail, head) + 1
    BY <1>5 DEF RingInv, SeenHeadBetween
  <2>2. QED
    BY <1>1, <1>4, <2>1 DEF SeenHeadBetween
<1>9. PushUnderWay' /\ PopUnderWay'
  BY <1>1 DEF RingInv, PushUnderWay, PopUnderWay
<1>10. InsideWhole'
  <2>1. ring[head] \in Queue!Chunks
    BY <1>1 DEF RingInv, PushUnderWay
  <2>2. ASSUME NEW k \in 0 .. Capacity, k < Dist(tail, head) + 1
        PROVE  ring[At(tail, k)] \in Queue!Chunks
    <3>1. CASE k < Dist(tail, head)
      BY <3>1 DEF RingInv, InsideWhole
    <3>2. CASE k = Dist(tail, head)
      BY <2>1, <3>2, RingFacts, DistFacts
    <3>3. k < Dist(tail, head) \/ k = Dist(tail, head)
      BY <1>5, <2>2, RingFacts
    <3>4. QED
      BY <3>1, <3>2, <3>3
  <2>3. QED
    BY <1>1, <1>4, <2>2 DEF InsideWhole
<1>11. QED
  BY <1>6, <1>7, <1>8, <1>9, <1>10 DEF RingInv

\* The consumer loads the head, as late as it may: the chunk it sees is there.
LEMMA PopLoadHeadKeeps ==
    ASSUME Queue!QueueConstants, RingInv, Queue!PopLoadHead
    PROVE  RingInv'
<1>1. PICK h \in Queue!Since(seenHead, head) :
         seenHead' = h /\ consumer' = IF tail = h THEN "idle" ELSE "copying"
  BY DEF Queue!PopLoadHead
<1>2. /\ head' = head /\ tail' = tail /\ ring' = ring /\ dropped' = dropped
      /\ producer' = producer /\ seenTail' = seenTail /\ out' = out /\ offered' = offered
      /\ received' = received
  BY DEF Queue!PopLoadHead
<1>3. h \in Queue!Slots /\ Dist(seenHead, h) <= Dist(seenHead, head)
  BY <1>1, RingFacts, SinceFacts
<1>4. Queue!TypeOK'
  BY <1>1, <1>2, <1>3 DEF RingInv, Queue!TypeOK
<1>5. Dist(tail, h) <= Dist(tail, head)
  <2>1. Dist(tail, head) = Dist(tail, seenHead) + Dist(seenHead, head)
    BY RingFacts, DistDivides DEF RingInv, SeenHeadBetween
  <2>2. Dist(seenHead, head) = Dist(seenHead, h) + Dist(h, head)
    BY <1>3, RingFacts, DistDivides
  <2>3. /\ Dist(tail, seenHead) \in Nat /\ Dist(seenHead, h) \in Nat /\ Dist(h, head) \in Nat
        /\ Dist(tail, head) \in Nat /\ Dist(seenHead, head) \in Nat /\ Dist(tail, h) \in Nat
    BY <1>3, RingFacts, DistFacts
  <2>4. Dist(h, head) <= Dist(tail, head)
    BY <2>1, <2>2, <2>3
  <2>5. Dist(tail, head) = Dist(tail, h) + Dist(h, head)
    BY <1>3, <2>4, RingFacts, DistDivides
  <2>6. QED
    BY <2>3, <2>5
<1>6. SeenTailBehind' /\ SeenHeadBetween'
  BY <1>1, <1>2, <1>5 DEF RingInv, SeenTailBehind, SeenHeadBetween
<1>7. PushUnderWay' /\ PopUnderWay' /\ InsideWhole'
  BY <1>1, <1>2 DEF RingInv, PushUnderWay, PopUnderWay, InsideWhole
<1>8. QED
  BY <1>4, <1>6, <1>7 DEF RingInv

\* The consumer copies its chunk, in two steps: it does not change meanwhile.
LEMMA PopCopyKeeps ==
    ASSUME Queue!QueueConstants, RingInv, Queue!PopBeginCopy \/ Queue!PopEndCopy
    PROVE  RingInv'
<1>1. /\ out' = ring[tail] /\ consumer # "idle" /\ consumer' \in {"half", "copied"}
      /\ head' = head /\ tail' = tail /\ ring' = ring /\ dropped' = dropped
      /\ producer' = producer /\ seenTail' = seenTail /\ seenHead' = seenHead
      /\ offered' = offered /\ received' = received
  BY DEF Queue!PopBeginCopy, Queue!PopEndCopy, RingInv, PopUnderWay
<1>2. ring[tail] \in Queue!Chunks
  BY <1>1, RingFacts
<1>3. Queue!TypeOK'
  BY <1>1, <1>2 DEF RingInv, Queue!TypeOK
<1>4. SeenTailBehind' /\ SeenHeadBetween'
  BY <1>1 DEF RingInv, SeenTailBehind, SeenHeadBetween
<1>5. PushUnderWay' /\ PopUnderWay' /\ InsideWhole'
  BY <1>1 DEF RingInv, PushUnderWay, PopUnderWay, InsideWhole
<1>6. QED
  BY <1>3, <1>4, <1>5 DEF RingInv

\* The tail advances: the slot leaves the chunks.
LEMMA PopAdvanceKeeps ==
    ASSUME Queue!QueueConstants, RingInv, Queue!PopAdvance
    PROVE  RingInv'
<1>1. /\ consumer = "copied" /\ tail' = Queue!After(tail) /\ received' = Append(received, out)
      /\ consumer' = "idle" /\ out' = Queue!Empty /\ head' = head /\ ring' = ring
      /\ dropped' = dropped /\ producer' = producer /\ seenTail' = seenTail
      /\ seenHead' = seenHead /\ offered' = offered
  BY DEF Queue!PopAdvance
<1>2. tail' = At(tail, 1) /\ tail' \in Queue!Slots
  BY <1>1, RingFacts, AfterIs
<1>3. tail # head /\ tail # seenHead /\ out \in Queue!Chunks
  BY <1>1, RingFacts DEF RingInv, PopUnderWay
<1>4. /\ Dist(tail', head) = Dist(tail, head) - 1
      /\ Dist(tail', seenHead) = Dist(tail, seenHead) - 1
  BY <1>2, <1>3, RingFacts, DistSteps
<1>5. /\ Dist(seenTail, tail) \in Nat /\ Dist(tail, head) \in Nat /\ Dist(tail, seenHead) \in Nat
      /\ Dist(seenTail, head) \in 0 .. Capacity /\ Dist(tail, head) \in 0 .. Capacity
      /\ Dist(tail, head) # 0 /\ Capacity \in Nat
  BY <1>3, RingFacts, DistFacts
<1>6. Queue!TypeOK'
  <2>1. received' \in Seq(Queue!Chunks)
    BY <1>1, <1>3 DEF RingInv, Queue!TypeOK
  <2>2. QED
    BY <1>1, <1>2, <2>1 DEF RingInv, Queue!TypeOK
<1>7. SeenTailBehind'
  <2>1. Dist(seenTail, head) = Dist(seenTail, tail) + Dist(tail, head)
    BY DEF RingInv, SeenTailBehind
  <2>2. Dist(seenTail, tail) < Capacity
    BY <1>5, <2>1
  <2>3. Dist(seenTail, tail') = Dist(seenTail, tail) + 1
    BY <1>2, <2>2, RingFacts, DistSteps
  <2>4. Dist(seenTail, head) = (Dist(seenTail, tail) + 1) + (Dist(tail, head) - 1)
    BY <1>5, <2>1
  <2>5. QED
    BY <1>1, <1>4, <2>3, <2>4 DEF SeenTailBehind
<1>8. SeenHeadBetween'
  <2>1. Dist(tail, seenHead) - 1 <= Dist(tail, head) - 1
    BY <1>5 DEF RingInv, SeenHeadBetween
  <2>2. QED
    BY <1>1, <1>4, <2>1 DEF SeenHeadBetween
<1>9. PushUnderWay' /\ PopUnderWay'
  BY <1>1 DEF RingInv, PushUnderWay, PopUnderWay
<1>10. InsideWhole'
  <2>1. ASSUME NEW k \in 0 .. Capacity, k < Dist(tail, head) - 1
        PROVE  ring[At(At(tail, 1), k)] \in Queue!Chunks
    <3>1. k \in 0 .. Capacity - 1 /\ k + 1 \in 0 .. Capacity /\ k + 1 < Dist(tail, head)
      BY <1>5, <2>1
    <3>2. At(At(tail, 1), k) = At(tail, k + 1)
      BY <3>1, RingFacts, DistSteps
    <3>3. QED
      BY <3>1, <3>2 DEF RingInv, InsideWhole
  <2>2. QED
    BY <1>1, <1>2, <1>4, <2>1 DEF InsideWhole
<1>11. QED
  BY <1>6, <1>7, <1>8, <1>9, <1>10 DEF RingInv

\* Every step of either thread keeps the invariant.
LEMMA RingStep ==
    ASSUME Queue!QueueConstants, RingInv, [Queue!Next]_Queue!vars
    PROVE  RingInv'
<1>1. CASE UNCHANGED Queue!vars
  BY <1>1 DEF Queue!vars, RingInv, Queue!TypeOK, SeenTailBehind, SeenHeadBetween, PushUnderWay,
     PopUnderWay, InsideWhole
<1>2. CASE Queue!Next
  BY <1>2, PushLoadTailKeeps, PushCopyKeeps, PushPublishKeeps, PopLoadHeadKeeps,
     PopCopyKeeps, PopAdvanceKeeps DEF Queue!Next, Queue!PushStep, Queue!PopStep
<1>3. QED
  BY <1>1, <1>2

\* Whatever the capacity and however late each thread sees the other's index,
\* vw_spsc_queue_push writes only outside the stretch from tail to head,
\* vw_spsc_queue_pop copies a slot of that stretch which does not change, and
\* every slot of it holds a whole chunk.
THEOREM RingInvariant == ASSUME Queue!QueueConstants PROVE Queue!Spec => []RingInv
<1>1. Queue!Init => RingInv
  BY RingInit
<1>2. RingInv /\ [Queue!Next]_Queue!vars => RingInv'
  BY RingStep
<1>3. QED
  BY <1>1, <1>2, PTL DEF Queue!Spec

-----------------------------------------------------------------------------
(* The ring is a FIFO queue.                                                *)

\* The k slots from a on, as a sequence.
Window(f, a, k) == [n \in 1 .. k |-> f[At(a, n - 1)]]

\* The refinement mapping's sequence is the stretch from tail to head.
LEMMA WindowIs ==
    ASSUME Queue!QueueConstants, NEW f, NEW a \in Queue!Slots, NEW b \in Queue!Slots
    PROVE  [n \in 1 .. ((b + Capacity + 1 - a) % (Capacity + 1)) |->
                f[(a + n - 1) % (Capacity + 1)]] = Window(f, a, Dist(a, b))
<1>1. /\ Capacity \in Nat /\ a \in Nat /\ b \in Nat /\ a <= Capacity /\ b <= Capacity
  BY DEF Queue!QueueConstants, Queue!Slots
<1>2. (b + Capacity + 1 - a) % (Capacity + 1) = Dist(a, b)
  <2> DEFINE d == b + Capacity + 1 - a
             size == Capacity + 1
  <2>1. size \in Nat \ {0} /\ d \in Nat /\ d < size + size
    BY <1>1
  <2>2. d % size = IF d < size THEN d ELSE d - size
    <3> HIDE DEF d, size
    <3>1. QED
      BY <2>1, WrapsOnce
  <2>3. (IF d < size THEN d ELSE d - size) = Dist(a, b)
    BY <1>1 DEF Dist
  <2>4. QED
    BY <2>2, <2>3
<1>3. ASSUME NEW n \in 1 .. Dist(a, b)
      PROVE  (a + n - 1) % (Capacity + 1) = At(a, n - 1)
  <2> DEFINE i == a + n - 1
             size == Capacity + 1
  <2>1. n \in Nat /\ 1 <= n /\ n <= Capacity
    BY <1>1, DistFacts
  <2>2. size \in Nat \ {0} /\ i \in Nat /\ i < size + size
    BY <1>1, <2>1
  <2>3. i % size = IF i < size THEN i ELSE i - size
    <3> HIDE DEF i, size
    <3>1. QED
      BY <2>2, WrapsOnce
  <2>4. (IF i < size THEN i ELSE i - size) = At(a, n - 1)
    BY <1>1, <2>1 DEF At
  <2>5. QED
    BY <2>3, <2>4
<1>4. QED
  BY <1>2, <1>3 DEF Window

\* A longer stretch has one chunk more at its end.
LEMMA WindowGrows ==
    ASSUME Queue!QueueConstants, NEW V, NEW f \in [Queue!Slots -> V], NEW a \in Queue!Slots,
           NEW k \in 0 .. Capacity - 1
    PROVE  Window(f, a, k + 1) = Append(Window(f, a, k), f[At(a, k)])
<1>1. Capacity \in Nat /\ k \in Nat /\ k <= Capacity
  BY DEF Queue!QueueConstants
<1>2. \A n \in 1 .. k + 1 : n - 1 \in 0 .. Capacity /\ At(a, n - 1) \in Queue!Slots
  BY <1>1, DistFacts
<1>3. Window(f, a, k) \in Seq(V) /\ Len(Window(f, a, k)) = k
  BY <1>1, <1>2 DEF Window
<1>4. \A n \in 1 .. k : Append(Window(f, a, k), f[At(a, k)])[n] = f[At(a, n - 1)]
  BY <1>1, <1>3 DEF Window
<1>5. /\ Append(Window(f, a, k), f[At(a, k)])[k + 1] = f[At(a, k)]
      /\ DOMAIN Append(Window(f, a, k), f[At(a, k)]) = 1 .. k + 1
  BY <1>1, <1>3
<1>6. k + 1 - 1 = k
  BY <1>1
<1>7. ASSUME NEW n \in 1 .. k + 1
      PROVE  Append(Window(f, a, k), f[At(a, k)])[n] = f[At(a, n - 1)]
  <2>1. n \in 1 .. k \/ n = k + 1
    BY <1>1
  <2>2. QED
    BY <1>4, <1>5, <1>6, <2>1
<1>8. Append(Window(f, a, k), f[At(a, k)]) = [n \in 1 .. k + 1 |-> f[At(a, n - 1)]]
  <2>1. Append(Window(f, a, k), f[At(a, k)]) \in Seq(V)
    <3>1. f[At(a, k)] \in V
      BY <1>1, <1>2, <1>6
    <3>2. QED
      BY <1>3, <3>1
  <2>2. QED
    BY <1>5, <1>7, <2>1
<1>9. QED
  BY <1>8 DEF Window

\* Taking the first chunk leaves the stretch that starts one place later.
LEMMA WindowShrinks ==
    ASSUME Queue!QueueConstants, NEW V, NEW f \in [Queue!Slots -> V], NEW a \in Queue!Slots,
           NEW k \in 1 .. Capacity
    PROVE  /\ Window(f, a, k) # << >>
           /\ Head(Window(f, a, k)) = f[a]
           /\ Tail(Window(f, a, k)) = Window(f, At(a, 1), k - 1)
<1>1. Capacity \in Nat /\ k \in Nat /\ 1 <= k /\ k <= Capacity
  BY DEF Queue!QueueConstants
<1>2. \A n \in 1 .. k : n - 1 \in 0 .. Capacity /\ At(a, n - 1) \in Queue!Slots
  BY <1>1, DistFacts
<1>3. Window(f, a, k) \in Seq(V) /\ Len(Window(f, a, k)) = k
  BY <1>1, <1>2 DEF Window
<1>4. Window(f, a, k) # << >> /\ Head(Window(f, a, k)) = Window(f, a, k)[1]
  BY <1>1, <1>3
<1>5. Window(f, a, k)[1] = f[At(a, 1 - 1)] /\ At(a, 1 - 1) = a
  BY <1>1, DistFacts DEF Window
<1>6. ASSUME NEW n \in 1 .. k - 1
      PROVE  Window(f, a, k)[n + 1] = f[At(At(a, 1), n - 1)]
  <2>1. n + 1 \in 1 .. k /\ n + 1 - 1 = (n - 1) + 1 /\ n - 1 \in 0 .. Capacity - 1
    BY <1>1
  <2>2. At(At(a, 1), n - 1) = At(a, (n - 1) + 1)
    BY <2>1, DistSteps
  <2>3. QED
    BY <2>1, <2>2 DEF Window
<1>7. Tail(Window(f, a, k)) = Window(f, At(a, 1), k - 1)
  <2>1. /\ Tail(Window(f, a, k)) \in Seq(V)
        /\ DOMAIN Tail(Window(f, a, k)) = 1 .. k - 1
        /\ \A n \in 1 .. k - 1 : Tail(Window(f, a, k))[n] = Window(f, a, k)[n + 1]
    BY <1>1, <1>3, <1>4
  <2>2. Tail(Window(f, a, k)) = [n \in 1 .. k - 1 |-> Tail(Window(f, a, k))[n]]
    <3> DEFINE s == Tail(Window(f, a, k))
    <3> HIDE DEF s
    <3>1. s \in Seq(V) /\ DOMAIN s = 1 .. k - 1
      BY <2>1 DEF s
    <3>2. s = [n \in 1 .. k - 1 |-> s[n]]
      BY <3>1
    <3>3. QED
      BY <3>2 DEF s
  <2>3. \A n \in 1 .. k - 1 : Tail(Window(f, a, k))[n] = f[At(At(a, 1), n - 1)]
    BY <1>6, <2>1
  <2>4. QED
    BY <2>2, <2>3 DEF Window
<1>8. QED
  BY <1>4, <1>5, <1>7

\* Writing a slot outside the stretch leaves it alone.
LEMMA WindowOutside ==
    ASSUME Queue!QueueConstants, NEW f, NEW g, NEW a \in Queue!Slots, NEW b \in Queue!Slots,
           \A i \in Queue!Slots \ {b} : g[i] = f[i]
    PROVE  Window(g, a, Dist(a, b)) = Window(f, a, Dist(a, b))
<1>1. ASSUME NEW n \in 1 .. Dist(a, b)
      PROVE  g[At(a, n - 1)] = f[At(a, n - 1)]
  <2>1. n - 1 \in 0 .. Capacity /\ n - 1 < Dist(a, b)
    <3>1. Dist(a, b) \in 0 .. Capacity /\ Capacity \in Nat
      BY DistFacts DEF Queue!QueueConstants
    <3>2. QED
      BY <3>1
  <2>2. At(a, n - 1) \in Queue!Slots /\ At(a, n - 1) # b
    BY <2>1, DistFacts
  <2>3. QED
    BY <2>2
<1>2. QED
  BY <1>1 DEF Window

\* The queue inside the ring, before and after a step that keeps the indices slots.
LEMMA InsideIs ==
    ASSUME Queue!QueueConstants, RingInv, RingInv'
    PROVE  /\ Queue!Inside = Window(ring, tail, Dist(tail, head))
           /\ Queue!Inside' = Window(ring', tail', Dist(tail', head'))
           /\ ring \in [Queue!Slots -> {Queue!Empty, Queue!Torn} \cup Queue!Chunks]
           /\ offered \in Nat /\ offered' \in Nat
<1>1. /\ head \in Queue!Slots /\ tail \in Queue!Slots /\ head' \in Queue!Slots /\ tail' \in Queue!Slots
      /\ ring \in [Queue!Slots -> {Queue!Empty, Queue!Torn} \cup Queue!Chunks]
      /\ offered \in 0 .. MaxChunks /\ offered' \in 0 .. MaxChunks /\ MaxChunks \in Nat
  BY DEF RingInv, Queue!TypeOK, Queue!QueueConstants
<1>2. Queue!Inside = Window(ring, tail, Dist(tail, head))
  BY <1>1, WindowIs DEF Queue!Inside, Queue!Held
<1>3. Queue!Inside' = Window(ring', tail', Dist(tail', head'))
  BY <1>1, WindowIs DEF Queue!Inside, Queue!Held
<1>4. QED
  BY <1>1, <1>2, <1>3

\* Loading the tail is a drop, or nothing yet.
LEMMA PushLoadTailImplements ==
    ASSUME Queue!QueueConstants, RingInv, RingInv', Queue!PushLoadTail
    PROVE  Queue!Fifo!Drop \/ UNCHANGED Queue!Fifo!vars
<1>1. /\ producer = "idle" /\ offered' = offered + 1 /\ received' = received
      /\ \/ (dropped' = dropped + 1 /\ producer' = "idle")
         \/ (producer' = "copying" /\ dropped' = dropped)
      /\ head' = head /\ tail' = tail /\ ring' = ring
  BY DEF Queue!PushLoadTail
<1>2. Queue!Inside' = Queue!Inside
  BY <1>1, InsideIs
<1>3. Queue!InPush = 0 /\ offered \in Nat
  BY <1>1, InsideIs DEF Queue!InPush
<1>4. CASE dropped' = dropped + 1 /\ producer' = "idle"
  <2>1. Queue!InPush' = 0
    BY <1>4 DEF Queue!InPush
  <2>2. offered' - Queue!InPush' = (offered - Queue!InPush) + 1
    BY <1>1, <1>3, <2>1
  <2>3. QED
    BY <1>1, <1>2, <1>4, <2>2 DEF Queue!Fifo!Drop
<1>5. CASE producer' = "copying" /\ dropped' = dropped
  <2>1. Queue!InPush' = 1
    BY <1>5 DEF Queue!InPush
  <2>2. offered' - Queue!InPush' = offered - Queue!InPush
    BY <1>1, <1>3, <2>1
  <2>3. QED
    BY <1>1, <1>2, <1>5, <2>2 DEF Queue!Fifo!vars
<1>6. QED
  BY <1>1, <1>4, <1>5

\* Writing the slot changes nothing yet.
LEMMA PushCopyImplements ==
    ASSUME Queue!QueueConstants, RingInv, RingInv', Queue!PushBeginCopy \/ Queue!PushEndCopy
    PROVE  UNCHANGED Queue!Fifo!vars
<1>1. PICK v : ring' = [ring EXCEPT ![head] = v]
  BY DEF Queue!PushBeginCopy, Queue!PushEndCopy
<1>2. /\ head' = head /\ tail' = tail /\ dropped' = dropped /\ offered' = offered
      /\ received' = received /\ producer # "idle" /\ producer' # "idle"
  BY DEF Queue!PushBeginCopy, Queue!PushEndCopy
<1>3. \A i \in Queue!Slots \ {head} : ring'[i] = ring[i]
  BY <1>1, InsideIs
<1>4. Window(ring', tail, Dist(tail, head)) = Window(ring, tail, Dist(tail, head))
  BY <1>3, RingFacts, WindowOutside
<1>5. Queue!Inside' = Queue!Inside
  BY <1>2, <1>4, InsideIs
<1>6. QED
  BY <1>2, <1>5 DEF Queue!InPush, Queue!Fifo!vars

\* Publishing the head puts the chunk into the queue.
LEMMA PushPublishImplements ==
    ASSUME Queue!QueueConstants, RingInv, RingInv', Queue!PushPublish
    PROVE  Queue!Fifo!Put
<1>1. /\ producer = "publishing" /\ head' = Queue!After(head) /\ producer' = "idle" /\ tail' = tail
      /\ ring' = ring /\ dropped' = dropped /\ offered' = offered /\ received' = received
  BY DEF Queue!PushPublish
<1>2. head' = At(head, 1)
  BY <1>1, RingFacts, AfterIs
<1>3. ring[head] = offered /\ offered \in Nat
  BY <1>1, InsideIs DEF RingInv, PushUnderWay
<1>4. /\ Dist(tail, head) \in 0 .. Capacity - 1 /\ Dist(tail, head) \in 0 .. Capacity
      /\ Dist(tail, head) < Capacity
  BY <1>1, RingFacts
<1>5. Dist(tail, head') = Dist(tail, head) + 1 /\ At(tail, Dist(tail, head)) = head
  BY <1>2, <1>4, RingFacts, DistSteps, DistFacts
<1>6. Queue!Inside' = Append(Queue!Inside, ring[head])
  <2>1. Window(ring, tail, Dist(tail, head) + 1) =
            Append(Window(ring, tail, Dist(tail, head)), ring[At(tail, Dist(tail, head))])
    BY <1>4, InsideIs, RingFacts, WindowGrows
  <2>2. QED
    BY <1>1, <1>5, <2>1, InsideIs
<1>7. Len(Queue!Inside) < Capacity
  <2>1. Len(Window(ring, tail, Dist(tail, head))) = Dist(tail, head)
    BY <1>4 DEF Window
  <2>2. QED
    BY <1>4, <2>1, InsideIs
<1>8. Queue!InPush = 1 /\ Queue!InPush' = 0
  BY <1>1 DEF Queue!InPush
<1>9. (offered - Queue!InPush) + 1 = offered /\ offered' - Queue!InPush' = (offered - Queue!InPush) + 1
  BY <1>1, <1>3, <1>8
<1>10. QED
  BY <1>1, <1>3, <1>6, <1>7, <1>9 DEF Queue!Fifo!Put

\* Loading the head and copying the chunk out change nothing yet.
LEMMA PopCopyImplements ==
    ASSUME Queue!QueueConstants, RingInv, RingInv', Queue!PopLoadHead \/ Queue!PopBeginCopy
             \/ Queue!PopEndCopy
    PROVE  UNCHANGED Queue!Fifo!vars
<1>1. /\ head' = head /\ tail' = tail /\ ring' = ring /\ dropped' = dropped
      /\ offered' = offered /\ received' = received /\ producer' = producer
  BY DEF Queue!PopLoadHead, Queue!PopBeginCopy, Queue!PopEndCopy
<1>2. Queue!Inside' = Queue!Inside
  BY <1>1, InsideIs
<1>3. QED
  BY <1>1, <1>2 DEF Queue!InPush, Queue!Fifo!vars

\* Advancing the tail takes the oldest chunk, whole.
LEMMA PopAdvanceImplements ==
    ASSUME Queue!QueueConstants, RingInv, RingInv', Queue!PopAdvance
    PROVE  Queue!Fifo!Get
<1>1. /\ consumer = "copied" /\ tail' = Queue!After(tail) /\ received' = Append(received, out)
      /\ head' = head /\ ring' = ring /\ dropped' = dropped /\ producer' = producer
      /\ offered' = offered
  BY DEF Queue!PopAdvance
<1>2. tail' = At(tail, 1)
  BY <1>1, RingFacts, AfterIs
<1>3. tail # head /\ out = ring[tail]
  BY <1>1, RingFacts DEF RingInv, PopUnderWay
<1>4. Dist(tail, head) # 0
  BY <1>3, RingFacts, DistFacts
<1>5. Dist(tail, head) \in 1 .. Capacity
  BY <1>4, RingFacts
<1>6. Dist(tail', head) = Dist(tail, head) - 1
  BY <1>2, <1>3, RingFacts, DistSteps
<1>7. /\ Window(ring, tail, Dist(tail, head)) # << >>
      /\ Head(Window(ring, tail, Dist(tail, head))) = ring[tail]
      /\ Tail(Window(ring, tail, Dist(tail, head))) = Window(ring, At(tail, 1), Dist(tail, head) - 1)
  BY ZenonT(60), <1>5, InsideIs, RingFacts, WindowShrinks
<1>8. Queue!Inside # << >> /\ Head(Queue!Inside) = out /\ Queue!Inside' = Tail(Queue!Inside)
  BY <1>1, <1>2, <1>3, <1>6, <1>7, InsideIs
<1>9. QED
  BY <1>1, <1>8 DEF Queue!Fifo!Get, Queue!InPush

\* Every step of either thread is a step of the FIFO queue, or none.
LEMMA StepsImplementFifo ==
    ASSUME Queue!QueueConstants, RingInv, RingInv', [Queue!Next]_Queue!vars
    PROVE  [Queue!Fifo!Next]_(Queue!Fifo!vars)
<1>1. CASE UNCHANGED Queue!vars
  BY <1>1 DEF Queue!vars, Queue!Fifo!vars, Queue!Inside, Queue!Held, Queue!InPush
<1>2. CASE Queue!Next
  BY <1>2, PushLoadTailImplements, PushCopyImplements, PushPublishImplements,
     PopCopyImplements, PopAdvanceImplements DEF Queue!Next, Queue!PushStep, Queue!PopStep,
       Queue!Fifo!Next
<1>3. QED
  BY <1>1, <1>2

\* The lock-free ring of vw_queue.c is the FIFO queue its header promises, for
\* every capacity and any number of chunks: chunks come out of
\* vw_spsc_queue_pop whole, in the order they went in, once each, and only a
\* chunk refused by vw_spsc_queue_push, and counted, is missing.
THEOREM RingImplementsFifo == ASSUME Queue!QueueConstants PROVE Queue!Spec => Queue!FifoSpec
<1>1. Queue!Init => Queue!Fifo!Init
  <2>1. ASSUME Queue!Init
        PROVE  Queue!Inside = << >> /\ offered - Queue!InPush = 0
    <3>1. 0 \in Queue!Slots /\ RingInv
      BY <2>1, RingInit DEF Queue!QueueConstants, Queue!Slots
    <3>2. Dist(0, 0) = 0
      BY <3>1, DistFacts
    <3>3. Queue!Inside = Window(ring, tail, Dist(tail, head))
      BY <3>1, RingFacts, WindowIs DEF Queue!Inside, Queue!Held
    <3>4. Window(ring, 0, 0) = << >> /\ tail = 0 /\ head = 0
      BY <2>1 DEF Window, Queue!Init
    <3>5. Queue!InPush = 0 /\ offered = 0
      BY <2>1 DEF Queue!Init, Queue!InPush
    <3>6. QED
      BY <3>2, <3>3, <3>4, <3>5
  <2>2. QED
    BY <2>1 DEF Queue!Init, Queue!Fifo!Init
<1>2. RingInv /\ RingInv' /\ [Queue!Next]_Queue!vars => [Queue!Fifo!Next]_(Queue!Fifo!vars)
  BY StepsImplementFifo
<1>3. QED
  BY <1>1, <1>2, RingInvariant, PTL DEF Queue!Spec, Queue!FifoSpec, Queue!Fifo!Spec

\* The ring of the composition runs as SpscQueue says.
LEMMA QueueRuns == ThreadsSpec => Queue!Spec
<1>1. ThreadsInit => Queue!Init
  BY DEF ThreadsInit
<1>2. [ThreadsNext]_<<part, vars, queueVars, epochVars, screenVars>> => [Queue!Next]_(Queue!vars)
  <2>1. UNCHANGED queueVars => UNCHANGED Queue!vars
    BY DEF queueVars, Queue!vars
  <2>2. QED
    BY <2>1 DEF ThreadsNext
<1>3. QED
  BY <1>1, <1>2, PTL DEF ThreadsSpec, Queue!Spec

\* The same of the composition that the run checks: the ring is a FIFO queue that refuses the
\* newest, under weak memory.
THEOREM ThreadsFifo == ThreadsSpec => FifoSpec
<1>1. Queue!Spec => Queue!FifoSpec
  BY ThreadsAssumption, RingImplementsFifo
<1>2. QED
  BY <1>1, QueueRuns, PTL DEF FifoSpec

-----------------------------------------------------------------------------
(* The presenter (CaptionPresenter).                                         *)

-----------------------------------------------------------------------------
(* References.                                                              *)

\* One reference in h for each of a and b that is a video output.
Balanced(h, a, b) ==
    \A v \in 1 .. MaxVouts : h[v] = (IF a = v THEN 1 ELSE 0) + (IF b = v THEN 1 ELSE 0)

LEMMA ReleaseBalances ==
    ASSUME Presenter!PresenterConstants, NEW h \in [1 .. MaxVouts -> Nat],
           NEW a \in 0 .. MaxVouts, NEW b \in 0 .. MaxVouts, Balanced(h, a, b)
    PROVE  /\ Presenter!Release(h, a) \in [1 .. MaxVouts -> Nat] /\ Balanced(Presenter!Release(h, a), 0,
                b)
           /\ Presenter!Release(h, b) \in [1 .. MaxVouts -> Nat] /\ Balanced(Presenter!Release(h, b), a,
                0)
<1>1. MaxVouts \in Nat
  BY DEF Presenter!PresenterConstants
<1>2. \A x \in 0 .. MaxVouts : x # 0 => x \in 1 .. MaxVouts
  BY <1>1
<1>3. ASSUME NEW x \in 0 .. MaxVouts, NEW y \in 0 .. MaxVouts, Balanced(h, x, y)
      PROVE  Presenter!Release(h, x) \in [1 .. MaxVouts -> Nat] /\ Balanced(Presenter!Release(h, x), 0,
               y)
  <2>1. CASE x = 0
    BY <1>3, <2>1 DEF Presenter!Release
  <2>2. CASE x # 0
    <3>1. x \in 1 .. MaxVouts
      BY <1>2, <2>2
    <3>2. h[x] \in Nat /\ h[x] >= 1
      BY <1>3, <3>1 DEF Balanced
    <3>3. Presenter!Release(h, x) = [h EXCEPT ![x] = h[x] - 1] /\ h[x] - 1 \in Nat
      BY <2>2, <3>2 DEF Presenter!Release
    <3>4. QED
      BY SMTT(30), <1>3, <3>1, <3>2, <3>3 DEF Balanced
  <2>3. QED
    BY <2>1, <2>2
<1>4. Balanced(h, b, a)
  BY DEF Balanced
<1>5. Balanced(Presenter!Release(h, b), 0, a) => Balanced(Presenter!Release(h, b), a, 0)
  BY <1>1 DEF Balanced
<1>6. QED
  BY <1>3, <1>4, <1>5

LEMMA SwapBalances ==
    ASSUME Presenter!PresenterConstants, NEW h \in [1 .. MaxVouts -> Nat],
           NEW a \in 0 .. MaxVouts, NEW b \in 0 .. MaxVouts, NEW c \in 0 .. MaxVouts
    PROVE  /\ Balanced(h, a, b) => /\ Presenter!Swapped(h, a, c) \in [1 .. MaxVouts -> Nat]
                                   /\ Balanced(Presenter!Swapped(h, a, c), c, b)
           /\ Balanced(h, b, a) => /\ Presenter!Swapped(h, a, c) \in [1 .. MaxVouts -> Nat]
                                   /\ Balanced(Presenter!Swapped(h, a, c), b, c)
<1>1. MaxVouts \in Nat
  BY DEF Presenter!PresenterConstants
<1>2. \A x \in 0 .. MaxVouts : x # 0 => x \in 1 .. MaxVouts
  BY <1>1
<1>3. ASSUME Balanced(h, a, b)
      PROVE  Presenter!Swapped(h, a, c) \in [1 .. MaxVouts -> Nat] /\ Balanced(Presenter!Swapped(h, a,
               c), c, b)
  <2> DEFINE g == Presenter!Release(h, a)
  <2>1. g \in [1 .. MaxVouts -> Nat] /\ Balanced(g, 0, b)
    BY <1>3, ReleaseBalances
  <2>2. Presenter!Swapped(h, a, c) = Presenter!Hold(g, c)
    BY DEF Presenter!Swapped
  <2> HIDE DEF g
  <2>3. CASE c = 0
    BY <2>1, <2>2, <2>3 DEF Presenter!Hold
  <2>4. CASE c # 0
    <3>1. c \in 1 .. MaxVouts
      BY <1>2, <2>4
    <3>2. Presenter!Swapped(h, a, c) = [g EXCEPT ![c] = g[c] + 1] /\ g[c] + 1 \in Nat
      BY <2>1, <2>2, <2>4, <3>1 DEF Presenter!Hold
    <3>3. Presenter!Swapped(h, a, c) \in [1 .. MaxVouts -> Nat]
      BY <2>1, <3>1, <3>2
    <3>4. Presenter!Swapped(h, a, c)[c] = 1 + (IF b = c THEN 1 ELSE 0)
      BY <2>1, <3>1, <3>2 DEF Balanced
    <3>5. \A v \in 1 .. MaxVouts : v # c => Presenter!Swapped(h, a, c)[v] = (IF b = v THEN 1 ELSE 0)
      BY <2>1, <3>1, <3>2 DEF Balanced
    <3>6. QED
      BY <3>3, <3>4, <3>5 DEF Balanced
  <2>5. QED
    BY <2>3, <2>4
<1>4. Balanced(h, b, a) => Balanced(h, a, b)
  BY DEF Balanced
<1>5. Balanced(Presenter!Swapped(h, a, c), c, b) => Balanced(Presenter!Swapped(h, a, c), b, c)
  BY <1>1 DEF Balanced
<1>6. QED
  BY <1>3, <1>4, <1>5

-----------------------------------------------------------------------------
(* How long a cue is shown.                                                 *)

\* The larger and the smaller of two.
LEMMA OfTwo ==
    ASSUME NEW a \in Int, NEW b \in Int
    PROVE  /\ Presenter!Max({a, b}) = IF a >= b THEN a ELSE b
           /\ Presenter!Min({a, b}) = IF a <= b THEN a ELSE b
<1>1. \E x \in {a, b} : \A y \in {a, b} : x >= y
  BY a >= b \/ b >= a
<1>2. Presenter!Max({a, b}) \in {a, b} /\ \A y \in {a, b} : Presenter!Max({a, b}) >= y
  BY <1>1, Zenon DEF Presenter!Max
<1>3. \E x \in {a, b} : \A y \in {a, b} : x =< y
  BY a >= b \/ b >= a
<1>4. Presenter!Min({a, b}) \in {a, b} /\ \A y \in {a, b} : Presenter!Min({a, b}) =< y
  BY <1>3, Zenon DEF Presenter!Min
<1>5. QED
  BY <1>2, <1>4

LEMMA CueReadable ==
    ASSUME Presenter!PresenterConstants, screenPend \in Presenter!Cues \cup {Presenter!NoCue}
    PROVE  Presenter!ReadableAndApart
<1> SUFFICES ASSUME screenPend # Presenter!NoCue, NEW next \in 0 .. MaxTime,
                    NEW floor \in Floors
             PROVE  LET own == Presenter!Max({floor,
                      IF screenPend.end > screenPend.start THEN screenPend.end - screenPend.start ELSE Default})
                    IN  Presenter!Clipped(screenPend, next, floor) =
                          IF next > screenPend.start THEN Presenter!Max({floor, Presenter!Min({own,
                            next - screenPend.start})}) ELSE own
  BY DEF Presenter!ReadableAndApart
<1>1. PICK a \in Int : a = screenPend.start
  BY DEF Presenter!Cues, Presenter!PresenterConstants
<1>2. PICK b \in Int : b = screenPend.end
  BY DEF Presenter!Cues, Presenter!PresenterConstants
<1>3. PICK f \in Int, d \in Int, n \in Int : f = floor /\ d = Default /\ n = next /\ f > 0 /\ d > 0
  BY DEF Presenter!PresenterConstants
<1> DEFINE mine == IF b > a THEN b - a ELSE d
           own == IF f >= mine THEN f ELSE mine
           least == IF own <= n - a THEN own ELSE n - a
<1>4. mine \in Int /\ own \in Int /\ least \in Int
  OBVIOUS
<1>5. Presenter!Max({f, mine}) = own /\ Presenter!Min({own, n - a}) = least
  <2>1. Presenter!Max({f, mine}) = own
    <3> HIDE DEF mine
    <3> QED
      BY <1>4, OfTwo
  <2>2. Presenter!Min({own, n - a}) = least
    <3>1. PICK free \in Int : free = n - a
      OBVIOUS
    <3> HIDE DEF own
    <3>2. Presenter!Min({own, free}) = IF own <= free THEN own ELSE free
      BY <1>4, OfTwo
    <3>3. QED
      BY <3>1, <3>2
  <2>3. QED
    BY <2>1, <2>2
<1>6. Presenter!Max({f, least}) = IF f >= least THEN f ELSE least
  <2> HIDE DEF least
  <2> QED
    BY <1>4, OfTwo
<1>7. Presenter!Clipped(screenPend, next, floor) = IF n > a THEN (IF f >= least THEN f ELSE least) ELSE own
  BY <1>1, <1>2, <1>3 DEF Presenter!Clipped, Presenter!Readable
<1>8. QED
  BY <1>1, <1>2, <1>3, <1>5, <1>6, <1>7, Zenon

-----------------------------------------------------------------------------
(* The invariant.                                                           *)

Items == [vout : 0 .. MaxVouts, chan : Nat, stays : BOOLEAN, kind : {"spu", "osd", "progress"}]

\* What may be on the screens while the captions' channel is c of v.
Owned(items, v, c) ==
    \A s \in items : s.kind = "spu" => c # 0 /\ s.vout = v /\ s.chan = c

\* Nothing but a caption stays.
OnlyCaptionsStay(items) == \A s \in items : s.stays => s.kind = "spu"

\* A channel has its reference and a reference its channel; captions on a
\* channel of the presenter are on the one it holds; after "open" every
\* item expires.
PresenterInv ==
    /\ Presenter!PresenterTypeOK /\ screen \in SUBSET Items
    /\ (chan = 0 <=> held = 0) /\ (mchan = 0 <=> mheld = 0)
    /\ Balanced(holds, held, mheld)
    /\ screenPhase # "closed" => Owned(screen, held, chan)
    /\ OnlyCaptionsStay(screen)
    /\ screenPhase # "open" => \A s \in screen : ~s.stays
    /\ screenPhase = "closed" => held = 0 /\ mheld = 0

LEMMA PresenterInitially ==
    ASSUME Presenter!PresenterConstants, Presenter!Init
    PROVE  PresenterInv
BY DEF Presenter!Init, PresenterInv, Presenter!PresenterTypeOK, Presenter!PresenterConstants, Balanced,
   Owned, OnlyCaptionsStay

\* Erasing only takes away.
LEMMA ErasedIs ==
    ASSUME NEW items, NEW v, NEW c
    PROVE  /\ Presenter!Erased(items, v, c) \in SUBSET items
           /\ Owned(items, v, c) => \A s \in Presenter!Erased(items, v, c) : s.kind # "spu"
BY DEF Presenter!Erased, Owned

\* A subset of a sound screen is sound.
LEMMA FewerItems ==
    ASSUME NEW items \in SUBSET Items, NEW fewer \in SUBSET items
    PROVE  /\ fewer \in SUBSET Items
           /\ \A v, c : Owned(items, v, c) => Owned(fewer, v, c)
           /\ OnlyCaptionsStay(items) => OnlyCaptionsStay(fewer)
           /\ (\A s \in items : ~s.stays) => \A s \in fewer : ~s.stays
BY DEF Owned, OnlyCaptionsStay

-----------------------------------------------------------------------------
(* Rendering.                                                               *)

LEMMA RenderKeeps ==
    ASSUME Presenter!PresenterConstants, PresenterInv, screenPhase # "closed",
           NEW replace \in BOOLEAN, NEW stays \in BOOLEAN, Presenter!Render(replace, stays)
    PROVE  /\ channels' \in Nat /\ channels' >= channels /\ chan' \in 0 .. channels'
           /\ held' \in 0 .. MaxVouts /\ (chan' = 0 <=> held' = 0)
           /\ holds' \in [1 .. MaxVouts -> Nat] /\ Balanced(holds', held', mheld)
           /\ screen' \in SUBSET Items /\ Owned(screen', held', chan') /\ OnlyCaptionsStay(screen')
           /\ ~stays /\ (\A s \in screen : ~s.stays) => \A s \in screen' : ~s.stays
<1>1. CASE vout = 0
  BY <1>1 DEF Presenter!Render, PresenterInv, Presenter!PresenterTypeOK, Presenter!caption
<1>2. CASE vout # 0
  <2> DEFINE fresh == chan = 0 \/ held # vout
             left == IF fresh THEN Presenter!Unregistered(screen) ELSE screen
  <2>1. PICK registers \in BOOLEAN, draws \in BOOLEAN :
          /\ ~fresh => registers
          /\ ~registers => ~draws
          /\ channels' = IF fresh /\ registers THEN channels + 1 ELSE channels
          /\ chan' = IF ~fresh THEN chan ELSE IF registers THEN channels' ELSE 0
          /\ held' = IF registers THEN vout ELSE 0
          /\ holds' = IF fresh THEN Presenter!Swapped(holds, held, held') ELSE holds
          /\ screen' = IF draws
               THEN (IF replace THEN Presenter!Erased(left, vout, chan') ELSE left)
                      \cup {Presenter!Item(vout, chan', stays, "spu")}
               ELSE Presenter!Erased(left, vout, Presenter!Osd) \cup {Presenter!Item(vout, Presenter!Osd,
                 FALSE, "osd")}
    BY <1>2, Zenon DEF Presenter!Render
  <2>2. /\ channels \in Nat /\ vout \in 1 .. MaxVouts /\ chan \in 0 .. channels
        /\ held \in 0 .. MaxVouts /\ mheld \in 0 .. MaxVouts /\ MaxVouts \in Nat
        /\ holds \in [1 .. MaxVouts -> Nat] /\ Balanced(holds, held, mheld)
        /\ screen \in SUBSET Items /\ Owned(screen, held, chan) /\ OnlyCaptionsStay(screen)
        /\ (chan = 0 <=> held = 0)
    BY <1>2 DEF PresenterInv, Presenter!PresenterTypeOK, Presenter!PresenterConstants
  <2>3. /\ channels' \in Nat /\ channels' >= channels /\ chan' \in 0 .. channels'
        /\ held' \in 0 .. MaxVouts /\ (chan' = 0 <=> held' = 0)
    BY <2>1, <2>2
  <2>4. holds' \in [1 .. MaxVouts -> Nat] /\ Balanced(holds', held', mheld)
    <3>1. CASE fresh
      BY <2>1, <2>2, <2>3, <3>1, SwapBalances
    <3>2. CASE ~fresh
      BY <2>1, <2>2, <3>2
    <3>3. QED
      BY <3>1, <3>2
  \* What the captions' channel leaves when it is registered again.
  <2>5. /\ left \in SUBSET screen
        /\ fresh => \A s \in left : s.kind # "spu"
        /\ ~fresh => Owned(left, held', chan')
    BY <2>1, <2>2, ErasedIs DEF Presenter!Unregistered, Owned
  <2>6. left \in SUBSET Items /\ OnlyCaptionsStay(left) /\ Owned(left, held', chan')
    BY <2>2, <2>5, FewerItems DEF Owned
  <2>7. PICK rest \in SUBSET left, item \in Items :
          /\ screen' = rest \cup {item}
          /\ item.kind = "spu" => chan' # 0 /\ item.vout = held' /\ item.chan = chan'
          /\ item.stays => stays /\ item.kind = "spu"
    <3> HIDE DEF left
    <3>1. CASE draws
      <4> DEFINE rest == IF replace THEN Presenter!Erased(left, vout, chan') ELSE left
                 item == Presenter!Item(vout, chan', stays, "spu")
      <4>1. rest \in SUBSET left
        BY ErasedIs
      <4>2. item \in Items /\ item.kind = "spu" /\ item.vout = vout /\ item.chan = chan'
              /\ item.stays = stays
        BY <2>2, <2>3 DEF Presenter!Item, Items
      <4>3. registers /\ held' = vout /\ chan' # 0
        BY <2>1, <2>2, <3>1
      <4>4. screen' = rest \cup {item}
        BY <2>1, <3>1
      <4> HIDE DEF rest, item
      <4>5. QED
        BY <4>1, <4>2, <4>3, <4>4
    <3>2. CASE ~draws
      <4> DEFINE rest == Presenter!Erased(left, vout, Presenter!Osd)
                 item == Presenter!Item(vout, Presenter!Osd, FALSE, "osd")
      <4>1. rest \in SUBSET left
        BY ErasedIs
      <4>2. item \in Items /\ item.kind = "osd" /\ ~item.stays
        BY <2>2 DEF Presenter!Item, Items, Presenter!Osd
      <4>3. screen' = rest \cup {item}
        BY <2>1, <3>2
      <4> HIDE DEF rest, item
      <4>4. QED
        BY <4>1, <4>2, <4>3
    <3>3. QED
      BY <3>1, <3>2
  <2> HIDE DEF left
  <2>8. screen' \in SUBSET Items /\ Owned(screen', held', chan') /\ OnlyCaptionsStay(screen')
    BY <2>6, <2>7 DEF Owned, OnlyCaptionsStay
  <2>9. ~stays /\ (\A s \in screen : ~s.stays) => \A s \in screen' : ~s.stays
    BY <2>5, <2>7
  <2>10. QED
    BY <2>3, <2>4, <2>8, <2>9
<1>3. QED
  BY <1>1, <1>2

\* The actions that render.
LEMMA RendersKeeps ==
    ASSUME Presenter!PresenterConstants, PresenterInv, Presenter!ShowSegment \/ Presenter!Flush
             \/ Presenter!ShowPaused \/ Presenter!FlushLast
    PROVE  PresenterInv'
<1>1. /\ ctx' \in BOOLEAN /\ screenPend' \in Presenter!Cues \cup {Presenter!NoCue}
           /\ screenPhase # "closed"
      /\ UNCHANGED <<vout, opened, mheld, mchan, screenPhase>>
      /\ \/ UNCHANGED <<held, chan, channels, holds, screen>>
         \/ \E replace, stays \in BOOLEAN : Presenter!Render(replace, stays) /\ (stays
              => screenPhase = "open")
  <2>1. CASE Presenter!ShowSegment
    <3>1. PICK c \in Presenter!Cues, media \in BOOLEAN :
            /\ screenPend' = c
            /\ IF screenPend = Presenter!NoCue THEN UNCHANGED <<Presenter!caption, channels, holds,
                 screen>>
               ELSE Presenter!Render(~media, FALSE)
      BY <2>1 DEF Presenter!ShowSegment
    <3>2. ctx' = TRUE /\ screenPhase # "closed" /\ UNCHANGED <<vout, opened, mheld, mchan, screenPhase>>
      BY <2>1 DEF Presenter!ShowSegment, Presenter!world, Presenter!progress
    <3>3. (~media) \in BOOLEAN
      OBVIOUS
    <3>4. QED
      BY <3>1, <3>2, <3>3 DEF Presenter!caption
  <2>2. CASE Presenter!Flush
    <3>1. PICK media \in BOOLEAN : Presenter!Render(~media, FALSE)
      BY <2>2 DEF Presenter!Flush
    <3>2. (~media) \in BOOLEAN
      OBVIOUS
    <3>3. screenPend' = Presenter!NoCue /\ ctx' \in BOOLEAN /\ screenPhase = "open" /\ UNCHANGED <<vout,
            opened, mheld, mchan, screenPhase>>
      BY <2>2 DEF Presenter!Flush, Presenter!world, Presenter!progress, PresenterInv,
         Presenter!PresenterTypeOK
    <3>4. QED
      BY <3>1, <3>2, <3>3
  <2>3. CASE Presenter!ShowPaused
    BY <2>3 DEF Presenter!ShowPaused, Presenter!world, Presenter!progress, PresenterInv,
       Presenter!PresenterTypeOK
  <2>4. CASE Presenter!FlushLast
    BY <2>4 DEF Presenter!FlushLast, Presenter!world, Presenter!progress, PresenterInv,
       Presenter!PresenterTypeOK
  <2>5. QED
    BY <2>1, <2>2, <2>3, <2>4
<1>2. CASE UNCHANGED <<held, chan, channels, holds, screen>>
  BY <1>1, <1>2 DEF PresenterInv, Presenter!PresenterTypeOK
<1>3. ASSUME NEW replace \in BOOLEAN, NEW stays \in BOOLEAN,
             Presenter!Render(replace, stays), stays => screenPhase = "open"
      PROVE  PresenterInv'
  <2>1. /\ channels' \in Nat /\ channels' >= channels /\ chan' \in 0 .. channels'
        /\ held' \in 0 .. MaxVouts /\ (chan' = 0 <=> held' = 0)
        /\ holds' \in [1 .. MaxVouts -> Nat] /\ Balanced(holds', held', mheld)
        /\ screen' \in SUBSET Items /\ Owned(screen', held', chan') /\ OnlyCaptionsStay(screen')
        /\ ~stays /\ (\A s \in screen : ~s.stays) => \A s \in screen' : ~s.stays
    BY <1>1, <1>3, RenderKeeps
  <2>2. Presenter!PresenterTypeOK'
    BY <1>1, <2>1 DEF PresenterInv, Presenter!PresenterTypeOK
  <2>3. screenPhase' # "open" => \A s \in screen' : ~s.stays
    BY <1>1, <1>3, <2>1 DEF PresenterInv
  <2>4. Balanced(holds, held, mheld)' /\ Owned(screen, held, chan)' /\ OnlyCaptionsStay(screen)'
    BY <1>1, <2>1 DEF Balanced, Owned, OnlyCaptionsStay
  <2>5. QED
    BY <1>1, <2>1, <2>2, <2>3, <2>4 DEF PresenterInv
<1>4. QED
  BY <1>1, <1>2, <1>3

LEMMA BlankedIs ==
    ASSUME PresenterInv, screenPhase # "closed"
    PROVE  /\ Presenter!Blanked \in SUBSET screen /\ \A s \in Presenter!Blanked : s.kind # "spu"
<1>1. Owned(screen, held, chan) /\ (chan = 0 <=> held = 0)
  BY DEF PresenterInv
<1>2. QED
  BY <1>1, ErasedIs DEF Presenter!Blanked, Owned

\* Model progress has a channel and a reference of its own.
LEMMA ProgressKeeps ==
    ASSUME Presenter!PresenterConstants, PresenterInv, Presenter!ShowProgress
    PROVE  PresenterInv'
<1> DEFINE fresh == mchan = 0 \/ mheld # vout
           left == IF fresh /\ mchan # 0 THEN Presenter!Erased(screen, mheld, mchan) ELSE screen
<1>1. PICK registers \in BOOLEAN, draws \in BOOLEAN :
        /\ ~fresh => registers
        /\ ~registers => ~draws
        /\ channels' = IF fresh /\ registers THEN channels + 1 ELSE channels
        /\ mchan' = IF ~fresh THEN mchan ELSE IF registers THEN channels' ELSE 0
        /\ mheld' = IF registers THEN vout ELSE 0
        /\ holds' = IF fresh THEN Presenter!Swapped(holds, mheld, mheld') ELSE holds
        /\ screen' = IF draws THEN Presenter!Erased(left, vout, mchan')
                                     \cup {Presenter!Item(vout, mchan', FALSE, "progress")}
                     ELSE left
  BY Zenon DEF Presenter!ShowProgress
<1>2. screenPhase = "open" /\ vout # 0 /\ UNCHANGED <<vout, opened, ctx, held, chan, screenPend,
        screenPhase>>
  BY DEF Presenter!ShowProgress, Presenter!world, Presenter!caption
<1>3. /\ channels \in Nat /\ vout \in 1 .. MaxVouts /\ mchan \in 0 .. channels /\ chan \in 0 .. channels
      /\ held \in 0 .. MaxVouts /\ mheld \in 0 .. MaxVouts /\ MaxVouts \in Nat
      /\ holds \in [1 .. MaxVouts -> Nat] /\ Balanced(holds, held, mheld)
      /\ screen \in SUBSET Items /\ Owned(screen, held, chan) /\ OnlyCaptionsStay(screen)
      /\ (mchan = 0 <=> mheld = 0) /\ (chan = 0 <=> held = 0)
  BY <1>2 DEF PresenterInv, Presenter!PresenterTypeOK, Presenter!PresenterConstants
<1>4. /\ channels' \in Nat /\ channels' >= channels /\ mchan' \in 0 .. channels'
           /\ chan' \in 0 .. channels'
      /\ mheld' \in 0 .. MaxVouts /\ (mchan' = 0 <=> mheld' = 0)
  BY <1>1, <1>2, <1>3
<1>5. holds' \in [1 .. MaxVouts -> Nat] /\ Balanced(holds', held, mheld')
  <2>1. CASE fresh
    BY <1>1, <1>3, <1>4, <2>1, SwapBalances
  <2>2. CASE ~fresh
    BY <1>1, <1>3, <2>2
  <2>3. QED
    BY <2>1, <2>2
<1>6. left \in SUBSET screen
  BY ErasedIs
<1>7. \A s \in screen' : s \in screen \/ (s \in Items /\ s.kind = "progress" /\ ~s.stays)
  <2> HIDE DEF left
  <2>1. Presenter!Erased(left, vout, mchan') \in SUBSET left
    BY ErasedIs
  <2>2. PICK item : item = Presenter!Item(vout, mchan', FALSE, "progress")
    OBVIOUS
  <2>3. item \in Items /\ item.kind = "progress" /\ ~item.stays
    BY <1>3, <1>4, <2>2 DEF Presenter!Item, Items
  <2>4. QED
    BY <1>1, <1>6, <2>1, <2>2, <2>3
<1>8. screen' \in SUBSET Items /\ Owned(screen', held, chan) /\ OnlyCaptionsStay(screen')
  BY <1>3, <1>7 DEF Owned, OnlyCaptionsStay
<1>9. Presenter!PresenterTypeOK'
  BY <1>2, <1>3, <1>4, <1>5 DEF PresenterInv, Presenter!PresenterTypeOK
<1>10. Balanced(holds, held, mheld)' /\ Owned(screen, held, chan)' /\ OnlyCaptionsStay(screen)'
  BY <1>2, <1>5, <1>8 DEF Balanced, Owned, OnlyCaptionsStay
<1>11. QED
  BY <1>2, <1>3, <1>4, <1>8, <1>9, <1>10 DEF PresenterInv

\* The teardown and what only takes items off the screens.
LEMMA GivesUpKeeps ==
    ASSUME Presenter!PresenterConstants, PresenterInv,
           Presenter!Blank \/ Presenter!Expires \/ Presenter!VoutChanges \/ Presenter!ClearProgress
             \/ Presenter!Clear \/ Presenter!ReleasePreserving
    PROVE  PresenterInv'
<1>1. screen' \in SUBSET screen
  <2>1. CASE Presenter!Blank \/ Presenter!Clear
    <3>1. screenPhase # "closed" /\ screen' \in {Presenter!Blanked, Presenter!Erased(Presenter!Blanked,
            mheld, mchan)}
      BY <2>1 DEF Presenter!Blank, Presenter!Clear
    <3>2. QED
      BY <3>1, BlankedIs, ErasedIs
  <2>2. CASE Presenter!Expires \/ Presenter!VoutChanges \/ Presenter!ReleasePreserving
    BY <2>2 DEF Presenter!Expires, Presenter!VoutChanges, Presenter!ReleasePreserving
  <2>3. CASE Presenter!ClearProgress
    BY <2>3, ErasedIs DEF Presenter!ClearProgress
  <2>4. QED
    BY <2>1, <2>2, <2>3
<1>2. /\ screen' \in SUBSET Items /\ OnlyCaptionsStay(screen')
      /\ screenPhase # "closed" => Owned(screen', held, chan)
      /\ screenPhase # "open" => \A s \in screen' : ~s.stays
  BY <1>1, FewerItems DEF PresenterInv
<1>3. holds \in [1 .. MaxVouts -> Nat] /\ Balanced(holds, held, mheld)
      /\ held \in 0 .. MaxVouts /\ mheld \in 0 .. MaxVouts
  BY DEF PresenterInv, Presenter!PresenterTypeOK
<1>4. ASSUME NEW g, g = Presenter!Release(Presenter!Release(holds, mheld), held)
      PROVE  g \in [1 .. MaxVouts -> Nat] /\ Balanced(g, 0, 0)
  <2>1. PICK h : h = Presenter!Release(holds, mheld)
    OBVIOUS
  <2>2. h \in [1 .. MaxVouts -> Nat] /\ Balanced(h, held, 0) /\ 0 \in 0 .. MaxVouts
    BY <1>3, <2>1, ReleaseBalances DEF Presenter!PresenterConstants
  <2>3. QED
    BY <1>3, <1>4, <2>1, <2>2, ReleaseBalances
<1>5. CASE Presenter!Blank \/ Presenter!Expires \/ Presenter!VoutChanges
  <2>1. /\ UNCHANGED <<channels, holds, ctx, held, chan, mheld, mchan, screenPhase>>
        /\ vout' \in 0 .. MaxVouts /\ opened' \in 0 .. MaxVouts
             /\ screenPend' \in Presenter!Cues \cup {Presenter!NoCue}
    BY <1>5 DEF Presenter!Blank, Presenter!Expires, Presenter!VoutChanges, Presenter!world,
       Presenter!caption, Presenter!progress, PresenterInv, Presenter!PresenterTypeOK,
                Presenter!PresenterConstants
  <2>2. Presenter!PresenterTypeOK'
    BY <2>1 DEF PresenterInv, Presenter!PresenterTypeOK
  <2>3. Balanced(holds, held, mheld)' /\ OnlyCaptionsStay(screen)'
        /\ (screenPhase # "closed" => Owned(screen, held, chan))'
    BY <1>2, <1>3, <2>1 DEF Balanced, Owned, OnlyCaptionsStay
  <2>4. QED
    BY <1>2, <2>1, <2>2, <2>3 DEF PresenterInv
<1>6. CASE Presenter!ClearProgress
  <2>1. /\ UNCHANGED <<vout, opened, channels, ctx, held, chan, screenPend, screenPhase>>
        /\ holds' = Presenter!Release(holds, mheld) /\ mheld' = 0 /\ mchan' = 0 /\ screenPhase = "open"
    BY <1>6 DEF Presenter!ClearProgress, Presenter!world, Presenter!caption
  <2>2. holds' \in [1 .. MaxVouts -> Nat] /\ Balanced(holds', held, 0)
    BY <1>3, <2>1, ReleaseBalances
  <2>3. Presenter!PresenterTypeOK'
    BY <2>1, <2>2 DEF PresenterInv, Presenter!PresenterTypeOK, Presenter!PresenterConstants
  <2>4. Balanced(holds, held, mheld)' /\ OnlyCaptionsStay(screen)'
        /\ (screenPhase # "closed" => Owned(screen, held, chan))'
    BY <1>2, <2>1, <2>2 DEF Balanced, Owned, OnlyCaptionsStay
  <2>5. QED
    BY <1>2, <2>1, <2>3, <2>4 DEF PresenterInv
<1>7. CASE Presenter!Clear \/ Presenter!ReleasePreserving
  <2>1. /\ UNCHANGED <<vout, opened, channels>> /\ ctx' = FALSE
             /\ screenPend' \in Presenter!Cues \cup {Presenter!NoCue}
        /\ holds' = Presenter!Release(Presenter!Release(holds, mheld), held)
        /\ held' = 0 /\ chan' = 0 /\ mheld' = 0 /\ mchan' = 0
        /\ screenPhase' \in {"closing", "closed"}
    BY <1>7 DEF Presenter!Clear, Presenter!ReleasePreserving, Presenter!FinalHolds, Presenter!world,
       PresenterInv, Presenter!PresenterTypeOK
  <2>2. holds' \in [1 .. MaxVouts -> Nat] /\ Balanced(holds', 0, 0)
    BY <1>4, <2>1
  <2>3. Presenter!PresenterTypeOK'
    <3>1. 0 \in 0 .. MaxVouts /\ 0 \in 0 .. channels
      BY DEF PresenterInv, Presenter!PresenterTypeOK, Presenter!PresenterConstants
    <3>2. QED
      BY <2>1, <2>2, <3>1 DEF PresenterInv, Presenter!PresenterTypeOK
  <2>4. Balanced(holds, held, mheld)' /\ OnlyCaptionsStay(screen)'
    BY <1>2, <2>1, <2>2 DEF Balanced, OnlyCaptionsStay
  <2>5. \A s \in screen' : ~s.stays
    <3>1. CASE Presenter!Clear
      <4>1. screenPhase = "open" /\ screen' \in {Presenter!Blanked, Presenter!Erased(Presenter!Blanked,
              mheld, mchan)}
        BY <3>1 DEF Presenter!Clear
      <4>2. screen' \in SUBSET Presenter!Blanked /\ \A s \in Presenter!Blanked : s.kind # "spu"
        BY <4>1, BlankedIs, ErasedIs
      <4>3. QED
        BY <1>2, <4>2 DEF OnlyCaptionsStay
    <3>2. CASE Presenter!ReleasePreserving
      BY <1>2, <3>2 DEF Presenter!ReleasePreserving
    <3>3. QED
      BY <1>7, <3>1, <3>2
  <2>6. screenPhase' # "closed" => Owned(screen, held, chan)'
    <3> SUFFICES ASSUME screenPhase' # "closed" PROVE Owned(screen, held, chan)'
      OBVIOUS
    <3>1. Presenter!Clear
      BY <1>7 DEF Presenter!ReleasePreserving
    <3>2. screenPhase = "open" /\ screen' \in {Presenter!Blanked, Presenter!Erased(Presenter!Blanked,
            mheld, mchan)}
      BY <3>1 DEF Presenter!Clear
    <3>3. \A s \in screen' : s.kind # "spu"
      BY <3>2, BlankedIs, ErasedIs
    <3>4. QED
      BY <3>3 DEF Owned
  <2>7. QED
    BY <1>2, <2>1, <2>3, <2>4, <2>5, <2>6 DEF PresenterInv
<1>8. QED
  BY <1>5, <1>6, <1>7

LEMMA PresenterStep ==
    ASSUME Presenter!PresenterConstants, PresenterInv, [Presenter!Next]_Presenter!vars
    PROVE  PresenterInv'
<1>1. CASE Presenter!ShowSegment \/ Presenter!Flush \/ Presenter!ShowPaused \/ Presenter!FlushLast
  BY <1>1, RendersKeeps
<1>2. CASE Presenter!ShowProgress
  BY <1>2, ProgressKeeps
<1>3. CASE Presenter!Blank \/ Presenter!Expires \/ Presenter!VoutChanges \/ Presenter!ClearProgress
             \/ Presenter!Clear \/ Presenter!ReleasePreserving
  BY <1>3, GivesUpKeeps
<1>4. CASE UNCHANGED Presenter!vars
  BY <1>4 DEF Presenter!vars, Presenter!world, Presenter!caption, Presenter!progress, PresenterInv,
     Presenter!PresenterTypeOK, Balanced, Owned, OnlyCaptionsStay
<1>5. QED
  BY <1>1, <1>2, <1>3, <1>4 DEF Presenter!Next, Presenter!Closed

\* The inductive invariant of the presenter: a channel and its reference come
\* and go together, and whatever is drawn on it is erased before it is lost.
THEOREM PresenterInvariant ==
    ASSUME Presenter!PresenterConstants
    PROVE  Presenter!Spec => []PresenterInv
<1>1. Presenter!Init => PresenterInv
  BY PresenterInitially
<1>2. PresenterInv /\ [Presenter!Next]_Presenter!vars => PresenterInv'
  BY PresenterStep
<1>3. QED
  BY <1>1, <1>2, PTL DEF Presenter!Spec

\* For any number of video outputs and channels and every floor and default:
\* the presenter's references are balanced, its captions can be erased,
\* nothing of it outlives the teardown, and a cue can be read.
THEOREM PresenterScreenContract ==
    ASSUME Presenter!PresenterConstants
    PROVE  Presenter!Spec => []Presenter!ScreenContract
<1>1. PresenterInv => Presenter!ScreenContract
  <2> SUFFICES ASSUME PresenterInv PROVE Presenter!ScreenContract
    OBVIOUS
  <2>1. Presenter!HoldsBalanced
    BY DEF PresenterInv, Balanced, Presenter!HoldsBalanced
  <2>2. Presenter!CaptionsErasable
    BY DEF PresenterInv, Owned, Presenter!CaptionsErasable
  <2>3. Presenter!NothingOutlives
    <3> SUFFICES ASSUME screenPhase = "closed" PROVE Presenter!NothingOutlives
      BY DEF Presenter!NothingOutlives
    <3>1. Balanced(holds, 0, 0)
      BY DEF PresenterInv
    <3>2. \A v \in 1 .. MaxVouts : holds[v] = 0
      BY <3>1 DEF Balanced, Presenter!PresenterConstants
    <3>3. QED
      BY <3>2 DEF PresenterInv, Presenter!NothingOutlives
  <2>4. Presenter!ReadableAndApart
    BY CueReadable DEF PresenterInv, Presenter!PresenterTypeOK
  <2>5. QED
    BY <2>1, <2>2, <2>3, <2>4 DEF Presenter!ScreenContract
<1>2. QED
  BY <1>1, PresenterInvariant, PTL

\* The presenter of the composition runs as CaptionPresenter says.
LEMMA PresenterRuns == ThreadsSpec => Presenter!Spec
<1>1. ThreadsInit => Presenter!Init
  BY DEF ThreadsInit
<1>2. [ThreadsNext]_<<part, vars, queueVars, epochVars, screenVars>>
          => [Presenter!Next]_(Presenter!vars)
  <2>1. UNCHANGED screenVars => UNCHANGED Presenter!vars
    BY DEF screenVars, Presenter!vars, Presenter!world, Presenter!caption, Presenter!progress
  <2>2. QED
    BY <2>1 DEF ThreadsNext
<1>3. QED
  BY <1>1, <1>2, PTL DEF ThreadsSpec, Presenter!Spec

\* The same of the composition that the run checks: references balanced, captions erasable,
\* nothing left, cues readable.
THEOREM ThreadsScreenContract == ThreadsSpec => []ScreenContract
<1>1. Presenter!Spec => []Presenter!ScreenContract
  BY ThreadsAssumption, PresenterScreenContract
<1>2. QED
  BY <1>1, PresenterRuns, PTL DEF ScreenContract

-----------------------------------------------------------------------------
(* Seeks and pauses (PluginEpochs).                                          *)

\* Cues that expire, as they come from the worker.
Expiring == [sid : Nat, of : Nat, at : Nat, stays : {FALSE}]

EpochsTyped ==
    /\ seeks \in Nat /\ run \in Nat /\ block \in {0, run}
    /\ source \in BOOLEAN /\ halted \in BOOLEAN /\ paused \in BOOLEAN /\ disc \in BOOLEAN
    /\ queue \in Seq(Nat) /\ heard \in SUBSET Nat
    /\ sid \in Nat /\ told.n \in Nat
    /\ wire \in Seq(Expiring) /\ pend \in Expiring

\* x is the run of audio that the audio thread is in.
Present(x) == x = run /\ x # 0

\* A live session that no handler is about to end: what it was sent and will
\* be sent, its cues and the screen are all of the present run.
LiveClean ==
    /\ \A i \in 1 .. Len(queue) : Present(queue[i])
    /\ \A g \in heard : Present(g)
    /\ \A i \in 1 .. Len(wire) : wire[i].sid = sid => Present(wire[i].of)
    /\ pend # Epochs!NoCue => Present(pend.of)
    /\ \A c \in shown : c # Epochs!NoCue => Present(c.of)

\* A source session: the cues of this session number are those of the last
\* seek, and so is the one that waits to be shown while the player runs.
SourceClean ==
    /\ heard = {}
    /\ \A i \in 1 .. Len(wire) : wire[i].sid = sid => wire[i].of = told.n
    /\ ~paused /\ pend # Epochs!NoCue => pend.of = told.n

EpochsInv ==
    /\ EpochsTyped
    /\ \A i \in 1 .. Len(wire) : wire[i].sid <= sid
    /\ source => SourceClean
    /\ ~source /\ ~Epochs!Signalled => LiveClean
    /\ ~paused => \A c \in shown : ~c.stays

LEMMA EpochsInitially ==
    ASSUME Epochs!EpochsConstants, Epochs!Init
    PROVE  EpochsInv
<1>1. EpochsTyped
  <2>1. Epochs!NoCue \in Expiring /\ [n |-> 0, at |-> Epochs!None, stale |-> FALSE].n = 0
    BY DEF Epochs!NoCue, Epochs!None, Expiring
  <2>2. source \in BOOLEAN
    BY DEF Epochs!Init, Epochs!EpochsConstants
  <2>3. << >> \in Seq(Nat) /\ << >> \in Seq(Expiring) /\ 0 \in Nat /\ 1 \in Nat
    OBVIOUS
  <2>4. QED
    BY <2>1, <2>2, <2>3, Zenon DEF Epochs!Init, EpochsTyped
<1>2. QED
  BY <1>1 DEF Epochs!Init, EpochsInv, SourceClean, LiveClean

\* Actions of the user and of the two threads that disturb none of it.
LEMMA QuietKeeps ==
    ASSUME EpochsInv, seeks' \in Nat, halted' \in BOOLEAN,
           UNCHANGED <<run, block, source, paused, disc, queue, heard, sid, told, wire, pend,
             shown>>,
           epochPc' = "handle" <=> epochPc = "handle"
    PROVE  EpochsInv'
<1>1. EpochsTyped'
  BY DEF EpochsInv, EpochsTyped
<1>2. Epochs!Signalled' <=> Epochs!Signalled
  BY DEF Epochs!Signalled
<1>3. LiveClean' <=> LiveClean
  BY DEF LiveClean, Present
<1>4. SourceClean' <=> SourceClean
  BY DEF SourceClean
<1>5. QED
  BY <1>1, <1>2, <1>3, <1>4 DEF EpochsInv

\* The audio thread: a jump is signalled before its audio is queued.
LEMMA AudioKeeps ==
    ASSUME Epochs!EpochsConstants, EpochsInv, Epochs!Audio
    PROVE  EpochsInv'
<1>1. CASE Epochs!InvalidBlock \/ Epochs!ValidAgain
  BY <1>1, QuietKeeps DEF Epochs!InvalidBlock, Epochs!ValidAgain, EpochsInv, EpochsTyped, Epochs!player,
     Epochs!session, Epochs!screen, Epochs!polled
<1>2. CASE Epochs!FilterBlock
  <2>1. PICK step \in {"back", "near", "ahead"}, flagged \in BOOLEAN :
           /\ run' = IF run = 0 \/ step # "near" THEN run + 1 ELSE run
           /\ disc' = (disc \/ Epochs!Jumped(step, flagged))
    BY <1>2 DEF Epochs!FilterBlock
  <2>2. /\ UNCHANGED <<seeks, halted, source, paused, queue, heard, sid, told, wire, pend, shown, epochPc>>
        /\ block' \in {0, run'}
    BY <1>2 DEF Epochs!FilterBlock, Epochs!player, Epochs!session, Epochs!screen, Epochs!polled
  <2>3. EpochsTyped'
    <3>1. run' \in Nat
      BY <2>1 DEF EpochsInv, EpochsTyped
    <3>2. disc' \in BOOLEAN
      BY <2>1, Zenon
    <3>3. QED
      BY <2>2, <3>1, <3>2 DEF EpochsInv, EpochsTyped
  <2>4. SourceClean' <=> SourceClean
    BY <2>2 DEF SourceClean
  <2>5. ~source' /\ ~Epochs!Signalled' => LiveClean'
    <3> SUFFICES ASSUME ~source, ~Epochs!Signalled' PROVE LiveClean'
      BY <2>2
    <3>1. ~Epochs!Signalled /\ ~Epochs!Jumped(step, flagged)
      BY <2>1, <2>2 DEF Epochs!Signalled, EpochsInv, EpochsTyped
    <3>2. LiveClean /\ (run = 0 \/ run' = run)
      BY <2>1, <3>1 DEF EpochsInv, Epochs!Jumped
    <3>3. QED
      BY <2>2, <3>2 DEF LiveClean, Present
  <2>6. QED
    BY <2>2, <2>3, <2>4, <2>5 DEF EpochsInv
<1>3. CASE Epochs!Capture
  <2>1. /\ block # 0 /\ block' = 0
        /\ queue' = queue \/ queue' = Append(queue, block)
        /\ UNCHANGED <<seeks, halted, run, source, paused, disc, heard, sid, told, wire, pend, shown,
             epochPc>>
    BY <1>3 DEF Epochs!Capture, Epochs!player, Epochs!session, Epochs!screen, Epochs!polled
  <2>2. queue \in Seq(Nat) /\ block \in Nat /\ block = run
    BY <2>1 DEF EpochsInv, EpochsTyped
  <2>3. queue' \in Seq(Nat)
    BY <2>1, <2>2
  <2>4. EpochsTyped'
    BY <2>1, <2>3 DEF EpochsInv, EpochsTyped
  <2>5. SourceClean' <=> SourceClean
    BY <2>1 DEF SourceClean
  <2>6. ~source' /\ ~Epochs!Signalled' => LiveClean'
    <3> SUFFICES ASSUME ~source, ~Epochs!Signalled' PROVE LiveClean'
      BY <2>1
    <3>1. LiveClean
      BY <2>1 DEF Epochs!Signalled, EpochsInv
    <3>2. \A i \in 1 .. Len(queue') : Present(queue'[i])
      BY <2>1, <2>2, <3>1 DEF LiveClean, Present
    <3>3. QED
      BY <2>1, <3>1, <3>2 DEF LiveClean, Present
  <2>7. QED
    BY <2>1, <2>4, <2>5, <2>6 DEF EpochsInv
<1>4. QED
  BY <1>1, <1>2, <1>3 DEF Epochs!Audio

\* The poll: an edge to playing takes the screen with it.
LEMMA PollKeeps ==
    ASSUME Epochs!EpochsConstants, EpochsInv, NEW p, NEW now \in BOOLEAN, NEW rated \in BOOLEAN,
             Epochs!PollPlayer(p, now, rated)
    PROVE  EpochsInv'
<1>1. /\ epochPc # "handle" /\ epochPc' = "disc" /\ paused' = now
      /\ UNCHANGED <<halted, run, block, source, queue, heard, sid, told, wire>>
      /\ \E b \in BOOLEAN : disc' = (disc \/ b)
      /\ seeks' = seeks \/ seeks' = seeks + 1
  <2>1. PICK jump \in BOOLEAN, stalled \in BOOLEAN : disc' = (disc \/ jump \/ stalled)
    BY DEF Epochs!PollPlayer
  <2>2. QED
    BY <2>1 DEF Epochs!PollPlayer, Epochs!Edge, Epochs!audio, Epochs!session
<1>2. \/ pend' = Epochs!NoCue /\ shown' = {}
      \/ pend' = pend /\ shown' = shown /\ (paused => now)
  BY DEF Epochs!PollPlayer, Epochs!Edge, Epochs!Blank, Epochs!screen, EpochsInv, EpochsTyped
<1>3. disc' \in BOOLEAN /\ (disc => disc')
  BY <1>1 DEF EpochsInv, EpochsTyped
<1>4. Epochs!NoCue \in Expiring
  BY DEF Epochs!NoCue, Epochs!None, Expiring
<1>5. EpochsTyped'
  <2>1. seeks' \in Nat
    BY <1>1 DEF EpochsInv, EpochsTyped
  <2>2. QED
    BY <1>1, <1>2, <1>3, <1>4, <2>1 DEF EpochsInv, EpochsTyped
<1>6. source' => SourceClean'
  BY <1>1, <1>2 DEF EpochsInv, SourceClean
<1>7. ~source' /\ ~Epochs!Signalled' => LiveClean'
  BY <1>1, <1>2, <1>3 DEF EpochsInv, LiveClean, Present, Epochs!Signalled
<1>8. ~paused' => \A c \in shown' : ~c.stays
  BY <1>1, <1>2 DEF EpochsInv
<1>9. QED
  BY <1>1, <1>5, <1>6, <1>7, <1>8 DEF EpochsInv

\* The handler: a new session, or a seek and a new session number; what is on
\* its way belongs to earlier ones.
LEMMA HandleKeeps ==
    ASSUME Epochs!EpochsConstants, EpochsInv, Epochs!Handle
    PROVE  EpochsInv'
<1>1. /\ epochPc = "handle" /\ epochPc' = "drain" /\ queue' = << >>
      /\ UNCHANGED <<seeks, halted, run, block, source, disc>>
      /\ wire' \in {wire, << >>}
  BY DEF Epochs!Handle, Epochs!player, Epochs!audio
<1>2. (pend' = Epochs!NoCue /\ shown' = {}) \/ (paused /\ source /\ UNCHANGED <<pend, shown>>)
  <2>1. CASE paused /\ Epochs!Previewing
    BY <2>1 DEF Epochs!Handle, Epochs!Previewing, Epochs!screen
  <2>2. CASE ~(paused /\ Epochs!Previewing)
    BY <2>2 DEF Epochs!Handle, Epochs!Blank
  <2>3. QED
    BY <2>1, <2>2
<1>3. \/ ~source /\ sid' = sid + 1 /\ heard' = {} /\ UNCHANGED <<told, paused>>
      \/ /\ source /\ Epochs!SeekTarget[1] /\ told'.n = told.n + 1
         /\ sid' = sid + 1 /\ UNCHANGED <<heard, paused>>
      \/ source /\ UNCHANGED <<sid, heard, told, paused>>
  BY DEF Epochs!Handle, Epochs!session, Epochs!polled
<1>4. Epochs!NoCue \in Expiring /\ << >> \in Seq(Nat) /\ << >> \in Seq(Expiring)
  BY DEF Epochs!NoCue, Epochs!None, Expiring
<1>5. wire \in Seq(Expiring) /\ sid \in Nat /\ told.n \in Nat
  BY DEF EpochsInv, EpochsTyped
<1>6. wire' \in Seq(Expiring) /\ sid' \in Nat /\ sid' >= sid
  <2>1. wire' \in Seq(Expiring)
    BY <1>1, <1>4, <1>5, Zenon
  <2>2. sid' = sid \/ sid' = sid + 1
    BY <1>3, Zenon
  <2>3. QED
    BY <1>5, <2>1, <2>2
<1>7. \A i \in 1 .. Len(wire') : wire'[i].sid <= sid /\ wire'[i].sid \in Nat
  <2> SUFFICES ASSUME NEW i \in 1 .. Len(wire') PROVE wire'[i].sid <= sid /\ wire'[i].sid \in Nat
    OBVIOUS
  <2>1. wire' = wire
    BY <1>1
  <2>2. wire[i] \in Expiring /\ wire[i].sid <= sid
    BY <1>5, <2>1, ElementOfSeq DEF EpochsInv
  <2>3. QED
    BY <2>1, <2>2 DEF Expiring
<1>8. sid' # sid => \A i \in 1 .. Len(wire') : wire'[i].sid # sid'
  BY <1>3, <1>5, <1>7
<1>9. ~paused => pend' = Epochs!NoCue
  BY <1>2
<1>10. told'.n \in Nat /\ (sid' = sid => told' = told \/ ~source)
  BY <1>3, <1>5
<1>11. EpochsTyped'
  BY <1>1, <1>2, <1>3, <1>4, <1>6, <1>10 DEF EpochsInv, EpochsTyped
<1>12. source' => SourceClean'
  <2> SUFFICES ASSUME source PROVE SourceClean'
    BY <1>1
  <2>1. SourceClean
    BY DEF EpochsInv
  <2>2. heard' = {} /\ paused' = paused
    BY <1>3, <2>1 DEF SourceClean
  <2>3. \A i \in 1 .. Len(wire') : wire'[i].sid = sid' => wire'[i].of = told'.n
    BY <1>1, <1>8, <1>10, <2>1 DEF SourceClean
  <2>4. QED
    BY <1>9, <2>2, <2>3 DEF SourceClean
<1>13. ~source' => LiveClean'
  BY <1>1, <1>2, <1>3, <1>5, <1>8 DEF LiveClean
<1>14. \A i \in 1 .. Len(wire') : wire'[i].sid <= sid'
  BY <1>5, <1>6, <1>7
<1>15. ~paused' => \A c \in shown' : ~c.stays
  BY <1>2, <1>3 DEF EpochsInv
<1>16. QED
  BY <1>11, <1>12, <1>13, <1>14, <1>15 DEF EpochsInv

\* Another medium: a new session, of which nothing is on its way and nothing on
\* the screen.
LEMMA SwapKeeps ==
    ASSUME Epochs!EpochsConstants, EpochsInv, Epochs!SwapMedia
    PROVE  EpochsInv'
<1>1. /\ epochPc = "poll" /\ epochPc' = "swapped" /\ queue' = << >> /\ heard' = {}
      /\ UNCHANGED <<seeks, halted, run, block, paused, disc>>
      /\ wire' \in {wire, << >>} /\ pend' = Epochs!NoCue /\ shown' = {}
      /\ sid' = sid + 1 /\ told'.n = told.n + 1
  BY DEF Epochs!SwapMedia, Epochs!audio, Epochs!Blank
<1>2. source' \in BOOLEAN
  BY DEF Epochs!SwapMedia, Epochs!EpochsConstants
<1>3. Epochs!NoCue \in Expiring /\ << >> \in Seq(Nat) /\ << >> \in Seq(Expiring)
  BY DEF Epochs!NoCue, Epochs!None, Expiring
<1>4. wire \in Seq(Expiring) /\ sid \in Nat /\ told.n \in Nat
  BY DEF EpochsInv, EpochsTyped
<1>5. wire' \in Seq(Expiring)
  BY <1>1, <1>3, <1>4, Zenon
<1>6. sid' \in Nat /\ told'.n \in Nat
  BY <1>1, <1>4
<1>7. EpochsTyped'
  BY <1>1, <1>2, <1>3, <1>5, <1>6 DEF EpochsInv, EpochsTyped
<1>8. \A i \in 1 .. Len(wire') : wire'[i].sid <= sid' /\ wire'[i].sid # sid'
  <2> SUFFICES ASSUME NEW i \in 1 .. Len(wire') PROVE wire'[i].sid <= sid' /\ wire'[i].sid # sid'
    OBVIOUS
  <2>1. wire' = wire
    BY <1>1
  <2>2. wire[i] \in Expiring /\ wire[i].sid <= sid
    BY <1>4, <2>1, ElementOfSeq DEF EpochsInv
  <2>3. PICK k \in Nat : k = wire'[i].sid
    BY <2>1, <2>2 DEF Expiring
  <2>4. QED
    BY <1>1, <1>4, <2>1, <2>2, <2>3
<1>9. SourceClean' /\ LiveClean'
  BY <1>1, <1>8 DEF SourceClean, LiveClean
<1>10. QED
  BY <1>1, <1>7, <1>8, <1>9 DEF EpochsInv

\* The flag, the drain and the audio that is sent.
LEMMA QueueKeeps ==
    ASSUME Epochs!EpochsConstants, EpochsInv, Epochs!TakeFlag \/ Epochs!Drain \/ Epochs!SendAudio
    PROVE  EpochsInv'
<1>0. queue \in Seq(Nat) /\ heard \in SUBSET Nat /\ EpochsTyped
  BY DEF EpochsInv, EpochsTyped
<1>1. /\ UNCHANGED <<seeks, halted, run, block, source, paused, sid, told, wire, pend, shown>>
      /\ queue' \in {queue, << >>} \/ (queue # << >> /\ queue' = Tail(queue))
      /\ heard' = heard \/ (~source /\ queue # << >> /\ heard' = heard \cup {Head(queue)})
      /\ Epochs!Signalled' <=> Epochs!Signalled
      /\ disc' \in BOOLEAN
  <2>1. CASE Epochs!TakeFlag
    BY <1>0, <2>1 DEF Epochs!TakeFlag, Epochs!Signalled, EpochsTyped, Epochs!player, Epochs!audio,
       Epochs!polled, Epochs!session, Epochs!screen
  <2>2. CASE Epochs!Drain
    BY <1>0, <2>2 DEF Epochs!Drain, Epochs!Signalled, EpochsTyped, Epochs!player, Epochs!audio,
       Epochs!polled, Epochs!session, Epochs!screen
  <2>3. CASE Epochs!SendAudio
    <3>1. CASE queue = << >>
      BY <1>0, <2>3, <3>1 DEF Epochs!SendAudio, Epochs!Signalled, EpochsTyped, Epochs!player,
         Epochs!audio, Epochs!polled, Epochs!screen
    <3>2. CASE queue # << >>
      BY <1>0, <2>3, <3>2 DEF Epochs!SendAudio, Epochs!Signalled, EpochsTyped, Epochs!player,
         Epochs!audio, Epochs!polled, Epochs!screen
    <3>3. QED
      BY <3>1, <3>2
  <2>4. QED
    BY <2>1, <2>2, <2>3
<1>2. queue # << >> => /\ Tail(queue) \in Seq(Nat) /\ Len(queue) \in Nat /\ Len(queue) > 0
                       /\ Len(Tail(queue)) = Len(queue) - 1 /\ Head(queue) = queue[1]
                            /\ Head(queue) \in Nat
                       /\ \A i \in 1 .. Len(queue) - 1 : Tail(queue)[i] = queue[i + 1]
  BY <1>0, HeadTailProperties, LenProperties, EmptySeq
<1>3. queue' \in Seq(Nat) /\ heard' \in SUBSET Nat
  <2>0. << >> \in Seq(Nat)
    OBVIOUS
  <2>1. queue' \in Seq(Nat)
    BY <1>0, <1>1, <1>2, <2>0, Zenon
  <2>2. heard' \in SUBSET Nat
    BY <1>0, <1>1, <1>2
  <2>3. QED
    BY <2>1, <2>2
<1>4. EpochsTyped'
  BY <1>0, <1>1, <1>3 DEF EpochsTyped
<1>5. source' => SourceClean'
  BY <1>1 DEF EpochsInv, SourceClean
<1>6. ~source' /\ ~Epochs!Signalled' => LiveClean'
  <2> SUFFICES ASSUME ~source, ~Epochs!Signalled PROVE LiveClean'
    BY <1>1
  <2>1. LiveClean
    BY DEF EpochsInv
  <2>2. \A i \in 1 .. Len(queue') : Present(queue'[i])
    <3>1. CASE queue' \in {queue, << >>}
      BY <2>1, <3>1 DEF LiveClean, Present
    <3>2. CASE queue # << >> /\ queue' = Tail(queue)
      <4> SUFFICES ASSUME NEW i \in 1 .. Len(queue') PROVE Present(queue'[i])
        OBVIOUS
      <4>1. i + 1 \in 1 .. Len(queue) /\ queue'[i] = queue[i + 1]
        BY <1>2, <3>2
      <4>2. QED
        BY <2>1, <4>1 DEF LiveClean, Present
    <3>3. QED
      BY <1>1, <3>1, <3>2
  <2>3. \A g \in heard' : Present(g)
    <3>1. queue # << >> => Present(Head(queue))
      <4> SUFFICES ASSUME queue # << >> PROVE Present(Head(queue))
        OBVIOUS
      <4>1. 1 \in 1 .. Len(queue) /\ Head(queue) = queue[1]
        BY <1>2
      <4>2. QED
        BY <2>1, <4>1 DEF LiveClean
    <3>2. QED
      BY <1>1, <2>1, <3>1 DEF LiveClean, Present
  <2>4. QED
    BY <1>1, <2>1, <2>2, <2>3 DEF LiveClean, Present
<1>7. QED
  BY <1>1, <1>4, <1>5, <1>6 DEF EpochsInv

\* A cue of the worker carries the number of the session.
LEMMA WorkerCueKeeps ==
    ASSUME Epochs!EpochsConstants, EpochsInv, Epochs!WorkerCue
    PROVE  EpochsInv'
<1>0. EpochsTyped /\ wire \in Seq(Expiring) /\ sid \in Nat
  BY DEF EpochsInv, EpochsTyped
<1>1. UNCHANGED <<seeks, halted, run, block, source, disc, epochPc, queue, heard, paused, sid, told,
        pend, shown>>
  BY DEF Epochs!WorkerCue, Epochs!player, Epochs!audio, Epochs!polled, Epochs!session, Epochs!screen
<1>2. PICK c : /\ wire' = Append(wire, c) /\ c \in Expiring /\ c.sid = sid
               /\ source => c.of = told.n
               /\ ~source => c.of \in heard
  <2>1. CASE ~source
    <3>1. PICK g \in heard : wire' = Append(wire, [sid |-> sid, of |-> g, at |-> Epochs!None,
            stays |-> FALSE])
      BY <2>1 DEF Epochs!WorkerCue
    <3>2. PICK c : c = [sid |-> sid, of |-> g, at |-> Epochs!None, stays |-> FALSE]
      OBVIOUS
    <3>3. c \in Expiring /\ c.sid = sid /\ c.of = g
      BY <1>0, <3>1, <3>2 DEF Expiring, Epochs!None, EpochsTyped
    <3>4. QED
      BY <2>1, <3>1, <3>2, <3>3
  <2>2. CASE source
    <3>1. PICK p \in Places : wire' = Append(wire, [sid |-> sid, of |-> told.n, at |-> p,
            stays |-> FALSE])
      BY <2>2 DEF Epochs!WorkerCue
    <3>2. PICK c : c = [sid |-> sid, of |-> told.n, at |-> p, stays |-> FALSE]
      OBVIOUS
    <3>3. c \in Expiring /\ c.sid = sid /\ c.of = told.n
      <4>1. p \in Nat
        BY DEF Epochs!EpochsConstants
      <4>2. told.n \in Nat
        BY <1>0 DEF EpochsTyped
      <4>3. QED
        BY <1>0, <3>2, <4>1, <4>2 DEF Expiring
    <3>4. QED
      BY <2>2, <3>1, <3>2, <3>3
  <2>3. QED
    BY <2>1, <2>2
<1>3. /\ wire' \in Seq(Expiring) /\ Len(wire') = Len(wire) + 1 /\ Len(wire) \in Nat
      /\ \A i \in 1 .. Len(wire) : wire'[i] = wire[i]
      /\ wire'[Len(wire) + 1] = c
  BY <1>0, <1>2, AppendProperties, LenProperties
<1>4. \A i \in 1 .. Len(wire') : i \in 1 .. Len(wire) \/ i = Len(wire) + 1
  BY <1>3
<1>5. EpochsTyped'
  BY <1>0, <1>1, <1>3 DEF EpochsTyped
<1>6. \A i \in 1 .. Len(wire') : wire'[i].sid <= sid
  <2>1. sid <= sid
    BY <1>0
  <2>2. QED
    BY <1>2, <1>3, <1>4, <2>1 DEF EpochsInv
<1>7. source' => SourceClean'
  BY <1>1, <1>2, <1>3, <1>4 DEF EpochsInv, SourceClean
<1>8. ~source' /\ ~Epochs!Signalled' => LiveClean'
  <2> SUFFICES ASSUME ~source, ~Epochs!Signalled PROVE LiveClean'
    BY <1>1 DEF Epochs!Signalled
  <2>1. LiveClean
    BY DEF EpochsInv
  <2>2. Present(c.of)
    BY <1>2, <2>1 DEF LiveClean
  <2>3. \A i \in 1 .. Len(wire') : wire'[i].sid = sid => Present(wire'[i].of)
    BY <1>3, <1>4, <2>1, <2>2 DEF LiveClean
  <2>4. QED
    BY <1>1, <2>1, <2>3 DEF LiveClean, Present
<1>9. QED
  BY <1>1, <1>5, <1>6, <1>7, <1>8 DEF EpochsInv

\* What a render leaves: the cue, and of the others only those that were there.
LEMMA RenderIs ==
    ASSUME NEW c, Epochs!Render(c)
    PROVE  /\ \A d \in shown' : d = c \/ (source /\ d \in shown)
BY DEF Epochs!Render

\* Cues received and shown.
LEMMA CuesKeep ==
    ASSUME Epochs!EpochsConstants, EpochsInv, Epochs!ReceiveCue \/ Epochs!FlushCue
    PROVE  EpochsInv'
<1>0. /\ EpochsTyped /\ wire \in Seq(Expiring) /\ sid \in Nat /\ pend \in Expiring
           /\ Epochs!NoCue \in Expiring
      /\ \A i \in 1 .. Len(wire) : wire[i].sid <= sid
      /\ ~paused => \A d \in shown : ~d.stays
  BY DEF EpochsInv, EpochsTyped, Epochs!NoCue, Epochs!None, Expiring
<1>1. /\ UNCHANGED <<seeks, halted, run, block, source, paused, disc, queue, heard, sid, told>>
      /\ epochPc # "handle" /\ epochPc' # "handle"
  BY DEF Epochs!ReceiveCue, Epochs!FlushCue, Epochs!player, Epochs!audio, Epochs!polled, Epochs!session
\* What each of the ways out does to the cues: fresh holds of every cue of
\* this session and of the pending one.
<1>2. ASSUME NEW c \in Expiring,
             c = Epochs!NoCue \/ (c.sid = sid /\ \E i \in 1 .. Len(wire) : c = wire[i]),
             wire' \in Seq(Expiring),
             \A i \in 1 .. Len(wire') : \E j \in 1 .. Len(wire) : wire'[i] = wire[j],
             pend' \in {pend, c, Epochs!NoCue}, pend' # pend => ~paused \/ pend' = Epochs!NoCue,
             \A d \in shown' : \/ d \in shown
                               \/ d = pend /\ ~paused
                               \/ source /\ paused
      PROVE  EpochsInv'
  <2>1. EpochsTyped'
    BY <1>0, <1>1, <1>2 DEF EpochsTyped
  <2>2. \A i \in 1 .. Len(wire') : wire'[i].sid <= sid
    BY <1>0, <1>2
  <2>3. ASSUME source PROVE SourceClean'
    <3>1. SourceClean
      BY <2>3 DEF EpochsInv
    <3>2. \A i \in 1 .. Len(wire') : wire'[i].sid = sid => wire'[i].of = told.n
      BY <1>2, <3>1 DEF SourceClean
    <3>3. ~paused /\ pend' # Epochs!NoCue => pend'.of = told.n
      BY <1>2, <3>1 DEF SourceClean
    <3>4. QED
      BY <1>1, <3>1, <3>2, <3>3 DEF SourceClean
  <2>4. ASSUME ~source, ~Epochs!Signalled PROVE LiveClean'
    <3>1. LiveClean
      BY <2>4 DEF EpochsInv
    <3>2. \A i \in 1 .. Len(wire') : wire'[i].sid = sid => Present(wire'[i].of)
      BY <1>2, <3>1 DEF LiveClean
    <3>3. pend' # Epochs!NoCue => Present(pend'.of)
      BY <1>2, <3>1 DEF LiveClean
    <3>4. \A d \in shown' : d # Epochs!NoCue => Present(d.of)
      BY <1>2, <2>4, <3>1 DEF LiveClean
    <3>5. QED
      BY <1>1, <3>1, <3>2, <3>3, <3>4 DEF LiveClean, Present
  <2>5. ~paused => \A d \in shown' : ~d.stays
    BY <1>0, <1>2 DEF Expiring
  <2>6. Epochs!Signalled' <=> Epochs!Signalled
    BY <1>1 DEF Epochs!Signalled
  <2>7. QED
    BY <1>1, <2>1, <2>2, <2>3, <2>4, <2>5, <2>6 DEF EpochsInv
<1>3. CASE Epochs!FlushCue
  <2>1. /\ wire' = wire
        /\ \/ UNCHANGED <<pend, shown>>
           \/ ~paused /\ Epochs!Render(pend) /\ pend' = Epochs!NoCue
    BY <1>3 DEF Epochs!FlushCue, Epochs!screen
  <2>2. \A d \in shown' : d \in shown \/ (d = pend /\ ~paused)
    BY <2>1, RenderIs
  <2>3. QED
    BY <1>0, <1>2, <2>1, <2>2
<1>4. CASE Epochs!ReceiveCue
  <2>1. PICK c : c = Head(wire)
    OBVIOUS
  <2>2. /\ wire # << >> /\ wire' = Tail(wire)
        /\ \/ UNCHANGED <<pend, shown>>
           \/ /\ ~Epochs!Stale(c) /\ ~paused /\ pend' = c
              /\ shown' = shown \/ Epochs!Render(pend)
           \/ /\ paused /\ source /\ pend' = Epochs!NoCue
              /\ Epochs!Render([c EXCEPT !.stays = TRUE])
    BY <1>4, <2>1 DEF Epochs!ReceiveCue, Epochs!Previewing, Epochs!screen
  <2>3. /\ Tail(wire) \in Seq(Expiring) /\ Len(wire) \in Nat /\ Len(wire) > 0
        /\ Len(Tail(wire)) = Len(wire) - 1 /\ Head(wire) = wire[1] /\ Head(wire) \in Expiring
        /\ \A i \in 1 .. Len(wire) - 1 : Tail(wire)[i] = wire[i + 1]
    BY <1>0, <2>2, HeadTailProperties, LenProperties, EmptySeq
  <2>4. \A i \in 1 .. Len(wire') : \E j \in 1 .. Len(wire) : wire'[i] = wire[j]
    <3> SUFFICES ASSUME NEW i \in 1 .. Len(wire') PROVE \E j \in 1 .. Len(wire) : wire'[i] = wire[j]
      OBVIOUS
    <3>1. i + 1 \in 1 .. Len(wire) /\ wire'[i] = wire[i + 1]
      BY <2>2, <2>3
    <3>2. QED
      BY <3>1
  <2>5. wire' \in Seq(Expiring) /\ c \in Expiring /\ \E i \in 1 .. Len(wire) : c = wire[i]
    BY <2>1, <2>2, <2>3
  <2>6. CASE ~Epochs!Stale(c)
    <3>1. c.sid = sid
      BY <2>6 DEF Epochs!Stale
    <3>2. \A d \in shown' : d \in shown \/ (d = pend /\ ~paused) \/ (source /\ paused)
      BY <2>2, RenderIs
    <3>3. pend' \in {pend, c, Epochs!NoCue} /\ (pend' # pend => ~paused \/ pend' = Epochs!NoCue)
      BY <2>2
    <3>4. QED
      BY <1>2, <2>4, <2>5, <3>1, <3>2, <3>3
  <2>7. CASE Epochs!Stale(c)
    <3>1. UNCHANGED <<pend, shown>>
      BY <1>4, <2>1, <2>7 DEF Epochs!ReceiveCue, Epochs!screen
    <3>2. QED
      BY <1>0, <1>2, <2>4, <2>5, <3>1
  <2>8. QED
    BY <2>6, <2>7
<1>5. QED
  BY <1>3, <1>4

LEMMA EpochsStep ==
    ASSUME Epochs!EpochsConstants, EpochsInv, [Epochs!Next]_Epochs!vars
    PROVE  EpochsInv'
<1>0. seeks \in Nat /\ halted \in BOOLEAN
  BY DEF EpochsInv, EpochsTyped
<1>1. CASE Epochs!Seek \/ Epochs!ChangeMedium \/ Epochs!Toggle
  <2>1. UNCHANGED <<run, block, source, paused, disc, queue, heard, sid, told, wire, pend, shown>>
        /\ epochPc' = epochPc
    BY <1>1 DEF Epochs!Seek, Epochs!ChangeMedium, Epochs!Toggle, Epochs!audio, Epochs!polled, Epochs!session, Epochs!screen
  <2>2. seeks' \in Nat
    <3>1. seeks' = seeks + 1 \/ seeks' = seeks
      BY <1>1 DEF Epochs!Seek, Epochs!ChangeMedium, Epochs!Toggle
    <3>2. QED
      BY <1>0, <3>1
  <2>3. halted' \in BOOLEAN
    <3>1. halted' = halted \/ halted' = (~halted)
      BY <1>1 DEF Epochs!Seek, Epochs!ChangeMedium, Epochs!Toggle
    <3>2. QED
      BY <1>0, <3>1
  <2>4. QED
    BY <2>1, <2>2, <2>3, QuietKeeps
<1>2. CASE Epochs!NotDue \/ Epochs!Drained \/ Epochs!ReceiveNothing
  BY <1>0, <1>2, QuietKeeps DEF Epochs!NotDue, Epochs!Drained, Epochs!ReceiveNothing, Epochs!player,
     Epochs!audio, Epochs!polled, Epochs!session, Epochs!screen
<1>3. CASE UNCHANGED Epochs!vars
  BY <1>0, <1>3, QuietKeeps DEF Epochs!vars, Epochs!player, Epochs!audio, Epochs!polled, Epochs!session,
     Epochs!screen
<1>4. CASE Epochs!Audio
  BY <1>4, AudioKeeps
<1>5. ASSUME NEW read \in Epochs!Sampled, NEW rated \in BOOLEAN,
             Epochs!PollPlayer(read[1], read[2], rated)
      PROVE  EpochsInv'
  <2>1. read[2] \in BOOLEAN
    <3>1. ASSUME NEW x, NEW b \in BOOLEAN PROVE <<x, b>>[2] \in BOOLEAN
      OBVIOUS
    <3>2. read = <<pos, halted>> \/ read = <<Epochs!None, halted>> \/ read = <<Epochs!None, FALSE>>
      BY <1>5 DEF Epochs!Sampled
    <3>3. QED
      BY <1>0, <3>1, <3>2
  <2>2. QED
    BY <1>5, <2>1, PollKeeps
<1>6. CASE Epochs!Handle
  BY <1>6, HandleKeeps
<1>7. CASE Epochs!TakeFlag \/ Epochs!Drain \/ Epochs!SendAudio
  BY <1>7, QueueKeeps
<1>8. CASE Epochs!ReceiveCue \/ Epochs!FlushCue
  BY <1>8, CuesKeep
<1>9. CASE Epochs!WorkerCue
  BY <1>9, WorkerCueKeeps
<1>10. CASE Epochs!SwapMedia
  BY <1>10, SwapKeeps
<1>11. QED
  BY <1>1, <1>2, <1>3, <1>4, <1>5, <1>6, <1>7, <1>8, <1>9, <1>10 DEF Epochs!Next, Epochs!Poll, Epochs!Rest

\* The inductive invariant of seeks and pauses.
THEOREM EpochsInvariant ==
    ASSUME Epochs!EpochsConstants
    PROVE  Epochs!Spec => []EpochsInv
<1>1. Epochs!Init => EpochsInv
  BY EpochsInitially
<1>2. EpochsInv /\ [Epochs!Next]_Epochs!vars => EpochsInv'
  BY EpochsStep
<1>3. QED
  BY <1>1, <1>2, PTL DEF Epochs!Spec

\* For any number of jumps of the time stamps, seeks, media, pauses, positions,
\* cues and any queue: audio and captions of a live session are of one run of
\* audio, or the handler that ends the session is on its way.
THEOREM EpochsJumpSeparates ==
    ASSUME Epochs!EpochsConstants
    PROVE  Epochs!Spec => []Epochs!JumpSeparates
<1>1. EpochsInv => Epochs!JumpSeparates
  <2> SUFFICES ASSUME EpochsInv PROVE Epochs!JumpSeparates
    OBVIOUS
  <2>1. Epochs!OneRunPerSession
    <3>1. ~Epochs!Signalled => heard \subseteq {run}
      BY DEF EpochsInv, EpochsTyped, SourceClean, LiveClean, Present
    <3>2. QED
      BY <3>1 DEF Epochs!OneRunPerSession
  <2>2. Epochs!NoCaptionFromBefore
    BY DEF EpochsInv, LiveClean, Present, Epochs!NoCaptionFromBefore
  <2>3. QED
    BY <2>1, <2>2 DEF Epochs!JumpSeparates
<1>2. QED
  BY <1>1, EpochsInvariant, PTL

\* For any number of seeks, pauses, positions and cues: in source mode no cue
\* from before a seek waits to be shown, and the cue of a paused preview is
\* gone when playback goes on.
THEOREM EpochsCuesFresh ==
    ASSUME Epochs!EpochsConstants
    PROVE  Epochs!Spec => []Epochs!SourceCuesFresh
<1>1. EpochsInv => Epochs!SourceCuesFresh
  BY DEF EpochsInv, SourceClean, Epochs!SourceCuesFresh, Epochs!NoPreSeekCue, Epochs!PausedCueGoes
<1>2. QED
  BY <1>1, EpochsInvariant, PTL

\* The seeks of the composition are those of PluginEpochs.
LEMMA EpochsRun == ThreadsSpec => Epochs!Spec
<1>1. ThreadsInit => Epochs!Init
  BY DEF ThreadsInit
<1>2. [ThreadsNext]_<<part, vars, queueVars, epochVars, screenVars>> => [Epochs!Next]_(Epochs!vars)
  <2>1. UNCHANGED epochVars => UNCHANGED Epochs!vars
    BY DEF epochVars, Epochs!vars, Epochs!player, Epochs!audio, Epochs!polled, Epochs!session,
           Epochs!screen
  <2>2. QED
    BY <2>1 DEF ThreadsNext
<1>3. QED
  BY <1>1, <1>2, PTL DEF ThreadsSpec, Epochs!Spec

\* The same of the composition that the run checks: a live session and the screen never keep both
\* sides of a jump of the time stamps.
THEOREM ThreadsJumpSeparates == ThreadsSpec => []JumpSeparates
<1>1. Epochs!Spec => []Epochs!JumpSeparates
  BY SeeksAssumption, EpochsJumpSeparates
<1>2. QED
  BY <1>1, EpochsRun, PTL DEF JumpSeparates

\* And for a file that the worker reads: no cue from before a seek, no paused cue after the pause.
THEOREM SeeksCuesFresh == Epochs!Spec => []SourceCuesFresh
<1>1. Epochs!Spec => []Epochs!SourceCuesFresh
  BY SeeksAssumption, EpochsCuesFresh
<1>2. QED
  BY <1>1, PTL DEF SourceCuesFresh
=============================================================================
