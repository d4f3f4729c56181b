----------------------- MODULE CaptionPipelineProofs -----------------------
(***************************************************************************)
(* The worker's caption path for every number of threads, segments,        *)
(* sessions and epochs: no stale caption, no caption twice, blame just     *)
(* before its caption, and a drain that leaves nothing behind.             *)
(*                                                                         *)
(* The main loop sees of the pool only which of the submitted cues it has  *)
(* been handed, and TranslateAsyncProofs says that those are the oldest    *)
(* ones.  The rest is about where a segment can be: in the builder,        *)
(* pending in the pool, on the wire, or dropped by a reset.                *)
(***************************************************************************)
EXTENDS CaptionPipeline, TranslateAsyncProofs, SequenceTheorems

\* The cues of this epoch that were handed over, and those still to come.
Given == Stream!DeliveredOf(log, epoch)
Pending == (Given + 1) .. accepted

\* The segments that have left the builder are the oldest of those made.
Emitted == made - Len(backlog)

Frames == [kind : {"caption", "error"}, id : Segments, session : Sessions, whole : BOOLEAN]

LoopTyped ==
    /\ main \in {"frame", "deliver1", "source", "build", "deliver2", "tail", "drain",
                 "ended", "exit"}
    /\ ending \in {"none", "stop", "seek", "media_end", "shutdown"}
    /\ running \in BOOLEAN /\ sessionActive \in BOOLEAN /\ paused \in BOOLEAN
    /\ sourceMode \in BOOLEAN /\ eof \in BOOLEAN /\ translating \in BOOLEAN
    /\ residual \in BOOLEAN /\ registered \in BOOLEAN /\ latched \in BOOLEAN
    /\ session \in Sessions /\ made \in 0 .. MaxSegments
    /\ backlog \in Seq(Segment)
    /\ cueSegs \in Seq(Segment) /\ Len(cueSegs) = accepted
    /\ wire \in Seq(Frames)
    /\ rejected \subseteq Segments /\ forgotten \subseteq Segments

\* Deliveries happen in the phases that deliver, on a transport that is
\* registered and not latched; a latched one has stopped the worker; and no
\* segment is made before the first delivery has registered the transport.
TransportKnown ==
    /\ owner = "delivering" => main \in Delivering /\ registered /\ ~latched
    /\ latched => registered /\ ~running
    /\ ~registered =>
        /\ main \in {"frame", "deliver1", "ended", "exit"}
        /\ main = "frame" => ~sessionActive
        /\ ~residual /\ backlog = << >>

\* Audio and segments are of the current session, and while the worker runs the
\* builder is empty except between a transcription and the phase that empties it.
BuilderKnown ==
    /\ residual => sessionActive
    /\ backlog # << >> => sessionActive
    /\ \A i \in 1 .. Len(backlog) : backlog[i].id = Emitted + i /\ backlog[i].session = session
    /\ Len(backlog) <= made
    /\ running /\ main \in {"frame", "deliver2", "drain", "ended"} => backlog = << >>

\* The submitted segments are in order, and so is everything that left the builder.
SegmentsOrdered ==
    /\ \A c, d \in 1 .. Len(cueSegs) : c < d => cueSegs[c].id < cueSegs[d].id
    /\ \A c \in 1 .. Len(cueSegs) : cueSegs[c].id <= Emitted
    /\ \A i \in 1 .. Len(wire) : wire[i].id <= Emitted
    /\ \A n \in rejected \cup forgotten : n <= Emitted
    /\ ~translating => accepted = 0

\* Work pending in the pool is of the session that is active, and not dropped;
\* when none is, all of it is dropped.
PendingFresh ==
    \A c \in Pending :
        IF sessionActive THEN cueSegs[c].session = session /\ cueSegs[c].id \notin forgotten
        ELSE cueSegs[c].id \in forgotten

\* A segment that is still pending is not on the wire, and only a rejected one
\* has overtaken it.
PendingUnsent ==
    \A i \in 1 .. Len(wire) : \A c \in Pending :
        CaptionAt(i) =>
            /\ wire[i].id # cueSegs[c].id
            /\ wire[i].id > cueSegs[c].id => wire[i].id \in rejected

\* A diagnostic that failed half-way has latched the transport.
TornLatches == \A i \in 1 .. Len(wire) : wire[i].kind = "error" /\ ~wire[i].whole => latched

\* While the worker runs, what left the builder is on the wire, pending or dropped.
NoneMissing ==
    running => \A n \in 1 .. Emitted :
        \/ \E i \in 1 .. Len(wire) : CaptionAt(i) /\ wire[i].id = n
        \/ n \in forgotten
        \/ \E c \in Pending : cueSegs[c].id = n

\* After the drain nothing is pending.
Drained ==
    main = "ended" /\ ending \in {"stop", "media_end", "shutdown"} /\ running /\ sessionActive
        => Pending = {}

\* Where the segments are.
Data ==
    /\ SegmentsOrdered
    /\ PendingFresh
    /\ OnceAndInOrder
    /\ PendingUnsent
    /\ BlamePrecedesItsCaption
    /\ TornLatches
    /\ NoneMissing

\* The inductive invariant of the caption path.
PipeInv ==
    /\ LoopTyped
    /\ TransportKnown
    /\ BuilderKnown
    /\ Drained
    /\ Data

-----------------------------------------------------------------------------
(* The pool under the loop.                                                 *)

\* Every step of the loop is a step of the pool, or leaves it alone.
LEMMA PipeIsPool == [PipeNext]_allVars => [Next]_vars
<1> SUFFICES ASSUME [PipeNext]_allVars PROVE [Next]_vars
  OBVIOUS
<1>1. CASE UNCHANGED allVars
  BY <1>1 DEF allVars
<1>2. CASE HandleFrame
  <2>1. Invalidate \/ UNCHANGED vars
    BY <1>2 DEF HandleFrame, OtherFrame, StartSession, StartRefused, Audio, Pause, Resume,
       Position, TranslateCtrl, EndSession, Reset, ClearBuffers
  <2>2. QED
    BY <2>1 DEF Next, OwnerStep
<1>3. CASE MainStep
  <2>1. Invalidate \/ Submit \/ TryDeliver \/ DeliverHeld \/ Destroy \/ UNCHANGED vars
    BY <1>3 DEF MainStep, SourceIdle, SourceRead, SourceTailFails, SourceReadError,
       SubmitSegment, SwallowSegment, RejectSegment, SendSegment, EmittingDone,
       TakeCompletion, HandOver, DeliveryDone, DrainDone, StopDone, ShutdownDone, Leave, Reset
  <2>2. QED
    BY <2>1 DEF Next, OwnerStep
<1>4. CASE PoolOnly
  BY <1>4 DEF PoolOnly, Next, OwnerStep
<1>5. CASE PeerGone
  BY <1>5 DEF PeerGone
<1>6. QED
  BY <1>1, <1>2, <1>3, <1>4, <1>5 DEF PipeNext

\* What is known of the pool.
PoolKnown == PoolInv /\ OrderInv

\* The theorems of the pool hold under the loop.
LEMMA PoolStaysKnown == PoolKnown /\ [PipeNext]_allVars => PoolKnown'
  BY PipeIsPool, PoolInvNext, OrderNext DEF PoolKnown

\* The counts the loop depends on.
LEMMA GivenFacts ==
    ASSUME PoolKnown
    PROVE  /\ Given \in Nat /\ accepted \in Nat /\ accepted \in 0 .. MaxCues
           /\ owner = "running" => Consumed = Given
           /\ owner = "delivering" => held.cue = Given + 1 /\ Given + 1 <= accepted
<1> USE DEF PoolKnown
<1>1. accepted \in Nat /\ accepted \in 0 .. MaxCues /\ Consumed \in Nat
  BY OrderTypes DEF PoolInv, TypeOK
<1>2. Given \in Nat
  <2>1. CASE log # << >>
    <3>1. log[Len(log)] \in Delivery
      BY <2>1 DEF PoolInv, TypeOK
    <3>2. QED
      BY <2>1, <3>1, BoundAssumption DEF Given, Stream!DeliveredOf, Delivery, Cues
  <2>2. CASE log = << >>
    BY <2>2 DEF Given, Stream!DeliveredOf
  <2>3. QED
    BY <2>1, <2>2
<1>3. owner # "delivering" => Consumed = Given
  BY DEF Consumed, Given
<1>4. owner = "delivering" => held.cue = Given + 1 /\ Given + 1 <= accepted
  <2>1. owner = "delivering" => held.cue = Given + 1 /\ ~stopping /\ Consumed = held.cue
    BY DEF OrderInv, DeliveriesKnown, Given, Consumed
  <2>2. ~stopping =>
            accepted = Consumed + Len(jobs) + Cardinality(CurrentWork) + Cardinality(results)
    BY DEF OrderInv, WindowCounted
  <2>3. /\ Len(jobs) \in Nat /\ Cardinality(CurrentWork) \in Nat
        /\ Cardinality(results) \in Nat
    BY OrderTypes
  <2>4. QED
    BY <1>1, <2>1, <2>2, <2>3
<1>5. QED
  BY <1>1, <1>2, <1>3, <1>4

\* vw_translate_async_invalidate: nothing accepted, nothing handed over.
LEMMA InvalidateClears ==
    ASSUME PoolKnown, Invalidate
    PROVE  Given' = 0 /\ accepted' = 0 /\ owner = "running" /\ owner' = "running"
<1>1. /\ accepted' = 0 /\ owner = "running" /\ owner' = "running" /\ log' = log
      /\ epoch' = epoch + 1
  BY DEF Invalidate
<1>2. epoch \in Nat /\ (log # << >> => log[Len(log)].epoch \in Nat /\ log[Len(log)].epoch <= epoch)
  <2>1. epoch \in Nat
    BY OrderTypes DEF PoolKnown
  <2>2. log # << >> => log[Len(log)] \in Delivery
    BY DEF PoolKnown, PoolInv, TypeOK
  <2>3. log # << >> => log[Len(log)].epoch \in Nat
    BY <2>2, BoundAssumption DEF Delivery, Epochs
  <2>4. QED
    BY <2>1, <2>3 DEF PoolKnown, OrderInv, DeliveriesKnown
<1>3. log # << >> => log[Len(log)].epoch # epoch + 1
  BY <1>2
<1>4. Given' = 0
  BY <1>1, <1>3 DEF Given, Stream!DeliveredOf
<1>5. QED
  BY <1>1, <1>4

\* The threads, and the creation and the end of the pool, hand nothing over.
LEMMA PoolAlone ==
    ASSUME PoolOnly
    PROVE  /\ Given' = Given /\ accepted' = accepted
           /\ owner' = "delivering" <=> owner = "delivering"
<1>1. /\ log' = log /\ epoch' = epoch /\ accepted' = accepted
      /\ owner' = "delivering" <=> owner = "delivering"
  BY DEF PoolOnly, CreateThread, Free, Gone, ThreadStep, ThreadWait, ThreadExit, ThreadTake,
     ThreadFinish, SpuriousWakeup, jobVars, poolVars, vars
<1>2. QED
  BY <1>1 DEF Given, Stream!DeliveredOf

\* The delivery callback hands the oldest pending cue over.
LEMMA DeliverHeldGives ==
    ASSUME PoolKnown, DeliverHeld
    PROVE  /\ owner = "delivering" /\ owner' = "running"
           /\ held.cue = Given + 1 /\ held.cue \in Pending
           /\ Given' = Given + 1 /\ accepted' = accepted
<1>1. /\ owner = "delivering" /\ owner' = "running" /\ epoch' = epoch /\ accepted' = accepted
      /\ log' = Append(log, [epoch |-> held.epoch, cue |-> held.cue])
  BY DEF DeliverHeld, jobVars
<1>2. held.cue = Given + 1 /\ Given + 1 <= accepted /\ Given \in Nat /\ accepted \in Nat
  BY <1>1, GivenFacts
<1>3. held.epoch = epoch /\ log \in Seq(Delivery) /\ held \in Completion
  BY <1>1 DEF PoolKnown, OrderInv, DeliveriesKnown, PoolInv, TypeOK, LocalsTyped
<1>4. /\ log' # << >> /\ Len(log') = Len(log) + 1
      /\ log'[Len(log) + 1] = [epoch |-> held.epoch, cue |-> held.cue]
  <2>1. [epoch |-> held.epoch, cue |-> held.cue] \in Delivery
    BY <1>3 DEF Delivery, Completion
  <2>2. QED
    BY <1>1, <1>3, <2>1
<1>5. log'[Len(log')].epoch = epoch /\ log'[Len(log')].cue = held.cue
  BY <1>3, <1>4
<1>6. Given' = held.cue
  BY <1>1, <1>4, <1>5 DEF Given, Stream!DeliveredOf
<1>7. QED
  BY <1>1, <1>2, <1>6 DEF Pending

\* Submitting adds one cue, taking a completion none, destroying none.
LEMMA PoolCalls ==
    ASSUME PoolKnown
    PROVE  /\ Submit => Given' = Given /\ accepted' = accepted + 1 /\ owner' = owner
                        /\ owner = "running"
           /\ TryDeliver => Given' = Given /\ accepted' = accepted /\ owner = "running"
           /\ Destroy => Given' = Given /\ accepted' = accepted /\ owner' = "joining"
  BY DEF Submit, TryDeliver, Destroy, jobVars, Given, Stream!DeliveredOf

-----------------------------------------------------------------------------
(* The segments.                                                            *)

\* A step that leaves the segments where they are.
LEMMA QuietData ==
    ASSUME Data, cueSegs' = cueSegs, Given' = Given, accepted' = accepted, Emitted' = Emitted,
           wire' = wire, rejected' = rejected, forgotten' = forgotten,
           translating' = translating, session' = session, sessionActive' = sessionActive,
           latched' = latched, running' => running
    PROVE  Data'
<1>1. Pending' = Pending
  BY DEF Pending
<1>2. SegmentsOrdered' /\ PendingFresh'
  BY <1>1 DEF Data, SegmentsOrdered, PendingFresh
<1>3. OnceAndInOrder' /\ PendingUnsent'
  BY <1>1 DEF Data, OnceAndInOrder, PendingUnsent, CaptionAt
<1>4. BlamePrecedesItsCaption' /\ TornLatches'
  BY DEF Data, BlamePrecedesItsCaption, TornLatches, CaptionAt
<1>5. NoneMissing'
  BY <1>1 DEF Data, NoneMissing, CaptionAt
<1>6. QED
  BY <1>2, <1>3, <1>4, <1>5 DEF Data

\* What the builder and the pool hold, by number.
LEMMA HeldSegments ==
    ASSUME PoolKnown, LoopTyped, BuilderKnown
    PROVE  /\ Emitted \in Nat /\ made \in Nat /\ Len(backlog) \in Nat
           /\ Emitted + Len(backlog) = made
           /\ \A n \in InBuilder : n \in Segments /\ Emitted < n /\ n <= made
           /\ \A n \in 1 .. made : Emitted < n => n \in InBuilder
           /\ Pending \subseteq 1 .. Len(cueSegs)
           /\ \A c \in Pending : cueSegs[c] \in Segment /\ cueSegs[c].id \in Segments
           /\ owner = "running" => InPool = {cueSegs[c].id : c \in Pending}
<1>1. /\ Len(backlog) \in Nat /\ made \in Nat /\ Len(backlog) <= made
      /\ DOMAIN backlog = 1 .. Len(backlog) /\ MaxSegments \in Nat
  BY PipelineAssumption, BoundAssumption DEF LoopTyped, BuilderKnown
<1>2. Emitted \in Nat /\ Emitted + Len(backlog) = made
  BY <1>1 DEF Emitted
<1>3. \A n \in InBuilder : n \in Segments /\ Emitted < n /\ n <= made
  <2>1. ASSUME NEW i \in 1 .. Len(backlog)
        PROVE  backlog[i].id \in Segments /\ Emitted < backlog[i].id /\ backlog[i].id <= made
    <3>1. backlog[i] \in Segment /\ backlog[i].id = Emitted + i
      BY <1>1 DEF LoopTyped, BuilderKnown
    <3>2. QED
      BY <1>1, <1>2, <3>1 DEF Segment
  <2>2. QED
    BY <1>1, <2>1 DEF InBuilder
<1>4. ASSUME NEW n \in 1 .. made, Emitted < n
      PROVE  n \in InBuilder
  <2>1. n - Emitted \in 1 .. Len(backlog) /\ Emitted + (n - Emitted) = n
    BY <1>1, <1>2, <1>4
  <2>2. backlog[n - Emitted].id = n
    BY <2>1 DEF BuilderKnown
  <2>3. QED
    BY <1>1, <2>1, <2>2 DEF InBuilder
<1>5. Given \in Nat /\ accepted \in Nat /\ Len(cueSegs) = accepted
  BY GivenFacts DEF LoopTyped
<1>6. Pending \subseteq 1 .. Len(cueSegs)
  BY <1>5 DEF Pending
<1>7. \A c \in Pending : cueSegs[c] \in Segment /\ cueSegs[c].id \in Segments
  <2>1. \A c \in Pending : cueSegs[c] \in Segment
    BY <1>6 DEF LoopTyped
  <2>2. QED
    BY <2>1 DEF Segment
<1>8. owner = "running" => InPool = {cueSegs[c].id : c \in Pending}
  BY GivenFacts DEF InPool, Pending
<1>9. QED
  BY <1>1, <1>2, <1>3, <1>4, <1>6, <1>7, <1>8

\* Inference adds segments of the current session behind the others.
LEMMA TranscribeFacts ==
    ASSUME LoopTyped, BuilderKnown, NEW most \in Nat, Transcribe(most), session' = session
    PROVE  /\ Emitted' = Emitted
           /\ backlog' \in Seq(Segment) /\ made' \in 0 .. MaxSegments /\ Len(backlog') <= made'
           /\ \A i \in 1 .. Len(backlog') :
                 backlog'[i].id = Emitted' + i /\ backlog'[i].session = session'
<1>1. PICK n \in 0 .. most :
         /\ made + n <= MaxSegments
         /\ made' = made + n
         /\ backlog' = backlog \o [i \in 1 .. n |-> [id |-> made + i, session |-> session]]
  BY DEF Transcribe
<1>2. /\ Len(backlog) \in Nat /\ made \in Nat /\ n \in Nat /\ Len(backlog) <= made
      /\ MaxSegments \in Nat /\ backlog \in Seq(Segment) /\ session \in Sessions
  BY PipelineAssumption, BoundAssumption DEF LoopTyped, BuilderKnown
<1> DEFINE new == [i \in 1 .. n |-> [id |-> made + i, session |-> session]]
<1>3. new \in Seq(Segment) /\ Len(new) = n
  <2>1. \A i \in 1 .. n : [id |-> made + i, session |-> session] \in Segment
    BY <1>1, <1>2 DEF Segment, Segments
  <2>2. new \in [1 .. n -> Segment]
    BY <2>1
  <2> HIDE DEF new
  <2>3. QED
    BY <1>2, <2>2
<1>4. \A i \in 1 .. n : new[i].id = made + i /\ new[i].session = session
  OBVIOUS
<1>5. backlog' = backlog \o new
  BY <1>1
<1> HIDE DEF new
<1>6. /\ backlog' \in Seq(Segment) /\ Len(backlog') = Len(backlog) + n
      /\ \A i \in 1 .. Len(backlog) : backlog'[i] = backlog[i]
      /\ \A i \in Len(backlog) + 1 .. Len(backlog) + n : backlog'[i] = new[i - Len(backlog)]
  <2>1. /\ backlog \o new \in Seq(Segment) /\ Len(backlog \o new) = Len(backlog) + Len(new)
        /\ \A i \in 1 .. Len(backlog) + Len(new) :
              (backlog \o new)[i] = IF i <= Len(backlog) THEN backlog[i] ELSE new[i - Len(backlog)]
    BY <1>2, <1>3, ConcatProperties
  <2>2. QED
    BY <1>2, <1>3, <1>5, <2>1
<1>7. Emitted' = Emitted /\ Emitted \in Nat /\ Len(backlog') <= made'
  <2>1. made' - Len(backlog') = made - Len(backlog)
    BY <1>1, <1>2, <1>6
  <2>2. QED
    BY <1>1, <1>2, <1>6, <2>1 DEF Emitted
<1>8. ASSUME NEW i \in 1 .. Len(backlog')
      PROVE  backlog'[i].id = Emitted + i /\ backlog'[i].session = session
  <2>1. CASE i <= Len(backlog)
    <3>1. i \in 1 .. Len(backlog)
      BY <1>2, <1>6, <2>1
    <3>2. QED
      BY <1>6, <3>1 DEF BuilderKnown
  <2>2. CASE i > Len(backlog)
    <3>1. i \in Len(backlog) + 1 .. Len(backlog) + n /\ i - Len(backlog) \in 1 .. n
      BY <1>2, <1>6, <2>2
    <3>2. backlog'[i].id = made + (i - Len(backlog)) /\ backlog'[i].session = session
      BY <1>4, <1>6, <3>1
    <3>3. made + (i - Len(backlog)) = Emitted + i
      BY <1>2, <3>1 DEF Emitted
    <3>4. QED
      BY <3>2, <3>3
  <2>3. i <= Len(backlog) \/ i > Len(backlog)
    BY <1>2, <1>6
  <2>4. QED
    BY <2>1, <2>2, <2>3
<1>9. made' \in 0 .. MaxSegments
  BY <1>1, <1>2
<1>10. QED
  BY <1>6, <1>7, <1>8, <1>9

\* Everything that has left the builder is older than what is still in it.
LEMMA AllOlder ==
    ASSUME PoolKnown, LoopTyped, BuilderKnown, SegmentsOrdered
    PROVE  /\ Emitted \in Nat
           /\ \A i \in 1 .. Len(wire) : wire[i].id \in Nat /\ wire[i].id <= Emitted
           /\ \A c \in 1 .. Len(cueSegs) : cueSegs[c].id \in Nat /\ cueSegs[c].id <= Emitted
           /\ \A n \in rejected \cup forgotten : n \in Nat /\ n <= Emitted
<1>1. Emitted \in Nat
  BY HeldSegments
<1>2. \A i \in 1 .. Len(wire) : wire[i] \in Frames
  BY DEF LoopTyped
<1>3. \A i \in 1 .. Len(wire) : wire[i].id \in Nat
  BY <1>2 DEF Frames, Segments
<1>4. \A c \in 1 .. Len(cueSegs) : cueSegs[c] \in Segment
  BY DEF LoopTyped
<1>5. \A c \in 1 .. Len(cueSegs) : cueSegs[c].id \in Nat
  BY <1>4 DEF Segment, Segments
<1>6. \A n \in rejected \cup forgotten : n \in Nat
  BY DEF LoopTyped, Segments
<1>7. QED
  BY <1>1, <1>3, <1>5, <1>6 DEF SegmentsOrdered

\* A reset: what was in the builder or in the pool is dropped for good.
LEMMA ResetFacts ==
    ASSUME PoolKnown, PipeInv, Reset, wire' = wire, rejected' = rejected,
           translating' = translating, latched' = latched, running' => running
    PROVE  /\ Data' /\ Pending' = {} /\ accepted' = 0 /\ owner' = "running" /\ owner = "running"
           /\ residual' = FALSE /\ backlog' = << >> /\ made' = made /\ cueSegs' = << >>
           /\ forgotten' \subseteq Segments /\ Len(backlog') = 0 /\ Len(cueSegs') = 0
<1>1. /\ residual' = FALSE /\ backlog' = << >> /\ cueSegs' = << >> /\ made' = made
      /\ forgotten' = forgotten \cup InBuilder \cup InPool
  BY DEF Reset
<1>2. Given' = 0 /\ accepted' = 0 /\ owner = "running" /\ owner' = "running"
  BY InvalidateClears DEF Reset
<1>3. Pending' = {}
  BY <1>2 DEF Pending
<1>4. Len(backlog') = 0 /\ Len(cueSegs') = 0
  BY <1>1
<1>5. made \in Nat /\ Emitted \in Nat /\ Emitted <= made
  BY HeldSegments DEF PipeInv
<1>6. Emitted' = made
  BY <1>1, <1>4, <1>5 DEF Emitted
<1>7. forgotten' \subseteq Segments
  BY <1>1, <1>2, HeldSegments DEF PipeInv, LoopTyped
<1>8. SegmentsOrdered'
  <2>1. \A n \in InBuilder : n <= made
    BY HeldSegments DEF PipeInv
  <2>2. \A n \in InPool : n <= Emitted
    BY <1>2, HeldSegments DEF PipeInv, Data, SegmentsOrdered
  <2>3. \A n \in InPool : n \in Nat
    BY <1>2, HeldSegments DEF PipeInv, Segments
  <2>4. \A n \in rejected' \cup forgotten' : n <= made
    <3>1. \A n \in rejected \cup forgotten : n \in Nat /\ n <= Emitted
      BY AllOlder DEF PipeInv, Data
    <3>2. \A n \in rejected \cup forgotten \cup InPool : n <= made
      BY <1>5, <2>2, <2>3, <3>1
    <3>3. QED
      BY <1>1, <2>1, <3>2
  <2>5. \A i \in 1 .. Len(wire) : wire[i].id <= made
    <3>1. \A i \in 1 .. Len(wire) : wire[i].id \in Nat /\ wire[i].id <= Emitted
      BY AllOlder DEF PipeInv, Data
    <3>2. QED
      BY <1>5, <3>1
  <2>6. \A c \in 1 .. Len(cueSegs') : FALSE
    BY <1>4
  <2>7. QED
    BY <1>2, <1>6, <2>4, <2>5, <2>6 DEF SegmentsOrdered
<1>9. PendingFresh' /\ PendingUnsent'
  BY <1>3 DEF PendingFresh, PendingUnsent
<1>10. OnceAndInOrder' /\ BlamePrecedesItsCaption' /\ TornLatches'
  BY DEF PipeInv, Data, OnceAndInOrder, BlamePrecedesItsCaption, TornLatches, CaptionAt
<1>11. NoneMissing'
  <2>1. ASSUME running, NEW n \in 1 .. made
        PROVE  (\E i \in 1 .. Len(wire) : CaptionAt(i) /\ wire[i].id = n) \/ n \in forgotten'
    <3>1. CASE n <= Emitted
      <4>1. n \in 1 .. Emitted
        BY <1>5, <3>1
      <4>2. \/ \E i \in 1 .. Len(wire) : CaptionAt(i) /\ wire[i].id = n
            \/ n \in forgotten
            \/ \E c \in Pending : cueSegs[c].id = n
        BY <2>1, <4>1 DEF PipeInv, Data, NoneMissing
      <4>3. (\E c \in Pending : cueSegs[c].id = n) => n \in InPool
        BY <1>2, HeldSegments DEF PipeInv
      <4>4. QED
        BY <1>1, <4>2, <4>3
    <3>2. CASE Emitted < n
      BY <1>1, <3>2, HeldSegments DEF PipeInv
    <3>3. n <= Emitted \/ Emitted < n
      BY <1>5
    <3>4. QED
      BY <3>1, <3>2, <3>3
  <2>2. QED
    BY <1>6, <2>1 DEF NoneMissing, CaptionAt
<1>12. QED
  BY <1>1, <1>2, <1>3, <1>4, <1>7, <1>8, <1>9, <1>10, <1>11 DEF Data

-----------------------------------------------------------------------------
(* Steps that leave the segments where they are.                            *)

\* The builder's segments are untouched.
BuilderSame == backlog' = backlog /\ made' = made /\ session' = session

\* Then the numbers stay.
LEMMA BuilderStays ==
    ASSUME BuilderKnown, BuilderSame
    PROVE  /\ Emitted' = Emitted /\ Len(backlog') <= made'
           /\ \A i \in 1 .. Len(backlog') :
                 backlog'[i].id = Emitted' + i /\ backlog'[i].session = session'
<1>1. Emitted' = Emitted
  BY DEF BuilderSame, Emitted
<1>2. QED
  BY <1>1 DEF BuilderSame, BuilderKnown

\* No frame, or nothing to decode.
LEMMA OtherKeeps ==
    ASSUME PoolKnown, PipeInv, OtherFrame \/ SourceIdle
    PROVE  PipeInv'
<1>1. /\ cueSegs' = cueSegs /\ wire' = wire /\ rejected' = rejected /\ forgotten' = forgotten
      /\ translating' = translating /\ sessionActive' = sessionActive
      /\ latched' = latched /\ registered' = registered /\ running' = running
      /\ paused' = paused /\ sourceMode' = sourceMode /\ eof' = eof /\ residual' = residual
      /\ ending' = ending /\ owner' = owner /\ accepted' = accepted /\ log' = log
      /\ epoch' = epoch /\ BuilderSame
      /\ \/ (main = "frame" /\ main' = "deliver1" /\ owner = "running")
         \/ (main = "source" /\ main' = "build")
  BY DEF OtherFrame, NextFrame, SourceIdle, vars, sessionVars, builderVars, wireVars, BuilderSame
<1>2. Given' = Given
  BY <1>1 DEF Given, Stream!DeliveredOf
<1>3. Data'
  BY <1>1, <1>2, BuilderStays, QuietData DEF PipeInv, BuilderSame
<1>4. LoopTyped'
  BY <1>1 DEF PipeInv, LoopTyped, BuilderSame
<1>5. TransportKnown'
  BY <1>1 DEF PipeInv, TransportKnown, BuilderSame, Delivering
<1>6. BuilderKnown'
  BY <1>1, BuilderStays DEF PipeInv, BuilderKnown, BuilderSame
<1>7. Drained'
  BY <1>1 DEF Drained
<1>8. QED
  BY <1>3, <1>4, <1>5, <1>6, <1>7 DEF PipeInv

\* Nothing left to emit.
LEMMA EmittingDoneKeeps ==
    ASSUME PoolKnown, PipeInv, EmittingDone
    PROVE  PipeInv'
<1>1. /\ cueSegs' = cueSegs /\ wire' = wire /\ rejected' = rejected /\ forgotten' = forgotten
      /\ translating' = translating /\ sessionActive' = sessionActive
      /\ latched' = latched /\ registered' = registered
      /\ paused' = paused /\ sourceMode' = sourceMode /\ eof' = eof /\ residual' = residual
      /\ ending' = ending /\ owner' = owner /\ accepted' = accepted /\ log' = log
      /\ epoch' = epoch /\ BuilderSame /\ backlog = << >>
      /\ \/ (main = "build" /\ main' = "deliver2")
         \/ (main = "tail" /\ main' = AfterTail)
  BY DEF EmittingDone, vars, sessionVars, builderVars, wireVars, BuilderSame
<1>2. Given' = Given
  BY <1>1 DEF Given, Stream!DeliveredOf
<1>3. (running' => running) /\ running' \in BOOLEAN
  BY DEF EmittingDone, Reply, PipeInv, LoopTyped
<1>4. Data'
  BY <1>1, <1>2, <1>3, BuilderStays, QuietData DEF PipeInv, BuilderSame
<1>5. main' \in {"deliver2", "drain", "ended"} /\ (main' = "ended" => ~sessionActive)
  BY <1>1 DEF AfterTail
<1>6. LoopTyped'
  BY <1>1, <1>3, <1>5 DEF PipeInv, LoopTyped, BuilderSame
<1>7. TransportKnown'
  BY <1>1, <1>3, <1>5 DEF PipeInv, TransportKnown, BuilderSame, Delivering
<1>8. BuilderKnown'
  BY <1>1, BuilderStays DEF PipeInv, BuilderKnown, BuilderSame
<1>9. Drained'
  BY <1>1, <1>5 DEF Drained
<1>10. QED
  BY <1>4, <1>6, <1>7, <1>8, <1>9 DEF PipeInv

\* Nothing left to deliver, or a transport that takes nothing.
LEMMA DeliveryDoneKeeps ==
    ASSUME PoolKnown, PipeInv, DeliveryDone
    PROVE  PipeInv'
<1>1. /\ cueSegs' = cueSegs /\ wire' = wire /\ rejected' = rejected /\ forgotten' = forgotten
      /\ translating' = translating /\ sessionActive' = sessionActive
      /\ registered' = TRUE
      /\ paused' = paused /\ sourceMode' = sourceMode /\ eof' = eof /\ residual' = residual
      /\ ending' = ending /\ owner' = owner /\ accepted' = accepted /\ log' = log
      /\ epoch' = epoch /\ BuilderSame /\ owner = "running"
      /\ \/ (main = "deliver1" /\ main' = "source")
         \/ (main = "deliver2" /\ main' = "frame")
  BY DEF DeliveryDone, Register, vars, sessionVars, builderVars, BuilderSame
<1>2. Given' = Given
  BY <1>1 DEF Given, Stream!DeliveredOf
<1>3. latched' = latched /\ (running' => running) /\ running' \in BOOLEAN
  BY DEF DeliveryDone, Register, Latched, PipeInv, LoopTyped, TransportKnown
<1>4. Data'
  BY <1>1, <1>2, <1>3, BuilderStays, QuietData DEF PipeInv, BuilderSame
<1>5. LoopTyped'
  BY <1>1, <1>3 DEF PipeInv, LoopTyped, BuilderSame
<1>6. TransportKnown'
  BY <1>1, <1>3 DEF PipeInv, TransportKnown, BuilderSame
<1>7. BuilderKnown'
  BY <1>1, <1>3, BuilderStays DEF PipeInv, BuilderKnown, BuilderSame
<1>8. Drained'
  BY <1>1 DEF Drained
<1>9. QED
  BY <1>4, <1>5, <1>6, <1>7, <1>8 DEF PipeInv

\* A completion is taken out of the pool; its turn comes with the callback.
LEMMA TakeCompletionKeeps ==
    ASSUME PoolKnown, PipeInv, TakeCompletion
    PROVE  PipeInv'
<1>1. /\ cueSegs' = cueSegs /\ wire' = wire /\ rejected' = rejected /\ forgotten' = forgotten
      /\ translating' = translating /\ sessionActive' = sessionActive
      /\ registered' = TRUE /\ running' = running /\ main' = main /\ main \in Delivering
      /\ paused' = paused /\ sourceMode' = sourceMode /\ eof' = eof /\ residual' = residual
      /\ ending' = ending /\ BuilderSame
  BY DEF TakeCompletion, Register, sessionVars, builderVars, BuilderSame
<1>2. Given' = Given /\ accepted' = accepted
  BY PoolCalls DEF TakeCompletion
<1>3. latched' = latched /\ ~latched
  BY DEF TakeCompletion, Register, Latched, PipeInv, LoopTyped, TransportKnown
<1>4. Data'
  BY <1>1, <1>2, <1>3, BuilderStays, QuietData DEF PipeInv, BuilderSame
<1>5. LoopTyped'
  BY <1>1, <1>2, <1>3 DEF PipeInv, LoopTyped, BuilderSame
<1>6. TransportKnown'
  BY <1>1, <1>3 DEF PipeInv, TransportKnown, BuilderSame
<1>7. BuilderKnown'
  BY <1>1, <1>3, BuilderStays DEF PipeInv, BuilderKnown, BuilderSame
<1>8. Drained'
  BY <1>1 DEF Drained, Delivering
<1>9. QED
  BY <1>4, <1>5, <1>6, <1>7, <1>8 DEF PipeInv

\* The drain is over: the worker is to stop, or nothing is pending any more.
LEMMA DrainDoneKeeps ==
    ASSUME PoolKnown, PipeInv, DrainDone
    PROVE  PipeInv'
<1>1. /\ cueSegs' = cueSegs /\ wire' = wire /\ rejected' = rejected /\ forgotten' = forgotten
      /\ translating' = translating /\ sessionActive' = sessionActive
      /\ latched' = latched /\ registered' = registered /\ running' = running
      /\ paused' = paused /\ sourceMode' = sourceMode /\ eof' = eof /\ residual' = residual
      /\ ending' = ending /\ owner' = owner /\ accepted' = accepted /\ log' = log
      /\ epoch' = epoch /\ BuilderSame /\ owner = "running" /\ main = "drain" /\ main' = "ended"
      /\ ~running \/ ~HasPending
  BY DEF DrainDone, vars, sessionVars, builderVars, wireVars, BuilderSame
<1>2. Given' = Given
  BY <1>1 DEF Given, Stream!DeliveredOf
<1>3. Data'
  BY <1>1, <1>2, BuilderStays, QuietData DEF PipeInv, BuilderSame
<1>4. LoopTyped'
  BY <1>1 DEF PipeInv, LoopTyped, BuilderSame
<1>5. TransportKnown'
  BY <1>1 DEF PipeInv, TransportKnown, BuilderSame
<1>6. BuilderKnown'
  BY <1>1, BuilderStays DEF PipeInv, BuilderKnown, BuilderSame
<1>7. ~HasPending => Pending = {}
  <2>1. CASE HasPending
    BY <2>1
  <2>2. CASE ~HasPending
    <3>1. jobs = << >> /\ inflight = 0 /\ results = {}
      BY <2>2 DEF HasPending
    <3>2. ~stopping /\ Consumed = Given
      BY <1>1, GivenFacts DEF PoolKnown, OrderInv
    <3>3. accepted = Consumed + Len(jobs) + Cardinality(CurrentWork) + Cardinality(results)
      BY <3>2 DEF PoolKnown, OrderInv, WindowCounted
    <3>4. Len(jobs) = 0 /\ Cardinality(results) = 0 /\ Cardinality(CurrentWork) = 0
      <4>1. Cardinality(CurrentWork) \in Nat /\ Cardinality(CurrentWork) <= inflight
        BY OrderTypes DEF PoolKnown
      <4>2. Cardinality(results) = 0
        BY <3>1, FS_EmptySet
      <4>3. QED
        BY <3>1, <4>1, <4>2
    <3>5. accepted = Given /\ Given \in Nat
      BY <3>2, <3>3, <3>4, GivenFacts
    <3>6. QED
      BY <3>5 DEF Pending
  <2>3. QED
    BY <2>1, <2>2
<1>8. Drained'
  <2>1. Pending' = Pending
    BY <1>1, <1>2 DEF Pending
  <2>2. QED
    BY <1>1, <1>7, <2>1 DEF Drained
<1>9. QED
  BY <1>3, <1>4, <1>5, <1>6, <1>8 DEF PipeInv

\* The rest of SHUTDOWN, the end of the peer, and the way out.
LEMMA LeavingKeeps ==
    ASSUME PoolKnown, PipeInv, ShutdownDone \/ PeerGone \/ Leave
    PROVE  PipeInv'
<1>1. /\ cueSegs' = cueSegs /\ wire' = wire /\ rejected' = rejected /\ forgotten' = forgotten
      /\ translating' = translating /\ sessionActive' = sessionActive
      /\ latched' = latched /\ registered' = registered /\ running' = FALSE
      /\ paused' = paused /\ eof' = eof /\ residual' = residual /\ BuilderSame
      /\ accepted' = accepted
      /\ \/ (main = "ended" /\ main' = "deliver1" /\ ending' = "none" /\ sourceMode' = FALSE)
         \/ (main' = main /\ ending' = ending /\ sourceMode' = sourceMode)
         \/ (main = "frame" /\ main' = "exit" /\ ending' = ending /\ sourceMode' = sourceMode)
  BY PoolCalls DEF ShutdownDone, PeerGone, Leave, vars, sessionVars, builderVars, wireVars,
     BuilderSame, PipeInv, LoopTyped
<1>2. Given' = Given /\ (owner' = "delivering" => owner = "delivering" /\ main' = main)
  <2>1. CASE ShutdownDone
    <3>1. owner # "delivering"
      BY <2>1 DEF ShutdownDone, PipeInv, TransportKnown, Delivering
    <3>2. QED
      BY <2>1, <3>1 DEF ShutdownDone, vars, Given, Stream!DeliveredOf
  <2>2. CASE PeerGone
    BY <2>2 DEF PeerGone, vars, Given, Stream!DeliveredOf
  <2>3. CASE Leave
    BY <2>3, PoolCalls DEF Leave
  <2>4. QED
    BY <2>1, <2>2, <2>3
<1>3. Data'
  BY <1>1, <1>2, BuilderStays, QuietData DEF PipeInv, BuilderSame
<1>4. LoopTyped'
  <2>1. running' \in BOOLEAN /\ sourceMode' \in BOOLEAN
    BY <1>1 DEF PipeInv, LoopTyped
  <2>2. /\ main' \in {"frame", "deliver1", "source", "build", "deliver2", "tail", "drain",
                     "ended", "exit"}
        /\ ending' \in {"none", "stop", "seek", "media_end", "shutdown"}
    BY <1>1 DEF PipeInv, LoopTyped
  <2>3. QED
    BY <1>1, <2>1, <2>2 DEF PipeInv, LoopTyped, BuilderSame
<1>5. TransportKnown'
  BY <1>1, <1>2 DEF PipeInv, TransportKnown, BuilderSame
<1>6. BuilderKnown'
  BY <1>1, BuilderStays DEF PipeInv, BuilderKnown, BuilderSame
<1>7. Drained'
  BY <1>1 DEF Drained
<1>8. QED
  BY <1>3, <1>4, <1>5, <1>6, <1>7 DEF PipeInv

\* The pool's threads, its creation and its end.
LEMMA PoolOnlyKeeps ==
    ASSUME PoolKnown, PipeInv, PoolOnly \/ UNCHANGED allVars
    PROVE  PipeInv'
<1>1. /\ cueSegs' = cueSegs /\ wire' = wire /\ rejected' = rejected /\ forgotten' = forgotten
      /\ translating' = translating /\ sessionActive' = sessionActive
      /\ latched' = latched /\ registered' = registered /\ running' = running
      /\ paused' = paused /\ sourceMode' = sourceMode /\ eof' = eof /\ residual' = residual
      /\ ending' = ending /\ main' = main /\ BuilderSame
  BY DEF PoolOnly, allVars, pipeVars, sessionVars, builderVars, wireVars, BuilderSame
<1>2. /\ Given' = Given /\ accepted' = accepted
      /\ owner' = "delivering" <=> owner = "delivering"
  <2>1. CASE PoolOnly
    BY <2>1, PoolAlone
  <2>2. CASE UNCHANGED allVars
    BY <2>2 DEF allVars, vars, Given, Stream!DeliveredOf
  <2>3. QED
    BY <2>1, <2>2
<1>3. Data'
  BY <1>1, <1>2, BuilderStays, QuietData DEF PipeInv, BuilderSame
<1>4. LoopTyped'
  BY <1>1, <1>2 DEF PipeInv, LoopTyped, BuilderSame
<1>5. TransportKnown'
  BY <1>1, <1>2 DEF PipeInv, TransportKnown, BuilderSame
<1>6. BuilderKnown'
  BY <1>1, BuilderStays DEF PipeInv, BuilderKnown, BuilderSame
<1>7. Drained'
  <2>1. Pending' = Pending
    BY <1>2 DEF Pending
  <2>2. QED
    BY <1>1, <2>1 DEF PipeInv, Drained
<1>8. QED
  BY <1>3, <1>4, <1>5, <1>6, <1>7 DEF PipeInv

\* Audio, live or decoded, is transcribed; a failure stops the worker.
LEMMA TranscribingKeeps ==
    ASSUME PoolKnown, PipeInv, Audio \/ SourceRead \/ SourceTailFails
    PROVE  PipeInv'
<1>1. /\ cueSegs' = cueSegs /\ wire' = wire /\ rejected' = rejected /\ forgotten' = forgotten
      /\ translating' = translating /\ sessionActive' = sessionActive /\ sessionActive
      /\ latched' = latched /\ registered' = registered /\ session' = session
      /\ paused' = paused /\ sourceMode' = sourceMode /\ ending' = ending
      /\ owner' = owner /\ accepted' = accepted /\ log' = log /\ epoch' = epoch
  BY DEF Audio, SourceRead, SourceTailFails, Decoding, vars, sessionVars, wireVars
<1>2. /\ eof' \in BOOLEAN /\ residual' \in BOOLEAN /\ running' \in BOOLEAN
      /\ running' => running
      /\ \/ (main = "frame" /\ main' = "deliver1" /\ owner = "running")
         \/ (main = "source" /\ main' = "build")
         \/ (main = "source" /\ main' = "frame" /\ ~running')
  BY DEF Audio, SourceRead, SourceTailFails, Decoding, NextFrame, Reply, sessionVars, PipeInv,
     LoopTyped
<1>3. PICK most \in Nat : Transcribe(most)
  BY DEF Audio, SourceRead, SourceTailFails
<1>4. /\ Emitted' = Emitted
      /\ backlog' \in Seq(Segment) /\ made' \in 0 .. MaxSegments /\ Len(backlog') <= made'
      /\ \A i \in 1 .. Len(backlog') :
            backlog'[i].id = Emitted' + i /\ backlog'[i].session = session'
  BY <1>1, <1>3, TranscribeFacts DEF PipeInv
<1>5. Given' = Given
  BY <1>1 DEF Given, Stream!DeliveredOf
<1>6. Data'
  BY <1>1, <1>2, <1>4, <1>5, QuietData DEF PipeInv
<1>7. LoopTyped'
  BY <1>1, <1>2, <1>4 DEF PipeInv, LoopTyped
<1>8. TransportKnown'
  <2>1. registered
    BY <1>1, <1>2 DEF PipeInv, TransportKnown
  <2>2. QED
    BY <1>1, <1>2, <2>1 DEF PipeInv, TransportKnown, Delivering
<1>9. BuilderKnown'
  BY <1>1, <1>2, <1>4 DEF BuilderKnown
<1>10. Drained'
  BY <1>2 DEF Drained
<1>11. QED
  BY <1>6, <1>7, <1>8, <1>9, <1>10 DEF PipeInv

\* STOP or SHUTDOWN begins: the tail of a live stream first, then the drain.
LEMMA EndSessionKeeps ==
    ASSUME PoolKnown, PipeInv,
           NEW why \in {"stop", "seek", "media_end", "shutdown"}, EndSession(why)
    PROVE  PipeInv'
<1>1. /\ cueSegs' = cueSegs /\ wire' = wire /\ rejected' = rejected /\ forgotten' = forgotten
      /\ translating' = translating /\ sessionActive' = sessionActive
      /\ latched' = latched /\ registered' = registered /\ session' = session
      /\ paused' = paused /\ sourceMode' = sourceMode /\ eof' = eof /\ ending' = why
      /\ owner' = owner /\ accepted' = accepted /\ log' = log /\ epoch' = epoch
      /\ main = "frame" /\ running /\ owner = "running"
  BY DEF EndSession, NextFrame, vars, sessionVars, wireVars
<1>2. Given' = Given
  BY <1>1 DEF Given, Stream!DeliveredOf
<1>3. CASE HasTail(why)
  <2>1. residual /\ sessionActive /\ registered
    BY <1>1, <1>3 DEF HasTail, PipeInv, TransportKnown, BuilderKnown
  <2>2. /\ Transcribe(1) /\ residual' \in BOOLEAN
        /\ \/ (main' = "tail" /\ running' = running)
           \/ (main' = AfterTail /\ running' = FALSE)
    BY <1>3 DEF EndSession
  <2>3. main' \in {"tail", "drain", "ended"} /\ (main' # "tail" => ~running')
        /\ running' \in BOOLEAN
    BY <1>1, <2>2 DEF AfterTail
  <2>4. /\ Emitted' = Emitted
        /\ backlog' \in Seq(Segment) /\ made' \in 0 .. MaxSegments /\ Len(backlog') <= made'
        /\ \A i \in 1 .. Len(backlog') :
              backlog'[i].id = Emitted' + i /\ backlog'[i].session = session'
    BY <1>1, <2>2, TranscribeFacts DEF PipeInv
  <2>5. Data'
    BY <1>1, <1>2, <2>3, <2>4, QuietData DEF PipeInv
  <2>6. LoopTyped'
    BY <1>1, <2>2, <2>3, <2>4 DEF PipeInv, LoopTyped
  <2>7. TransportKnown'
    BY <1>1, <2>1, <2>3 DEF PipeInv, TransportKnown
  <2>8. BuilderKnown'
    BY <1>1, <2>1, <2>3, <2>4 DEF BuilderKnown
  <2>9. Drained'
    BY <2>3 DEF Drained
  <2>10. QED
    BY <2>5, <2>6, <2>7, <2>8, <2>9 DEF PipeInv
<1>4. CASE ~HasTail(why)
  <2>1. /\ main' = IF why = "seek" THEN "ended" ELSE AfterTail
        /\ running' = running /\ BuilderSame /\ residual' = residual
    BY <1>1, <1>4 DEF EndSession, builderVars, BuilderSame
  <2>2. /\ main' \in {"drain", "ended"} /\ (main' = "drain" => sessionActive)
        /\ main' = "ended" => why = "seek" \/ ~sessionActive
    BY <2>1 DEF AfterTail
  <2>3. Data'
    BY <1>1, <1>2, <2>1, BuilderStays, QuietData DEF PipeInv, BuilderSame
  <2>4. LoopTyped'
    BY <1>1, <2>1, <2>2 DEF PipeInv, LoopTyped, BuilderSame
  <2>5. TransportKnown'
    BY <1>1, <2>1, <2>2 DEF PipeInv, TransportKnown, BuilderSame
  <2>6. BuilderKnown'
    BY <1>1, <2>1, BuilderStays DEF PipeInv, BuilderKnown, BuilderSame
  <2>7. Drained'
    BY <1>1, <2>2 DEF Drained
  <2>8. QED
    BY <2>3, <2>4, <2>5, <2>6, <2>7 DEF PipeInv
<1>5. QED
  BY <1>3, <1>4

-----------------------------------------------------------------------------
(* Steps that drop segments on purpose.                                     *)

\* A handler that empties builder and pool, with whatever it does to the session.
LEMMA ResetKeeps ==
    ASSUME PoolKnown, PipeInv, Reset, wire' = wire, rejected' = rejected,
           translating' = translating, latched' = latched, registered' = registered,
           running' => running, running' \in BOOLEAN, sessionActive' \in BOOLEAN,
           paused' \in BOOLEAN, sourceMode' \in BOOLEAN, eof' \in BOOLEAN,
           session' \in Sessions, ending' \in {"none", "stop", "seek", "media_end", "shutdown"},
           main' = "deliver1" \/ (main' = "build" /\ registered)
    PROVE  PipeInv'
<1>1. /\ Data' /\ Pending' = {} /\ accepted' = 0 /\ owner' = "running"
      /\ residual' = FALSE /\ backlog' = << >> /\ made' = made /\ cueSegs' = << >>
      /\ forgotten' \subseteq Segments /\ Len(backlog') = 0 /\ Len(cueSegs') = 0
  BY ResetFacts
<1>2. LoopTyped'
  <2>1. made' \in 0 .. MaxSegments /\ wire' \in Seq(Frames) /\ rejected' \subseteq Segments
        /\ translating' \in BOOLEAN /\ latched' \in BOOLEAN /\ registered' \in BOOLEAN
    BY <1>1 DEF PipeInv, LoopTyped
  <2>2. backlog' \in Seq(Segment) /\ cueSegs' \in Seq(Segment) /\ Len(cueSegs') = accepted'
    BY <1>1
  <2>3. QED
    BY <1>1, <2>1, <2>2 DEF LoopTyped
<1>3. TransportKnown'
  BY <1>1 DEF PipeInv, TransportKnown
<1>4. BuilderKnown'
  <2>1. Len(backlog') <= made' /\ \A i \in 1 .. Len(backlog') : FALSE
    BY <1>1, HeldSegments DEF PipeInv
  <2>2. QED
    BY <1>1, <2>1 DEF BuilderKnown
<1>5. Drained'
  BY <1>1 DEF Drained
<1>6. QED
  BY <1>1, <1>2, <1>3, <1>4, <1>5 DEF PipeInv

\* START empties everything and begins a session.
LEMMA StartSessionKeeps ==
    ASSUME PoolKnown, PipeInv, StartSession
    PROVE  PipeInv'
<1>1. session' \in Sessions
  <2>1. session \in 0 .. MaxSessions /\ session < MaxSessions /\ session' = session + 1
    BY DEF StartSession, PipeInv, LoopTyped, Sessions
  <2>2. QED
    BY <2>1, PipelineAssumption DEF Sessions
<1>2. /\ Reset /\ sessionActive' = TRUE /\ paused' = FALSE /\ sourceMode' \in BOOLEAN
      /\ eof' = FALSE /\ Reply /\ main' = "deliver1" /\ ending' = ending
      /\ translating' = translating /\ rejected' = rejected
      /\ wire' = wire /\ latched' = latched /\ registered' = registered
  BY DEF StartSession, wireVars
<1>3. (running' => running) /\ running' \in BOOLEAN
  BY <1>2 DEF Reply, PipeInv, LoopTyped
<1>4. ending' \in {"none", "stop", "seek", "media_end", "shutdown"}
  BY <1>2 DEF PipeInv, LoopTyped
<1>5. sessionActive' \in BOOLEAN /\ paused' \in BOOLEAN /\ eof' \in BOOLEAN
  BY <1>2
<1>6. QED
  BY <1>1, <1>2, <1>3, <1>4, <1>5, ResetKeeps

\* PAUSE empties everything and keeps the session.
LEMMA PauseKeeps ==
    ASSUME PoolKnown, PipeInv, Pause
    PROVE  PipeInv'
<1>1. /\ Reset /\ sessionActive' = sessionActive /\ paused' = TRUE /\ sourceMode' = sourceMode
      /\ eof' = eof /\ Reply /\ main' = "deliver1" /\ ending' = ending /\ session' = session
      /\ translating' = translating /\ rejected' = rejected
      /\ wire' = wire /\ latched' = latched /\ registered' = registered
  BY DEF Pause, wireVars
<1>2. (running' => running) /\ running' \in BOOLEAN
  BY <1>1 DEF Reply, PipeInv, LoopTyped
<1>3. /\ ending' \in {"none", "stop", "seek", "media_end", "shutdown"} /\ session' \in Sessions
      /\ sessionActive' \in BOOLEAN /\ paused' \in BOOLEAN /\ eof' \in BOOLEAN
      /\ sourceMode' \in BOOLEAN
  BY <1>1 DEF PipeInv, LoopTyped
<1>4. QED
  BY <1>1, <1>2, <1>3, ResetKeeps

\* A source that cannot be read any more empties everything and ends the session.
LEMMA SourceReadErrorKeeps ==
    ASSUME PoolKnown, PipeInv, SourceReadError
    PROVE  PipeInv'
<1>1. /\ Reset /\ sessionActive' = FALSE /\ paused' = paused /\ sourceMode' = FALSE
      /\ eof' = TRUE /\ Reply /\ main' = "build" /\ ending' = ending /\ session' = session
      /\ translating' = translating /\ rejected' = rejected /\ main = "source"
      /\ wire' = wire /\ latched' = latched /\ registered' = registered
  BY DEF SourceReadError, Decoding, wireVars
<1>2. (running' => running) /\ running' \in BOOLEAN
  BY <1>1 DEF Reply, PipeInv, LoopTyped
<1>3. /\ ending' \in {"none", "stop", "seek", "media_end", "shutdown"} /\ session' \in Sessions
      /\ paused' \in BOOLEAN
  BY <1>1 DEF PipeInv, LoopTyped
<1>4. sessionActive' \in BOOLEAN /\ eof' \in BOOLEAN /\ sourceMode' \in BOOLEAN
  BY <1>1
<1>5. registered
  BY <1>1 DEF PipeInv, TransportKnown
<1>6. QED
  BY <1>1, <1>2, <1>3, <1>4, <1>5, ResetKeeps

\* The end of STOP, after its drain, does so too.
LEMMA StopDoneKeeps ==
    ASSUME PoolKnown, PipeInv, StopDone
    PROVE  PipeInv'
<1>1. /\ Reset /\ sessionActive' = FALSE /\ paused' = paused /\ sourceMode' = FALSE
      /\ eof' = eof /\ main' = "deliver1" /\ ending' = "none" /\ session' = session
      /\ translating' = translating /\ rejected' = rejected
      /\ wire' = wire /\ latched' = latched /\ registered' = registered
  BY DEF StopDone, wireVars
<1>2. (running' => running) /\ running' \in BOOLEAN
  BY DEF StopDone, Reply, PipeInv, LoopTyped
<1>3. /\ ending' \in {"none", "stop", "seek", "media_end", "shutdown"} /\ session' \in Sessions
      /\ paused' \in BOOLEAN /\ eof' \in BOOLEAN
  BY <1>1 DEF PipeInv, LoopTyped
<1>4. sessionActive' \in BOOLEAN /\ sourceMode' \in BOOLEAN
  BY <1>1
<1>5. QED
  BY <1>1, <1>2, <1>3, <1>4, ResetKeeps

\* Emptying the builder alone, or with the session: what is pending stays
\* pending, and is fresh or dropped as the session is active or not.
LEMMA ClearKeepsData ==
    ASSUME PoolKnown, PipeInv, owner = "running",
           cueSegs' = cueSegs, Given' = Given, accepted' = accepted, backlog' = << >>,
           made' = made, wire' = wire, rejected' = rejected, translating' = translating,
           latched' = latched, running' => running, session' = session,
           \/ sessionActive' = sessionActive /\ forgotten' = forgotten \cup InBuilder
           \/ sessionActive' = FALSE /\ forgotten' = forgotten \cup InBuilder \cup InPool
    PROVE  Data' /\ forgotten' \subseteq Segments
<1>1. /\ made \in Nat /\ Emitted \in Nat /\ Emitted <= made
      /\ \A n \in InBuilder : n \in Segments /\ Emitted < n /\ n <= made
      /\ InPool = {cueSegs[c].id : c \in Pending}
      /\ Pending \subseteq 1 .. Len(cueSegs)
      /\ \A c \in Pending : cueSegs[c].id \in Segments
  BY HeldSegments DEF PipeInv
<1>2. Emitted' = made /\ Pending' = Pending
  <2>1. Len(backlog') = 0
    OBVIOUS
  <2>2. QED
    BY <1>1, <2>1 DEF Emitted, Pending
<1>3. forgotten' \subseteq Segments
  BY <1>1 DEF PipeInv, LoopTyped
<1>4. \A c \in 1 .. Len(cueSegs) : cueSegs[c].id \in Nat /\ cueSegs[c].id <= Emitted
  <2>1. \A c \in 1 .. Len(cueSegs) : cueSegs[c] \in Segment /\ cueSegs[c].id <= Emitted
    BY DEF PipeInv, LoopTyped, Data, SegmentsOrdered
  <2>2. QED
    BY <2>1 DEF Segment, Segments
<1>5. \A i \in 1 .. Len(wire) : wire[i].id \in Nat /\ wire[i].id <= Emitted
  <2>1. \A i \in 1 .. Len(wire) : wire[i] \in Frames /\ wire[i].id <= Emitted
    BY DEF PipeInv, LoopTyped, Data, SegmentsOrdered
  <2>2. QED
    BY <2>1 DEF Frames, Segments
<1>6. \A n \in rejected \cup forgotten : n \in Nat /\ n <= Emitted
  BY DEF PipeInv, LoopTyped, Data, SegmentsOrdered, Segments
<1>7. SegmentsOrdered'
  <2>1. \A c \in 1 .. Len(cueSegs) : cueSegs[c].id <= made
    BY <1>1, <1>4
  <2>2. \A i \in 1 .. Len(wire) : wire[i].id <= made
    BY <1>1, <1>5
  <2>3. \A n \in rejected \cup forgotten : n <= made
    BY <1>1, <1>6
  <2>4. \A n \in InPool : n <= made
    BY <1>1, <2>1
  <2>5. \A n \in rejected' \cup forgotten' : n <= made
    BY <1>1, <2>3, <2>4
  <2>6. QED
    BY <1>2, <2>1, <2>2, <2>5 DEF PipeInv, Data, SegmentsOrdered
<1>8. PendingFresh'
  <2>1. \A c \in Pending : cueSegs[c].id \notin InBuilder
    BY <1>1, <1>4
  <2>2. QED
    BY <1>1, <1>2, <2>1 DEF PipeInv, Data, PendingFresh
<1>9. OnceAndInOrder' /\ PendingUnsent'
  BY <1>2 DEF PipeInv, Data, OnceAndInOrder, PendingUnsent, CaptionAt
<1>10. BlamePrecedesItsCaption' /\ TornLatches'
  BY DEF PipeInv, Data, BlamePrecedesItsCaption, TornLatches, CaptionAt
<1>11. NoneMissing'
  <2>1. ASSUME running, NEW n \in 1 .. made
        PROVE  \/ \E i \in 1 .. Len(wire) : CaptionAt(i) /\ wire[i].id = n
               \/ n \in forgotten'
               \/ \E c \in Pending : cueSegs[c].id = n
    <3>1. CASE n <= Emitted
      <4>1. n \in 1 .. Emitted
        BY <1>1, <3>1
      <4>2. QED
        BY <2>1, <4>1 DEF PipeInv, Data, NoneMissing
    <3>2. CASE Emitted < n
      BY <3>2, HeldSegments DEF PipeInv
    <3>3. n <= Emitted \/ Emitted < n
      BY <1>1
    <3>4. QED
      BY <3>1, <3>2, <3>3
  <2>2. QED
    BY <1>2, <2>1 DEF NoneMissing, CaptionAt
<1>12. QED
  BY <1>3, <1>7, <1>8, <1>9, <1>10, <1>11 DEF Data

\* A refused START: the old session is over.
LEMMA StartRefusedKeeps ==
    ASSUME PoolKnown, PipeInv, StartRefused
    PROVE  PipeInv'
<1>1. /\ cueSegs' = cueSegs /\ wire' = wire /\ rejected' = rejected /\ residual' = FALSE
      /\ forgotten' = forgotten \cup InBuilder \cup InPool /\ backlog' = << >> /\ made' = made
      /\ translating' = translating /\ sessionActive' = FALSE /\ session' = session
      /\ latched' = latched /\ registered' = registered /\ sourceMode' = FALSE
      /\ paused' = paused /\ eof' = eof /\ ending' = ending
      /\ owner' = owner /\ accepted' = accepted /\ log' = log /\ epoch' = epoch
      /\ main' = "deliver1" /\ owner = "running"
  BY DEF StartRefused, NextFrame, vars, wireVars
<1>2. Given' = Given
  BY <1>1 DEF Given, Stream!DeliveredOf
<1>3. (running' => running) /\ running' \in BOOLEAN
  BY DEF StartRefused, Reply, PipeInv, LoopTyped
<1>4. Data' /\ forgotten' \subseteq Segments
  BY <1>1, <1>2, <1>3, ClearKeepsData
<1>5. LoopTyped'
  <2>1. backlog' \in Seq(Segment)
    BY <1>1
  <2>2. residual' \in BOOLEAN /\ sessionActive' \in BOOLEAN /\ sourceMode' \in BOOLEAN
    BY <1>1
  <2>3. QED
    BY <1>1, <1>3, <1>4, <2>1, <2>2 DEF PipeInv, LoopTyped
<1>6. TransportKnown'
  BY <1>1, <1>3 DEF PipeInv, TransportKnown
<1>7. BuilderKnown'
  <2>1. Len(backlog') <= made' /\ \A i \in 1 .. Len(backlog') : FALSE
    <3>1. Len(backlog') = 0 /\ made \in Nat
      BY <1>1, HeldSegments DEF PipeInv
    <3>2. QED
      BY <1>1, <3>1
  <2>2. QED
    BY <1>1, <2>1 DEF BuilderKnown
<1>8. Drained'
  BY <1>1 DEF Drained
<1>9. QED
  BY <1>4, <1>5, <1>6, <1>7, <1>8 DEF PipeInv

\* A handler that leaves builder and pool alone.
LEMMA QuietFrame ==
    ASSUME PoolKnown, PipeInv, main = "frame", owner = "running",
           cueSegs' = cueSegs, wire' = wire, rejected' = rejected, forgotten' = forgotten,
           translating' = translating, sessionActive' = sessionActive, latched' = latched,
           registered' = registered, running' => running, running' \in BOOLEAN,
           paused' \in BOOLEAN, eof' \in BOOLEAN, residual' = residual,
           sourceMode' = sourceMode, ending' = ending, owner' = owner, accepted' = accepted,
           log' = log, epoch' = epoch, BuilderSame, main' = "deliver1"
    PROVE  PipeInv'
<1>1. Given' = Given
  BY DEF Given, Stream!DeliveredOf
<1>2. Data'
  BY <1>1, BuilderStays, QuietData DEF PipeInv, BuilderSame
<1>3. LoopTyped'
  BY DEF PipeInv, LoopTyped, BuilderSame
<1>4. TransportKnown'
  BY DEF PipeInv, TransportKnown, BuilderSame
<1>5. BuilderKnown'
  BY BuilderStays DEF PipeInv, BuilderKnown, BuilderSame
<1>6. Drained'
  BY DEF Drained
<1>7. QED
  BY <1>2, <1>3, <1>4, <1>5, <1>6 DEF PipeInv

\* RESUME re-seeks the source and empties everything, or only clears the flag.
LEMMA ResumeKeeps ==
    ASSUME PoolKnown, PipeInv, Resume
    PROVE  PipeInv'
<1>1. /\ sessionActive' = sessionActive /\ paused' = FALSE /\ sourceMode' = sourceMode
      /\ Reply /\ main' = "deliver1" /\ ending' = ending /\ session' = session
      /\ translating' = translating /\ rejected' = rejected /\ main = "frame" /\ owner = "running"
      /\ wire' = wire /\ latched' = latched /\ registered' = registered
  BY DEF Resume, NextFrame, wireVars
<1>2. (running' => running) /\ running' \in BOOLEAN
  BY <1>1 DEF Reply, PipeInv, LoopTyped
<1>3. /\ ending' \in {"none", "stop", "seek", "media_end", "shutdown"} /\ session' \in Sessions
      /\ sessionActive' \in BOOLEAN /\ paused' \in BOOLEAN /\ sourceMode' \in BOOLEAN
  BY <1>1 DEF PipeInv, LoopTyped
<1>4. CASE Reset /\ eof' = FALSE
  <2>1. eof' \in BOOLEAN
    BY <1>4
  <2>2. QED
    BY <1>1, <1>2, <1>3, <1>4, <2>1, ResetKeeps
<1>5. CASE UNCHANGED <<vars, builderVars, cueSegs, forgotten, eof>>
  <2>1. /\ cueSegs' = cueSegs /\ forgotten' = forgotten /\ eof' = eof /\ residual' = residual
        /\ owner' = owner /\ accepted' = accepted /\ log' = log /\ epoch' = epoch /\ BuilderSame
    BY <1>1, <1>5 DEF vars, builderVars, BuilderSame
  <2>2. eof' \in BOOLEAN
    BY <2>1 DEF PipeInv, LoopTyped
  <2>3. QED
    BY <1>1, <1>2, <1>3, <2>1, <2>2, QuietFrame
<1>6. QED
  BY <1>4, <1>5 DEF Resume

\* POSITION toggles the pause and seeks, and empties what each of them empties.
LEMMA PositionKeeps ==
    ASSUME PoolKnown, PipeInv,
           NEW toggle \in BOOLEAN, NEW rewind \in BOOLEAN, NEW seek \in BOOLEAN,
           Position(toggle, rewind, seek)
    PROVE  PipeInv'
<1>1. /\ sessionActive' = sessionActive /\ sourceMode' = sourceMode
      /\ main' = "deliver1" /\ ending' = ending /\ session' = session
      /\ translating' = translating /\ rejected' = rejected /\ main = "frame" /\ owner = "running"
      /\ wire' = wire /\ latched' = latched /\ registered' = registered
      /\ paused' \in BOOLEAN /\ eof' \in BOOLEAN
  BY DEF Position, NextFrame, wireVars
<1>2. (running' => running) /\ running' \in BOOLEAN
  BY DEF Position, Reply, PipeInv, LoopTyped
<1>3. /\ ending' \in {"none", "stop", "seek", "media_end", "shutdown"} /\ session' \in Sessions
      /\ sessionActive' \in BOOLEAN /\ sourceMode' \in BOOLEAN
  BY <1>1 DEF PipeInv, LoopTyped
<1>4. CASE Reset
  BY <1>1, <1>2, <1>3, <1>4, ResetKeeps
<1>5. CASE ClearBuffers
  <2>1. /\ residual' = FALSE /\ backlog' = << >> /\ forgotten' = forgotten \cup InBuilder
        /\ made' = made /\ cueSegs' = cueSegs
        /\ owner' = owner /\ accepted' = accepted /\ log' = log /\ epoch' = epoch
    BY <1>5 DEF ClearBuffers, vars
  <2>2. Given' = Given
    BY <2>1 DEF Given, Stream!DeliveredOf
  <2>3. Data' /\ forgotten' \subseteq Segments
    BY <1>1, <1>2, <2>1, <2>2, ClearKeepsData
  <2>4. LoopTyped'
    <3>1. backlog' \in Seq(Segment)
      BY <2>1
    <3>2. residual' \in BOOLEAN
      BY <2>1
    <3>3. QED
      BY <1>1, <1>2, <1>3, <2>1, <2>3, <3>1, <3>2 DEF PipeInv, LoopTyped
  <2>5. TransportKnown'
    BY <1>1, <1>2, <2>1 DEF PipeInv, TransportKnown
  <2>6. BuilderKnown'
    <3>1. Len(backlog') = 0 /\ made \in Nat
      BY <2>1, HeldSegments DEF PipeInv
    <3>2. Len(backlog') <= made' /\ \A i \in 1 .. Len(backlog') : FALSE
      BY <2>1, <3>1
    <3>3. QED
      BY <2>1, <3>2 DEF BuilderKnown
  <2>7. Drained'
    BY <1>1 DEF Drained
  <2>8. QED
    BY <2>3, <2>4, <2>5, <2>6, <2>7 DEF PipeInv
<1>6. CASE UNCHANGED <<vars, builderVars, cueSegs, forgotten>>
  <2>1. /\ cueSegs' = cueSegs /\ forgotten' = forgotten /\ residual' = residual
        /\ owner' = owner /\ accepted' = accepted /\ log' = log /\ epoch' = epoch /\ BuilderSame
    BY <1>1, <1>6 DEF vars, builderVars, BuilderSame
  <2>2. QED
    BY <1>1, <1>2, <1>3, <2>1, QuietFrame
<1>7. QED
  BY <1>4, <1>5, <1>6 DEF Position

\* New translation settings: the pool's work is dropped, the builder's is not.
LEMMA TranslateCtrlKeeps ==
    ASSUME PoolKnown, PipeInv, TranslateCtrl
    PROVE  PipeInv'
<1>1. /\ sessionActive' = sessionActive /\ sourceMode' = sourceMode /\ residual' = residual
      /\ main' = "deliver1" /\ ending' = ending /\ running' = running
      /\ translating' \in BOOLEAN /\ rejected' = rejected /\ main = "frame" /\ owner = "running"
      /\ wire' = wire /\ latched' = latched /\ registered' = registered
      /\ paused' = paused /\ eof' = eof /\ cueSegs' = << >>
      /\ forgotten' = forgotten \cup InPool /\ BuilderSame
  BY DEF TranslateCtrl, NextFrame, wireVars, builderVars, BuilderSame
<1>2. Given' = 0 /\ accepted' = 0 /\ owner' = "running"
  BY InvalidateClears DEF TranslateCtrl
<1>3. Pending' = {} /\ Len(cueSegs') = 0
  BY <1>1, <1>2 DEF Pending
<1>4. Emitted' = Emitted
  BY <1>1, BuilderStays DEF PipeInv
<1>5. /\ InPool = {cueSegs[c].id : c \in Pending} /\ Pending \subseteq 1 .. Len(cueSegs)
      /\ \A c \in Pending : cueSegs[c].id \in Segments
  BY <1>1, HeldSegments DEF PipeInv
<1>6. SegmentsOrdered'
  <2>1. \A n \in InPool : n <= Emitted
    BY <1>5 DEF PipeInv, Data, SegmentsOrdered
  <2>2. \A c \in 1 .. Len(cueSegs') : FALSE
    BY <1>3
  <2>3. QED
    BY <1>1, <1>2, <1>4, <2>1, <2>2 DEF PipeInv, Data, SegmentsOrdered
<1>7. PendingFresh' /\ PendingUnsent'
  BY <1>3 DEF PendingFresh, PendingUnsent
<1>8. OnceAndInOrder' /\ BlamePrecedesItsCaption' /\ TornLatches'
  BY <1>1 DEF PipeInv, Data, OnceAndInOrder, BlamePrecedesItsCaption, TornLatches, CaptionAt
<1>9. NoneMissing'
  <2>1. \A n : (\E c \in Pending : cueSegs[c].id = n) => n \in forgotten'
    BY <1>1, <1>5
  <2>2. QED
    BY <1>1, <1>4, <2>1 DEF PipeInv, Data, NoneMissing, CaptionAt
<1>10. LoopTyped'
  <2>1. cueSegs' \in Seq(Segment) /\ Len(cueSegs') = accepted'
    BY <1>1, <1>2, <1>3
  <2>2. forgotten' \subseteq Segments
    BY <1>1, <1>5 DEF PipeInv, LoopTyped
  <2>3. QED
    BY <1>1, <2>1, <2>2 DEF PipeInv, LoopTyped, BuilderSame
<1>11. TransportKnown'
  BY <1>1, <1>2 DEF PipeInv, TransportKnown, BuilderSame
<1>12. BuilderKnown'
  BY <1>1, BuilderStays DEF PipeInv, BuilderKnown, BuilderSame
<1>13. Drained'
  BY <1>1 DEF Drained
<1>14. QED
  BY <1>6, <1>7, <1>8, <1>9, <1>10, <1>11, <1>12, <1>13 DEF PipeInv, Data

-----------------------------------------------------------------------------
(* Writing.                                                                 *)

\* v is w with frames of segment s behind it.
Grown(w, v, s) ==
    /\ v \in Seq(Frames) /\ Len(w) <= Len(v)
    /\ \A i \in 1 .. Len(w) : v[i] = w[i]
    /\ \A i \in Len(w) + 1 .. Len(v) : v[i].id = s.id /\ v[i].session = s.session

\* A caption, or a diagnostic and its caption, or a diagnostic that fails.
Wrote(s) == (WriteCaption(s) /\ latched' = latched) \/ WriteBlamed(s)

\* What the wire is afterwards, frame by frame.
LEMMA WriteGrows ==
    ASSUME wire \in Seq(Frames), NEW s \in Segment, ~Latched, Wrote(s),
           running \in BOOLEAN, latched \in BOOLEAN, registered
    PROVE  /\ Grown(wire, wire', s)
           /\ \/ /\ Len(wire') = Len(wire) + 1 /\ latched' = latched
                 /\ wire'[Len(wire) + 1].kind = "caption"
                 /\ running' => running /\ wire'[Len(wire) + 1].whole
              \/ /\ Len(wire') = Len(wire) + 2 /\ latched' = latched
                 /\ wire'[Len(wire) + 1].kind = "error" /\ wire'[Len(wire) + 1].whole
                 /\ wire'[Len(wire) + 2].kind = "caption"
                 /\ running' => running /\ wire'[Len(wire) + 2].whole
              \/ /\ Len(wire') = Len(wire) + 1 /\ latched' = TRUE
                 /\ wire'[Len(wire) + 1].kind = "error" /\ ~wire'[Len(wire) + 1].whole
                 /\ running' = FALSE
           /\ running' \in BOOLEAN /\ latched' \in BOOLEAN
<1>1. \A ok \in BOOLEAN, k \in {"caption", "error"} :
         /\ Frame(k, s, ok) \in Frames /\ Frame(k, s, ok).id = s.id
         /\ Frame(k, s, ok).session = s.session /\ Frame(k, s, ok).kind = k
         /\ Frame(k, s, ok).whole = ok
  BY DEF Frame, Frames, Segment
<1>2. Len(wire) \in Nat
  OBVIOUS
<1>3. ASSUME NEW f \in Frames, wire' = Append(wire, f), f.id = s.id, f.session = s.session
      PROVE  Grown(wire, wire', s) /\ Len(wire') = Len(wire) + 1 /\ wire'[Len(wire) + 1] = f
  <2>1. /\ wire' \in Seq(Frames) /\ Len(wire') = Len(wire) + 1 /\ wire'[Len(wire) + 1] = f
        /\ \A i \in 1 .. Len(wire) : wire'[i] = wire[i]
    BY <1>3
  <2>2. \A i \in Len(wire) + 1 .. Len(wire') : i = Len(wire) + 1
    BY <1>2, <2>1
  <2>3. QED
    BY <1>2, <1>3, <2>1, <2>2 DEF Grown
<1>4. CASE WriteCaption(s) /\ latched' = latched
  <2>1. PICK ok \in BOOLEAN :
           wire' = Append(wire, Frame("caption", s, ok)) /\ running' = (running /\ ok)
    BY <1>4 DEF WriteCaption
  <2>2. /\ Grown(wire, wire', s) /\ Len(wire') = Len(wire) + 1
        /\ wire'[Len(wire) + 1] = Frame("caption", s, ok)
    BY <1>1, <1>3, <2>1
  <2>3. QED
    BY <1>1, <1>4, <2>1, <2>2
<1>5. CASE FailDiagnostic(s)
  <2>1. /\ wire' = Append(wire, Frame("error", s, FALSE)) /\ latched' = TRUE /\ running' = FALSE
    BY <1>5 DEF FailDiagnostic
  <2>2. /\ Grown(wire, wire', s) /\ Len(wire') = Len(wire) + 1
        /\ wire'[Len(wire) + 1] = Frame("error", s, FALSE)
    BY <1>1, <1>3, <2>1
  <2>3. QED
    BY <1>1, <2>1, <2>2
<1>6. ASSUME NEW ok \in BOOLEAN, latched' = latched, running' = (running /\ ok),
             wire' = wire \o <<Frame("error", s, TRUE), Frame("caption", s, ok)>>
      PROVE  /\ Grown(wire, wire', s) /\ Len(wire') = Len(wire) + 2
             /\ wire'[Len(wire) + 1] = Frame("error", s, TRUE)
             /\ wire'[Len(wire) + 2] = Frame("caption", s, ok)
  <2> DEFINE e == Frame("error", s, TRUE)
             f == Frame("caption", s, ok)
  <2>1. e \in Frames /\ f \in Frames /\ e.id = s.id /\ f.id = s.id
        /\ e.session = s.session /\ f.session = s.session /\ wire' = wire \o <<e, f>>
    BY <1>1, <1>6
  <2> HIDE DEF e, f
  <2>2. <<e, f>> \in Seq(Frames) /\ Len(<<e, f>>) = 2 /\ <<e, f>>[1] = e /\ <<e, f>>[2] = f
    BY <2>1
  <2>3. /\ wire \o <<e, f>> \in Seq(Frames) /\ Len(wire \o <<e, f>>) = Len(wire) + 2
        /\ \A i \in 1 .. Len(wire) + 2 : (wire \o <<e, f>>)[i] =
              IF i <= Len(wire) THEN wire[i] ELSE <<e, f>>[i - Len(wire)]
    BY <2>2, ConcatProperties
  <2>4. /\ wire' \in Seq(Frames) /\ Len(wire') = Len(wire) + 2
        /\ \A i \in 1 .. Len(wire) : wire'[i] = wire[i]
    BY <1>2, <2>1, <2>3
  <2>5. wire'[Len(wire) + 1] = e /\ wire'[Len(wire) + 2] = f
    <3>1. /\ Len(wire) + 1 - Len(wire) = 1 /\ Len(wire) + 2 - Len(wire) = 2
          /\ Len(wire) + 1 \in 1 .. Len(wire) + 2 /\ Len(wire) + 2 \in 1 .. Len(wire) + 2
          /\ ~(Len(wire) + 1 <= Len(wire)) /\ ~(Len(wire) + 2 <= Len(wire))
      BY <1>2
    <3>2. QED
      BY <2>1, <2>2, <2>3, <3>1
  <2>6. \A i \in Len(wire) + 1 .. Len(wire') : i = Len(wire) + 1 \/ i = Len(wire) + 2
    BY <1>2, <2>4
  <2>7. Grown(wire, wire', s)
    BY <1>2, <2>1, <2>4, <2>5, <2>6 DEF Grown
  <2>8. QED
    BY <2>4, <2>5, <2>7 DEF e, f
<1>7. CASE WriteBlamed(s) /\ ~FailDiagnostic(s)
  <2>1. PICK ok \in BOOLEAN :
           /\ wire' = wire \o <<Frame("error", s, TRUE), Frame("caption", s, ok)>>
           /\ running' = (running /\ ok) /\ latched' = latched
    BY <1>7 DEF WriteBlamed
  <2>2. /\ Grown(wire, wire', s) /\ Len(wire') = Len(wire) + 2
        /\ wire'[Len(wire) + 1] = Frame("error", s, TRUE)
        /\ wire'[Len(wire) + 2] = Frame("caption", s, ok)
    BY <1>6, <2>1
  <2>3. QED
    BY <1>1, <2>1, <2>2
<1>8. QED
  BY <1>4, <1>5, <1>7 DEF Wrote

\* A caption that cannot be written stops the worker.
LEMMA TornStops ==
    ASSUME wire \in Seq(Frames), NEW s \in Segment, ~Latched, Wrote(s),
           running \in BOOLEAN, latched \in BOOLEAN, registered
    PROVE  running' => ~LastIsTorn(wire')
<1>1. Len(wire) \in Nat /\ Len(wire') \in Nat
  BY WriteGrows DEF Grown
<1>2. ~(Len(wire) + 1 = Len(wire) + 2)
  BY <1>1
<1>3. ASSUME running'
      PROVE  wire'[Len(wire')].kind = "caption" => wire'[Len(wire')].whole
  <2>1. CASE Len(wire') = Len(wire) + 1
    BY <1>2, <1>3, <2>1, WriteGrows
  <2>2. CASE Len(wire') = Len(wire) + 2
    BY <1>2, <1>3, <2>2, WriteGrows
  <2>3. QED
    BY <2>1, <2>2, WriteGrows
<1>4. QED
  BY <1>3 DEF LastIsTorn

\* Then captions are still once each and in order, and blame still precedes its
\* caption, provided the segment is not on the wire yet and overtaken only by
\* rejected ones.
LEMMA WriteKeepsWire ==
    ASSUME wire \in Seq(Frames), NEW s \in Segment, ~Latched, ~latched, Wrote(s),
           running \in BOOLEAN, latched \in BOOLEAN, registered, rejected \subseteq rejected',
           OnceAndInOrder, BlamePrecedesItsCaption, TornLatches,
           \A i \in 1 .. Len(wire) : CaptionAt(i) =>
               wire[i].id # s.id /\ (wire[i].id > s.id => wire[i].id \in rejected')
    PROVE  /\ OnceAndInOrder' /\ BlamePrecedesItsCaption' /\ TornLatches'
           /\ running' => \E i \in 1 .. Len(wire') : wire'[i].kind = "caption" /\ wire'[i].id = s.id
<1>1. Grown(wire, wire', s)
  BY WriteGrows
<1>2. /\ Len(wire) \in Nat /\ Len(wire') \in Nat /\ Len(wire) <= Len(wire')
      /\ DOMAIN wire = 1 .. Len(wire) /\ DOMAIN wire' = 1 .. Len(wire')
      /\ \A i \in 1 .. Len(wire) : i \in 1 .. Len(wire') /\ wire'[i] = wire[i]
      /\ \A i \in Len(wire) + 1 .. Len(wire') : wire'[i].id = s.id /\ wire'[i].session = s.session
  BY <1>1 DEF Grown
<1>3. \/ /\ Len(wire') = Len(wire) + 1 /\ latched' = latched
         /\ wire'[Len(wire) + 1].kind = "caption"
      \/ /\ Len(wire') = Len(wire) + 2 /\ latched' = latched
         /\ wire'[Len(wire) + 1].kind = "error" /\ wire'[Len(wire) + 1].whole
         /\ wire'[Len(wire) + 2].kind = "caption"
      \/ /\ Len(wire') = Len(wire) + 1 /\ latched' = TRUE
         /\ wire'[Len(wire) + 1].kind = "error" /\ ~wire'[Len(wire) + 1].whole
         /\ running' = FALSE
  BY WriteGrows
<1>4. \A i \in 1 .. Len(wire') : i \in 1 .. Len(wire) \/ i \in Len(wire) + 1 .. Len(wire')
  BY <1>2
<1>5. ASSUME NEW i \in 1 .. Len(wire'), wire'[i].kind = "caption", i \notin 1 .. Len(wire)
      PROVE  i = Len(wire') /\ i > Len(wire)
  <2>1. i \in Len(wire) + 1 .. Len(wire')
    BY <1>4, <1>5
  <2>2. CASE Len(wire') = Len(wire) + 1
    BY <1>2, <2>1, <2>2
  <2>3. CASE Len(wire') = Len(wire) + 2
    <3>1. i = Len(wire) + 1 \/ i = Len(wire) + 2
      BY <1>2, <2>1, <2>3
    <3>2. Len(wire') # Len(wire) + 1
      BY <1>2, <2>3
    <3>3. wire'[Len(wire) + 1].kind = "error"
      BY <1>3, <3>2
    <3>4. i # Len(wire) + 1
      BY <1>5, <3>3
    <3>5. QED
      BY <1>2, <2>3, <3>1, <3>4
  <2>4. QED
    BY <1>3, <2>2, <2>3
<1>6. OnceAndInOrder'
  <2>1. ASSUME NEW i \in 1 .. Len(wire'), NEW j \in 1 .. Len(wire'), i < j,
               wire'[i].kind = "caption", wire'[j].kind = "caption"
        PROVE  /\ wire'[i].id # wire'[j].id
               /\ wire'[i].id > wire'[j].id => wire'[i].id \in rejected'
    <3>1. i \in 1 .. Len(wire) /\ wire'[i] = wire[i]
      <4>1. i # Len(wire')
        BY <1>2, <2>1
      <4>2. QED
        BY <1>2, <1>5, <2>1, <4>1
    <3>2. CASE j \in 1 .. Len(wire)
      BY <1>2, <2>1, <3>1, <3>2 DEF OnceAndInOrder, CaptionAt
    <3>3. CASE j \notin 1 .. Len(wire)
      <4>1. wire'[j].id = s.id
        BY <1>2, <1>4, <3>3
      <4>2. QED
        BY <2>1, <3>1, <4>1 DEF CaptionAt
    <3>4. QED
      BY SMTT(30), <3>2, <3>3
  <2>2. QED
    BY <1>2, <2>1 DEF OnceAndInOrder, CaptionAt
<1>7. \A i \in 1 .. Len(wire) : wire[i].kind = "error" =>
         /\ wire[i].whole /\ i + 1 \in 1 .. Len(wire) /\ wire[i + 1].kind = "caption"
         /\ wire[i + 1].id = wire[i].id /\ wire[i + 1].session = wire[i].session
  BY SMTT(30), <1>2 DEF TornLatches, BlamePrecedesItsCaption, CaptionAt
<1>8. BlamePrecedesItsCaption'
  <2>1. ASSUME NEW i \in 1 .. Len(wire'), wire'[i].kind = "error"
        PROVE  IF wire'[i].whole
               THEN /\ i + 1 \in 1 .. Len(wire') /\ wire'[i + 1].kind = "caption"
                    /\ wire'[i + 1].id = wire'[i].id /\ wire'[i + 1].session = wire'[i].session
               ELSE i = Len(wire')
    <3>1. CASE i \in 1 .. Len(wire)
      BY ZenonT(60), <1>2, <1>7, <2>1, <3>1
    <3>2. CASE i \notin 1 .. Len(wire)
      <4>1. i \in Len(wire) + 1 .. Len(wire')
        BY <1>4, <3>2
      <4>2. CASE Len(wire') = Len(wire) + 1
        <5>1. i = Len(wire) + 1 /\ i = Len(wire')
          BY <1>2, <4>1, <4>2
        <5>2. ~wire'[i].whole
          BY <1>2, <1>3, <2>1, <4>2, <5>1
        <5>3. QED
          BY <5>1, <5>2
      <4>3. CASE Len(wire') = Len(wire) + 2
        <5>1. wire'[Len(wire) + 2].kind = "caption" /\ wire'[Len(wire) + 1].whole
          BY <1>2, <1>3, <4>3
        <5>2. i = Len(wire) + 1 \/ i = Len(wire) + 2
          BY <1>2, <4>1, <4>3
        <5>3. i = Len(wire) + 1 /\ i + 1 = Len(wire) + 2
          BY <1>2, <2>1, <5>1, <5>2
        <5>4. i + 1 \in 1 .. Len(wire') /\ i + 1 \in Len(wire) + 1 .. Len(wire')
          BY <1>2, <4>3, <5>3
        <5>5. QED
          BY <1>2, <4>1, <5>1, <5>3, <5>4
      <4>4. QED
        BY <1>3, <4>2, <4>3
    <3>3. QED
      BY <3>1, <3>2
  <2>2. QED
    BY ZenonT(60), <1>2, <2>1 DEF BlamePrecedesItsCaption, CaptionAt
<1>9. TornLatches'
  <2>1. ASSUME NEW i \in 1 .. Len(wire'), wire'[i].kind = "error", ~wire'[i].whole
        PROVE  latched'
    <3>1. i \notin 1 .. Len(wire)
      BY <1>2, <1>7, <2>1
    <3>2. i \in Len(wire) + 1 .. Len(wire')
      BY <1>4, <3>1
    <3>3. CASE Len(wire') = Len(wire) + 1
      <4>1. i = Len(wire) + 1 /\ Len(wire') # Len(wire) + 2
        BY <1>2, <3>2, <3>3
      <4>2. QED
        BY <1>3, <2>1, <4>1
    <3>4. CASE Len(wire') = Len(wire) + 2
      <4>1. (i = Len(wire) + 1 \/ i = Len(wire) + 2) /\ Len(wire') # Len(wire) + 1
        BY <1>2, <3>2, <3>4
      <4>2. QED
        BY <1>3, <2>1, <4>1
    <3>5. QED
      BY <1>3, <3>3, <3>4
  <2>2. QED
    BY <2>1 DEF TornLatches
<1>10. running' => \E i \in 1 .. Len(wire') : wire'[i].kind = "caption" /\ wire'[i].id = s.id
  <2>1. CASE Len(wire') = Len(wire) + 1
    <3>1. /\ Len(wire) + 1 \in Len(wire) + 1 .. Len(wire') /\ Len(wire) + 1 \in 1 .. Len(wire')
          /\ Len(wire') # Len(wire) + 2
      BY <1>2, <2>1
    <3>2. running' => wire'[Len(wire) + 1].kind = "caption"
      BY SMTT(30), <1>3, <3>1
    <3>3. QED
      BY <1>2, <3>1, <3>2
  <2>2. CASE Len(wire') = Len(wire) + 2
    <3>1. /\ Len(wire) + 2 \in Len(wire) + 1 .. Len(wire') /\ Len(wire) + 2 \in 1 .. Len(wire')
          /\ Len(wire') # Len(wire) + 1
      BY <1>2, <2>2
    <3>2. wire'[Len(wire) + 2].kind = "caption"
      BY <1>3, <3>1
    <3>3. QED
      BY <1>2, <3>1, <3>2
  <2>3. QED
    BY SMTT(30), <1>3, <2>1, <2>2
<1>11. QED
  BY <1>6, <1>8, <1>9, <1>10

-----------------------------------------------------------------------------
(* Emptying the builder.                                                    *)

\* The oldest segment leaves the builder.
LEMMA PopFacts ==
    ASSUME PoolKnown, LoopTyped, BuilderKnown, backlog # << >>, backlog' = Tail(backlog),
           made' = made, session' = session
    PROVE  /\ Head(backlog) \in Segment /\ Head(backlog).id = Emitted + 1
           /\ Head(backlog).session = session /\ sessionActive
           /\ Emitted \in Nat /\ Emitted' = Emitted + 1
           /\ backlog' \in Seq(Segment) /\ Len(backlog') <= made'
           /\ \A i \in 1 .. Len(backlog') :
                 backlog'[i].id = Emitted' + i /\ backlog'[i].session = session'
<1>1. /\ backlog \in Seq(Segment) /\ Len(backlog) \in Nat /\ made \in Nat /\ Emitted \in Nat
      /\ Len(backlog) <= made /\ Emitted + Len(backlog) = made /\ sessionActive
  BY HeldSegments DEF LoopTyped, BuilderKnown
<1>2. 1 \in 1 .. Len(backlog) /\ Head(backlog) = backlog[1] /\ Head(backlog) \in Segment
  BY <1>1
<1>3. Head(backlog).id = Emitted + 1 /\ Head(backlog).session = session
  BY <1>2 DEF BuilderKnown
<1>4. /\ Tail(backlog) \in Seq(Segment) /\ Len(Tail(backlog)) = Len(backlog) - 1
      /\ \A i \in 1 .. Len(Tail(backlog)) : Tail(backlog)[i] = backlog[i + 1]
  BY <1>1
<1>5. Len(backlog') = Len(backlog) - 1 /\ backlog' \in Seq(Segment) /\ Len(backlog') <= made'
  BY <1>1, <1>4
<1>6. Emitted' = Emitted + 1
  <2>1. made' - Len(backlog') = Emitted + 1
    BY <1>1, <1>5
  <2>2. QED
    BY <2>1 DEF Emitted
<1>7. ASSUME NEW i \in 1 .. Len(backlog')
      PROVE  backlog'[i].id = Emitted' + i /\ backlog'[i].session = session'
  <2>1. i + 1 \in 1 .. Len(backlog) /\ backlog'[i] = backlog[i + 1]
    BY <1>1, <1>4, <1>5
  <2>2. backlog[i + 1].id = Emitted + (i + 1) /\ backlog[i + 1].session = session
    BY <2>1 DEF BuilderKnown
  <2>3. Emitted + (i + 1) = (Emitted + 1) + i
    BY <1>1
  <2>4. QED
    BY <1>6, <2>1, <2>2, <2>3
<1>8. QED
  BY <1>1, <1>2, <1>3, <1>5, <1>6, <1>7

\* What the four ways to handle a segment have in common.
LEMMA EmitKeeps ==
    ASSUME PoolKnown, PipeInv, Emitting, backlog' = Tail(backlog), made' = made,
           session' = session, sessionActive' = sessionActive, paused' = paused,
           sourceMode' = sourceMode, eof' = eof, translating' = translating,
           residual' = residual, ending' = ending, registered' = registered, owner' = owner,
           running' \in BOOLEAN, latched' \in BOOLEAN, latched' => ~running',
           main' = main \/ (main' \in {"drain", "ended"} /\ ~running'),
           cueSegs' \in Seq(Segment), Len(cueSegs') = accepted', wire' \in Seq(Frames),
           rejected' \subseteq Segments, forgotten' = forgotten, Data'
    PROVE  PipeInv'
<1>1. /\ backlog' \in Seq(Segment) /\ Len(backlog') <= made' /\ sessionActive
      /\ \A i \in 1 .. Len(backlog') :
            backlog'[i].id = Emitted' + i /\ backlog'[i].session = session'
  BY PopFacts DEF PipeInv, Emitting
<1>2. main \in {"build", "tail"} /\ registered /\ owner # "delivering"
  BY DEF Emitting, PipeInv, TransportKnown, Delivering
<1>3. LoopTyped'
  BY <1>1, <1>2 DEF PipeInv, LoopTyped
<1>4. TransportKnown'
  BY <1>2 DEF TransportKnown
<1>5. BuilderKnown'
  BY <1>1, <1>2 DEF PipeInv, BuilderKnown
<1>6. Drained'
  BY <1>2 DEF Drained
<1>7. QED
  BY <1>3, <1>4, <1>5, <1>6 DEF PipeInv

\* The pool takes the segment: it is the newest of the pending ones.
LEMMA SubmitSegmentKeeps ==
    ASSUME PoolKnown, PipeInv, SubmitSegment
    PROVE  PipeInv'
<1> DEFINE s == Head(backlog)
<1>1. /\ Emitting /\ translating /\ Submit /\ cueSegs' = Append(cueSegs, s)
      /\ backlog' = Tail(backlog) /\ backlog # << >>
      /\ main' = main /\ ending' = ending /\ running' = running /\ residual' = residual
      /\ made' = made /\ session' = session /\ sessionActive' = sessionActive
      /\ paused' = paused /\ sourceMode' = sourceMode /\ eof' = eof
      /\ translating' = translating /\ wire' = wire /\ registered' = registered
      /\ latched' = latched /\ rejected' = rejected /\ forgotten' = forgotten
  BY DEF SubmitSegment, Emitting, sessionVars, wireVars
<1>2. Given' = Given /\ accepted' = accepted + 1 /\ owner' = owner /\ owner = "running"
  BY <1>1, PoolCalls
<1>3. /\ s \in Segment /\ s.id = Emitted + 1 /\ s.session = session /\ sessionActive
      /\ Emitted \in Nat /\ Emitted' = Emitted + 1
  BY <1>1, PopFacts DEF PipeInv
<1> HIDE DEF s
<1>4. Given \in Nat /\ accepted \in Nat /\ Given <= accepted
  <2>1. Given \in Nat /\ accepted \in Nat /\ Consumed = Given
    BY <1>2, GivenFacts
  <2>2. ~stopping
    BY <1>2 DEF PoolKnown, OrderInv
  <2>3. accepted = Consumed + Len(jobs) + Cardinality(CurrentWork) + Cardinality(results)
    BY <2>2 DEF PoolKnown, OrderInv, WindowCounted
  <2>4. /\ Len(jobs) \in Nat /\ Cardinality(CurrentWork) \in Nat
        /\ Cardinality(results) \in Nat
    BY OrderTypes DEF PoolKnown
  <2>5. QED
    BY <2>1, <2>3, <2>4
<1>5. Pending' = Pending \cup {accepted + 1}
  <2>1. (Given + 1) .. (accepted + 1) = ((Given + 1) .. accepted) \cup {accepted + 1}
    BY <1>4
  <2>2. QED
    BY <1>2, <2>1 DEF Pending
<1>6. /\ cueSegs \in Seq(Segment) /\ Len(cueSegs) = accepted
      /\ cueSegs' \in Seq(Segment) /\ Len(cueSegs') = accepted + 1
      /\ cueSegs'[accepted + 1] = s
      /\ \A c \in 1 .. accepted : cueSegs'[c] = cueSegs[c]
  <2>1. cueSegs \in Seq(Segment) /\ Len(cueSegs) = accepted
    BY DEF PipeInv, LoopTyped
  <2>2. QED
    BY <1>1, <1>3, <1>4, <2>1
<1>7. /\ \A i \in 1 .. Len(wire) : wire[i].id \in Nat /\ wire[i].id <= Emitted
      /\ \A c \in 1 .. accepted : cueSegs[c].id \in Nat /\ cueSegs[c].id <= Emitted
      /\ \A n \in rejected \cup forgotten : n \in Nat /\ n <= Emitted
  BY <1>6, AllOlder DEF PipeInv, Data
<1>8. /\ \A c \in 1 .. accepted + 1 : c \in 1 .. accepted \/ c = accepted + 1
      /\ Pending \subseteq 1 .. accepted
  BY <1>4 DEF Pending
<1>9. SegmentsOrdered'
  <2>1. ASSUME NEW c \in 1 .. accepted + 1, NEW d \in 1 .. accepted + 1, c < d
        PROVE  cueSegs'[c].id < cueSegs'[d].id
    <3>1. c \in 1 .. accepted
      BY <1>4, <2>1
    <3>2. CASE d \in 1 .. accepted
      BY <1>6, <2>1, <3>1, <3>2 DEF PipeInv, Data, SegmentsOrdered
    <3>3. CASE d = accepted + 1
      BY <1>3, <1>6, <1>7, <3>1, <3>3
    <3>4. QED
      BY <1>8, <3>2, <3>3
  <2>2. \A c \in 1 .. accepted + 1 : cueSegs'[c].id <= Emitted + 1
    BY <1>3, <1>6, <1>7, <1>8
  <2>3. \A i \in 1 .. Len(wire) : wire[i].id <= Emitted + 1
    BY <1>3, <1>7
  <2>4. \A n \in rejected \cup forgotten : n <= Emitted + 1
    BY <1>3, <1>7
  <2>5. QED
    BY <1>1, <1>3, <1>6, <2>1, <2>2, <2>3, <2>4 DEF SegmentsOrdered
<1>10. s.id \notin forgotten
  BY <1>3, <1>7
<1>11. PendingFresh'
  BY <1>1, <1>3, <1>5, <1>6, <1>8, <1>10 DEF PipeInv, Data, PendingFresh
<1>12. PendingUnsent'
  <2>1. ASSUME NEW i \in 1 .. Len(wire), NEW c \in Pending', CaptionAt(i)
        PROVE  /\ wire[i].id # cueSegs'[c].id
               /\ wire[i].id > cueSegs'[c].id => wire[i].id \in rejected
    <3>1. CASE c \in Pending
      BY <1>6, <1>8, <2>1, <3>1 DEF PipeInv, Data, PendingUnsent
    <3>2. CASE c = accepted + 1
      BY <1>3, <1>6, <1>7, <3>2
    <3>3. QED
      BY <1>5, <3>1, <3>2
  <2>2. QED
    BY <1>1, <2>1 DEF PendingUnsent, CaptionAt
<1>13. OnceAndInOrder' /\ BlamePrecedesItsCaption' /\ TornLatches'
  BY <1>1 DEF PipeInv, Data, OnceAndInOrder, BlamePrecedesItsCaption, TornLatches, CaptionAt
<1>14. NoneMissing'
  <2>1. ASSUME running, NEW n \in 1 .. Emitted + 1
        PROVE  \/ \E i \in 1 .. Len(wire) : CaptionAt(i) /\ wire[i].id = n
               \/ n \in forgotten
               \/ \E c \in Pending' : cueSegs'[c].id = n
    <3>1. CASE n \in 1 .. Emitted
      <4>1. \A c \in Pending : c \in Pending' /\ cueSegs'[c] = cueSegs[c]
        BY <1>5, <1>6, <1>8
      <4>2. QED
        BY <2>1, <3>1, <4>1 DEF PipeInv, Data, NoneMissing
    <3>2. CASE n = Emitted + 1
      BY <1>3, <1>5, <1>6, <3>2
    <3>3. n \in 1 .. Emitted \/ n = Emitted + 1
      BY <1>3
    <3>4. QED
      BY <3>1, <3>2, <3>3
  <2>2. QED
    BY <1>1, <1>3, <2>1 DEF NoneMissing, CaptionAt
<1>15. Data'
  BY <1>9, <1>11, <1>12, <1>13, <1>14 DEF Data
<1>16. /\ running' \in BOOLEAN /\ latched' \in BOOLEAN /\ (latched' => ~running')
       /\ wire' \in Seq(Frames) /\ rejected' \subseteq Segments
  BY <1>1 DEF PipeInv, LoopTyped, TransportKnown
<1>17. QED
  BY <1>1, <1>2, <1>6, <1>15, <1>16, EmitKeeps

\* A segment is lost once the worker is stopping.
LEMMA LostSegment ==
    ASSUME PoolKnown, PipeInv, Emitting, ~running', cueSegs' = cueSegs,
           backlog' = Tail(backlog), made' = made, session' = session,
           sessionActive' = sessionActive, translating' = translating, wire' = wire,
           latched' = latched, rejected' = rejected, forgotten' = forgotten,
           accepted' = accepted, Given' = Given
    PROVE  Data'
<1>1. Pending' = Pending
  BY DEF Pending
<1>2. Emitted \in Nat /\ Emitted' = Emitted + 1
  BY PopFacts DEF PipeInv, Emitting
<1>3. SegmentsOrdered'
  <2>1. \A c \in 1 .. Len(cueSegs) : cueSegs[c].id <= Emitted + 1
    BY <1>2, AllOlder DEF PipeInv, Data
  <2>2. \A i \in 1 .. Len(wire) : wire[i].id <= Emitted + 1
    BY <1>2, AllOlder DEF PipeInv, Data
  <2>3. \A n \in rejected \cup forgotten : n <= Emitted + 1
    BY <1>2, AllOlder DEF PipeInv, Data
  <2>4. QED
    BY <1>2, <2>1, <2>2, <2>3 DEF PipeInv, Data, SegmentsOrdered
<1>4. PendingFresh'
  BY <1>1 DEF PipeInv, Data, PendingFresh
<1>5. OnceAndInOrder' /\ PendingUnsent'
  BY <1>1 DEF PipeInv, Data, OnceAndInOrder, PendingUnsent, CaptionAt
<1>6. BlamePrecedesItsCaption' /\ TornLatches' /\ NoneMissing'
  BY DEF PipeInv, Data, BlamePrecedesItsCaption, TornLatches, NoneMissing, CaptionAt
<1>7. QED
  BY <1>3, <1>4, <1>5, <1>6 DEF Data

\* A latched transport: the segment is lost, and the worker is stopping.
LEMMA SwallowSegmentKeeps ==
    ASSUME PoolKnown, PipeInv, SwallowSegment
    PROVE  PipeInv'
<1>1. /\ Emitting /\ cueSegs' = cueSegs /\ backlog' = Tail(backlog)
      /\ main' = main /\ ending' = ending /\ running' = running /\ residual' = residual
      /\ made' = made /\ session' = session /\ sessionActive' = sessionActive
      /\ paused' = paused /\ sourceMode' = sourceMode /\ eof' = eof
      /\ translating' = translating /\ wire' = wire /\ registered' = registered
      /\ latched' = latched /\ rejected' = rejected /\ forgotten' = forgotten /\ latched
      /\ owner' = owner /\ accepted' = accepted /\ log' = log /\ epoch' = epoch
  BY DEF SwallowSegment, Latched, sessionVars, wireVars, vars
<1>2. ~running' /\ Given' = Given
  BY <1>1 DEF PipeInv, TransportKnown, Given, Stream!DeliveredOf
<1>3. Data'
  BY <1>1, <1>2, LostSegment
<1>4. /\ running' \in BOOLEAN /\ latched' \in BOOLEAN
      /\ wire' \in Seq(Frames) /\ rejected' \subseteq Segments
      /\ cueSegs' \in Seq(Segment) /\ Len(cueSegs') = accepted'
  BY <1>1 DEF PipeInv, LoopTyped
<1>5. QED
  BY <1>1, <1>2, <1>3, <1>4, EmitKeeps

\* What a step writes is of the active session, and was not dropped.
FreshStep ==
    \A i \in DOMAIN wire' \ DOMAIN wire :
        /\ sessionActive /\ wire'[i].session = session
        /\ wire'[i].id \notin forgotten

\* The builder's next segment goes straight to the wire: only past pending work
\* when the pool has turned it down.
LEMMA WriteNext ==
    ASSUME PoolKnown, PipeInv, Emitting, ~latched, Wrote(Head(backlog)),
           backlog' = Tail(backlog), made' = made, session' = session,
           sessionActive' = sessionActive, translating' = translating,
           forgotten' = forgotten, cueSegs' = cueSegs, Given' = Given, accepted' = accepted,
           rejected' = rejected \cup {Head(backlog).id} \/ (rejected' = rejected /\ accepted = 0)
    PROVE  /\ Data' /\ FreshStep /\ wire' \in Seq(Frames) /\ rejected' \subseteq Segments
           /\ running' \in BOOLEAN /\ latched' \in BOOLEAN
           /\ latched' => ~running'
           /\ running' => ~LastIsTorn(wire')
<1> DEFINE s == Head(backlog)
<1>1. /\ s \in Segment /\ s.id = Emitted + 1 /\ s.session = session /\ sessionActive
      /\ Emitted \in Nat /\ Emitted' = Emitted + 1
  BY PopFacts DEF PipeInv, Emitting
<1>2. rejected' = rejected \cup {s.id} \/ (rejected' = rejected /\ accepted = 0)
  OBVIOUS
<1>3. Wrote(s)
  OBVIOUS
<1> HIDE DEF s
<1>4. /\ wire \in Seq(Frames) /\ running \in BOOLEAN /\ latched \in BOOLEAN
      /\ registered /\ ~Latched
  BY DEF PipeInv, LoopTyped, TransportKnown, Emitting, Latched
<1>5. /\ \A i \in 1 .. Len(wire) : wire[i].id \in Nat /\ wire[i].id <= Emitted
      /\ \A c \in 1 .. Len(cueSegs) : cueSegs[c].id \in Nat /\ cueSegs[c].id <= Emitted
      /\ \A n \in rejected \cup forgotten : n \in Nat /\ n <= Emitted
  BY AllOlder DEF PipeInv, Data
<1>6. Grown(wire, wire', s) /\ running' \in BOOLEAN /\ latched' \in BOOLEAN
  BY <1>1, <1>3, <1>4, WriteGrows
<1>7. (running' => running) /\ (latched' => ~running')
  BY <1>1, <1>3, <1>4, WriteGrows
<1>8. running' => ~LastIsTorn(wire')
  BY <1>1, <1>3, <1>4, TornStops
<1>9. /\ Len(wire) \in Nat /\ Len(wire') \in Nat /\ Len(wire) <= Len(wire')
      /\ DOMAIN wire = 1 .. Len(wire) /\ DOMAIN wire' = 1 .. Len(wire') /\ wire' \in Seq(Frames)
      /\ \A i \in 1 .. Len(wire) : i \in 1 .. Len(wire') /\ wire'[i] = wire[i]
      /\ \A i \in Len(wire) + 1 .. Len(wire') : wire'[i].id = s.id /\ wire'[i].session = s.session
  BY <1>4, <1>6 DEF Grown
<1>10. \A i \in 1 .. Len(wire') : i \in 1 .. Len(wire) \/ i \in Len(wire) + 1 .. Len(wire')
  BY <1>9
<1>11. \A i \in 1 .. Len(wire) : CaptionAt(i) =>
          wire[i].id # s.id /\ (wire[i].id > s.id => wire[i].id \in rejected')
  BY <1>1, <1>5
<1>12. /\ OnceAndInOrder' /\ BlamePrecedesItsCaption' /\ TornLatches'
       /\ running' => \E i \in 1 .. Len(wire') : wire'[i].kind = "caption" /\ wire'[i].id = s.id
  <2>1. rejected \subseteq rejected'
    BY <1>2
  <2>2. OnceAndInOrder /\ BlamePrecedesItsCaption /\ TornLatches
    BY DEF PipeInv, Data
  <2>3. QED
    BY <1>1, <1>3, <1>4, <1>11, <2>1, <2>2, WriteKeepsWire
<1>13. s.id \notin forgotten
  BY <1>1, <1>5
<1>14. FreshStep
  BY <1>1, <1>9, <1>10, <1>13 DEF FreshStep
<1>15. Pending' = Pending /\ Pending \subseteq 1 .. Len(cueSegs)
  BY HeldSegments DEF Pending, PipeInv
<1>16. SegmentsOrdered'
  <2>1. \A c \in 1 .. Len(cueSegs) : cueSegs[c].id <= Emitted + 1
    BY <1>1, <1>5
  <2>2. \A i \in 1 .. Len(wire') : wire'[i].id <= Emitted + 1
    BY <1>1, <1>5, <1>9, <1>10
  <2>3. \A n \in rejected \cup forgotten \cup {s.id} : n <= Emitted + 1
    BY <1>1, <1>5
  <2>4. \A n \in rejected' \cup forgotten' : n <= Emitted + 1
    BY <1>2, <2>3
  <2>5. QED
    BY <1>1, <2>1, <2>2, <2>4 DEF PipeInv, Data, SegmentsOrdered
<1>17. PendingFresh'
  BY <1>15 DEF PipeInv, Data, PendingFresh
<1>18. PendingUnsent'
  <2>1. ASSUME NEW i \in 1 .. Len(wire'), NEW c \in Pending, wire'[i].kind = "caption"
        PROVE  /\ wire'[i].id # cueSegs[c].id
               /\ wire'[i].id > cueSegs[c].id => wire'[i].id \in rejected'
    <3>1. CASE i \in 1 .. Len(wire)
      BY <1>2, <1>9, <2>1, <3>1 DEF PipeInv, Data, PendingUnsent, CaptionAt
    <3>2. CASE i \in Len(wire) + 1 .. Len(wire')
      <4>1. accepted # 0
        BY <2>1, GivenFacts DEF Pending
      <4>2. s.id \in rejected'
        BY <1>2, <4>1
      <4>3. wire'[i].id = s.id /\ cueSegs[c].id \in Nat /\ cueSegs[c].id <= Emitted
        BY <1>5, <1>9, <1>15, <3>2
      <4>4. s.id # cueSegs[c].id
        BY <1>1, <4>3
      <4>5. QED
        BY <4>2, <4>3, <4>4
    <3>3. QED
      BY <1>10, <3>1, <3>2
  <2>2. QED
    BY <1>15, <2>1 DEF PendingUnsent, CaptionAt
<1>19. NoneMissing'
  <2>1. ASSUME running', NEW n \in 1 .. Emitted + 1
        PROVE  \/ \E i \in 1 .. Len(wire') : wire'[i].kind = "caption" /\ wire'[i].id = n
               \/ n \in forgotten
               \/ \E c \in Pending : cueSegs[c].id = n
    <3>1. CASE n \in 1 .. Emitted
      <4>1. \/ \E i \in 1 .. Len(wire) : CaptionAt(i) /\ wire[i].id = n
            \/ n \in forgotten
            \/ \E c \in Pending : cueSegs[c].id = n
        BY <1>7, <2>1, <3>1 DEF PipeInv, Data, NoneMissing
      <4>2. QED
        BY <1>9, <4>1 DEF CaptionAt
    <3>2. CASE n = Emitted + 1
      BY <1>1, <1>12, <2>1, <3>2
    <3>3. n \in 1 .. Emitted \/ n = Emitted + 1
      BY <1>1
    <3>4. QED
      BY <3>1, <3>2, <3>3
  <2>2. QED
    BY <1>1, <1>15, <2>1 DEF NoneMissing, CaptionAt
<1>20. rejected' \subseteq Segments
  BY <1>1, <1>2 DEF PipeInv, LoopTyped, Segment
<1>21. QED
  BY <1>6, <1>7, <1>8, <1>9, <1>12, <1>14, <1>16, <1>17, <1>18, <1>19, <1>20 DEF Data

\* The pool is full: blame and source caption at once, ahead of older work.
LEMMA RejectSegmentKeeps ==
    ASSUME PoolKnown, PipeInv, RejectSegment
    PROVE  PipeInv' /\ FreshStep
<1>1. /\ Emitting /\ WriteBlamed(Head(backlog)) /\ ~Latched
      /\ cueSegs' = cueSegs /\ backlog' = Tail(backlog) /\ ending' = ending
      /\ residual' = residual /\ made' = made /\ session' = session
      /\ sessionActive' = sessionActive /\ paused' = paused /\ sourceMode' = sourceMode
      /\ eof' = eof /\ translating' = translating /\ registered' = registered
      /\ rejected' = rejected \cup {Head(backlog).id} /\ forgotten' = forgotten
      /\ owner' = owner /\ accepted' = accepted /\ log' = log /\ epoch' = epoch
  BY DEF RejectSegment, sessionVars, vars
<1>2. Given' = Given
  BY <1>1 DEF Given, Stream!DeliveredOf
<1>3. ~latched /\ Wrote(Head(backlog))
  BY <1>1 DEF PipeInv, TransportKnown, Latched, Wrote
<1>4. /\ Data' /\ FreshStep /\ wire' \in Seq(Frames) /\ rejected' \subseteq Segments
      /\ running' \in BOOLEAN /\ latched' \in BOOLEAN
      /\ latched' => ~running'
      /\ running' => ~LastIsTorn(wire')
  BY <1>1, <1>2, <1>3, WriteNext
<1>5. main' = main \/ (main' \in {"drain", "ended"} /\ ~running')
  BY <1>4 DEF RejectSegment, TailEndsIf, AfterTail
<1>6. cueSegs' \in Seq(Segment) /\ Len(cueSegs') = accepted'
  BY <1>1 DEF PipeInv, LoopTyped
<1>7. QED
  BY <1>1, <1>4, <1>5, <1>6, EmitKeeps

\* No translation: the caption goes straight out, and nothing is pending.
LEMMA SendSegmentKeeps ==
    ASSUME PoolKnown, PipeInv, SendSegment
    PROVE  PipeInv' /\ FreshStep
<1>1. /\ Emitting /\ WriteCaption(Head(backlog)) /\ ~translating
      /\ cueSegs' = cueSegs /\ backlog' = Tail(backlog) /\ ending' = ending
      /\ residual' = residual /\ made' = made /\ session' = session
      /\ sessionActive' = sessionActive /\ paused' = paused /\ sourceMode' = sourceMode
      /\ eof' = eof /\ translating' = translating /\ registered' = registered
      /\ latched' = latched /\ rejected' = rejected /\ forgotten' = forgotten
      /\ owner' = owner /\ accepted' = accepted /\ log' = log /\ epoch' = epoch
  BY DEF SendSegment, sessionVars, vars
<1>2. Given' = Given
  BY <1>1 DEF Given, Stream!DeliveredOf
<1>3. accepted = 0
  BY <1>1 DEF PipeInv, Data, SegmentsOrdered
<1>4. /\ Data' /\ FreshStep /\ wire' \in Seq(Frames) /\ rejected' \subseteq Segments
      /\ running' \in BOOLEAN /\ latched' \in BOOLEAN
      /\ latched' => ~running'
      /\ running' => ~LastIsTorn(wire') /\ ~Latched
  <2>1. CASE Latched
    <3>1. wire' = wire /\ running' = FALSE
      BY <1>1, <2>1 DEF WriteCaption
    <3>2. Data'
      BY <1>1, <1>2, <3>1, LostSegment
    <3>3. FreshStep
      BY <3>1 DEF FreshStep
    <3>4. QED
      BY <1>1, <3>1, <3>2, <3>3 DEF PipeInv, LoopTyped
  <2>2. CASE ~Latched
    <3>1. ~latched /\ Wrote(Head(backlog))
      BY <1>1, <2>2 DEF PipeInv, TransportKnown, Latched, Wrote
    <3>2. QED
      BY <1>1, <1>2, <1>3, <2>2, <3>1, WriteNext
  <2>3. QED
    BY <2>1, <2>2
<1>5. main' = main \/ (main' \in {"drain", "ended"} /\ ~running')
  BY <1>4 DEF SendSegment, TailEndsIf, AfterTail
<1>6. cueSegs' \in Seq(Segment) /\ Len(cueSegs') = accepted'
  BY <1>1 DEF PipeInv, LoopTyped
<1>7. QED
  BY <1>1, <1>4, <1>5, <1>6, EmitKeeps

-----------------------------------------------------------------------------
(* Handing over.                                                            *)

\* The callback: the oldest pending segment is captioned, blamed and captioned,
\* or, when its session is over, dropped as the reset promised.
LEMMA HandOverKeeps ==
    ASSUME PoolKnown, PipeInv, HandOver
    PROVE  PipeInv' /\ FreshStep
<1> DEFINE g == held.cue
           s == cueSegs[g]
<1>1. /\ main \in Delivering /\ DeliverHeld /\ main' = main /\ ending' = ending
      /\ residual' = residual /\ BuilderSame /\ sessionActive' = sessionActive
      /\ paused' = paused /\ sourceMode' = sourceMode /\ eof' = eof
      /\ translating' = translating /\ cueSegs' = cueSegs /\ registered' = registered
      /\ rejected' = rejected /\ forgotten' = forgotten
      /\ (sessionActive /\ s.session = session) => Wrote(s)
      /\ ~(sessionActive /\ s.session = session) =>
            wire' = wire /\ running' = running /\ latched' = latched
  BY DEF HandOver, Wrote, BuilderSame, sessionVars, builderVars
<1>2. /\ owner = "delivering" /\ owner' = "running" /\ g = Given + 1 /\ g \in Pending
      /\ Given' = Given + 1 /\ accepted' = accepted
  BY <1>1, DeliverHeldGives
<1>3. Given \in Nat /\ accepted \in Nat /\ Len(cueSegs) = accepted
  BY GivenFacts DEF PipeInv, LoopTyped
<1>4. /\ Pending \subseteq 1 .. Len(cueSegs)
      /\ s \in Segment /\ Emitted' = Emitted /\ Emitted \in Nat
  BY <1>1, <1>2, HeldSegments, BuilderStays DEF PipeInv
<1>5. /\ wire \in Seq(Frames) /\ running \in BOOLEAN /\ latched \in BOOLEAN
      /\ registered /\ ~Latched /\ ~latched
  BY <1>2 DEF PipeInv, LoopTyped, TransportKnown, Latched
<1>6. /\ \A c \in Pending' : c \in Pending /\ g < c
      /\ \A c \in Pending : c \in Pending' \/ c = g
  <2>1. Pending' = (Given + 2) .. accepted /\ Pending = (Given + 1) .. accepted
    BY <1>2, <1>3 DEF Pending
  <2>2. QED
    BY <1>2, <1>3, <2>1
<1>7. IF sessionActive THEN s.session = session /\ s.id \notin forgotten
      ELSE s.id \in forgotten
  BY <1>2 DEF PipeInv, Data, PendingFresh
<1>8. /\ \A i \in 1 .. Len(wire) : wire[i].id \in Nat /\ wire[i].id <= Emitted
      /\ \A c \in 1 .. Len(cueSegs) : cueSegs[c].id \in Nat /\ cueSegs[c].id <= Emitted
  BY AllOlder DEF PipeInv, Data
<1>9. /\ s.id \in Nat /\ s.id <= Emitted
      /\ \A c \in Pending' : cueSegs[c].id \in Nat /\ s.id < cueSegs[c].id
  BY <1>2, <1>4, <1>6, <1>8 DEF PipeInv, Data, SegmentsOrdered
<1>10. \A i \in 1 .. Len(wire) : CaptionAt(i) =>
          wire[i].id # s.id /\ (wire[i].id > s.id => wire[i].id \in rejected)
  BY <1>2 DEF PipeInv, Data, PendingUnsent
<1> HIDE DEF s, g
<1>11. PendingFresh'
  BY <1>1, <1>6 DEF PipeInv, Data, PendingFresh, BuilderSame
<1>12. ASSUME sessionActive
      PROVE  /\ Data' /\ FreshStep /\ wire' \in Seq(Frames) /\ running' \in BOOLEAN
             /\ latched' \in BOOLEAN
             /\ latched' => ~running'
             /\ running' => running
  <2>1. Wrote(s) /\ s.id \notin forgotten /\ s.session = session
    BY <1>1, <1>7, <1>12
  <2>2. Grown(wire, wire', s) /\ running' \in BOOLEAN /\ latched' \in BOOLEAN
    BY <1>4, <1>5, <2>1, WriteGrows
  <2>3. (running' => running) /\ (latched' => ~running')
    BY <1>4, <1>5, <2>1, WriteGrows
  <2>4. /\ Len(wire) \in Nat /\ Len(wire') \in Nat /\ Len(wire) <= Len(wire')
        /\ DOMAIN wire = 1 .. Len(wire) /\ DOMAIN wire' = 1 .. Len(wire')
        /\ wire' \in Seq(Frames)
        /\ \A i \in 1 .. Len(wire) : i \in 1 .. Len(wire') /\ wire'[i] = wire[i]
        /\ \A i \in Len(wire) + 1 .. Len(wire') :
              wire'[i].id = s.id /\ wire'[i].session = s.session
    BY <1>5, <2>2 DEF Grown
  <2>5. \A i \in 1 .. Len(wire') : i \in 1 .. Len(wire) \/ i \in Len(wire) + 1 .. Len(wire')
    BY <2>4
  <2>6. /\ OnceAndInOrder' /\ BlamePrecedesItsCaption' /\ TornLatches'
        /\ running' => \E i \in 1 .. Len(wire') : wire'[i].kind = "caption" /\ wire'[i].id = s.id
    <3>1. /\ OnceAndInOrder /\ BlamePrecedesItsCaption /\ TornLatches
          /\ rejected \subseteq rejected'
      BY <1>1 DEF PipeInv, Data
    <3>2. QED
      BY <1>1, <1>4, <1>5, <1>10, <2>1, <3>1, WriteKeepsWire
  <2>7. FreshStep
    BY <1>12, <2>1, <2>4, <2>5 DEF FreshStep
  <2>8. SegmentsOrdered'
    <3>1. \A i \in 1 .. Len(wire') : wire'[i].id <= Emitted
      BY <1>8, <1>9, <2>4, <2>5
    <3>2. QED
      BY <1>1, <1>2, <1>4, <3>1 DEF PipeInv, Data, SegmentsOrdered
  <2>9. PendingUnsent'
    <3>1. ASSUME NEW i \in 1 .. Len(wire'), NEW c \in Pending', wire'[i].kind = "caption"
          PROVE  /\ wire'[i].id # cueSegs[c].id
                 /\ wire'[i].id > cueSegs[c].id => wire'[i].id \in rejected
      <4>1. CASE i \in 1 .. Len(wire)
        BY <1>6, <2>4, <3>1, <4>1 DEF PipeInv, Data, PendingUnsent, CaptionAt
      <4>2. CASE i \in Len(wire) + 1 .. Len(wire')
        <5>1. wire'[i].id = s.id /\ s.id < cueSegs[c].id /\ s.id \in Nat /\ cueSegs[c].id \in Nat
          BY <1>9, <2>4, <4>2
        <5>2. s.id # cueSegs[c].id /\ ~(s.id > cueSegs[c].id)
          BY <5>1
        <5>3. QED
          BY <5>1, <5>2
      <4>3. QED
        BY <2>5, <4>1, <4>2
    <3>2. QED
      BY <1>1, <3>1 DEF PendingUnsent, CaptionAt
  <2>10. NoneMissing'
    <3>1. ASSUME running', NEW n \in 1 .. Emitted
          PROVE  \/ \E i \in 1 .. Len(wire') : wire'[i].kind = "caption" /\ wire'[i].id = n
                 \/ n \in forgotten
                 \/ \E c \in Pending' : cueSegs[c].id = n
      <4>1. \/ \E i \in 1 .. Len(wire) : CaptionAt(i) /\ wire[i].id = n
            \/ n \in forgotten
            \/ \E c \in Pending : cueSegs[c].id = n
        BY <2>3, <3>1 DEF PipeInv, Data, NoneMissing
      <4>2. (\E i \in 1 .. Len(wire) : CaptionAt(i) /\ wire[i].id = n) =>
               \E i \in 1 .. Len(wire') : wire'[i].kind = "caption" /\ wire'[i].id = n
        BY <2>4 DEF CaptionAt
      <4>3. (\E c \in Pending : cueSegs[c].id = n) =>
               n = s.id \/ \E c \in Pending' : cueSegs[c].id = n
        BY <1>6 DEF s
      <4>4. QED
        BY <2>6, <3>1, <4>1, <4>2, <4>3
    <3>2. QED
      BY <1>1, <1>4, <3>1 DEF NoneMissing, CaptionAt
  <2>11. Data'
    BY <1>11, <2>6, <2>8, <2>9, <2>10 DEF Data
  <2>12. QED
    BY <2>2, <2>3, <2>4, <2>7, <2>11
<1>13. ASSUME ~sessionActive
      PROVE  /\ Data' /\ FreshStep /\ wire' \in Seq(Frames) /\ running' \in BOOLEAN
             /\ latched' \in BOOLEAN
             /\ latched' => ~running'
             /\ running' => running
  <2>1. wire' = wire /\ running' = running /\ latched' = latched /\ s.id \in forgotten
    BY <1>1, <1>7, <1>13
  <2>2. SegmentsOrdered'
    BY <1>1, <1>2, <1>4, <2>1 DEF PipeInv, Data, SegmentsOrdered
  <2>3. PendingUnsent'
    BY <1>1, <1>6, <2>1 DEF PipeInv, Data, PendingUnsent, CaptionAt
  <2>4. OnceAndInOrder' /\ BlamePrecedesItsCaption' /\ TornLatches'
    BY <1>1, <2>1 DEF PipeInv, Data, OnceAndInOrder, BlamePrecedesItsCaption, TornLatches,
       CaptionAt
  <2>5. NoneMissing'
    <3>1. \A n : (\E c \in Pending : cueSegs[c].id = n) =>
             n \in forgotten \/ \E c \in Pending' : cueSegs[c].id = n
      BY <1>6, <2>1 DEF s
    <3>2. QED
      BY <1>1, <1>4, <2>1, <3>1 DEF PipeInv, Data, NoneMissing, CaptionAt
  <2>6. Data'
    BY <1>11, <2>2, <2>3, <2>4, <2>5 DEF Data
  <2>7. FreshStep
    BY <2>1 DEF FreshStep
  <2>8. QED
    BY <1>5, <2>1, <2>6, <2>7
<1>14. /\ Data' /\ FreshStep /\ wire' \in Seq(Frames) /\ running' \in BOOLEAN
       /\ latched' \in BOOLEAN
       /\ latched' => ~running'
       /\ running' => running
  <2>1. sessionActive \/ ~sessionActive
    OBVIOUS
  <2>2. QED
    BY <1>12, <1>13, <2>1
<1>15. LoopTyped'
  BY <1>1, <1>2, <1>14 DEF PipeInv, LoopTyped, BuilderSame
<1>16. TransportKnown'
  BY <1>1, <1>2, <1>5, <1>14 DEF TransportKnown
<1>17. BuilderKnown'
  BY <1>1, <1>14, BuilderStays DEF PipeInv, BuilderKnown, BuilderSame
<1>18. Drained'
  BY <1>1 DEF Drained, Delivering
<1>19. QED
  BY <1>14, <1>15, <1>16, <1>17, <1>18 DEF PipeInv

-----------------------------------------------------------------------------
(* The theorems.                                                            *)

\* A worker that has just started.
LEMMA PipeInvInit == PipeInit => PipeInv
<1> SUFFICES ASSUME PipeInit PROVE PipeInv
  OBVIOUS
<1> USE DEF PipeInit
<1>1. /\ accepted = 0 /\ log = << >> /\ owner # "delivering" /\ Len(cueSegs) = 0
      /\ Len(backlog) = 0 /\ Len(wire) = 0
  BY DEF Init
<1>2. Given = 0
  BY <1>1 DEF Given, Stream!DeliveredOf
<1>3. Pending = {}
  BY <1>1, <1>2 DEF Pending
<1>4. Emitted = 0
  <2>1. made = 0
    OBVIOUS
  <2> HIDE DEF PipeInit
  <2>2. QED
    BY <1>1, <2>1 DEF Emitted
<1>5. LoopTyped
  <2>1. backlog \in Seq(Segment) /\ cueSegs \in Seq(Segment) /\ wire \in Seq(Frames)
    OBVIOUS
  <2>2. session \in Sessions /\ made \in 0 .. MaxSegments
    BY PipelineAssumption, BoundAssumption DEF Sessions
  <2>3. /\ running \in BOOLEAN /\ sessionActive \in BOOLEAN /\ paused \in BOOLEAN
        /\ sourceMode \in BOOLEAN /\ eof \in BOOLEAN /\ translating \in BOOLEAN
        /\ residual \in BOOLEAN /\ registered \in BOOLEAN /\ latched \in BOOLEAN
    OBVIOUS
  <2>4. main = "frame" /\ ending = "none" /\ rejected = {} /\ forgotten = {}
    OBVIOUS
  <2>5. QED
    BY <1>1, <2>1, <2>2, <2>3, <2>4 DEF LoopTyped
<1>6. TransportKnown
  BY <1>1 DEF TransportKnown
<1>7. BuilderKnown
  <2>1. Len(backlog) <= made /\ \A i \in 1 .. Len(backlog) : FALSE
    BY <1>1
  <2>2. QED
    BY <2>1 DEF BuilderKnown
<1>8. Drained
  BY DEF Drained
<1>9. \A i \in 1 .. Len(wire) : FALSE
  BY <1>1
<1>10. DOMAIN wire = {}
  BY <1>9
<1>11. SegmentsOrdered /\ PendingFresh /\ PendingUnsent
  <2>1. \A c \in 1 .. Len(cueSegs) : FALSE
    BY <1>1
  <2>2. QED
    BY <1>1, <1>3, <1>9, <2>1 DEF SegmentsOrdered, PendingFresh, PendingUnsent
<1>12. OnceAndInOrder /\ BlamePrecedesItsCaption /\ TornLatches
  BY <1>9, <1>10 DEF OnceAndInOrder, BlamePrecedesItsCaption, TornLatches
<1>13. NoneMissing
  <2>1. \A n \in 1 .. Emitted : FALSE
    BY <1>4
  <2>2. QED
    BY <2>1 DEF NoneMissing
<1>14. QED
  BY <1>5, <1>6, <1>7, <1>8, <1>11, <1>12, <1>13 DEF PipeInv, Data

\* No other step than the three that write touches the wire.
LEMMA OnlyWritersWrite ==
    [PipeNext]_allVars => wire' = wire \/ RejectSegment \/ SendSegment \/ HandOver
<1> SUFFICES ASSUME [PipeNext]_allVars
             PROVE  wire' = wire \/ RejectSegment \/ SendSegment \/ HandOver
  OBVIOUS
<1>1. CASE UNCHANGED allVars
  BY <1>1 DEF allVars, pipeVars, wireVars
<1>2. CASE HandleFrame
  BY <1>2 DEF HandleFrame, OtherFrame, StartSession, StartRefused, Audio, Pause, Resume,
     Position, TranslateCtrl, EndSession, wireVars
<1>3. CASE MainStep
  BY <1>3 DEF MainStep, SourceIdle, SourceRead, SourceTailFails, SourceReadError,
     SubmitSegment, SwallowSegment, EmittingDone, TakeCompletion, DeliveryDone, DrainDone,
     StopDone, ShutdownDone, Leave, wireVars
<1>4. CASE PoolOnly
  BY <1>4 DEF PoolOnly, pipeVars, wireVars
<1>5. CASE PeerGone
  BY <1>5 DEF PeerGone, wireVars
<1>6. QED
  BY <1>1, <1>2, <1>3, <1>4, <1>5 DEF PipeNext

\* Every step of the loop, of the pool's threads and of the reader keeps the
\* invariant, and writes nothing stale.
LEMMA PipeStep ==
    PoolKnown /\ PipeInv /\ [PipeNext]_allVars => PipeInv' /\ FreshStep
<1> SUFFICES ASSUME PoolKnown, PipeInv, [PipeNext]_allVars PROVE PipeInv' /\ FreshStep
  OBVIOUS
<1>1. PipeInv'
  <2>1. CASE HandleFrame
    BY <2>1, OtherKeeps, StartSessionKeeps, StartRefusedKeeps, TranscribingKeeps, PauseKeeps,
       ResumeKeeps, PositionKeeps, TranslateCtrlKeeps, EndSessionKeeps DEF HandleFrame
  <2>2. CASE MainStep
    BY <2>2, OtherKeeps, TranscribingKeeps, SourceReadErrorKeeps, SubmitSegmentKeeps,
       SwallowSegmentKeeps, RejectSegmentKeeps, SendSegmentKeeps, EmittingDoneKeeps,
       TakeCompletionKeeps, HandOverKeeps, DeliveryDoneKeeps, DrainDoneKeeps, StopDoneKeeps,
       LeavingKeeps DEF MainStep
  <2>3. CASE PoolOnly \/ UNCHANGED allVars
    BY <2>3, PoolOnlyKeeps
  <2>4. CASE PeerGone
    BY <2>4, LeavingKeeps
  <2>5. QED
    BY <2>1, <2>2, <2>3, <2>4 DEF PipeNext
<1>2. FreshStep
  <2>1. CASE wire' = wire
    BY <2>1 DEF FreshStep
  <2>2. QED
    BY <2>1, OnlyWritersWrite, RejectSegmentKeeps, SendSegmentKeeps, HandOverKeeps
<1>3. QED
  BY <1>1, <1>2

\* The invariant of the caption path: in every reachable state a segment that
\* has left the builder is on the wire, pending in the pool or dropped by a
\* reset, the pending ones are unsent and of the active session, and the
\* transport is latched as soon as a diagnostic is torn.
THEOREM PipeInvariant == PipeSpec => [](PoolKnown /\ PipeInv)
<1>1. PipeInit => PoolKnown /\ PipeInv
  BY PipeInvInit, PoolInvInit, OrderInit DEF PipeInit, PoolKnown
<1>2. PoolKnown /\ PipeInv /\ [PipeNext]_allVars => (PoolKnown /\ PipeInv)'
  BY PoolStaysKnown, PipeStep
<1>3. QED
  BY <1>1, <1>2, PTL DEF PipeSpec

\* vw_worker_run uses the pool as its contract allows: what the pool's own
\* theorems say of it holds under the main loop, for every schedule.
THEOREM LoopUsesPool == PipeSpec => Spec
<1>1. PipeInit => Init
  BY DEF PipeInit
<1>2. [PipeNext]_allVars => [Next]_vars
  BY PipeIsPool
<1>3. QED
  BY <1>1, <1>2, PTL DEF PipeSpec, Spec

\* The main loop's own state is well-typed, and the pool's too.
THEOREM PipeTypeCorrect == PipeSpec => []PipeTypeOK
<1>1. PoolKnown /\ PipeInv => PipeTypeOK
  <2> SUFFICES ASSUME PoolKnown, PipeInv PROVE PipeTypeOK
    OBVIOUS
  <2>1. TypeOK
    BY DEF PoolKnown, PoolInv
  <2>2. {running, sessionActive, paused, sourceMode, eof, translating, residual, registered,
         latched} \subseteq BOOLEAN
    BY DEF PipeInv, LoopTyped
  <2>3. QED
    BY <2>1, <2>2 DEF PipeInv, LoopTyped, PipeTypeOK
<1>2. QED
  BY <1>1, PipeInvariant, PTL

\* A segment is captioned once, through whichever path it went, and only one
\* that vw_translate_async_submit turned down can overtake an older one.
THEOREM CaptionedOnceInOrder == PipeSpec => []OnceAndInOrder
<1>1. PipeInv => OnceAndInOrder
  BY DEF PipeInv, Data
<1>2. QED
  BY <1>1, PipeInvariant, PTL

\* A diagnostic is followed at once by the caption of the same segment and
\* session, and nothing is written after one that failed half-way.
THEOREM BlameComesFirst == PipeSpec => []BlamePrecedesItsCaption
<1>1. PipeInv => BlamePrecedesItsCaption
  BY DEF PipeInv, Data
<1>2. QED
  BY <1>1, PipeInvariant, PTL

\* Once the drain of a STOP or SHUTDOWN is over and nothing has failed, every
\* segment made so far was captioned or dropped by an earlier reset.
THEOREM DrainIsComplete == PipeSpec => []DrainLeavesNothing
<1>1. PoolKnown /\ PipeInv => DrainLeavesNothing
  <2> SUFFICES ASSUME PoolKnown, PipeInv, main = "ended", running, sessionActive,
                      ending \in {"stop", "media_end", "shutdown"}
               PROVE  1 .. made \subseteq Captioned \cup forgotten
    BY DEF DrainLeavesNothing
  <2>1. backlog = << >> /\ Pending = {}
    BY DEF PipeInv, BuilderKnown, Drained
  <2>2. Emitted = made
    <3>1. Len(backlog) = 0 /\ Emitted \in Nat /\ made \in Nat /\ Emitted + Len(backlog) = made
      BY <2>1, HeldSegments DEF PipeInv
    <3>2. QED
      BY <3>1
  <2>3. DOMAIN wire = 1 .. Len(wire)
    BY DEF PipeInv, LoopTyped
  <2>4. \A n \in 1 .. made :
           (\E i \in DOMAIN wire : CaptionAt(i) /\ wire[i].id = n) \/ n \in forgotten
    BY <2>1, <2>2, <2>3 DEF PipeInv, Data, NoneMissing
  <2>5. QED
    BY <2>4 DEF Captioned
<1>2. QED
  BY <1>1, PipeInvariant, PTL

\* A caption is only written for the session active at that moment, and never
\* for a segment that a PAUSE, a seek, a STOP, a START, a refused one or a change
\* of the translation settings found in the builder or in the pool.
THEOREM NothingStaleIsWritten == PipeSpec => NoStaleCaption
<1>1. PoolKnown /\ PipeInv /\ [PipeNext]_allVars => FreshStep
  BY PipeStep
<1>2. FreshStep => [\A i \in DOMAIN wire' \ DOMAIN wire :
                       /\ sessionActive /\ wire'[i].session = session
                       /\ wire'[i].id \notin forgotten]_allVars
  BY DEF FreshStep
<1>3. QED
  BY <1>1, <1>2, PipeInvariant, PTL DEF PipeSpec, NoStaleCaption
=============================================================================
