--------------------------- MODULE SegmentBuilder ---------------------------
(***************************************************************************)
(* vw_segment_builder.c: the hypotheses of overlapping Whisper windows     *)
(* become final captions.  What is heard again must not be captioned       *)
(* again: a hypothesis is dropped, trimmed to what is new, or queued, by   *)
(* comparing its times and its words with the captions already made.       *)
(*                                                                         *)
(* The speech is the words 1, 2, ..., word w lasting from w - 1 to w; a    *)
(* text is a sequence of words.  The windows of the live loop slide over   *)
(* the speech, or grow from the same start while the session is young; the *)
(* hypotheses of one window follow each other.                             *)
(***************************************************************************)
EXTENDS Integers, Sequences, FiniteSets, SequencesExt, FiniteSetsExt

CONSTANTS
    Speech,         \* bound: words spoken
    WindowWords,    \* words in a window
    Tolerance,      \* VW_DEDUP_TIME_TOLERANCE_US, in words
    HistoryCap,     \* VW_SEGMENT_HISTORY_CAPACITY
    QueueCap,       \* VW_SEGMENT_BUILDER_INITIAL_CAPACITY
    Missed,         \* words a hypothesis may have missed
    MaxPushes       \* bound: hypotheses between two clears

\* What the constants are.
BuilderConstants ==
    /\ Speech \in Nat \ {0} /\ WindowWords \in Nat \ {0} /\ Tolerance \in Nat
    /\ HistoryCap \in Nat \ {0} /\ QueueCap \in Nat \ {0} /\ Missed \in Nat
    /\ MaxPushes \in Nat

VARIABLES
    window, heard,          \* where the window starts; up to where it has been transcribed
    queue, head, count, capacity, nextId,   \* the ring of finished captions
    history, covered,       \* history[] (oldest first) and covered_end_us
    emitted,                \* history: the captions made since the last clear, in order
    taken,                  \* ... how many of them have been popped
    intact,                 \* ... whether no hypothesis since then has missed a word
    pushes

ring == <<queue, head, count, capacity, nextId>>
vars == <<window, heard, ring, history, covered, emitted, taken, intact, pushes>>

NoCue == [id |-> 0, text |-> <<>>, start |-> 0, end |-> 0]

Init ==
    /\ window = 0 /\ heard = 0
    /\ queue = [i \in 0 .. QueueCap - 1 |-> NoCue] /\ head = 0 /\ count = 0
    /\ capacity = QueueCap /\ nextId = 1
    /\ history = <<>> /\ covered = -1
    /\ emitted = <<>> /\ taken = 0 /\ intact = TRUE /\ pushes = 0

-----------------------------------------------------------------------------
(* The ring.                                                                *)

\* Where the i-th oldest pending caption is, counting from 0.
Slot(i) == (head + capacity - count + i) % capacity

\* A full ring is copied to one of twice the size, oldest first.
Grown == [i \in 0 .. 2 * capacity - 1 |-> IF i < count THEN queue[Slot(i)] ELSE NoCue]

\* vw_segment_builder_enqueue and vw_segment_builder_commit_history.
Enqueue(text, start, end) ==
    LET cue == [id |-> nextId, text |-> text, start |-> start, end |-> end]
        full == count = capacity
        cap == IF full THEN 2 * capacity ELSE capacity
        at == IF full THEN count ELSE head
        known == Append(history, cue)
    IN /\ queue' = [(IF full THEN Grown ELSE queue) EXCEPT ![at] = cue]
       /\ head' = (at + 1) % cap /\ count' = count + 1 /\ capacity' = cap
       /\ nextId' = nextId + 1
       /\ history' = IF Len(known) > HistoryCap THEN Tail(known) ELSE known
       /\ covered' = IF end > covered THEN end ELSE covered
       /\ emitted' = Append(emitted, cue)

-----------------------------------------------------------------------------
(* A hypothesis h against a caption c.                                      *)

Within(s, t) == \E k \in 0 .. Len(t) - Len(s) : SubSeq(t, k + 1, k + Len(s)) = s
Overlap(h, c) == h.end > c.start /\ h.start < c.end
Distance(a, b) == IF a > b THEN a - b ELSE b - a

TimeMatches(h, c) == Distance(h.start, c.start) <= Tolerance \/ Overlap(h, c)
NearCue(h, c) == Overlap(h, c) \/ Distance(h.start, c.end) <= Tolerance

\* Mutant: three words are asked for.
TailPrefixLen_Three(cue, cand) ==
    LET n == IF Len(cue) < Len(cand) THEN Len(cue) ELSE Len(cand)
    IN Max({0} \cup {m \in 3 .. n : SubSeq(cue, Len(cue) - m + 1, Len(cue)) = SubSeq(cand, 1, m)})

\* vw_segment_builder_tail_prefix_len: the longest end of the caption, of two words at least,
\* that the candidate begins with.
TailPrefixLen(cue, cand) ==
    LET n == IF Len(cue) < Len(cand) THEN Len(cue) ELSE Len(cand)
    IN Max({0} \cup {m \in 2 .. n : SubSeq(cue, Len(cue) - m + 1, Len(cue)) = SubSeq(cand, 1, m)})

\* What caption c makes of h.  A pending caption is tried for a trim whatever its time.
Verdict(h, c, pending) ==
    LET same == TimeMatches(h, c)
        trims == (pending \/ same) /\ NearCue(h, c) /\ TailPrefixLen(c.text, h.text) > 0
    IN IF same /\ Within(h.text, c.text) THEN "fragment"
       ELSE IF trims THEN
            IF TailPrefixLen(c.text, h.text) = Len(h.text) \/ c.end >= h.end THEN "tail"
            ELSE "trim"
       ELSE IF same /\ Within(c.text, h.text) THEN "superstring"
       ELSE "pass"

\* The captions h is compared with, in order: the last pending one, then history from the
\* newest on.
Against ==
    (IF count > 0 THEN <<[cue |-> queue[Slot(count - 1)], pending |-> TRUE]>> ELSE <<>>)
    \o [i \in 1 .. Len(history) |-> [cue |-> history[Len(history) + 1 - i], pending |-> FALSE]]

\* The first of them that does not let h pass.
Deciding(h) ==
    {i \in DOMAIN Against :
        /\ Verdict(h, Against[i].cue, Against[i].pending) # "pass"
        /\ \A j \in 1 .. i - 1 : Verdict(h, Against[j].cue, Against[j].pending) = "pass"}

\* It begins in covered audio and ends no further than the frontier and the tolerance.
Recovers(h) == covered >= 0 /\ h.start < covered /\ h.end <= covered + Tolerance

Dropped == UNCHANGED <<ring, history, covered, emitted>>

\* Not before the end of what is covered.
EmitStart(h) == IF covered > h.start THEN covered ELSE h.start

\* vw_segment_builder_push_hypothesis.  A blank text and one the hallucination filter knows
\* (a tag, a note sign, bare punctuation) change nothing and are not among the hypotheses.
PushHypothesis(h) ==
    IF Recovers(h) THEN Dropped
    ELSE IF Deciding(h) # {} THEN
        LET a == Against[CHOOSE i \in Deciding(h) : TRUE]
            verdict == Verdict(h, a.cue, a.pending)
            m == TailPrefixLen(a.cue.text, h.text)
        IN IF verdict = "trim"
           THEN Enqueue(SubSeq(h.text, m + 1, Len(h.text)), a.cue.end, h.end)
           ELSE Dropped
    ELSE IF EmitStart(h) >= h.end THEN Dropped
    ELSE Enqueue(h.text, EmitStart(h), h.end)

-----------------------------------------------------------------------------
\* The words i .. j, and the texts Whisper may hear in them.
Spoken(i, j) == [k \in 1 .. j - i + 1 |-> i + k - 1]

Hearings(i, j) ==
    {Spoken(i, j)} \cup
    {SetToSortSeq((i .. j) \ gap, <) :
        gap \in {g \in SUBSET (i .. j) : Cardinality(g) \in 1 .. Missed /\ g # i .. j}}

\* One segment of the window's transcription.  Whisper may hear no speech in some words, and the
\* end of a growing window is held back: they are in no hypothesis.
Hypothesis(i, j) ==
    /\ pushes < MaxPushes /\ heard < i
    /\ \E text \in Hearings(i, j) :
          /\ PushHypothesis([text |-> text, start |-> i - 1, end |-> j])
          /\ intact' = (intact /\ text = Spoken(i, j))
    /\ heard' = j /\ pushes' = pushes + 1
    /\ UNCHANGED <<window, taken>>

\* The next window hears again what it still covers: a full one has been drained by a hop, a
\* growing one starts where it did.
NextWindow(w) ==
    /\ w > window \/ (w = window /\ heard > window)
    /\ window' = w /\ heard' = w
    /\ UNCHANGED <<ring, history, covered, emitted, taken, intact, pushes>>

\* vw_segment_builder_pop.
Pop ==
    /\ count > 0 /\ count' = count - 1 /\ taken' = taken + 1
    /\ queue' = [queue EXCEPT ![Slot(0)] = NoCue]
    /\ UNCHANGED <<window, heard, head, capacity, nextId, history, covered, emitted, intact, pushes>>

\* What covered_end_us is after a clear.
ClearedFrontier == -1

\* vw_segment_builder_clear, at a seek or a pause: the speech starts anew.
Clear ==
    /\ pushes > 0
    /\ queue' = [i \in DOMAIN queue |-> NoCue] /\ head' = 0 /\ count' = 0
    /\ history' = <<>> /\ covered' = ClearedFrontier
    /\ window' = 0 /\ heard' = 0 /\ emitted' = <<>> /\ taken' = 0 /\ intact' = TRUE
    /\ pushes' = 0
    /\ UNCHANGED <<capacity, nextId>>

MaxId == 2 * MaxPushes      \* bound: captions made in all

Next ==
    \/ \E i \in 1 .. Speech : \E j \in i .. Speech :
          i > window /\ j <= window + WindowWords /\ nextId < MaxId /\ Hypothesis(i, j)
    \/ \E w \in 0 .. Speech - 1 : NextWindow(w)
    \/ Pop
    \/ Clear

Spec == Init /\ [][Next]_vars

-----------------------------------------------------------------------------
\* The types of the variables.
BuilderTypeOK ==
    /\ DOMAIN queue = 0 .. capacity - 1 /\ head \in 0 .. capacity - 1 /\ count \in 0 .. capacity
    /\ covered \in -1 .. Speech /\ Len(history) <= HistoryCap
    /\ \A i \in DOMAIN emitted : emitted[i].text # <<>> /\ emitted[i].start < emitted[i].end

\* The ring hands the captions out in the order they were made, each once, with its own id,
\* also when it has grown with its oldest entry in the middle.
RingIsFifo ==
    /\ count = Len(emitted) - taken
    /\ \A i \in 1 .. count : queue[Slot(i - 1)] = emitted[taken + i]
    /\ \A i \in 1 .. Len(emitted) - 1 : emitted[i + 1].id = emitted[i].id + 1

\* Two successive words of the speech appear together in one caption only, though several
\* windows heard them, while the windows hear the same words.  (After 2 3 4 for the
\* words 1 to 4, the hypothesis 2 3 5 6 for the words 2 to 6 is captioned whole.)
NoPairTwice ==
    intact => \A i, j \in DOMAIN emitted : i < j =>
        ~\E w \in 1 .. Speech - 1 :
            Within(<<w, w + 1>>, emitted[i].text) /\ Within(<<w, w + 1>>, emitted[j].text)

\* The first hypothesis after a clear becomes a caption: nothing of the timeline before the
\* seek or the pause is left to drop it.
FirstIsCaptioned == pushes > 0 => emitted # <<>>

\* What is heard once or several times is captioned once, and the captions come out as they were
\* made, whatever was cleared before.
CaptionedOnce == RingIsFifo /\ NoPairTwice /\ FirstIsCaptioned
=============================================================================
