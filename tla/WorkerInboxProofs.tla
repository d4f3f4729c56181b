------------------------- MODULE WorkerInboxProofs --------------------------
(***************************************************************************)
(* The frame queue of the worker never forgets what it was told to do and  *)
(* counts its audio exactly, for every capacity, duration and sequence of  *)
(* frames; and no failed write or read of the transport below it hands on  *)
(* a frame that is not whole, for every size of headers, records, payloads *)
(* and buffers.                                                            *)
(***************************************************************************)
EXTENDS WorkerInbox, SequenceTheorems, WellFoundedInduction, TLAPS

-----------------------------------------------------------------------------
(* The frame queue (WorkerQueue).                                            *)

-----------------------------------------------------------------------------
(* Sums.  Induction is the least counterexample: a set of naturals that is  *)
(* not empty has a least member.                                            *)

\* A nonempty set of naturals has a least member.
LEMMA LeastMember ==
    ASSUME NEW T \in SUBSET Nat, T # {}
    PROVE  \E x \in T : \A y \in T : x <= y
<1> DEFINE R == {p \in Nat \X Nat : p[1] < p[2]}
<1>1. IsWellFoundedOn(R, Nat)
  <2>1. R = OpToRel(<, Nat)
    BY DEF OpToRel
  <2>2. QED
    BY <2>1, NatLessThanWellFounded
<1>2. PICK x \in T : \A y \in T : ~(<<y, x>> \in R)
  <2> HIDE DEF R
  <2> QED
    BY <1>1, WFMin
<1>3. ASSUME NEW y \in T, y < x
      PROVE  FALSE
  <2>1. <<y, x>> \in Nat \X Nat /\ <<y, x>>[1] < <<y, x>>[2]
    BY <1>3
  <2>2. QED
    BY <1>2, <2>1
<1>4. QED
  BY <1>3

\* The frames a queue can hold.
AnyFrame == Frames \cup {WakeUp}

LEMMA FrameFacts ==
    ASSUME NEW f \in AnyFrame
    PROVE  /\ f.us \in Nat /\ f.seq \in 1 .. MaxSequence + 1
           /\ ~IsAudio(f) => f.us = 0
           /\ f.seq = MaxSequence + 1 => f = WakeUp
<1>1. CASE f \in Frames
  <2>1. f.type # "AUDIO" => f.us = 0
    BY <1>1 DEF Frames
  <2>2. f \in [type : Types, seq : 1 .. MaxSequence, us : Durations \cup {0}]
    BY <1>1 DEF Frames
  <2>3. f.us \in Durations \cup {0} /\ f.seq \in 1 .. MaxSequence
    BY <2>2
  <2>4. Durations \cup {0} \subseteq Nat
    BY DurationsAssumption
  <2>5. f.us \in Nat
    BY <2>3, <2>4, Zenon
  <2>6. QED
    BY <2>1, <2>3, <2>5, SequenceAssumption DEF IsAudio
<1>2. CASE f = WakeUp
  BY <1>2, SequenceAssumption DEF WakeUp, IsAudio
<1>3. QED
  BY <1>1, <1>2 DEF AnyFrame

\* What RemoveAt leaves.
LEMMA RemoveAtIs ==
    ASSUME NEW S, NEW s \in Seq(S), NEW v \in 1 .. Len(s)
    PROVE  /\ RemoveAt(s, v) \in Seq(S)
           /\ Len(RemoveAt(s, v)) = Len(s) - 1
           /\ \A i \in 1 .. Len(s) - 1 :
                 RemoveAt(s, v)[i] = IF i < v THEN s[i] ELSE s[i + 1]
<1> DEFINE a == SubSeq(s, 1, v - 1)
           b == SubSeq(s, v + 1, Len(s))
<1>1. a \in Seq(S) /\ Len(a) = v - 1 /\ \A i \in 1 .. v - 1 : a[i] = s[i]
  OBVIOUS
<1>2. b \in Seq(S) /\ Len(b) = Len(s) - v /\ \A i \in 1 .. Len(s) - v : b[i] = s[i + v]
  OBVIOUS
<1> HIDE DEF a, b
<1>3. /\ a \o b \in Seq(S) /\ Len(a \o b) = Len(s) - 1
      /\ \A i \in 1 .. Len(s) - 1 : (a \o b)[i] = IF i < v THEN a[i] ELSE b[i - (v - 1)]
  <2>1. /\ a \o b \in Seq(S) /\ Len(a \o b) = Len(a) + Len(b)
        /\ \A i \in 1 .. Len(a) + Len(b) : (a \o b)[i] = IF i <= Len(a) THEN a[i] ELSE b[i - Len(a)]
    BY <1>1, <1>2, ConcatProperties
  <2>2. Len(a) + Len(b) = Len(s) - 1
    BY <1>1, <1>2
  <2>3. \A i \in 1 .. Len(s) - 1 : i <= Len(a) <=> i < v
    BY <1>1
  <2>4. QED
    BY <1>1, <2>1, <2>2, <2>3
<1>4. ASSUME NEW i \in 1 .. Len(s) - 1
      PROVE  (a \o b)[i] = IF i < v THEN s[i] ELSE s[i + 1]
  <2>1. CASE i < v
    BY <1>1, <1>3, <2>1
  <2>2. CASE i >= v
    <3>1. i - (v - 1) \in 1 .. Len(s) - v /\ (i - (v - 1)) + v = i + 1
      BY <2>2
    <3>2. QED
      BY <1>2, <1>3, <2>2, <3>1
  <2>3. i < v \/ i >= v
    OBVIOUS
  <2>4. QED
    BY <2>1, <2>2, <2>3
<1>5. QED
  BY <1>3, <1>4 DEF RemoveAt, a, b

\* t is the running totals of the frames of s.
Totals(s, t) ==
    /\ t \in [0 .. Len(s) -> Nat]
    /\ t[0] = 0
    /\ \A i \in 1 .. Len(s) : t[i] = t[i - 1] + s[i].us

\* Every sequence of frames has running totals, up to any of its frames.
LEMMA TotalsExist ==
    ASSUME NEW s \in Seq(AnyFrame)
    PROVE  \E t : Totals(s, t)
<1> DEFINE P(n) == \E t \in [0 .. n -> Nat] :
                      t[0] = 0 /\ \A i \in 1 .. n : t[i] = t[i - 1] + s[i].us
           D == {n \in 0 .. Len(s) : ~P(n)}
<1>1. P(0)
  <2>1. [i \in 0 .. 0 |-> 0] \in [0 .. 0 -> Nat] /\ [i \in 0 .. 0 |-> 0][0] = 0
    OBVIOUS
  <2>2. \A i \in 1 .. 0 : [j \in 0 .. 0 |-> 0][i] = [j \in 0 .. 0 |-> 0][i - 1] + s[i].us
    OBVIOUS
  <2>3. QED
    BY <2>1, <2>2
<1>2. ASSUME NEW n \in 0 .. Len(s) - 1, P(n)
      PROVE  P(n + 1)
  <2>1. PICK t \in [0 .. n -> Nat] : t[0] = 0 /\ \A i \in 1 .. n : t[i] = t[i - 1] + s[i].us
    BY <1>2
  <2>2. s[n + 1].us \in Nat
    BY FrameFacts
  <2> DEFINE u == [i \in 0 .. n + 1 |-> IF i = n + 1 THEN t[n] + s[n + 1].us ELSE t[i]]
  <2>3. u \in [0 .. n + 1 -> Nat]
    BY <2>1, <2>2
  <2>4. u[0] = 0 /\ \A i \in 1 .. n + 1 : u[i] = u[i - 1] + s[i].us
    BY <2>1, <2>2
  <2>5. QED
    BY <2>3, <2>4
<1>3. ASSUME D # {}
      PROVE  FALSE
  <2>1. PICK x \in D : \A y \in D : x <= y
    <3> HIDE DEF P
    <3>1. D \in SUBSET Nat
      OBVIOUS
    <3>2. QED
      BY <1>3, <3>1, LeastMember
  <2> HIDE DEF P
  <2>2. x # 0 /\ x - 1 \in 0 .. Len(s) - 1 /\ P(x - 1)
    BY <1>1, <2>1
  <2>3. QED
    BY <1>2, <2>1, <2>2
<1>4. PICK t \in [0 .. Len(s) -> Nat] : t[0] = 0 /\ \A i \in 1 .. Len(s) : t[i] = t[i - 1] + s[i].us
  BY SMTT(30), <1>3
<1>5. QED
  BY <1>4 DEF Totals

\* The last of the running totals is TotalUs.
LEMMA TotalIs ==
    ASSUME NEW s \in Seq(AnyFrame), NEW t, Totals(s, t)
    PROVE  TotalUs(s) = t[Len(s)]
<1> DEFINE total[i \in 0 .. Len(s)] == IF i = 0 THEN 0 ELSE total[i - 1] + s[i].us
           D == {i \in 0 .. Len(s) : total[i] # t[i]}
<1>1. TotalUs(s) = total[Len(s)]
  BY DEF TotalUs
<1>2. t = [i \in 0 .. Len(s) |-> IF i = 0 THEN 0 ELSE t[i - 1] + s[i].us]
  BY DEF Totals
<1>3. total = [i \in 0 .. Len(s) |-> IF i = 0 THEN 0 ELSE total[i - 1] + s[i].us]
  BY <1>2
<1> HIDE DEF total
<1>4. ASSUME D # {}
      PROVE  FALSE
  <2>1. PICK x \in D : \A y \in D : x <= y
    <3>1. D \in SUBSET Nat
      OBVIOUS
    <3>2. QED
      BY <1>4, <3>1, LeastMember
  <2>2. x # 0 /\ x - 1 \in 0 .. Len(s) /\ total[x - 1] = t[x - 1]
    BY <1>3, <2>1 DEF Totals
  <2>3. QED
    BY <1>2, <1>3, <2>1, <2>2
<1>5. QED
  BY <1>1, <1>4

\* The sum is a natural; a frame adds its duration, and one that goes takes it.
LEMMA TotalEmpty == TotalUs(<< >>) = 0
<1>1. << >> \in Seq(AnyFrame) /\ Len(<< >>) = 0
  OBVIOUS
<1>2. PICK t : Totals(<< >>, t)
  BY <1>1, TotalsExist
<1>3. QED
  BY <1>1, <1>2, TotalIs DEF Totals

LEMMA TotalAppend ==
    ASSUME NEW s \in Seq(AnyFrame), NEW f \in AnyFrame
    PROVE  TotalUs(Append(s, f)) = TotalUs(s) + f.us
<1>1. PICK t : Totals(Append(s, f), t)
  <2>1. Append(s, f) \in Seq(AnyFrame)
    OBVIOUS
  <2>2. QED
    BY <2>1, TotalsExist
<1> DEFINE u == [i \in 0 .. Len(s) |-> t[i]]
<1>2. Totals(s, u)
  BY <1>1 DEF Totals
<1>3. TotalUs(Append(s, f)) = t[Len(s) + 1] /\ TotalUs(s) = u[Len(s)]
  BY <1>1, <1>2, TotalIs
<1>4. QED
  BY <1>1, <1>3 DEF Totals

LEMMA TotalRemoveAt ==
    ASSUME NEW s \in Seq(AnyFrame), NEW v \in 1 .. Len(s)
    PROVE  /\ TotalUs(s) \in Nat /\ TotalUs(RemoveAt(s, v)) \in Nat
           /\ TotalUs(s) = TotalUs(RemoveAt(s, v)) + s[v].us
<1> DEFINE r == RemoveAt(s, v)
<1>1. r \in Seq(AnyFrame) /\ Len(r) = Len(s) - 1
      /\ \A i \in 1 .. Len(s) - 1 : r[i] = IF i < v THEN s[i] ELSE s[i + 1]
  BY RemoveAtIs
<1> HIDE DEF r
<1>2. PICK t : Totals(r, t)
  BY <1>1, TotalsExist
<1>3. s[v].us \in Nat
  BY FrameFacts
<1> DEFINE u == [i \in 0 .. Len(s) |-> IF i < v THEN t[i] ELSE t[i - 1] + s[v].us]
<1>4. u \in [0 .. Len(s) -> Nat] /\ u[0] = 0
  BY <1>1, <1>2, <1>3 DEF Totals
<1>5. ASSUME NEW i \in 1 .. Len(s)
      PROVE  u[i] = u[i - 1] + s[i].us
  <2>1. CASE i < v
    <3>1. i \in 1 .. Len(r) /\ i - 1 \in 0 .. Len(r) /\ r[i] = s[i]
      BY <1>1, <2>1
    <3>2. t[i] = t[i - 1] + s[i].us
      BY <1>2, <3>1 DEF Totals
    <3>3. QED
      BY <2>1, <3>2
  <2>2. CASE i = v
    BY <1>1, <1>2, <1>3, <2>2 DEF Totals
  <2>3. CASE i > v
    <3>1. i - 1 \in 1 .. Len(r) /\ r[i - 1] = s[i]
      BY <1>1, <2>3
    <3>2. s[i].us \in Nat
      BY FrameFacts
    <3>3. i - 2 \in 0 .. Len(r) /\ (i - 1) - 1 = i - 2
      BY <1>1, <2>3, <3>1
    <3>4. t[i - 1] = t[i - 2] + s[i].us /\ t[i - 2] \in Nat
      BY <1>2, <3>1, <3>3 DEF Totals
    <3>5. u[i] = t[i - 1] + s[v].us /\ u[i - 1] = t[i - 2] + s[v].us
      BY <2>3, <3>3
    <3>6. QED
      BY SMTT(30), <1>3, <3>2, <3>4, <3>5
  <2>4. QED
    BY <2>1, <2>2, <2>3
<1>6. Totals(s, u)
  BY <1>4, <1>5 DEF Totals
<1>7. TotalUs(s) = u[Len(s)] /\ TotalUs(r) = t[Len(r)]
  BY <1>1, <1>2, <1>6, TotalIs
<1>8. u[Len(s)] = t[Len(s) - 1] + s[v].us /\ t[Len(s) - 1] \in Nat
  <2>1. Len(s) - 1 \in 0 .. Len(r) /\ ~(Len(s) < v) /\ Len(s) \in 0 .. Len(s)
    BY <1>1
  <2>2. QED
    BY <1>2, <2>1 DEF Totals
<1>9. QED
  BY <1>1, <1>3, <1>7, <1>8 DEF r

-----------------------------------------------------------------------------
(* The invariant.                                                           *)

\* The types of the history variables; the frame the reader holds is the one
\* whose number was read last; a reader that stops has stopped the worker.
HandedOn ==
    /\ lastPopped \in Nat /\ newest \in Nat /\ applied \in Nat
    /\ reader = "pushing" => incoming \in Frames /\ incoming.seq = lastSequence
    /\ reader \in {"waking", "done"} => ~running

\* Everything queued or popped is older than what the reader will push next;
\* the SHUTDOWN the reader makes up is the last frame of all.
Older ==
    /\ reader # "done" => \A i \in DOMAIN q : q[i] \in Frames /\ q[i].seq <= lastSequence
    /\ reader = "pushing" => /\ \A i \in DOMAIN q : q[i].seq < incoming.seq
                             /\ lastPopped < incoming.seq /\ newest < incoming.seq
    /\ lastPopped <= lastSequence /\ newest <= lastSequence /\ applied <= lastPopped
    /\ \A i \in DOMAIN q : lastPopped < q[i].seq

\* The survivors are in the order they were sent.
InOrder == \A i, j \in DOMAIN q : i < j => q[i].seq < q[j].seq

\* The newest directive is the newest one in the queue too.
DirectivesKnown ==
    \A i \in DOMAIN q : /\ q[i].type \in Required => q[i].seq <= newest
                        /\ q[i].seq = newest => q[i].type \in Required

\* The two counters of the queue against what went in and out.
Accounted ==
    /\ queuedUs = TotalUs(q)
    /\ pushedUs = queuedUs + poppedUs + droppedUs

QueueInv == /\ TypeOK /\ HandedOn /\ Older /\ InOrder /\ DirectivesKnown
            /\ Accounted /\ NewestDirectiveSurvives

-----------------------------------------------------------------------------
(* What a push does to the sequence.                                        *)

Ordered(s) == \A i, j \in DOMAIN s : i < j => s[i].seq < s[j].seq

Holds(s, f) == \E i \in DOMAIN s : s[i] = f

LEMMA AppendKeeps ==
    ASSUME NEW s \in Seq(AnyFrame), NEW f \in AnyFrame, Ordered(s),
           \A i \in DOMAIN s : s[i].seq < f.seq
    PROVE  /\ Append(s, f) \in Seq(AnyFrame)
           /\ Len(Append(s, f)) = Len(s) + 1
           /\ Ordered(Append(s, f))
           /\ Holds(Append(s, f), f)
           /\ \A g : Holds(s, g) => Holds(Append(s, f), g)
           /\ \A i \in DOMAIN Append(s, f) : Append(s, f)[i] = f \/ Holds(s, Append(s, f)[i])
<1> DEFINE r == Append(s, f)
<1>1. /\ r \in Seq(AnyFrame) /\ Len(r) = Len(s) + 1 /\ r[Len(s) + 1] = f
      /\ \A i \in 1 .. Len(s) : r[i] = s[i]
  OBVIOUS
<1>2. DOMAIN r = 1 .. Len(s) + 1 /\ DOMAIN s = 1 .. Len(s) /\ Len(s) \in Nat
  BY <1>1
<1> HIDE DEF r
<1>3. ASSUME NEW i \in DOMAIN r, NEW j \in DOMAIN r, i < j
      PROVE  r[i].seq < r[j].seq
  <2>1. i \in DOMAIN s /\ r[i] = s[i]
    BY <1>1, <1>2, <1>3
  <2>2. CASE j \in DOMAIN s
    BY <1>1, <1>2, <1>3, <2>1, <2>2 DEF Ordered
  <2>3. CASE j = Len(s) + 1
    BY <1>1, <2>1, <2>3
  <2>4. QED
    BY <1>2, <2>2, <2>3
<1>4. Holds(r, f) /\ \A g : Holds(s, g) => Holds(r, g)
  BY <1>1, <1>2 DEF Holds
<1>5. \A i \in DOMAIN r : r[i] = f \/ Holds(s, r[i])
  BY <1>1, <1>2 DEF Holds
<1>6. QED
  BY <1>1, <1>3, <1>4, <1>5 DEF Ordered, r

LEMMA RemoveAtKeeps ==
    ASSUME NEW s \in Seq(AnyFrame), NEW v \in DOMAIN s, Ordered(s)
    PROVE  /\ RemoveAt(s, v) \in Seq(AnyFrame)
           /\ Len(RemoveAt(s, v)) = Len(s) - 1
           /\ Ordered(RemoveAt(s, v))
           /\ \A i \in DOMAIN RemoveAt(s, v) : Holds(s, RemoveAt(s, v)[i])
           /\ \A j \in DOMAIN s : j # v => Holds(RemoveAt(s, v), s[j])
<1> DEFINE r == RemoveAt(s, v)
<1>1. /\ r \in Seq(AnyFrame) /\ Len(r) = Len(s) - 1
      /\ \A i \in 1 .. Len(s) - 1 : r[i] = IF i < v THEN s[i] ELSE s[i + 1]
  <2>1. v \in 1 .. Len(s)
    OBVIOUS
  <2>2. QED
    BY <2>1, RemoveAtIs, Zenon
<1>2. DOMAIN r = 1 .. Len(s) - 1 /\ DOMAIN s = 1 .. Len(s) /\ Len(s) \in Nat /\ v \in Nat
  BY <1>1
<1> HIDE DEF r
<1>3. ASSUME NEW i \in DOMAIN r, NEW j \in DOMAIN r, i < j
      PROVE  r[i].seq < r[j].seq
  <2> DEFINE k(n) == IF n < v THEN n ELSE n + 1
  <2>1. k(i) \in DOMAIN s /\ k(j) \in DOMAIN s /\ k(i) < k(j)
    BY <1>2, <1>3
  <2>2. r[i] = s[k(i)] /\ r[j] = s[k(j)]
    BY <1>1, <1>2
  <2>3. QED
    BY <2>1, <2>2 DEF Ordered
<1>4. ASSUME NEW i \in DOMAIN r
      PROVE  Holds(s, r[i])
  BY SMTT(30), <1>1, <1>2 DEF Holds
<1>5. ASSUME NEW j \in DOMAIN s, j # v
      PROVE  Holds(r, s[j])
  <2>1. CASE j < v
    BY <1>1, <1>2, <2>1 DEF Holds
  <2>2. CASE j > v
    <3>1. j - 1 \in DOMAIN r /\ ~(j - 1 < v) /\ (j - 1) + 1 = j
      BY <1>2, <2>2
    <3>2. r[j - 1] = s[j]
      BY <1>1, <1>2, <3>1
    <3>3. QED
      BY <3>1, <3>2 DEF Holds
  <2>3. QED
    BY <1>2, <1>5, <2>1, <2>2
<1>6. QED
  BY <1>1, <1>3, <1>4, <1>5 DEF Ordered, r

\* The oldest of some positions is one of them.
LEMMA OldestIs ==
    ASSUME NEW S \in SUBSET Nat, S # {}
    PROVE  Oldest(S) \in S
BY LeastMember DEF Oldest

LEMMA VictimsQueued ==
    ASSUME NEW f
    PROVE  Victims(f) \subseteq DOMAIN q
BY DEF Victims, Superseded, Where

\* vw_worker_queue_push: append, replace a victim, or refuse.
LEMMA PushCases ==
    ASSUME q \in Seq(AnyFrame), NEW f, Push(f)
    PROVE  \/ ~Full /\ Enqueue(f, q, 0)
           \/ Full /\ \E v \in Victims(f) : Enqueue(f, RemoveAt(q, v), q[v].us)
           \/ /\ Full /\ Victims(f) = {}
              /\ q' = q /\ queuedUs' = queuedUs /\ droppedUs' = droppedUs + f.us
<1>1. DOMAIN q \subseteq Nat
  OBVIOUS
<1>2. Victims(f) \in SUBSET Nat
  BY <1>1, VictimsQueued
<1>3. Victims(f) # {} => Oldest(Victims(f)) \in Victims(f)
  BY <1>2, OldestIs
<1>4. QED
  BY <1>3 DEF Push

\* A push keeps the queue bounded, ordered and accounted for.
LEMMA PushFacts ==
    ASSUME q \in Seq(AnyFrame), Len(q) <= Capacity, Ordered(q),
           queuedUs = TotalUs(q), queuedUs \in Nat, droppedUs \in Nat,
           NEW f \in AnyFrame, \A i \in DOMAIN q : q[i].seq < f.seq,
           Push(f)
    PROVE  /\ q' \in Seq(AnyFrame) /\ Len(q') <= Capacity /\ Ordered(q')
           /\ queuedUs' = TotalUs(q') /\ queuedUs' \in Nat /\ droppedUs' \in Nat
           /\ queuedUs' + droppedUs' = queuedUs + droppedUs + f.us
           /\ \A i \in DOMAIN q' : q'[i] = f \/ Holds(q, q'[i])
<1>1. f.us \in Nat /\ Len(q) \in Nat /\ Capacity \in Nat
  BY FrameFacts, CapacityAssumption
<1>2. CASE ~Full /\ Enqueue(f, q, 0)
  <2>1. q' = Append(q, f) /\ queuedUs' = queuedUs + f.us /\ droppedUs' = droppedUs
    BY <1>1, <1>2 DEF Enqueue
  <2>2. Len(q) + 1 <= Capacity
    BY <1>1, <1>2 DEF Full
  <2>3. TotalUs(q') = TotalUs(q) + f.us
    BY <2>1, TotalAppend
  <2>4. QED
    BY <1>1, <2>1, <2>2, <2>3, AppendKeeps
<1>3. ASSUME Full, NEW v \in Victims(f), Enqueue(f, RemoveAt(q, v), q[v].us)
      PROVE  /\ q' \in Seq(AnyFrame) /\ Len(q') <= Capacity /\ Ordered(q')
             /\ queuedUs' = TotalUs(q') /\ queuedUs' \in Nat /\ droppedUs' \in Nat
             /\ queuedUs' + droppedUs' = queuedUs + droppedUs + f.us
             /\ \A i \in DOMAIN q' : q'[i] = f \/ Holds(q, q'[i])
  <2> DEFINE r == RemoveAt(q, v)
  <2>1. v \in DOMAIN q /\ v \in 1 .. Len(q) /\ q[v] \in AnyFrame
    BY <1>3, VictimsQueued
  <2>2. q' = Append(r, f) /\ queuedUs' = queuedUs + f.us - q[v].us
        /\ droppedUs' = droppedUs + q[v].us
    BY <1>3 DEF Enqueue
  <2>3. /\ r \in Seq(AnyFrame) /\ Len(r) = Len(q) - 1 /\ Ordered(r)
        /\ \A i \in DOMAIN r : Holds(q, r[i])
    BY <2>1, RemoveAtKeeps
  <2>4. TotalUs(q) = TotalUs(r) + q[v].us /\ TotalUs(r) \in Nat /\ q[v].us \in Nat
    BY <2>1, TotalRemoveAt, FrameFacts
  <2> HIDE DEF r
  <2>5. \A i \in DOMAIN r : r[i].seq < f.seq
    BY <2>3 DEF Holds
  <2>6. TotalUs(q') = TotalUs(r) + f.us
    BY <2>2, <2>3, TotalAppend
  <2>7. queuedUs' = TotalUs(r) + f.us
    BY SMTT(30), <1>1, <2>2, <2>4
  <2>8. /\ q' \in Seq(AnyFrame) /\ Len(q') = Len(q) /\ Ordered(q')
        /\ \A i \in DOMAIN q' : q'[i] = f \/ Holds(r, q'[i])
    BY <1>1, <2>2, <2>3, <2>5, AppendKeeps
  <2>9. \A g : Holds(r, g) => Holds(q, g)
    BY <2>3 DEF Holds
  <2>10. queuedUs' = TotalUs(q') /\ queuedUs' \in Nat
    BY <1>1, <2>4, <2>6, <2>7
  <2>11. droppedUs' \in Nat /\ queuedUs' + droppedUs' = queuedUs + droppedUs + f.us
    <3>1. droppedUs' = droppedUs + q[v].us /\ queuedUs = TotalUs(r) + q[v].us
      BY <2>2, <2>4
    <3>2. PICK x \in Nat : x = q[v].us
      BY <2>4
    <3>3. PICK t \in Nat : t = TotalUs(r)
      BY <2>4
    <3>4. PICK n \in Nat : n = f.us
      BY <1>1
    <3>5. droppedUs' = droppedUs + x /\ queuedUs = t + x /\ queuedUs' = t + n
      BY <2>7, <3>1, <3>2, <3>3, <3>4
    <3>6. droppedUs' \in Nat /\ queuedUs' + droppedUs' = queuedUs + droppedUs + n
      BY <3>5
    <3>7. QED
      BY <3>4, <3>6
  <2>12. \A i \in DOMAIN q' : q'[i] = f \/ Holds(q, q'[i])
    BY <2>8, <2>9
  <2>13. QED
    BY <2>8, <2>10, <2>11, <2>12
<1>4. CASE /\ Full /\ Victims(f) = {}
           /\ q' = q /\ queuedUs' = queuedUs /\ droppedUs' = droppedUs + f.us
  BY SMTT(30), <1>1, <1>4 DEF Holds
<1>5. QED
  BY <1>2, <1>3, <1>4, PushCases

\* What the eviction rules never take: a SHUTDOWN, or a START or STOP unless
\* a newer directive or a SHUTDOWN takes its place.
LEMMA VictimsAllowed ==
    ASSUME NEW f, NEW v \in Victims(f)
    PROVE  /\ IsShutdown(q[v]) => IsShutdown(f)
           /\ q[v].type \in Required => f.type \in Required \/ IsShutdown(f)
BY DEF Victims, Superseded, Where, IsAudio, IsShutdown, Required, Soft

\* A directive or a SHUTDOWN lands in the queue, or finds a SHUTDOWN there.
LEMMA RefusalFindsShutdown ==
    ASSUME q \in Seq(AnyFrame), Full, NEW f, Victims(f) = {},
           f.type \in Required \/ IsShutdown(f)
    PROVE  \E i \in DOMAIN q : IsShutdown(q[i])
<1>1. 1 \in DOMAIN q
  BY CapacityAssumption DEF Full
<1>2. QED
  BY <1>1 DEF Victims, Superseded, Where, IsAudio, IsShutdown, Required

LEMMA PushKeepsDirectives ==
    ASSUME q \in Seq(AnyFrame), Ordered(q),
           NEW f \in AnyFrame, \A i \in DOMAIN q : q[i].seq < f.seq,
           Push(f)
    PROVE  /\ (\E j \in DOMAIN q : IsShutdown(q[j])) => \E i \in DOMAIN q' : IsShutdown(q'[i])
           /\ f.type \in Required \/ IsShutdown(f) =>
                 Holds(q', f) \/ \E i \in DOMAIN q' : IsShutdown(q'[i])
           /\ \A j \in DOMAIN q : q[j].type \in Required =>
                 Holds(q', q[j]) \/ f.type \in Required \/ IsShutdown(f)
<1>1. \A j \in DOMAIN q : Holds(q, q[j])
  BY DEF Holds
<1>2. CASE ~Full /\ Enqueue(f, q, 0)
  <2>1. q' = Append(q, f)
    BY <1>2 DEF Enqueue
  <2>2. Holds(q', f) /\ \A g : Holds(q, g) => Holds(q', g)
    BY <2>1, AppendKeeps
  <2>3. QED
    BY <1>1, <2>2 DEF Holds
<1>3. ASSUME Full, NEW v \in Victims(f), Enqueue(f, RemoveAt(q, v), q[v].us)
      PROVE  /\ Holds(q', f)
             /\ \A j \in DOMAIN q : Holds(q', q[j]) \/ q[j] = q[v]
  <2> DEFINE r == RemoveAt(q, v)
  <2>1. v \in DOMAIN q
    BY <1>3, VictimsQueued
  <2>2. q' = Append(r, f)
    BY <1>3 DEF Enqueue
  <2>3. /\ r \in Seq(AnyFrame) /\ Ordered(r)
        /\ \A i \in DOMAIN r : Holds(q, r[i])
        /\ \A j \in DOMAIN q : j # v => Holds(r, q[j])
    BY <2>1, RemoveAtKeeps
  <2> HIDE DEF r
  <2>4. \A i \in DOMAIN r : r[i].seq < f.seq
    BY <2>3 DEF Holds
  <2>5. Holds(q', f) /\ \A g : Holds(r, g) => Holds(q', g)
    BY <2>2, <2>3, <2>4, AppendKeeps
  <2>6. QED
    BY <2>3, <2>5
<1>4. CASE Full /\ \E v \in Victims(f) : Enqueue(f, RemoveAt(q, v), q[v].us)
  <2>1. PICK v \in Victims(f) : Enqueue(f, RemoveAt(q, v), q[v].us)
    BY <1>4
  <2>2. Holds(q', f) /\ \A j \in DOMAIN q : Holds(q', q[j]) \/ q[j] = q[v]
    BY <1>3, <1>4, <2>1
  <2>3. /\ IsShutdown(q[v]) => IsShutdown(f)
        /\ q[v].type \in Required => f.type \in Required \/ IsShutdown(f)
    BY VictimsAllowed
  <2>4. QED
    BY <2>2, <2>3 DEF Holds
<1>5. CASE /\ Full /\ Victims(f) = {}
           /\ q' = q /\ queuedUs' = queuedUs /\ droppedUs' = droppedUs + f.us
  BY <1>1, <1>5, RefusalFindsShutdown
<1>6. QED
  BY <1>2, <1>4, <1>5, PushCases

-----------------------------------------------------------------------------
(* The invariant is inductive, action by action.                            *)

LEMMA QueueInit == Init => QueueInv
<1> SUFFICES ASSUME Init PROVE QueueInv
  OBVIOUS
<1>1. TypeOK
  <2>1. q \in Seq(Frames \cup {WakeUp}) /\ Len(q) <= Capacity
    BY CapacityAssumption DEF Init
  <2>2. lastSequence \in 0 .. MaxSequence
    BY SequenceAssumption DEF Init
  <2>3. QED
    BY <2>1, <2>2 DEF Init, TypeOK
<1>2. HandedOn /\ Older /\ InOrder /\ DirectivesKnown /\ NewestDirectiveSurvives
  BY SequenceAssumption DEF Init, HandedOn, Older, InOrder, DirectivesKnown,
     NewestDirectiveSurvives, NoFrame
<1>3. Accounted
  BY TotalEmpty DEF Init, Accounted
<1>4. QED
  BY <1>1, <1>2, <1>3 DEF QueueInv

\* The steps that leave the queue alone.
LEMMA ReadFrameKeeps ==
    ASSUME QueueInv, ReadFrame
    PROVE  QueueInv'
<1>1. /\ reader = "reading" /\ q' = q /\ running' = running
      /\ queuedUs' = queuedUs /\ droppedUs' = droppedUs
      /\ pushedUs' = pushedUs /\ poppedUs' = poppedUs /\ fatalExit' = fatalExit
      /\ lastPopped' = lastPopped /\ newest' = newest /\ applied' = applied
  BY DEF ReadFrame, queueVars, history
<1>2. CASE UNCHANGED <<reader, incoming, lastSequence>>
  BY <1>1, <1>2 DEF QueueInv, TypeOK, HandedOn, Older, InOrder, DirectivesKnown,
     Accounted, NewestDirectiveSurvives, Where
<1>3. ASSUME NEW f \in Frames, ~(f.seq <= lastSequence),
             reader' = "pushing", incoming' = f, lastSequence' = f.seq
      PROVE  QueueInv'
  <2>1. f.seq \in 1 .. MaxSequence /\ lastSequence \in Nat /\ lastSequence < f.seq
    BY <1>3, SequenceAssumption DEF QueueInv, TypeOK, Frames
  <2>2. TypeOK'
    BY <1>1, <1>3, <2>1 DEF QueueInv, TypeOK
  <2>3. HandedOn'
    BY <1>1, <1>3 DEF QueueInv, HandedOn
  <2>4. \A i \in DOMAIN q : q[i] \in Frames /\ q[i].seq <= lastSequence /\ q[i].seq \in Nat
    BY <1>1 DEF QueueInv, Older, Frames
  <2>5. Older'
    BY <1>1, <1>3, <2>1, <2>4 DEF QueueInv, Older, HandedOn
  <2>6. QED
    BY <1>1, <2>2, <2>3, <2>5 DEF QueueInv, InOrder, DirectivesKnown, Accounted,
       NewestDirectiveSurvives, Where
<1>4. QED
  BY <1>2, <1>3 DEF ReadFrame

LEMMA ReadFailsKeeps ==
    ASSUME QueueInv, ReadFails
    PROVE  QueueInv'
BY DEF QueueInv, ReadFails, queueVars, history, TypeOK, HandedOn, Older, InOrder,
   DirectivesKnown, Accounted, NewestDirectiveSurvives, Where

LEMMA ReaderExitsKeeps ==
    ASSUME QueueInv, ReaderExits
    PROVE  QueueInv'
BY DEF QueueInv, ReaderExits, queueVars, history, TypeOK, HandedOn, Older, InOrder,
   DirectivesKnown, Accounted, NewestDirectiveSurvives, Where

\* Queued, popped and dropped audio add up again after a push.
LEMMA BooksAfterPush ==
    ASSUME NEW que \in Nat, NEW pop \in Nat, NEW dro \in Nat, NEW n \in Nat,
           NEW que2 \in Nat, NEW dro2 \in Nat, que2 + dro2 = que + dro + n
    PROVE  que + pop + dro + n = que2 + pop + dro2
OBVIOUS

\* What the lemmas on a push need to know of the state.
LEMMA QueueFacts ==
    ASSUME QueueInv
    PROVE  /\ q \in Seq(AnyFrame) /\ Len(q) <= Capacity /\ Ordered(q)
           /\ queuedUs = TotalUs(q) /\ queuedUs \in Nat /\ droppedUs \in Nat
           /\ pushedUs \in Nat /\ poppedUs \in Nat
           /\ pushedUs = queuedUs + poppedUs + droppedUs
           /\ lastSequence \in 0 .. MaxSequence
           /\ lastPopped \in Nat /\ newest \in Nat /\ applied \in Nat
           /\ \A i \in DOMAIN q : q[i] \in AnyFrame /\ q[i].seq \in 1 .. MaxSequence + 1
<1>1. q \in Seq(AnyFrame)
  BY DEF QueueInv, TypeOK, AnyFrame
<1>2. \A i \in DOMAIN q : q[i] \in AnyFrame
  BY <1>1
<1>3. \A i \in DOMAIN q : q[i].seq \in 1 .. MaxSequence + 1
  BY <1>2, FrameFacts
<1>4. QED
  BY <1>1, <1>2, <1>3 DEF QueueInv, TypeOK, Accounted, InOrder, Ordered, HandedOn

LEMMA PushFrameKeeps ==
    ASSUME QueueInv, PushFrame
    PROVE  QueueInv'
<1> DEFINE f == incoming
<1>1. /\ reader = "pushing" /\ Push(f) /\ pushedUs' = pushedUs + f.us
      /\ newest' = IF f.type \in Required THEN f.seq ELSE newest
      /\ reader' = "reading" /\ incoming' = NoFrame /\ lastSequence' = lastSequence
      /\ running' = running /\ fatalExit' = fatalExit /\ poppedUs' = poppedUs
      /\ lastPopped' = lastPopped /\ applied' = applied
  BY DEF PushFrame
<1>2. /\ f \in Frames /\ f \in AnyFrame /\ f.seq = lastSequence /\ f.us \in Nat /\ f.seq \in Nat
      /\ \A i \in DOMAIN q : q[i].seq < f.seq /\ q[i] \in Frames /\ lastPopped < q[i].seq
      /\ lastPopped < f.seq /\ newest < f.seq /\ applied <= lastPopped
  BY <1>1, FrameFacts, SequenceAssumption DEF QueueInv, HandedOn, Older, AnyFrame
<1> HIDE DEF f
<1>3. /\ q' \in Seq(AnyFrame) /\ Len(q') <= Capacity /\ Ordered(q')
      /\ queuedUs' = TotalUs(q') /\ queuedUs' \in Nat /\ droppedUs' \in Nat
      /\ queuedUs' + droppedUs' = queuedUs + droppedUs + f.us
      /\ \A i \in DOMAIN q' : q'[i] = f \/ Holds(q, q'[i])
  BY <1>1, <1>2, QueueFacts, PushFacts
<1>4. \A i \in DOMAIN q' : /\ q'[i] \in Frames /\ q'[i].seq <= f.seq /\ lastPopped < q'[i].seq
                           /\ q'[i] = f \/ (q'[i].seq < f.seq /\ Holds(q, q'[i]))
  <2>1. ASSUME NEW i \in DOMAIN q', Holds(q, q'[i])
        PROVE  q'[i] \in Frames /\ q'[i].seq < f.seq /\ lastPopped < q'[i].seq /\ q'[i].seq <= f.seq
    <3>1. PICK j \in DOMAIN q : q[j] = q'[i]
      BY <2>1 DEF Holds
    <3>2. QED
      BY SMTT(30), <1>2, <3>1, QueueFacts, SequenceAssumption
  <2>2. QED
    BY <1>2, <1>3, <2>1
<1>5. TypeOK'
  <2>1. q' \in Seq(Frames \cup {WakeUp}) /\ Len(q') <= Capacity
    BY <1>3 DEF AnyFrame
  <2>2. pushedUs' \in Nat
    BY SMTT(30), <1>1, <1>2, QueueFacts
  <2>3. QED
    BY <1>1, <1>3, <2>1, <2>2 DEF QueueInv, TypeOK
<1>6. HandedOn'
  <2>1. newest' \in Nat
    BY <1>1, <1>2, QueueFacts
  <2>2. QED
    BY <1>1, <2>1, QueueFacts DEF HandedOn, NoFrame
<1>7. Older'
  <2>1. newest' <= lastSequence
    BY SMTT(30), <1>1, <1>2, QueueFacts, SequenceAssumption
  <2>2. lastPopped <= lastSequence
    BY <1>2, QueueFacts, SequenceAssumption
  <2>3. QED
    BY <1>1, <1>2, <1>4, <2>1, <2>2 DEF Older
<1>8. InOrder'
  BY <1>3 DEF InOrder, Ordered
<1>9. DirectivesKnown'
  <2>1. ASSUME NEW i \in DOMAIN q'
        PROVE  /\ q'[i].type \in Required => q'[i].seq <= newest'
               /\ q'[i].seq = newest' => q'[i].type \in Required
    <3>1. CASE q'[i] = f
      BY SMTT(30), <1>1, <1>2, <3>1, QueueFacts
    <3>2. CASE q'[i].seq < f.seq /\ Holds(q, q'[i])
      <4>1. PICK j \in DOMAIN q : q[j] = q'[i]
        BY <3>2 DEF Holds
      <4>2. /\ q[j].type \in Required => q[j].seq <= newest
            /\ q[j].seq = newest => q[j].type \in Required
        BY DEF QueueInv, DirectivesKnown
      <4>3. q[j].seq \in Nat
        BY SMTT(30), QueueFacts, SequenceAssumption
      <4>4. CASE f.type \in Required
        BY <1>1, <1>2, <3>2, <4>1, <4>3, <4>4
      <4>5. CASE f.type \notin Required
        BY <1>1, <4>1, <4>2, <4>5
      <4>6. QED
        BY <4>4, <4>5
    <3>3. QED
      BY <1>4, <3>1, <3>2
  <2>2. QED
    BY <2>1 DEF DirectivesKnown
<1>10. Accounted'
  <2>1. pushedUs' = queuedUs' + poppedUs' + droppedUs'
    <3>1. PICK n \in Nat : n = f.us
      BY <1>2
    <3>2. pushedUs' = pushedUs + n /\ queuedUs' + droppedUs' = queuedUs + droppedUs + n
      BY <1>1, <1>3, <3>1
    <3>3. /\ pushedUs = queuedUs + poppedUs + droppedUs /\ poppedUs' = poppedUs
          /\ queuedUs \in Nat /\ poppedUs \in Nat /\ droppedUs \in Nat
          /\ queuedUs' \in Nat /\ droppedUs' \in Nat /\ pushedUs \in Nat
      BY <1>1, <1>3, QueueFacts
    <3>4. QED
      BY <3>1, <3>2, <3>3, BooksAfterPush
  <2>2. QED
    BY <1>3, <2>1 DEF Accounted
<1>11. NewestDirectiveSurvives'
  <2>1. /\ (\E j \in DOMAIN q : IsShutdown(q[j])) => \E i \in DOMAIN q' : IsShutdown(q'[i])
        /\ f.type \in Required \/ IsShutdown(f) =>
              Holds(q', f) \/ \E i \in DOMAIN q' : IsShutdown(q'[i])
        /\ \A j \in DOMAIN q : q[j].type \in Required =>
              Holds(q', q[j]) \/ f.type \in Required \/ IsShutdown(f)
    BY <1>1, <1>2, QueueFacts, PushKeepsDirectives
  <2>2. CASE f.type \in Required
    BY <1>1, <2>1, <2>2 DEF NewestDirectiveSurvives, Holds, Where
  <2>3. CASE IsShutdown(f)
    BY <2>1, <2>3 DEF NewestDirectiveSurvives, Holds, Where
  <2>4. CASE f.type \notin Required /\ ~IsShutdown(f)
    <3>1. newest' = newest
      BY <1>1, <2>4
    <3>2. ASSUME NEW j \in DOMAIN q, q[j].seq = newest
          PROVE  \E i \in DOMAIN q' : q'[i].seq = newest
      <4>1. q[j].type \in Required
        BY <3>2 DEF QueueInv, DirectivesKnown
      <4>2. Holds(q', q[j])
        BY <2>1, <2>4, <4>1
      <4>3. QED
        BY <3>2, <4>2 DEF Holds
    <3>3. QED
      BY <1>1, <2>1, <3>1, <3>2 DEF QueueInv, NewestDirectiveSurvives, Where
  <2>5. QED
    BY <2>2, <2>3, <2>4
<1>12. QED
  BY <1>5, <1>6, <1>7, <1>8, <1>9, <1>10, <1>11 DEF QueueInv

LEMMA PushWakeUpKeeps ==
    ASSUME QueueInv, PushWakeUp
    PROVE  QueueInv'
<1> DEFINE f == WakeUp
<1>1. /\ reader = "waking" /\ Push(f) /\ reader' = "done" /\ incoming' = incoming
      /\ lastSequence' = lastSequence /\ running' = running /\ fatalExit' = fatalExit
      /\ poppedUs' = poppedUs /\ pushedUs' = pushedUs /\ newest' = newest
      /\ lastPopped' = lastPopped /\ applied' = applied
  BY DEF PushWakeUp, history
<1>2. f \in AnyFrame /\ f.us = 0 /\ f.seq = MaxSequence + 1 /\ IsShutdown(f)
  BY DEF AnyFrame, WakeUp, IsShutdown
<1>3. \A i \in DOMAIN q : q[i] \in Frames /\ q[i].seq <= lastSequence /\ lastPopped < q[i].seq
  BY <1>1 DEF QueueInv, Older
<1>4. \A i \in DOMAIN q : q[i].seq < f.seq
  BY <1>2, <1>3, QueueFacts, SequenceAssumption
<1> HIDE DEF f
<1>5. /\ q' \in Seq(AnyFrame) /\ Len(q') <= Capacity /\ Ordered(q')
      /\ queuedUs' = TotalUs(q') /\ queuedUs' \in Nat /\ droppedUs' \in Nat
      /\ queuedUs' + droppedUs' = queuedUs + droppedUs + f.us
      /\ \A i \in DOMAIN q' : q'[i] = f \/ Holds(q, q'[i])
  BY <1>1, <1>2, <1>4, QueueFacts, PushFacts
<1>6. TypeOK'
  BY <1>1, <1>5 DEF QueueInv, TypeOK, AnyFrame
<1>7. HandedOn'
  BY <1>1 DEF QueueInv, HandedOn
<1>8. Older'
  <2>1. ASSUME NEW i \in DOMAIN q'
        PROVE  lastPopped < q'[i].seq
    <3>1. CASE q'[i] = f
      BY <1>2, <3>1, QueueFacts, SequenceAssumption DEF QueueInv, Older
    <3>2. CASE Holds(q, q'[i])
      BY <1>3, <3>2 DEF Holds
    <3>3. QED
      BY <1>5, <3>1, <3>2
  <2>2. QED
    BY <1>1, <2>1 DEF QueueInv, Older
<1>9. InOrder'
  BY <1>5 DEF InOrder, Ordered
<1>10. DirectivesKnown'
  <2>1. ASSUME NEW i \in DOMAIN q'
        PROVE  /\ q'[i].type \in Required => q'[i].seq <= newest
               /\ q'[i].seq = newest => q'[i].type \in Required
    <3>1. CASE q'[i] = f
      <4>1. f.type \notin Required
        BY <1>2 DEF IsShutdown, Required
      <4>2. f.seq # newest
        BY <1>2, QueueFacts, SequenceAssumption DEF QueueInv, Older
      <4>3. QED
        BY <3>1, <4>1, <4>2
    <3>2. CASE Holds(q, q'[i])
      BY <3>2 DEF Holds, QueueInv, DirectivesKnown
    <3>3. QED
      BY <1>5, <3>1, <3>2
  <2>2. QED
    BY <1>1, <2>1 DEF DirectivesKnown
<1>11. Accounted'
  <2>1. PICK n \in Nat : n = f.us
    BY <1>2
  <2>2. pushedUs' = queuedUs' + poppedUs' + droppedUs'
    <3>1. n = 0 /\ pushedUs \in Nat /\ pushedUs' = pushedUs
      BY <1>1, <1>2, <2>1, QueueFacts
    <3>2. pushedUs' = pushedUs + n
      BY <3>1
    <3>3. queuedUs' + droppedUs' = queuedUs + droppedUs + n
      BY <1>5, <2>1
    <3>4. /\ pushedUs = queuedUs + poppedUs + droppedUs /\ poppedUs' = poppedUs
          /\ queuedUs \in Nat /\ poppedUs \in Nat /\ droppedUs \in Nat
          /\ queuedUs' \in Nat /\ droppedUs' \in Nat
      BY <1>1, <1>5, QueueFacts
    <3>5. QED
      BY <2>1, <3>2, <3>3, <3>4, BooksAfterPush
  <2>3. QED
    BY <1>5, <2>2 DEF Accounted
<1>12. NewestDirectiveSurvives'
  <2>1. Holds(q', f) \/ \E i \in DOMAIN q' : IsShutdown(q'[i])
    BY <1>1, <1>2, <1>4, QueueFacts, PushKeepsDirectives
  <2>2. QED
    BY <1>2, <2>1 DEF NewestDirectiveSurvives, Holds, Where
<1>13. QED
  BY <1>6, <1>7, <1>8, <1>9, <1>10, <1>11, <1>12 DEF QueueInv

\* What a pop leaves.
LEMMA TailKeeps ==
    ASSUME NEW s \in Seq(AnyFrame), s # << >>, Ordered(s)
    PROVE  /\ Tail(s) \in Seq(AnyFrame) /\ Len(Tail(s)) = Len(s) - 1 /\ Ordered(Tail(s))
           /\ Head(s) \in AnyFrame /\ Head(s) = s[1] /\ 1 \in DOMAIN s
           /\ \A i \in DOMAIN Tail(s) : /\ i + 1 \in DOMAIN s /\ Tail(s)[i] = s[i + 1]
                                        /\ Head(s).seq < Tail(s)[i].seq
           /\ \A j \in DOMAIN s : j # 1 => Holds(Tail(s), s[j])
           /\ TotalUs(s) = TotalUs(Tail(s)) + Head(s).us
           /\ TotalUs(Tail(s)) \in Nat
<1> DEFINE r == Tail(s)
<1>1. /\ r \in Seq(AnyFrame) /\ Len(r) = Len(s) - 1
      /\ \A i \in 1 .. Len(s) - 1 : r[i] = s[i + 1]
  OBVIOUS
<1>2. /\ DOMAIN r = 1 .. Len(s) - 1 /\ DOMAIN s = 1 .. Len(s) /\ Len(s) \in Nat \ {0}
      /\ Head(s) = s[1] /\ s[1] \in AnyFrame /\ 1 \in DOMAIN s
  BY <1>1
<1>3. r = RemoveAt(s, 1)
  <2>1. /\ RemoveAt(s, 1) \in Seq(AnyFrame) /\ Len(RemoveAt(s, 1)) = Len(s) - 1
        /\ \A i \in 1 .. Len(s) - 1 : RemoveAt(s, 1)[i] = IF i < 1 THEN s[i] ELSE s[i + 1]
    BY <1>2, RemoveAtIs
  <2>2. \A i \in 1 .. Len(s) - 1 : RemoveAt(s, 1)[i] = r[i]
    BY <1>1, <2>1
  <2> HIDE DEF r
  <2>3. QED
    BY SMTT(30), <1>1, <2>1, <2>2, SeqEqual
<1>4. Ordered(r) /\ \A j \in DOMAIN s : j # 1 => Holds(r, s[j])
  BY <1>2, <1>3, RemoveAtKeeps
<1>5. TotalUs(s) = TotalUs(r) + Head(s).us /\ TotalUs(r) \in Nat
  BY <1>2, <1>3, TotalRemoveAt
<1> HIDE DEF r
<1>6. ASSUME NEW i \in DOMAIN r
      PROVE  i + 1 \in DOMAIN s /\ r[i] = s[i + 1] /\ Head(s).seq < r[i].seq
  BY <1>1, <1>2 DEF Ordered
<1>7. QED
  BY <1>1, <1>2, <1>4, <1>5, <1>6 DEF r

LEMMA PopFrameKeeps ==
    ASSUME QueueInv, PopFrame
    PROVE  QueueInv'
<1> DEFINE h == Head(q)
<1>1. /\ running /\ q # << >> /\ q' = Tail(q) /\ queuedUs' = queuedUs - h.us
      /\ poppedUs' = poppedUs + h.us /\ lastPopped' = h.seq
      /\ applied' = IF h.type \in Required THEN h.seq ELSE applied
      /\ running' \in BOOLEAN /\ fatalExit' \in BOOLEAN /\ (IsShutdown(h) => ~running')
      /\ droppedUs' = droppedUs /\ reader' = reader /\ incoming' = incoming
      /\ lastSequence' = lastSequence /\ pushedUs' = pushedUs /\ newest' = newest
  BY DEF PopFrame, QueueInv, TypeOK
<1>2. /\ q' \in Seq(AnyFrame) /\ Len(q') = Len(q) - 1 /\ Ordered(q')
      /\ h \in AnyFrame /\ h = q[1] /\ 1 \in DOMAIN q
      /\ \A i \in DOMAIN q' : i + 1 \in DOMAIN q /\ q'[i] = q[i + 1] /\ h.seq < q'[i].seq
      /\ \A j \in DOMAIN q : j # 1 => Holds(q', q[j])
      /\ TotalUs(q) = TotalUs(q') + h.us /\ TotalUs(q') \in Nat
  BY <1>1, QueueFacts, TailKeeps
<1>3. /\ h.us \in Nat /\ h.seq \in Nat /\ lastPopped < h.seq
      /\ reader # "done" => h.seq <= lastSequence
      /\ reader = "pushing" => h.seq < incoming.seq
  BY <1>2, FrameFacts, SequenceAssumption DEF QueueInv, Older
<1> HIDE DEF h
<1>4. reader # "done" /\ h.seq <= lastSequence
  BY <1>1, <1>3 DEF QueueInv, HandedOn
<1>5. TypeOK'
  <2>1. queuedUs' \in Nat /\ poppedUs' \in Nat
    <3>1. PICK n \in Nat : n = h.us
      BY <1>3
    <3>2. PICK t \in Nat : t = TotalUs(q')
      BY <1>2
    <3>3. queuedUs = t + n /\ queuedUs' = queuedUs - n /\ poppedUs' = poppedUs + n
      BY <1>1, <1>2, <3>1, <3>2, QueueFacts
    <3>4. QED
      BY <3>3, QueueFacts
  <2>2. q' \in Seq(Frames \cup {WakeUp}) /\ Len(q') <= Capacity
    BY <1>2, QueueFacts, CapacityAssumption DEF AnyFrame
  <2>3. QED
    BY <1>1, <2>1, <2>2 DEF QueueInv, TypeOK
<1>6. applied' \in Nat /\ applied' <= h.seq
  BY SMTT(30), <1>1, <1>3, QueueFacts DEF QueueInv, Older
<1>7. HandedOn'
  BY <1>1, <1>3, <1>4, <1>6 DEF QueueInv, HandedOn
<1>8. Older'
  <2>1. \A i \in DOMAIN q' : /\ i + 1 \in DOMAIN q /\ q'[i] = q[i + 1]
                             /\ lastPopped' < q'[i].seq
    BY <1>1, <1>2
  <2>2. QED
    BY <1>1, <1>3, <1>4, <1>6, <2>1 DEF QueueInv, Older
<1>9. InOrder'
  BY <1>2 DEF InOrder, Ordered
<1>10. DirectivesKnown'
  BY <1>1, <1>2 DEF QueueInv, DirectivesKnown
<1>11. Accounted'
  <2>1. PICK n \in Nat : n = h.us
    BY <1>3
  <2>2. PICK t \in Nat : t = TotalUs(q')
    BY <1>2
  <2>3. queuedUs = t + n /\ queuedUs' = queuedUs - n /\ poppedUs' = poppedUs + n
    BY <1>1, <1>2, <2>1, <2>2, QueueFacts
  <2>4. queuedUs' = t /\ pushedUs' = queuedUs' + poppedUs' + droppedUs'
    BY SMTT(30), <1>1, <2>3, QueueFacts
  <2>5. QED
    BY <2>2, <2>4 DEF Accounted
<1>12. NewestDirectiveSurvives'
  <2>1. CASE newest = applied
    <3>1. h.type \notin Required
      <4>1. h.type \in Required => h.seq <= newest
        BY <1>2 DEF QueueInv, DirectivesKnown
      <4>2. applied <= lastPopped
        BY DEF QueueInv, Older
      <4>3. QED
        BY <1>3, <2>1, <4>1, <4>2, QueueFacts
    <3>2. QED
      BY <1>1, <2>1, <3>1 DEF NewestDirectiveSurvives
  <2>2. ASSUME NEW j \in DOMAIN q, q[j].seq = newest
        PROVE  NewestDirectiveSurvives'
    <3>1. CASE j = 1
      <4>1. h.type \in Required
        BY <1>2, <2>2, <3>1 DEF QueueInv, DirectivesKnown
      <4>2. QED
        BY <1>1, <1>2, <2>2, <3>1, <4>1 DEF NewestDirectiveSurvives
    <3>2. CASE j # 1
      <4>1. PICK i \in DOMAIN q' : q'[i] = q[j]
        BY <1>2, <3>2 DEF Holds
      <4>2. QED
        BY <1>1, <2>2, <4>1 DEF NewestDirectiveSurvives
    <3>3. QED
      BY <3>1, <3>2
  <2>3. ASSUME NEW j \in DOMAIN q, IsShutdown(q[j])
        PROVE  NewestDirectiveSurvives'
    <3>1. CASE j = 1
      BY <1>1, <1>2, <2>3, <3>1 DEF NewestDirectiveSurvives
    <3>2. CASE j # 1
      <4>1. PICK i \in DOMAIN q' : q'[i] = q[j]
        BY <1>2, <3>2 DEF Holds
      <4>2. QED
        BY <2>3, <4>1 DEF NewestDirectiveSurvives, Where
    <3>3. QED
      BY <3>1, <3>2
  <2>4. QED
    BY <1>1, <2>1, <2>2, <2>3 DEF QueueInv, NewestDirectiveSurvives, Where
<1>13. QED
  BY <1>5, <1>7, <1>8, <1>9, <1>10, <1>11, <1>12 DEF QueueInv

\* The invariant of the frame queue, its reader and the main loop's pops.
THEOREM QueueInvariant == Spec => []QueueInv
<1>1. QueueInv /\ [Next]_vars => QueueInv'
  <2> SUFFICES ASSUME QueueInv, [Next]_vars PROVE QueueInv'
    OBVIOUS
  <2>1. CASE UNCHANGED vars
    BY <2>1 DEF vars, QueueInv, TypeOK, HandedOn, Older, InOrder, DirectivesKnown,
       Accounted, NewestDirectiveSurvives, Where
  <2>2. CASE Next
    BY <2>1, <2>2, ReadFrameKeeps, PushFrameKeeps, ReadFailsKeeps, PushWakeUpKeeps,
       ReaderExitsKeeps, PopFrameKeeps DEF Next, Stopped
  <2>3. QED
    BY <2>1, <2>2
<1>2. QED
  BY <1>1, QueueInit, PTL DEF Spec

\* vw_worker_queue.c, for every capacity, every set of message types and any
\* number of frames: however evictions, refusals and pops interleave, frames
\* leave in the order they were sent, queued_audio_us is the audio really in
\* the queue, and every microsecond handed to push is queued, popped or
\* counted in dropped_audio_us.
THEOREM QueueIsExact == Spec => []QueueExact
<1>1. QueueInv => QueueExact
  <2> SUFFICES ASSUME QueueInv PROVE QueueExact
    OBVIOUS
  <2>1. q # << >> => lastPopped < Head(q).seq
    <3> SUFFICES ASSUME q # << >> PROVE lastPopped < Head(q).seq
      OBVIOUS
    <3>1. Head(q) = q[1] /\ 1 \in DOMAIN q
      BY QueueFacts, TailKeeps
    <3>2. QED
      BY <3>1 DEF QueueInv, Older
  <2>2. QED
    BY <2>1 DEF QueueInv, QueueExact, InOrder, Accounted
<1>2. QED
  BY <1>1, QueueInvariant, PTL

\* No burst of other frames makes vw_worker_queue_push lose the newest START
\* or STOP: it is queued or was applied, or the worker is shutting down.
THEOREM NewestDirectiveKept == Spec => []NewestDirectiveSurvives
BY QueueInvariant, PTL DEF QueueInv

-----------------------------------------------------------------------------
(* The transport (IpcTransport).                                             *)

Records == [frame : Nat, from : Nat, size : Nat]
IpcFrames == [kind : {"plain", "control", "shutdown"}, frame : Nat, at : Nat, end : Nat,
  sound : BOOLEAN]
Readings == [part : {"header", "payload"}, frame : Nat, at : Nat, need : Nat, whole : BOOLEAN]

\* The types of the variables, and what a writer can be at: its header, which
\* is one record, or its payload, after a header that failed only if this is a
\* control frame of the client.
IpcTyped ==
    /\ open \in [{"client", "worker"} -> BOOLEAN] /\ reading \in BOOLEAN /\ stopping \in BOOLEAN
    /\ lengths \in [Ipc!Directions -> Seq(Nat)]
    /\ wire \in [Ipc!Directions -> Seq(Records)]
    /\ out \in [Ipc!Directions -> IpcFrames \cup {Ipc!Idle}]
    /\ in \in [Ipc!Directions -> Readings]
    /\ got \in [Ipc!Directions -> Seq([frame : Nat, whole : BOOLEAN])]

WriterAt(d) ==
    out[d] # Ipc!Idle =>
        /\ out[d].frame \in 1 .. Len(lengths[d])
        /\ \/ out[d].at = 0 /\ out[d].end = HeaderBytes /\ out[d].sound
           \/ /\ HeaderBytes <= out[d].at /\ out[d].at < out[d].end
              /\ out[d].end = HeaderBytes + lengths[d][out[d].frame]
        /\ out[d].kind = "shutdown" => d = "up" /\ lengths[d][out[d].frame] = 0
        /\ out[d].kind = "control" => d = "up"
        /\ ~out[d].sound => out[d].kind = "control"

\* A record is a header or a piece of a payload, of a frame that was begun.
Piece(L, r) ==
    /\ r \in Records /\ r.frame \in 1 .. Len(L)
    /\ \/ r.from = 0 /\ r.size = HeaderBytes
       \/ HeaderBytes <= r.from /\ r.size > 0 /\ r.from + r.size <= HeaderBytes + L[r.frame]

\* r is the last record of its frame; record t may come after r.
Complete(L, r) == r.from + r.size = HeaderBytes + L[r.frame]
Follows(L, r, t) ==
    \/ t.frame = r.frame /\ t.from = r.from + r.size
    \/ t.frame > r.frame /\ Complete(L, r) /\ t.from \in {0, HeaderBytes}

\* The records of s follow each other.
Unbroken(L, s) ==
    /\ \A i \in 1 .. Len(s) : Piece(L, s[i])
    /\ \A i \in 1 .. Len(s) - 1 : Follows(L, s[i], s[i + 1])

\* What is under way in direction d and the record that its writer is about to send.
NextRecord(d) == [frame |-> out[d].frame, from |-> out[d].at,
  size |-> Ipc!RecordSize(out[d].end - out[d].at)]
Stream(d) == IF out[d] = Ipc!Idle THEN wire[d] ELSE Append(wire[d], NextRecord(d))

\* Every frame that was handed on is older than f.
Newer(d, f) == \A i \in 1 .. Len(got[d]) : got[d][i].frame < f

\* The reader is between two frames or within a payload.
ReaderAt(d) ==
    \/ in[d] = Ipc!Boundary
    \/ /\ in[d].part = "payload" /\ in[d].whole /\ in[d].frame \in 1 .. Len(lengths[d])
       /\ HeaderBytes <= in[d].at /\ in[d].need > 0
       /\ in[d].at + in[d].need = HeaderBytes + lengths[d][in[d].frame]
       /\ Newer(d, in[d].frame)

\* Record r is the one the reader can go on with.
Meets(d, r) ==
    IF in[d] = Ipc!Boundary THEN r.from \in {0, HeaderBytes} /\ Newer(d, r.frame)
    ELSE r.frame = in[d].frame /\ r.from = in[d].at

\* From the reader to the writer there is one unbroken stream, and a writer
\* between two frames has ended the last one.
InStep(d) ==
    /\ Unbroken(lengths[d], Stream(d))
    /\ ReaderAt(d)
    /\ Len(Stream(d)) > 0 => Meets(d, Stream(d)[1])
    /\ open[Ipc!Writer(d)] /\ out[d] = Ipc!Idle =>
          IF Len(wire[d]) = 0 THEN in[d] = Ipc!Boundary ELSE Complete(lengths[d], wire[d][Len(wire[d])])

\* The reader has taken a piece of a payload for a header: it will not accept it.
Spoiled(d) == in[d].part = "header" /\ ~in[d].whole /\ in[d].need < HeaderBytes

\* The end of d that reads still does, and for the client's the worker's writes have not failed.
Watched(d) == open[Ipc!Reader(d)] /\ IF d = "up" THEN reading ELSE ~stopping

\* Numbers stay below those of the frames begun.
Begun(d) ==
    /\ \A i \in 1 .. Len(wire[d]) : wire[d][i].frame \in 1 .. Len(lengths[d])
    /\ \A i \in 1 .. Len(got[d]) : got[d][i].frame <= Len(lengths[d])
    /\ in[d].frame <= Len(lengths[d])

\* Frames are handed on whole and in order.
IpcHandedOn(d) ==
    (d = "down" => ~stopping) =>
        \A i \in 1 .. Len(got[d]) :
            got[d][i].whole /\ \A j \in 1 .. i - 1 : got[d][j].frame < got[d][i].frame

Sound(d) == WriterAt(d) /\ Begun(d) /\ IpcHandedOn(d) /\ (Watched(d) => Spoiled(d) \/ InStep(d))

IpcInv == IpcTyped /\ \A d \in Ipc!Directions : Sound(d)

-----------------------------------------------------------------------------
(* Unbroken streams.                                                        *)

LEMMA UnbrokenTail ==
    ASSUME NEW L \in Seq(Nat), NEW s \in Seq(Records), Unbroken(L, s), Len(s) > 0
    PROVE  /\ Tail(s) \in Seq(Records) /\ Unbroken(L, Tail(s)) /\ Piece(L, s[1])
           /\ Len(Tail(s)) = Len(s) - 1
           /\ \A i \in 1 .. Len(Tail(s)) : Tail(s)[i] = s[i + 1]
           /\ Len(Tail(s)) > 0 => Follows(L, s[1], Tail(s)[1]) /\ Piece(L, Tail(s)[1])
<1>1. /\ Tail(s) \in Seq(Records) /\ Len(Tail(s)) = Len(s) - 1 /\ Len(s) \in Nat
      /\ \A i \in 1 .. Len(Tail(s)) : Tail(s)[i] = s[i + 1]
  OBVIOUS
<1>2. \A i \in 1 .. Len(Tail(s)) : Piece(L, Tail(s)[i])
  BY <1>1 DEF Unbroken
<1>3. \A i \in 1 .. Len(Tail(s)) - 1 : Follows(L, Tail(s)[i], Tail(s)[i + 1])
  BY <1>1 DEF Unbroken
<1>4. Piece(L, s[1]) /\ (Len(Tail(s)) > 0 => Follows(L, s[1], s[1 + 1]))
  BY <1>1 DEF Unbroken
<1>5. QED
  BY <1>1, <1>2, <1>3, <1>4 DEF Unbroken

LEMMA UnbrokenAppend ==
    ASSUME NEW L \in Seq(Nat), NEW s \in Seq(Records), NEW r \in Records
    PROVE  /\ Append(s, r) \in Seq(Records) /\ Len(Append(s, r)) = Len(s) + 1
           /\ Append(s, r)[Len(s) + 1] = r
           /\ \A i \in 1 .. Len(s) : Append(s, r)[i] = s[i]
           /\ Unbroken(L, Append(s, r)) <=>
                 /\ Unbroken(L, s) /\ Piece(L, r)
                 /\ Len(s) > 0 => Follows(L, s[Len(s)], r)
<1> DEFINE a == Append(s, r)
           n == Len(s)
<1>1. /\ a \in Seq(Records) /\ Len(a) = n + 1 /\ n \in Nat /\ a[n + 1] = r
      /\ \A i \in 1 .. n : a[i] = s[i]
  OBVIOUS
<1> HIDE DEF a, n
<1>2. ASSUME Unbroken(L, a)
      PROVE  Unbroken(L, s) /\ Piece(L, r) /\ (n > 0 => Follows(L, s[n], r))
  <2>1. \A i \in 1 .. n : Piece(L, s[i])
    BY <1>1, <1>2 DEF Unbroken
  <2>2. Piece(L, r)
    BY <1>1, <1>2 DEF Unbroken
  <2>3. \A i \in 1 .. n - 1 : Follows(L, s[i], s[i + 1])
    BY <1>1, <1>2 DEF Unbroken
  <2>4. n > 0 => Follows(L, s[n], r)
    BY <1>1, <1>2 DEF Unbroken
  <2>5. QED
    BY <2>1, <2>2, <2>3, <2>4 DEF Unbroken, n
<1>3. ASSUME Unbroken(L, s), Piece(L, r), n > 0 => Follows(L, s[n], r)
      PROVE  Unbroken(L, a)
  <2>1. \A i \in 1 .. n : Piece(L, s[i])
    BY <1>3 DEF Unbroken, n
  <2>2. \A i \in 1 .. n - 1 : Follows(L, s[i], s[i + 1])
    BY <1>3 DEF Unbroken, n
  <2>3. \A i \in 1 .. Len(a) : Piece(L, a[i])
    BY <1>1, <1>3, <2>1
  <2>4. \A i \in 1 .. Len(a) - 1 : Follows(L, a[i], a[i + 1])
    <3> SUFFICES ASSUME NEW i \in 1 .. n PROVE Follows(L, a[i], a[i + 1])
      BY <1>1
    <3>1. CASE i = n
      BY <1>1, <1>3, <3>1
    <3>2. CASE i < n
      BY <1>1, <2>2, <3>2
    <3>3. QED
      BY <1>1, <3>1, <3>2
  <2>5. QED
    BY <2>3, <2>4 DEF Unbroken
<1>4. QED
  BY <1>1, <1>2, <1>3 DEF a, n

\* A new frame changes nothing for the records of the older ones.
LEMMA UnbrokenLonger ==
    ASSUME NEW L \in Seq(Nat), NEW s \in Seq(Records), NEW n \in Nat, Unbroken(L, s)
    PROVE  /\ Unbroken(Append(L, n), s)
           /\ \A i \in 1 .. Len(s) : Complete(L, s[i]) <=> Complete(Append(L, n), s[i])
<1>1. /\ Append(L, n) \in Seq(Nat) /\ Len(Append(L, n)) = Len(L) + 1
      /\ \A i \in 1 .. Len(L) : Append(L, n)[i] = L[i]
  OBVIOUS
<1>2. \A i \in 1 .. Len(s) : Piece(L, s[i])
  BY DEF Unbroken
<1>3. \A i \in 1 .. Len(s) : s[i].frame \in 1 .. Len(L) /\ Append(L, n)[s[i].frame] = L[s[i].frame]
  BY <1>1, <1>2 DEF Piece
<1>4. \A i \in 1 .. Len(s) : Piece(Append(L, n), s[i])
  BY <1>1, <1>2, <1>3 DEF Piece
<1>5. \A i \in 1 .. Len(s) : Complete(L, s[i]) <=> Complete(Append(L, n), s[i])
  BY <1>3 DEF Complete
<1>6. \A i \in 1 .. Len(s) - 1 : Follows(Append(L, n), s[i], s[i + 1])
  BY <1>5 DEF Unbroken, Follows
<1>7. QED
  BY <1>4, <1>5, <1>6 DEF Unbroken

-----------------------------------------------------------------------------
(* The steps.                                                               *)

\* Nobody opens a handle again, starts to read again or stops stopping.
OnlyCloses ==
    /\ \A e \in {"client", "worker"} : open'[e] => open[e]
    /\ reading' => reading
    /\ stopping => stopping'

\* A direction whose own state a step leaves alone.
Untouched(d) == /\ wire'[d] = wire[d] /\ lengths'[d] = lengths[d] /\ out'[d] = out[d]
                /\ in'[d] = in[d] /\ got'[d] = got[d]

\* What was handed on has a number.
LEMMA GotTyped ==
    ASSUME IpcTyped, NEW d \in Ipc!Directions
    PROVE  /\ got[d] \in Seq([frame : Nat, whole : BOOLEAN]) /\ Len(got[d]) \in Nat
           /\ \A i \in 1 .. Len(got[d]) : got[d][i].frame \in Nat /\ got[d][i].whole \in BOOLEAN
<1>1. got[d] \in Seq([frame : Nat, whole : BOOLEAN])
  BY DEF IpcTyped
<1>2. Len(got[d]) \in Nat /\ \A i \in 1 .. Len(got[d]) : got[d][i] \in [frame : Nat, whole : BOOLEAN]
  BY <1>1, ElementOfSeq, LenProperties
<1>3. QED
  BY <1>1, <1>2

LEMMA OtherSide ==
    ASSUME NEW d \in Ipc!Directions, Sound(d), Untouched(d), OnlyCloses
    PROVE  Sound(d)'
<1>1. Watched(d)' => Watched(d)
  BY DEF OnlyCloses, Watched, Ipc!Reader, Ipc!Directions
<1>2. open'[Ipc!Writer(d)] => open[Ipc!Writer(d)]
  BY DEF OnlyCloses, Ipc!Writer, Ipc!Directions
<1>3. WriterAt(d)' /\ Begun(d)'
  BY DEF Sound, Untouched, WriterAt, Begun
<1>4. IpcHandedOn(d)'
  BY DEF Sound, Untouched, IpcHandedOn, OnlyCloses
<1>5. Stream(d)' = Stream(d)
  BY DEF Untouched, Stream, NextRecord
<1>6. Spoiled(d) => Spoiled(d)'
  BY DEF Untouched, Spoiled
<1>7. InStep(d) => InStep(d)'
  BY <1>2, <1>5 DEF Untouched, InStep, ReaderAt, Meets, Newer
<1>8. QED
  BY <1>1, <1>3, <1>4, <1>6, <1>7 DEF Sound

LEMMA Together ==
    ASSUME IpcInv, IpcTyped', OnlyCloses, NEW d \in Ipc!Directions, Sound(d)',
           \A e \in Ipc!Directions : e # d => Untouched(e)
    PROVE  IpcInv'
BY OtherSide DEF IpcInv

LEMMA IpcInitially ==
    ASSUME Ipc!IpcConstants, Ipc!Init
    PROVE  IpcInv
<1>1. IpcTyped
  <2>1. Ipc!Boundary \in Readings
    BY DEF Ipc!Boundary, Readings, Ipc!IpcConstants
  <2>2. /\ open \in [{"client", "worker"} -> BOOLEAN] /\ reading \in BOOLEAN /\ stopping \in BOOLEAN
        /\ out \in [Ipc!Directions -> IpcFrames \cup {Ipc!Idle}]
        /\ in \in [Ipc!Directions -> Readings]
    BY <2>1 DEF Ipc!Init
  <2>3. /\ lengths \in [Ipc!Directions -> Seq(Nat)] /\ wire \in [Ipc!Directions -> Seq(Records)]
        /\ got \in [Ipc!Directions -> Seq([frame : Nat, whole : BOOLEAN])]
    BY DEF Ipc!Init
  <2>4. QED
    BY <2>2, <2>3 DEF IpcTyped
<1>2. ASSUME NEW d \in Ipc!Directions
      PROVE  Sound(d)
  <2>1. /\ wire[d] = <<>> /\ lengths[d] = <<>> /\ out[d] = Ipc!Idle /\ in[d] = Ipc!Boundary
             /\ got[d] = <<>>
    BY DEF Ipc!Init
  <2>2. WriterAt(d) /\ Begun(d) /\ IpcHandedOn(d)
    BY <2>1 DEF WriterAt, Begun, IpcHandedOn, Ipc!Boundary
  <2>3. Stream(d) = <<>>
    BY <2>1 DEF Stream
  <2>4. InStep(d)
    BY <2>1, <2>3 DEF InStep, Unbroken, ReaderAt
  <2>5. QED
    BY <2>2, <2>4 DEF Sound
<1>3. QED
  BY <1>1, <1>2 DEF IpcInv

LEMMA BeginFrameKeeps ==
    ASSUME Ipc!IpcConstants, IpcInv, NEW d \in Ipc!Directions,
           NEW k \in {"plain", "control", "shutdown"}, NEW n \in Nat, Ipc!BeginFrame(d, k, n)
    PROVE  IpcInv'
<1> DEFINE L == lengths[d]
           f == Len(lengths[d]) + 1
           w == [kind |-> k, frame |-> f, at |-> 0, end |-> HeaderBytes, sound |-> TRUE]
<1>0. L \in Seq(Nat) /\ f \in Nat /\ HeaderBytes \in Nat /\ HeaderBytes > 0 /\ wire[d] \in Seq(Records)
  BY DEF IpcInv, IpcTyped, Ipc!IpcConstants
<1>1. /\ open[Ipc!Writer(d)] /\ out[d] = Ipc!Idle
      /\ lengths' = [lengths EXCEPT ![d] = Append(L, n)] /\ out' = [out EXCEPT ![d] = w]
      /\ UNCHANGED <<open, wire, in, reading, stopping, got>>
      /\ k = "control" => d = "up"
      /\ k = "shutdown" => d = "up" /\ n = 0
  BY DEF Ipc!BeginFrame
<1>2. w \in IpcFrames /\ w # Ipc!Idle /\ w.frame = f /\ w.at = 0 /\ w.end = HeaderBytes /\ w.sound
        /\ w.kind = k
  BY <1>0 DEF IpcFrames, Ipc!Idle
<1> HIDE DEF w
<1>3. IpcTyped'
  BY <1>0, <1>1, <1>2 DEF IpcInv, IpcTyped
<1>4. OnlyCloses /\ \A e \in Ipc!Directions : e # d => Untouched(e)
  BY <1>1 DEF OnlyCloses, Untouched, IpcInv, IpcTyped
<1>5. /\ lengths'[d] = Append(L, n) /\ out'[d] = w
      /\ Len(Append(L, n)) = f /\ Append(L, n)[f] = n /\ Append(L, n) \in Seq(Nat)
      /\ \A i \in 1 .. Len(L) : Append(L, n)[i] = L[i]
  BY <1>0, <1>1 DEF IpcInv, IpcTyped
<1>6. WriterAt(d)'
  BY <1>1, <1>2, <1>5 DEF WriterAt
<1>7. Begun(d)'
  <2>1. /\ \A i \in 1 .. Len(wire[d]) : wire[d][i].frame \in 1 .. Len(L)
        /\ \A i \in 1 .. Len(got[d]) : got[d][i].frame <= Len(L)
        /\ in[d].frame <= Len(L)
    BY DEF IpcInv, Sound, Begun
  <2>2. (\A i \in 1 .. Len(got[d]) : got[d][i].frame \in Nat) /\ in[d].frame \in Nat
    BY GotTyped DEF IpcInv, IpcTyped, Readings
  <2>3. QED
    BY <1>0, <1>1, <1>5, <2>1, <2>2 DEF Begun
<1>8. IpcHandedOn(d)'
  BY <1>1 DEF IpcInv, Sound, IpcHandedOn
<1>9. Watched(d)' => Watched(d)
  BY <1>1 DEF Watched
<1>10. Spoiled(d) => Spoiled(d)'
  BY <1>1 DEF Spoiled
<1>11. ASSUME InStep(d)
       PROVE  InStep(d)'
  <2> DEFINE r == [frame |-> f, from |-> 0, size |-> HeaderBytes]
             s == wire[d]
  <2>1. r \in Records /\ r.frame = f /\ r.from = 0 /\ r.size = HeaderBytes
    BY <1>0 DEF Records
  <2> HIDE DEF r
  <2>2. Stream(d) = s /\ Stream(d)' = Append(s, r)
    <3>1. Ipc!RecordSize(HeaderBytes - 0) = HeaderBytes
      BY DEF Ipc!RecordSize, Ipc!IpcConstants
    <3>2. QED
      BY <1>1, <1>2, <1>5, <3>1 DEF Stream, NextRecord, r
  <2>3. Unbroken(L, s) /\ Unbroken(Append(L, n), s)
    BY <1>0, <1>11, <2>2, UnbrokenLonger DEF InStep
  <2>4. Piece(Append(L, n), r)
    BY <1>0, <1>5, <2>1 DEF Piece
  <2>5. Len(s) > 0 => Follows(Append(L, n), s[Len(s)], r)
    <3> SUFFICES ASSUME Len(s) > 0 PROVE Follows(Append(L, n), s[Len(s)], r)
      OBVIOUS
    <3>1. Len(s) \in 1 .. Len(s)
      BY <1>0
    <3>2. Complete(L, s[Len(s)])
      BY <1>1, <1>11, <3>1 DEF InStep
    <3>3. Complete(Append(L, n), s[Len(s)])
      BY <1>0, <2>3, <3>1, <3>2, UnbrokenLonger
    <3>4. s[Len(s)].frame \in 1 .. Len(L)
      BY <2>3, <3>1 DEF Unbroken, Piece
    <3>5. QED
      BY <1>0, <2>1, <3>3, <3>4 DEF Follows
  <2>6. Unbroken(Append(L, n), Append(s, r))
    BY <1>0, <1>5, <2>1, <2>3, <2>4, <2>5, UnbrokenAppend
  <2>7. ReaderAt(d)'
    BY <1>1, <1>5, <1>11 DEF InStep, ReaderAt, Newer
  <2>8. Meets(d, Stream(d)[1])'
    <3>1. CASE Len(s) = 0
      <4>1. Append(s, r)[1] = r
        BY <1>0, <2>1, <3>1, UnbrokenAppend
      <4>2. in[d] = Ipc!Boundary
        BY <1>1, <1>11, <3>1 DEF InStep
      <4>3. Newer(d, f)
        <5>1. \A i \in 1 .. Len(got[d]) : got[d][i].frame <= Len(L) /\ got[d][i].frame \in Nat
          BY GotTyped DEF IpcInv, Sound, Begun
        <5>2. QED
          BY <1>0, <5>1 DEF Newer
      <4>4. QED
        BY <1>1, <2>1, <2>2, <4>1, <4>2, <4>3 DEF Meets, Newer
    <3>2. CASE Len(s) > 0
      <4>1. Append(s, r)[1] = s[1]
        BY <1>0, <2>1, <3>2, UnbrokenAppend
      <4>2. Meets(d, s[1])
        BY <1>11, <2>2, <3>2 DEF InStep
      <4>3. QED
        BY <1>1, <2>2, <4>1, <4>2 DEF Meets, Newer
    <3>3. QED
      BY <1>0, <3>1, <3>2
  <2>9. out'[d] # Ipc!Idle
    BY <1>2, <1>5
  <2>10. QED
    BY <1>5, <2>2, <2>6, <2>7, <2>8, <2>9 DEF InStep
<1>12. Sound(d)'
  BY <1>6, <1>7, <1>8, <1>9, <1>10, <1>11 DEF IpcInv, Sound
<1>13. QED
  BY <1>3, <1>4, <1>12, Together

\* The next record of a writer is a piece of its frame, and what is left.
LEMMA NextPiece ==
    ASSUME Ipc!IpcConstants, IpcInv, NEW d \in Ipc!Directions, out[d] # Ipc!Idle
    PROVE  /\ out[d] \in IpcFrames /\ NextRecord(d) \in Records
           /\ Piece(lengths[d], NextRecord(d))
           /\ NextRecord(d).frame = out[d].frame /\ NextRecord(d).from = out[d].at
           /\ NextRecord(d).size = Ipc!RecordSize(out[d].end - out[d].at)
           /\ NextRecord(d).size \in 1 .. out[d].end - out[d].at
           /\ out[d].at = 0 => NextRecord(d).size = HeaderBytes
           /\ out[d].frame \in 1 .. Len(lengths[d]) /\ lengths[d][out[d].frame] \in Nat
           /\ out[d].at \in Nat /\ out[d].end \in Nat
<1>1. out[d] \in IpcFrames /\ lengths[d] \in Seq(Nat)
  BY DEF IpcInv, IpcTyped
<1>2. out[d].frame \in Nat /\ out[d].at \in Nat /\ out[d].end \in Nat
  BY <1>1 DEF IpcFrames
<1>3. WriterAt(d)
  BY DEF IpcInv, Sound
<1>4. /\ HeaderBytes \in Nat /\ RecordMax \in Nat /\ RecordMax > 0 /\ HeaderBytes > 0
      /\ HeaderBytes <= RecordMax
  BY DEF Ipc!IpcConstants
<1>5. out[d].frame \in 1 .. Len(lengths[d]) /\ lengths[d][out[d].frame] \in Nat
  BY <1>1, <1>3 DEF WriterAt
<1>6. /\ Ipc!RecordSize(out[d].end - out[d].at) \in 1 .. out[d].end - out[d].at
      /\ out[d].at = 0 => Ipc!RecordSize(out[d].end - out[d].at) = HeaderBytes
  BY SMTT(30), <1>2, <1>3, <1>4, <1>5 DEF WriterAt, Ipc!RecordSize
<1>7. /\ NextRecord(d) \in Records /\ NextRecord(d).frame = out[d].frame
           /\ NextRecord(d).from = out[d].at
      /\ NextRecord(d).size = Ipc!RecordSize(out[d].end - out[d].at)
  BY <1>2, <1>6 DEF NextRecord, Records
<1>8. Piece(lengths[d], NextRecord(d))
  BY SMTT(30), <1>2, <1>3, <1>4, <1>5, <1>6, <1>7 DEF Piece, WriterAt
<1>9. QED
  BY <1>1, <1>2, <1>5, <1>6, <1>7, <1>8

\* What WriteFailed does to the flags.
LEMMA WriteFailedIs ==
    ASSUME IpcTyped, NEW d \in Ipc!Directions, Ipc!WriteFailed(d)
    PROVE  /\ open' \in [{"client", "worker"} -> BOOLEAN] /\ stopping' \in BOOLEAN
           /\ \A e \in {"client", "worker"} : open'[e] => open[e]
           /\ stopping => stopping'
           /\ d = "down" => stopping'
           /\ d = "up" /\ out[d].kind # "shutdown" => ~open'["client"]
           /\ d = "up" /\ out[d].kind = "shutdown" => open' = open
BY DEF IpcTyped, Ipc!WriteFailed, Ipc!DropTransport, Ipc!Directions

LEMMA SendRecordKeeps ==
    ASSUME Ipc!IpcConstants, IpcInv, NEW d \in Ipc!Directions, Ipc!SendRecord(d)
    PROVE  IpcInv'
<1> DEFINE w == out[d]
           L == lengths[d]
           r == NextRecord(d)
           n == Ipc!RecordSize(w.end - w.at)
           done == w.at + n = w.end
<1>0. /\ L \in Seq(Nat) /\ wire[d] \in Seq(Records) /\ Len(wire[d]) \in Nat
      /\ HeaderBytes \in Nat /\ HeaderBytes > 0
  BY DEF IpcInv, IpcTyped, Ipc!IpcConstants
<1>1. /\ w # Ipc!Idle
      /\ wire' = [wire EXCEPT ![d] = Append(@, r)]
      /\ out' = [out EXCEPT ![d] = IF done THEN Ipc!AfterPart(d, w.sound) ELSE [w EXCEPT !.at = @ + n]]
      /\ \/ Ipc!WriteFailed(d)
         \/ UNCHANGED <<open, stopping>>
      /\ UNCHANGED <<lengths, in, reading, got>>
  BY DEF Ipc!SendRecord, NextRecord
<1>2. /\ w \in IpcFrames /\ r \in Records /\ Piece(L, r) /\ r.frame = w.frame /\ r.from = w.at
      /\ r.size = n /\ n \in 1 .. w.end - w.at /\ (w.at = 0 => n = HeaderBytes)
  BY <1>1, NextPiece
<1>3. w.frame \in 1 .. Len(L) /\ w.at \in Nat /\ w.end \in Nat /\ L[w.frame] \in Nat
  BY <1>1, NextPiece
<1>4. WriterAt(d)
  BY DEF IpcInv, Sound
<1>5. out'[d] = IF done THEN Ipc!AfterPart(d, w.sound) ELSE [w EXCEPT !.at = @ + n]
  BY <1>1 DEF IpcInv, IpcTyped
<1>6. wire'[d] = Append(wire[d], r)
  BY <1>1 DEF IpcInv, IpcTyped
<1>7. /\ open' \in [{"client", "worker"} -> BOOLEAN] /\ stopping' \in BOOLEAN /\ OnlyCloses
  BY <1>1, WriteFailedIs DEF IpcInv, IpcTyped, OnlyCloses
<1>8. \/ out'[d] = Ipc!Idle /\ Complete(L, r)
      \/ /\ out'[d] \in IpcFrames /\ out'[d] # Ipc!Idle /\ out'[d].frame = w.frame
         /\ out'[d].at = w.at + n /\ out'[d].end = HeaderBytes + L[w.frame]
         /\ HeaderBytes <= out'[d].at /\ out'[d].at < out'[d].end
         /\ out'[d].kind = w.kind /\ out'[d].sound = w.sound
  <2>1. CASE ~done
    <3>1. out'[d] = [w EXCEPT !.at = @ + n]
      BY <1>5, <2>1
    <3>2. w.at # 0 \/ w.end # HeaderBytes
      BY <1>2, <1>3, <2>1
    <3>3. HeaderBytes <= w.at /\ w.end = HeaderBytes + L[w.frame]
      BY <1>1, <1>4, <3>2 DEF WriterAt
    <3>4. w.at + n \in Nat /\ w.at + n < w.end
      BY <1>2, <1>3, <2>1
    <3>5. /\ out'[d] \in IpcFrames /\ out'[d].frame = w.frame /\ out'[d].at = w.at + n
          /\ out'[d].end = w.end /\ out'[d].kind = w.kind /\ out'[d].sound = w.sound
      BY <1>2, <3>1, <3>4 DEF IpcFrames
    <3>6. out'[d] # Ipc!Idle
      BY <3>5 DEF IpcFrames, Ipc!Idle
    <3>7. QED
      BY <1>0, <1>2, <1>3, <3>3, <3>4, <3>5, <3>6
  <2>2. CASE done /\ w.end = HeaderBytes /\ L[w.frame] > 0
    <3>1. out'[d] = [w EXCEPT !.at = HeaderBytes, !.end = HeaderBytes + L[w.frame], !.sound = w.sound]
      BY <1>5, <2>2 DEF Ipc!AfterPart
    <3>2. w.at + n = HeaderBytes
      BY <2>2
    <3>3. /\ out'[d] \in IpcFrames /\ out'[d].frame = w.frame /\ out'[d].at = HeaderBytes
          /\ out'[d].end = HeaderBytes + L[w.frame] /\ out'[d].kind = w.kind /\ out'[d].sound = w.sound
      <4>1. HeaderBytes + L[w.frame] \in Nat /\ w.sound \in BOOLEAN
        BY SMTT(30), <1>0, <1>2, <1>3 DEF IpcFrames
      <4>2. QED
        BY <1>0, <1>2, <3>1, <4>1 DEF IpcFrames
    <3>4. out'[d] # Ipc!Idle
      BY <3>3 DEF IpcFrames, Ipc!Idle
    <3>5. QED
      BY <1>0, <1>3, <2>2, <3>2, <3>3, <3>4
  <2>3. CASE done /\ ~(w.end = HeaderBytes /\ L[w.frame] > 0)
    <3>1. out'[d] = Ipc!Idle
      BY <1>5, <2>3 DEF Ipc!AfterPart
    <3>2. w.at + n = HeaderBytes + L[w.frame]
      BY <1>0, <1>1, <1>3, <1>4, <2>3 DEF WriterAt
    <3>3. QED
      BY <1>2, <3>1, <3>2 DEF Complete
  <2>4. QED
    BY <2>1, <2>2, <2>3
<1> HIDE DEF w, r, n, done
<1>9. IpcTyped'
  <2>1. Append(wire[d], r) \in Seq(Records)
    BY <1>0, <1>2
  <2>2. wire' \in [Ipc!Directions -> Seq(Records)]
    BY <1>1, <2>1 DEF IpcInv, IpcTyped
  <2>3. out' \in [Ipc!Directions -> IpcFrames \cup {Ipc!Idle}]
    <3>1. out'[d] \in IpcFrames \cup {Ipc!Idle}
      BY <1>8
    <3>2. out' = [out EXCEPT ![d] = out'[d]]
      BY <1>1 DEF IpcInv, IpcTyped
    <3>3. QED
      BY <3>1, <3>2 DEF IpcInv, IpcTyped
  <2>4. QED
    BY <1>1, <1>7, <2>2, <2>3 DEF IpcInv, IpcTyped
<1>10. \A e \in Ipc!Directions : e # d => Untouched(e)
  BY <1>1 DEF Untouched, IpcInv, IpcTyped
<1>11. WriterAt(d)'
  BY <1>1, <1>3, <1>4, <1>8 DEF WriterAt, w, L
<1>12. Begun(d)'
  <2>1. \A i \in 1 .. Len(Append(wire[d], r)) : Append(wire[d], r)[i].frame \in 1 .. Len(L)
    <3>1. /\ Len(Append(wire[d], r)) = Len(wire[d]) + 1 /\ Append(wire[d], r)[Len(wire[d]) + 1] = r
          /\ \A i \in 1 .. Len(wire[d]) : Append(wire[d], r)[i] = wire[d][i]
      BY <1>0, <1>2, UnbrokenAppend
    <3>2. r.frame \in 1 .. Len(L)
      BY <1>2, <1>3 DEF w
    <3>3. \A i \in 1 .. Len(wire[d]) : wire[d][i].frame \in 1 .. Len(L)
      BY DEF IpcInv, Sound, Begun
    <3>4. QED
      BY <1>0, <3>1, <3>2, <3>3
  <2>2. QED
    BY <1>1, <1>6, <2>1 DEF IpcInv, Sound, Begun
<1>13. IpcHandedOn(d)'
  BY <1>1, <1>7 DEF IpcInv, Sound, IpcHandedOn, OnlyCloses
<1>14. Watched(d)' => Watched(d)
  BY <1>7 DEF OnlyCloses, Watched, Ipc!Reader, Ipc!Directions
<1>15. Spoiled(d) => Spoiled(d)'
  BY <1>1 DEF Spoiled
<1>16. ASSUME InStep(d)
       PROVE  InStep(d)'
  <2> DEFINE s == Append(wire[d], r)
  <2>1. Stream(d) = s /\ wire'[d] = s
    BY <1>1, <1>6 DEF Stream, r, w
  <2>2. s \in Seq(Records) /\ Len(s) = Len(wire[d]) + 1 /\ s[Len(s)] = r
    BY <1>0, <1>2, UnbrokenAppend
  <2>3. Unbroken(L, s) /\ Meets(d, s[1])
    BY <1>0, <1>16, <2>1, <2>2 DEF InStep
  <2>4. ReaderAt(d)'
    BY <1>1, <1>16 DEF InStep, ReaderAt, Newer
  <2>5. CASE out'[d] = Ipc!Idle /\ Complete(L, r)
    <3>1. Stream(d)' = s
      BY <2>1, <2>5 DEF Stream
    <3>2. Meets(d, Stream(d)[1])'
      BY <1>1, <2>3, <3>1 DEF Meets, Newer
    <3>3. Len(wire'[d]) # 0 /\ Complete(L, wire'[d][Len(wire'[d])])
      BY <1>0, <2>1, <2>2, <2>5
    <3>4. QED
      BY <1>1, <2>3, <2>4, <3>1, <3>2, <3>3 DEF InStep
  <2>6. CASE /\ out'[d] \in IpcFrames /\ out'[d] # Ipc!Idle /\ out'[d].frame = w.frame
             /\ out'[d].at = w.at + n /\ out'[d].end = HeaderBytes + L[w.frame]
             /\ HeaderBytes <= out'[d].at /\ out'[d].at < out'[d].end
    <3> DEFINE t == NextRecord(d)'
    <3> DEFINE at == out'[d].at
               rest == out'[d].end - at
    <3>1. t = [frame |-> out'[d].frame, from |-> at, size |-> Ipc!RecordSize(rest)]
      BY DEF NextRecord
    <3>2. /\ at \in Nat /\ rest \in Nat /\ rest > 0 /\ HeaderBytes <= at /\ at = w.at + n
          /\ out'[d].end = HeaderBytes + L[w.frame] /\ out'[d].end \in Nat
      BY SMTT(30), <1>0, <2>6 DEF IpcFrames
    <3>3. Ipc!RecordSize(rest) \in 1 .. rest
      BY <3>2 DEF Ipc!RecordSize, Ipc!IpcConstants
    <3>4. /\ t \in Records /\ t.frame = w.frame /\ t.from = at /\ t.size \in 1 .. rest
      BY <1>3, <2>6, <3>1, <3>2, <3>3 DEF Records, w
    <3>5. Piece(L, t)
      <4>1. w.frame \in 1 .. Len(L)
        BY <1>3 DEF w
      <4>2. PICK z \in Nat : z = t.size /\ z > 0 /\ z <= rest
        BY <3>2, <3>4
      <4>3. at + z <= HeaderBytes + L[w.frame]
        BY <3>2, <4>2
      <4>4. QED
        BY <3>2, <3>4, <4>1, <4>2, <4>3 DEF Piece
    <3>6. Follows(L, r, t)
      BY <1>2, <3>2, <3>4 DEF Follows, w
    <3>7. Stream(d)' = Append(s, t)
      BY <2>1, <2>6 DEF Stream
    <3> HIDE DEF t, s
    <3>8. Unbroken(L, Append(s, t)) /\ Append(s, t)[1] = s[1]
      BY <1>0, <2>2, <2>3, <3>4, <3>5, <3>6, UnbrokenAppend
    <3>9. Meets(d, Stream(d)[1])'
      BY <1>1, <2>3, <3>7, <3>8 DEF Meets, Newer
    <3>10. QED
      BY <1>1, <2>4, <2>6, <3>7, <3>8, <3>9 DEF InStep
  <2>7. QED
    BY <1>8, <2>5, <2>6
<1>17. Sound(d)'
  BY <1>11, <1>12, <1>13, <1>14, <1>15, <1>16 DEF IpcInv, Sound
<1>18. QED
  BY <1>7, <1>9, <1>10, <1>17, Together

\* A header that is not sent leaves the stream complete.
LEMMA HeaderMissing ==
    ASSUME Ipc!IpcConstants, IpcInv, NEW d \in Ipc!Directions, InStep(d), out[d] # Ipc!Idle,
             out[d].at = 0
    PROVE  /\ Unbroken(lengths[d], wire[d])
           /\ Len(wire[d]) = 0 => in[d] = Ipc!Boundary /\ Newer(d, out[d].frame)
           /\ Len(wire[d]) > 0 =>
                 /\ Complete(lengths[d], wire[d][Len(wire[d])]) /\ Meets(d, wire[d][1])
                 /\ out[d].frame > wire[d][Len(wire[d])].frame
<1> DEFINE L == lengths[d]
           s == wire[d]
           r == NextRecord(d)
<1>1. L \in Seq(Nat) /\ s \in Seq(Records) /\ Len(s) \in Nat /\ HeaderBytes \in Nat /\ HeaderBytes > 0
  BY DEF IpcInv, IpcTyped, Ipc!IpcConstants
<1>2. r \in Records /\ Piece(L, r) /\ r.from = 0 /\ r.frame = out[d].frame
  BY NextPiece
<1>3. Stream(d) = Append(s, r)
  BY DEF Stream
<1> HIDE DEF r
<1>4. Unbroken(L, Append(s, r)) /\ Len(Append(s, r)) > 0 /\ Meets(d, Append(s, r)[1])
  BY <1>1, <1>2, <1>3, UnbrokenAppend DEF InStep
<1>5. Unbroken(L, s) /\ (Len(s) > 0 => Follows(L, s[Len(s)], r))
  BY <1>1, <1>2, <1>4, UnbrokenAppend
<1>6. ASSUME Len(s) = 0
      PROVE  in[d] = Ipc!Boundary /\ Newer(d, out[d].frame)
  <2>1. Append(s, r)[1] = r
    BY <1>1, <1>2, <1>6, UnbrokenAppend
  <2>2. in[d] # Ipc!Boundary => in[d].at = 0 /\ HeaderBytes <= in[d].at
    BY <1>2, <1>4, <2>1 DEF Meets, InStep, ReaderAt
  <2>3. in[d] = Ipc!Boundary
    BY <1>1, <2>2
  <2>4. QED
    BY <1>2, <1>4, <2>1, <2>3 DEF Meets
<1>7. ASSUME Len(s) > 0
      PROVE  /\ Complete(L, s[Len(s)]) /\ Meets(d, s[1]) /\ out[d].frame > s[Len(s)].frame
  <2>1. Append(s, r)[1] = s[1] /\ Len(s) \in 1 .. Len(s)
    BY <1>1, <1>2, <1>7, UnbrokenAppend
  <2>2. Piece(L, s[Len(s)])
    BY <1>5, <2>1 DEF Unbroken
  <2>3. PICK a \in Nat, b \in Nat : s[Len(s)].from = a /\ s[Len(s)].size = b /\ b > 0
    BY <1>1, <2>2 DEF Piece, Records
  <2>4. a + b # 0
    BY <2>3
  <2>5. QED
    BY <1>2, <1>4, <1>5, <1>7, <2>1, <2>3, <2>4 DEF Follows
<1>8. QED
  BY <1>5, <1>6, <1>7

LEMMA SendFailsKeeps ==
    ASSUME Ipc!IpcConstants, IpcInv, NEW d \in Ipc!Directions, Ipc!SendFails(d)
    PROVE  IpcInv'
<1> DEFINE w == out[d]
           L == lengths[d]
           s == wire[d]
           goesOn == w.kind = "control" /\ w.end = HeaderBytes /\ L[w.frame] > 0
<1>0. L \in Seq(Nat) /\ s \in Seq(Records) /\ Len(s) \in Nat /\ HeaderBytes \in Nat /\ HeaderBytes > 0
  BY DEF IpcInv, IpcTyped, Ipc!IpcConstants
<1>1. /\ w # Ipc!Idle /\ UNCHANGED <<wire, lengths, in, reading, got>>
      /\ IF goesOn THEN out' = [out EXCEPT ![d] = Ipc!AfterPart(d, FALSE)] /\ UNCHANGED <<open,
           stopping>>
         ELSE out' = [out EXCEPT ![d] = Ipc!Idle] /\ Ipc!WriteFailed(d)
  BY DEF Ipc!SendFails
<1>2. /\ w \in IpcFrames /\ w.frame \in 1 .. Len(L) /\ L[w.frame] \in Nat /\ w.at \in Nat
           /\ w.end \in Nat
  BY <1>1, NextPiece
<1>3. WriterAt(d)
  BY DEF IpcInv, Sound
<1>4. open' \in [{"client", "worker"} -> BOOLEAN] /\ stopping' \in BOOLEAN /\ OnlyCloses
  BY <1>1, WriteFailedIs DEF IpcInv, IpcTyped, OnlyCloses
<1>5. \A e \in Ipc!Directions : e # d => Untouched(e)
  BY <1>1 DEF Untouched, IpcInv, IpcTyped
<1>6. Begun(d)'
  BY <1>1 DEF IpcInv, Sound, Begun
<1>7. IpcHandedOn(d)'
  BY <1>1, <1>4 DEF IpcInv, Sound, IpcHandedOn, OnlyCloses
<1>8. Watched(d)' => Watched(d)
  BY <1>4 DEF OnlyCloses, Watched, Ipc!Reader, Ipc!Directions
<1>9. Spoiled(d) => Spoiled(d)'
  BY <1>1 DEF Spoiled
<1>10. CASE goesOn
  <2>1. w.at = 0 /\ w.sound
    BY <1>0, <1>1, <1>2, <1>3, <1>10 DEF WriterAt
  <2>2. out'[d] = [w EXCEPT !.at = HeaderBytes, !.end = HeaderBytes + L[w.frame], !.sound = FALSE]
    BY <1>1, <1>10 DEF Ipc!AfterPart, IpcInv, IpcTyped
  <2>3. HeaderBytes + L[w.frame] \in Nat /\ L[w.frame] > 0 /\ w.kind = "control"
    BY SMTT(30), <1>0, <1>2, <1>10
  <2>4. /\ out'[d] \in IpcFrames /\ out'[d].frame = w.frame /\ out'[d].at = HeaderBytes
        /\ out'[d].end = HeaderBytes + L[w.frame] /\ out'[d].kind = "control" /\ ~out'[d].sound
    BY <1>0, <1>2, <2>2, <2>3 DEF IpcFrames
  <2>5. out'[d] # Ipc!Idle
    BY <2>4 DEF IpcFrames, Ipc!Idle
  <2>6. out' = [out EXCEPT ![d] = out'[d]]
    BY <1>1, <1>10 DEF IpcInv, IpcTyped
  <2>7. IpcTyped'
    BY <1>1, <1>4, <2>4, <2>6 DEF IpcInv, IpcTyped
  <2>8. d = "up"
    BY <1>1, <1>3, <2>3 DEF WriterAt
  <2>9. WriterAt(d)'
    BY <1>0, <1>1, <1>2, <2>3, <2>4, <2>8 DEF WriterAt
  <2>10. ASSUME InStep(d)
         PROVE  InStep(d)'
    <3> DEFINE t == NextRecord(d)'
               rest == L[w.frame]
    <3>1. out'[d].end - out'[d].at = rest
      BY <1>0, <1>2, <2>4
    <3>2. t = [frame |-> w.frame, from |-> HeaderBytes, size |-> Ipc!RecordSize(rest)]
      BY <2>4, <3>1 DEF NextRecord
    <3>3. Ipc!RecordSize(rest) \in 1 .. rest
      BY SMTT(30), <1>2, <2>3 DEF Ipc!RecordSize, Ipc!IpcConstants
    <3>4. t \in Records /\ t.frame = w.frame /\ t.from = HeaderBytes /\ t.size \in 1 .. rest
      BY <1>0, <1>2, <3>2, <3>3 DEF Records
    <3>5. Piece(L, t)
      <4>1. PICK z \in Nat : z = t.size /\ z > 0 /\ z <= rest
        BY <1>2, <3>4
      <4>2. HeaderBytes + z <= HeaderBytes + L[w.frame]
        BY SMTT(30), <1>0, <1>2, <4>1
      <4>3. QED
        BY <1>0, <1>2, <3>4, <4>1, <4>2 DEF Piece
    <3>6. Stream(d)' = Append(s, t)
      BY <1>1, <2>5 DEF Stream
    <3> HIDE DEF t
    <3>7. /\ Unbroken(L, s)
          /\ Len(s) = 0 => in[d] = Ipc!Boundary /\ Newer(d, w.frame)
          /\ Len(s) > 0 => Complete(L, s[Len(s)]) /\ Meets(d, s[1]) /\ w.frame > s[Len(s)].frame
      BY <1>1, <2>1, <2>10, HeaderMissing
    <3>8. Len(s) > 0 => Follows(L, s[Len(s)], t)
      BY <3>4, <3>7 DEF Follows
    <3>9. Unbroken(L, Append(s, t))
      BY <1>0, <3>4, <3>5, <3>7, <3>8, UnbrokenAppend
    <3>10. Meets(d, Stream(d)[1])'
      <4>1. CASE Len(s) = 0
        <5>1. Append(s, t)[1] = t
          BY <1>0, <3>4, <4>1, UnbrokenAppend
        <5>2. QED
          BY <1>1, <3>4, <3>6, <3>7, <4>1, <5>1 DEF Meets, Newer
      <4>2. CASE Len(s) > 0
        <5>1. Append(s, t)[1] = s[1]
          BY <1>0, <3>4, <4>2, UnbrokenAppend
        <5>2. QED
          BY <1>1, <3>6, <3>7, <4>2, <5>1 DEF Meets, Newer
      <4>3. QED
        BY <1>0, <4>1, <4>2
    <3>11. ReaderAt(d)'
      BY <1>1, <2>10 DEF InStep, ReaderAt, Newer
    <3>12. QED
      BY <1>1, <2>5, <3>6, <3>9, <3>10, <3>11 DEF InStep
  <2>11. Sound(d)'
    BY <1>6, <1>7, <1>8, <1>9, <2>9, <2>10 DEF IpcInv, Sound
  <2>12. QED
    BY <1>4, <1>5, <2>7, <2>11, Together
<1>11. CASE ~goesOn
  <2>1. out' = [out EXCEPT ![d] = Ipc!Idle] /\ out'[d] = Ipc!Idle /\ Ipc!WriteFailed(d)
    BY <1>1, <1>11 DEF IpcInv, IpcTyped
  <2>2. IpcTyped'
    BY <1>1, <1>4, <2>1 DEF IpcInv, IpcTyped
  <2>3. WriterAt(d)'
    BY <2>1 DEF WriterAt
  <2>4. ASSUME InStep(d), Watched(d)'
        PROVE  InStep(d)'
    <3>1. d = "up"
      BY <1>4, <2>1, <2>4, WriteFailedIs DEF IpcInv, Watched, Ipc!Directions
    <3>2. Stream(d)' = s
      BY <1>1, <2>1 DEF Stream
    <3>3. Unbroken(L, s) /\ (Len(s) > 0 => Meets(d, s[1]))
      <4>1. NextRecord(d) \in Records /\ Stream(d) = Append(s, NextRecord(d))
        BY <1>1, NextPiece DEF Stream
      <4>2. Len(Append(s, NextRecord(d))) > 0 /\ Unbroken(L, s)
        BY <1>0, <2>4, <4>1, UnbrokenAppend DEF InStep
      <4>3. Len(s) > 0 => Append(s, NextRecord(d))[1] = s[1]
        BY <1>0, <4>1, UnbrokenAppend
      <4>4. QED
        BY <2>4, <4>1, <4>2, <4>3 DEF InStep
    <3>4. (Len(Stream(d)) > 0 => Meets(d, Stream(d)[1]))'
      BY <1>1, <3>2, <3>3 DEF Meets, Newer
    <3>5. ReaderAt(d)'
      BY <1>1, <2>4 DEF InStep, ReaderAt, Newer
    <3>6. open'[Ipc!Writer(d)] => IF Len(s) = 0 THEN in[d] = Ipc!Boundary ELSE Complete(L, s[Len(s)])
      <4>1. CASE w.kind = "shutdown"
        <5>1. w.at = 0
          BY <1>0, <1>1, <1>2, <1>3, <4>1 DEF WriterAt
        <5>2. QED
          BY <1>0, <1>1, <2>4, <5>1, HeaderMissing
      <4>2. CASE w.kind # "shutdown"
        BY <2>1, <3>1, <4>2, WriteFailedIs DEF IpcInv, Ipc!Writer
      <4>3. QED
        BY <4>1, <4>2
    <3>7. QED
      BY <1>1, <2>1, <3>2, <3>3, <3>4, <3>5, <3>6 DEF InStep
  <2>5. Sound(d)'
    BY <1>6, <1>7, <1>8, <1>9, <2>3, <2>4 DEF IpcInv, Sound
  <2>6. QED
    BY <1>4, <1>5, <2>2, <2>5, Together
<1>12. QED
  BY <1>10, <1>11

\* A read that fails for good, whatever has become of the records.
LEMMA FatalKeeps ==
    ASSUME Ipc!IpcConstants, IpcInv, NEW d \in Ipc!Directions, Ipc!Fatal(d), UNCHANGED <<lengths, out>>,
           wire' \in [Ipc!Directions -> Seq(Records)],
           \A e \in Ipc!Directions : e # d => wire'[e] = wire[e],
           \A i \in 1 .. Len(wire'[d]) : wire'[d][i].frame \in 1 .. Len(lengths[d])
    PROVE  IpcInv'
<1>1. Ipc!Boundary \in Readings /\ Ipc!Boundary.frame = 0
  BY DEF Ipc!Boundary, Readings, Ipc!IpcConstants
<1>2. in' = [in EXCEPT ![d] = Ipc!Boundary] /\ got' = got
  BY DEF Ipc!Fatal
<1>3. /\ open' \in [{"client", "worker"} -> BOOLEAN] /\ reading' \in BOOLEAN /\ stopping' \in BOOLEAN
      /\ OnlyCloses /\ ~Watched(d)'
  BY DEF Ipc!Fatal, Ipc!DropTransport, IpcInv, IpcTyped, OnlyCloses, Watched, Ipc!Reader, Ipc!Directions
<1>4. IpcTyped'
  BY <1>1, <1>2, <1>3 DEF IpcInv, IpcTyped
<1>5. \A e \in Ipc!Directions : e # d => Untouched(e)
  BY <1>2 DEF Untouched, IpcInv, IpcTyped
<1>6. WriterAt(d)'
  BY DEF IpcInv, Sound, WriterAt
<1>7. in'[d] = Ipc!Boundary /\ Len(lengths[d]) \in Nat
  BY <1>2 DEF IpcInv, IpcTyped
<1>8. Begun(d)'
  BY <1>1, <1>2, <1>7 DEF IpcInv, Sound, Begun
<1>9. IpcHandedOn(d)'
  BY <1>2, <1>3 DEF IpcInv, Sound, IpcHandedOn, OnlyCloses
<1>10. Sound(d)'
  BY <1>3, <1>6, <1>8, <1>9 DEF Sound
<1>11. QED
  BY <1>3, <1>4, <1>5, <1>10, Together

\* The record at the head is taken, as a part of its frame that goes on or as
\* the last part.
Goes(d, rec) ==
    /\ in'[d].part = "payload" /\ in'[d].whole /\ in'[d].frame = rec.frame
    /\ HeaderBytes <= in'[d].at /\ in'[d].at = rec.from + rec.size
    /\ in'[d].need \in Nat /\ in'[d].need > 0
    /\ in'[d].at + in'[d].need = HeaderBytes + lengths[d][rec.frame]
    /\ got'[d] = got[d]
Ends(d, rec) ==
    /\ Complete(lengths[d], rec) /\ in'[d] = Ipc!Boundary
    /\ got'[d] = Append(got[d], [frame |-> rec.frame, whole |-> TRUE])

LEMMA TailLast ==
    ASSUME NEW s \in Seq(Records), Len(s) > 1
    PROVE  Len(Tail(s)) > 0 /\ Tail(s)[Len(Tail(s))] = s[Len(s)]
<1>1. Len(s) \in Nat
  BY LenProperties
<1>2. Len(Tail(s)) = Len(s) - 1
  BY HeadTailProperties
<1>3. \A i \in 1 .. Len(Tail(s)) : Tail(s)[i] = s[i + 1]
  BY HeadTailProperties
<1>4. Len(s) - 1 \in 1 .. Len(Tail(s)) /\ (Len(s) - 1) + 1 = Len(s)
  BY <1>1, <1>2
<1>5. QED
  BY <1>1, <1>2, <1>3, <1>4

LEMMA StreamTail ==
    ASSUME Ipc!IpcConstants, IpcInv, NEW d \in Ipc!Directions, Len(wire[d]) > 0,
           wire'[d] = Tail(wire[d]), out'[d] = out[d]
    PROVE  Stream(d) \in Seq(Records) /\ Len(Stream(d)) > 0 /\ Stream(d)[1] = wire[d][1]
           /\ Stream(d)' = Tail(Stream(d))
<1>1. wire[d] \in Seq(Records) /\ Len(wire[d]) \in Nat
  BY DEF IpcInv, IpcTyped
<1>2. CASE out[d] = Ipc!Idle
  BY <1>1, <1>2 DEF Stream
<1>3. CASE out[d] # Ipc!Idle
  <2> DEFINE x == NextRecord(d)
             s == wire[d]
  <2>1. x \in Records /\ NextRecord(d)' = x
    BY <1>3, NextPiece DEF NextRecord
  <2>2. Stream(d) = Append(s, x) /\ Stream(d)' = Append(Tail(s), x)
    BY <1>3, <2>1 DEF Stream
  <2> HIDE DEF x
  <2>3. Append(s, x) \in Seq(Records) /\ Len(Append(s, x)) > 0 /\ Append(s, x)[1] = s[1]
    BY <1>1, <2>1
  <2>4. Tail(Append(s, x)) = Append(Tail(s), x)
    <3>1. /\ Tail(Append(s, x)) \in Seq(Records) /\ Append(Tail(s), x) \in Seq(Records)
          /\ Len(Tail(Append(s, x))) = Len(s) /\ Len(Append(Tail(s), x)) = Len(s)
      BY <1>1, <2>1
    <3>2. \A i \in 1 .. Len(s) : Tail(Append(s, x))[i] = Append(Tail(s), x)[i]
      BY <1>1, <2>1
    <3>3. QED
      BY <3>1, <3>2, SeqEqual
  <2>5. QED
    BY <2>2, <2>3, <2>4
<1>4. QED
  BY <1>2, <1>3

LEMMA TakesInStep ==
    ASSUME Ipc!IpcConstants, IpcInv, NEW d \in Ipc!Directions, InStep(d), Len(wire[d]) > 0,
           wire'[d] = Tail(wire[d]), out'[d] = out[d], lengths'[d] = lengths[d],
           UNCHANGED <<open, stopping>>,
           Newer(d, wire[d][1].frame),
           Goes(d, wire[d][1]) \/ Ends(d, wire[d][1])
    PROVE  InStep(d)' /\ IpcHandedOn(d)'
<1> DEFINE L == lengths[d]
           s == wire[d]
           S == Stream(d)
           rec == wire[d][1]
<1>1. /\ L \in Seq(Nat) /\ s \in Seq(Records) /\ Len(s) \in Nat /\ HeaderBytes \in Nat
           /\ HeaderBytes > 0
  BY DEF IpcInv, IpcTyped, Ipc!IpcConstants
<1>2. S \in Seq(Records) /\ Len(S) > 0 /\ S[1] = rec /\ Stream(d)' = Tail(S)
  BY StreamTail
<1> HIDE DEF S
<1>3. /\ Unbroken(L, Tail(S)) /\ Piece(L, rec) /\ Tail(S) \in Seq(Records)
      /\ Len(Tail(S)) > 0 => Follows(L, rec, Tail(S)[1]) /\ Piece(L, Tail(S)[1])
  BY <1>1, <1>2, UnbrokenTail DEF InStep, S
<1>4. rec.frame \in 1 .. Len(L) /\ L[rec.frame] \in Nat /\ rec.from \in Nat /\ rec.size \in Nat
  <2>1. rec \in Records /\ rec.frame \in 1 .. Len(L)
    BY <1>3 DEF Piece
  <2>2. QED
    BY <1>1, <2>1, ElementOfSeq DEF Records
<1>5. Ipc!Boundary.part = "header"
  BY DEF Ipc!Boundary
<1>6. CASE Goes(d, rec)
  <2>1. ~Complete(L, rec)
    <3>1. PICK a \in Nat : a = rec.from + rec.size
      BY <1>4
    <3>2. PICK m \in Nat : m > 0 /\ a + m = HeaderBytes + L[rec.frame]
      BY <1>6, <3>1 DEF Goes
    <3>3. a # HeaderBytes + L[rec.frame]
      BY <3>2
    <3>4. QED
      BY <3>1, <3>3 DEF Complete
  <2>2. ReaderAt(d)'
    BY <1>4, <1>6 DEF Goes, ReaderAt, Newer
  <2>3. in'[d] # Ipc!Boundary
    BY <1>5, <1>6 DEF Goes
  <2>4. (Len(Stream(d)) > 0 => Meets(d, Stream(d)[1]))'
    BY <1>2, <1>3, <1>6, <2>1, <2>3 DEF Goes, Meets, Follows
  <2>5. open[Ipc!Writer(d)] /\ out[d] = Ipc!Idle => Len(Tail(s)) > 0 /\ Complete(L,
          Tail(s)[Len(Tail(s))])
    <3> SUFFICES ASSUME open[Ipc!Writer(d)], out[d] = Ipc!Idle
                 PROVE  Len(Tail(s)) > 0 /\ Complete(L, Tail(s)[Len(Tail(s))])
      OBVIOUS
    <3>1. Complete(L, s[Len(s)])
      BY DEF InStep
    <3>2. Len(s) # 1
      BY <2>1, <3>1
    <3>3. Len(Tail(s)) > 0 /\ Tail(s)[Len(Tail(s))] = s[Len(s)]
      <4>1. Len(s) > 1
        <5>1. PICK k \in Nat : k = Len(s)
          BY <1>1
        <5>2. k > 0 /\ k # 1
          BY <3>2, <5>1
        <5>3. k > 1
          BY <5>2
        <5>4. QED
          BY <5>1, <5>3
      <4>2. QED
        BY <1>1, <4>1, TailLast
    <3>4. QED
      BY <3>1, <3>3
  <2>6. InStep(d)'
    BY <1>2, <1>3, <2>2, <2>4, <2>5 DEF InStep
  <2>7. IpcHandedOn(d)'
    BY <1>6 DEF Goes, IpcInv, Sound, IpcHandedOn
  <2>8. QED
    BY <2>6, <2>7
<1>7. CASE Ends(d, rec)
  <2> DEFINE g == [frame |-> rec.frame, whole |-> TRUE]
  <2>1. /\ got[d] \in Seq([frame : Nat, whole : BOOLEAN]) /\ Len(got[d]) \in Nat
        /\ \A i \in 1 .. Len(got[d]) : got[d][i].frame \in Nat
        /\ g \in [frame : Nat, whole : BOOLEAN] /\ got'[d] = Append(got[d], g)
    BY <1>4, <1>7, GotTyped DEF Ends, IpcInv
  <2>2. /\ Len(got'[d]) = Len(got[d]) + 1 /\ got'[d][Len(got[d]) + 1] = g
        /\ \A i \in 1 .. Len(got[d]) : got'[d][i] = got[d][i]
    BY <2>1
  <2>3. \A i \in 1 .. Len(got'[d]) : got'[d][i].frame \in Nat /\ got'[d][i].frame <= rec.frame
    <3> SUFFICES ASSUME NEW i \in 1 .. Len(got'[d])
                 PROVE  got'[d][i].frame \in Nat /\ got'[d][i].frame <= rec.frame
      OBVIOUS
    <3>1. CASE i = Len(got[d]) + 1
      BY <1>4, <2>2, <3>1
    <3>2. CASE i \in 1 .. Len(got[d])
      <4>1. got'[d][i] = got[d][i] /\ got[d][i].frame \in Nat /\ got[d][i].frame < rec.frame
        BY <2>1, <2>2, <3>2 DEF Newer
      <4>2. QED
        BY <1>4, <4>1
    <3>3. QED
      BY <2>1, <2>2, <3>1, <3>2
  <2>4. IpcHandedOn(d)'
    <3> SUFFICES ASSUME d = "down" => ~stopping, NEW i \in 1 .. Len(got'[d])
                 PROVE  got'[d][i].whole /\ \A j \in 1 .. i - 1 : got'[d][j].frame < got'[d][i].frame
      BY DEF IpcHandedOn
    <3>1. CASE i = Len(got[d]) + 1
      BY <2>1, <2>2, <3>1 DEF Newer
    <3>2. CASE i \in 1 .. Len(got[d])
      <4>1. got[d][i].whole /\ \A j \in 1 .. i - 1 : got[d][j].frame < got[d][i].frame
        BY <3>2 DEF IpcInv, Sound, IpcHandedOn
      <4>2. \A j \in 1 .. i - 1 : j \in 1 .. Len(got[d])
        BY <2>1, <3>2
      <4>3. got'[d][i] = got[d][i] /\ \A j \in 1 .. i - 1 : got'[d][j] = got[d][j]
        BY <2>2, <3>2, <4>2
      <4>4. QED
        BY <4>1, <4>3
    <3>3. i = Len(got[d]) + 1 \/ i \in 1 .. Len(got[d])
      BY <2>1, <2>2
    <3>4. QED
      BY <3>1, <3>2, <3>3
  <2>5. in'[d] = Ipc!Boundary
    BY <1>7 DEF Ends
  <2>6. (Len(Stream(d)) > 0 => Meets(d, Stream(d)[1]))'
    <3> DEFINE t == Tail(S)[1]
    <3> SUFFICES ASSUME Len(Tail(S)) > 0 PROVE Meets(d, Stream(d)[1])'
      BY <1>2
    <3>1. Follows(L, rec, t) /\ Piece(L, t)
      BY <1>3
    <3>2. t.from \in Nat /\ t.size \in Nat /\ t.frame \in Nat
      BY <3>1 DEF Piece, Records
    <3>3. ~(t.frame = rec.frame /\ t.from = rec.from + rec.size)
      <4>1. rec.from + rec.size = HeaderBytes + L[rec.frame]
        BY <1>7 DEF Ends, Complete
      <4>2. QED
        <5> SUFFICES ASSUME t.frame = rec.frame, t.from = HeaderBytes + L[rec.frame] PROVE FALSE
          BY <4>1
        <5>1. PICK c \in Nat : c = HeaderBytes + L[rec.frame] /\ c > 0
          <6>1. PICK b \in Nat : b = L[rec.frame]
            BY <1>4
          <6>2. HeaderBytes + b \in Nat /\ HeaderBytes + b > 0
            BY SMTT(30), <1>1
          <6>3. QED
            BY <6>1, <6>2
        <5>2. t.from = c /\ c # 0
          BY <5>1
        <5>3. PICK z \in Nat : t.size = z /\ z > 0 /\ c + z <= c
          BY <3>1, <3>2, <5>1, <5>2 DEF Piece
        <5>4. QED
          BY <5>1, <5>3
    <3>4. t.frame > rec.frame /\ t.from \in {0, HeaderBytes}
      BY <3>1, <3>3 DEF Follows
    <3>5. \A i \in 1 .. Len(got'[d]) : got'[d][i].frame < t.frame
      BY SMTT(30), <1>4, <2>3, <3>2, <3>4
    <3>6. Stream(d)'[1] = t
      BY <1>2
    <3>7. QED
      BY <2>5, <3>4, <3>5, <3>6 DEF Meets, Newer
  <2>7. open[Ipc!Writer(d)] /\ out[d] = Ipc!Idle /\ Len(Tail(s)) # 0 => Complete(L,
          Tail(s)[Len(Tail(s))])
    <3> SUFFICES ASSUME open[Ipc!Writer(d)], out[d] = Ipc!Idle, Len(Tail(s)) # 0
                 PROVE  Complete(L, Tail(s)[Len(Tail(s))])
      OBVIOUS
    <3>1. Complete(L, s[Len(s)])
      BY DEF InStep
    <3>2. Tail(s)[Len(Tail(s))] = s[Len(s)]
      <4>1. Len(Tail(s)) = Len(s) - 1
        BY <1>1
      <4>2. Len(s) > 1
        <5>1. PICK k \in Nat : k = Len(s)
          BY <1>1
        <5>2. k > 0 /\ k - 1 # 0
          BY <4>1, <5>1
        <5>3. k > 1
          BY <5>2
        <5>4. QED
          BY <5>1, <5>3
      <4>3. QED
        BY <1>1, <4>2, TailLast
    <3>3. QED
      BY <3>1, <3>2
  <2>8. InStep(d)'
    BY <1>2, <1>3, <2>5, <2>6, <2>7 DEF InStep, ReaderAt
  <2>9. QED
    BY <2>4, <2>8
<1>8. QED
  BY <1>6, <1>7

\* A receive that goes on or hands a frame on: only the direction it reads
\* changes, and not its writer's side.
LEMMA TakesKeeps ==
    ASSUME Ipc!IpcConstants, IpcInv, NEW d \in Ipc!Directions, UNCHANGED <<lengths, out, open, reading,
             stopping>>,
           wire' \in [Ipc!Directions -> Seq(Records)],
           \A e \in Ipc!Directions : e # d => wire'[e] = wire[e],
           \A i \in 1 .. Len(wire'[d]) : wire'[d][i].frame \in 1 .. Len(lengths[d]),
           NEW pay \in Readings, in' = [in EXCEPT ![d] = pay], pay.frame <= Len(lengths[d]),
           NEW g \in Seq([frame : Nat, whole : BOOLEAN]), got' = [got EXCEPT ![d] = g],
           \A i \in 1 .. Len(g) : g[i].frame <= Len(lengths[d]),
           Watched(d) => IpcHandedOn(d)' /\ (Spoiled(d)' \/ InStep(d)'),
           Watched(d) \/ (d = "down" /\ stopping)
    PROVE  IpcInv'
<1>1. IpcTyped'
  BY DEF IpcInv, IpcTyped
<1>2. OnlyCloses /\ \A e \in Ipc!Directions : e # d => Untouched(e)
  BY DEF OnlyCloses, Untouched, IpcInv, IpcTyped
<1>3. in'[d] = pay /\ got'[d] = g
  BY DEF IpcInv, IpcTyped
<1>4. WriterAt(d)'
  BY DEF IpcInv, Sound, WriterAt
<1>5. Begun(d)'
  BY <1>3 DEF Begun
<1>6. IpcHandedOn(d)'
  BY DEF IpcHandedOn
<1>7. Watched(d)' => Watched(d)
  BY DEF Watched
<1>8. Sound(d)'
  BY <1>4, <1>5, <1>6, <1>7 DEF Sound
<1>9. QED
  BY <1>1, <1>2, <1>8, Together

\* What is known after a piece, by its fields.
LEMMA AssembleKeeps ==
    ASSUME Ipc!IpcConstants, IpcInv, NEW d \in Ipc!Directions, UNCHANGED <<lengths, out>>,
             Ipc!MayRead(d),
           wire' \in [Ipc!Directions -> Seq(Records)], Len(wire[d]) > 0,
           \A e \in Ipc!Directions : e # d => wire'[e] = wire[e],
           \A i \in 1 .. Len(wire'[d]) : wire'[d][i].frame \in 1 .. Len(lengths[d]),
           NEW n \in Nat, n <= in[d].need, n <= wire[d][1].size,
           \/ n = wire[d][1].size /\ wire'[d] = Tail(wire[d])
           \/ n = in[d].need /\ n < wire[d][1].size,
           NEW f \in Nat, f \in {wire[d][1].frame, in[d].frame},
           in[d].part = "header" /\ in[d].need = HeaderBytes => f = wire[d][1].frame,
           ~(in[d].part = "header" /\ in[d].need = HeaderBytes) => f = in[d].frame,
           NEW r \in Readings, r.part = in[d].part, r.frame = f, r.at = wire[d][1].from + n,
           r.need = in[d].need - n,
           r.whole <=> in[d].whole /\ wire[d][1].frame = f /\ wire[d][1].from = in[d].at,
           Ipc!Assemble(d, r)
    PROVE  IpcInv'
<1> DEFINE L == lengths[d]
           rec == wire[d][1]
<1>1. /\ L \in Seq(Nat) /\ Len(L) \in Nat /\ wire[d] \in Seq(Records) /\ in[d] \in Readings
      /\ HeaderBytes \in Nat /\ HeaderBytes > 0
  BY DEF IpcInv, IpcTyped, Ipc!IpcConstants
<1>2. rec \in Records /\ rec.frame \in 1 .. Len(L) /\ in[d].frame <= Len(L)
  BY <1>1, ElementOfSeq DEF IpcInv, Sound, Begun
<1>3. r.frame <= Len(L) /\ r.need \in Nat
  BY <1>2 DEF Readings
<1>4. Watched(d) \/ (d = "down" /\ stopping)
  BY DEF Ipc!MayRead, Watched, Ipc!Directions, IpcInv, IpcTyped
<1>5. /\ got[d] \in Seq([frame : Nat, whole : BOOLEAN])
      /\ \A i \in 1 .. Len(got[d]) : got[d][i].frame <= Len(L)
      /\ got = [got EXCEPT ![d] = got[d]]
  BY DEF IpcInv, IpcTyped, Sound, Begun
<1>6. Ipc!Boundary \in Readings /\ Ipc!Boundary.frame = 0 /\ Ipc!Boundary.part = "header"
      /\ Ipc!Boundary.need = HeaderBytes /\ Ipc!Boundary.whole /\ Ipc!Boundary.at = 0
  BY <1>1 DEF Ipc!Boundary, Readings
<1>7. in'[d] = r => (r.part = "header" /\ ~r.whole /\ r.need < HeaderBytes => Spoiled(d)')
  BY DEF Spoiled
<1>8. /\ rec.from \in Nat /\ rec.size \in Nat /\ rec.frame \in Nat /\ in[d].need \in Nat
      /\ in[d].at \in Nat /\ L[rec.frame] \in Nat
  BY <1>1, <1>2, ElementOfSeq DEF Records, Readings
<1>9. ASSUME Watched(d), InStep(d)
      PROVE  /\ Piece(L, rec) /\ Meets(d, rec) /\ ReaderAt(d)
             /\ in[d] = Ipc!Boundary => f = rec.frame /\ (rec.from = 0 \/ ~r.whole)
             /\ in[d] = Ipc!Boundary /\ rec.from = 0 => r.whole /\ r.need = 0 /\ n = HeaderBytes
             /\ in[d] # Ipc!Boundary => f = rec.frame /\ r.whole /\ r.part = "payload"
             /\ Newer(d, rec.frame)
             /\ in[d] # Ipc!Boundary \/ rec.from = 0 => n = rec.size /\ wire'[d] = Tail(wire[d])
  <2>1. Stream(d)[1] = rec /\ Len(Stream(d)) > 0
    <3>1. CASE out[d] = Ipc!Idle
      BY <3>1 DEF Stream
    <3>2. CASE out[d] # Ipc!Idle
      <4>1. NextRecord(d) \in Records /\ Stream(d) = Append(wire[d], NextRecord(d))
        BY <3>2, NextPiece DEF Stream
      <4>2. Len(wire[d]) \in Nat
        BY <1>1
      <4>3. QED
        BY <1>1, <4>1, <4>2, UnbrokenAppend
    <3>3. QED
      BY <3>1, <3>2
  <2>2. Stream(d) \in Seq(Records)
    <3>1. CASE out[d] = Ipc!Idle
      BY <1>1, <3>1 DEF Stream
    <3>2. CASE out[d] # Ipc!Idle
      BY <1>1, <3>2, NextPiece, UnbrokenAppend DEF Stream
    <3>3. QED
      BY <3>1, <3>2
  <2>3. Piece(L, rec) /\ Meets(d, rec) /\ ReaderAt(d)
    BY <1>1, <1>9, <2>1, <2>2, UnbrokenTail DEF InStep
  <2>4. CASE in[d] = Ipc!Boundary
    <3>1. f = rec.frame /\ Newer(d, rec.frame) /\ rec.from \in {0, HeaderBytes}
      BY <1>6, <2>3, <2>4 DEF Meets
    <3>2. r.whole <=> rec.from = 0
      BY <1>6, <2>4, <3>1
    <3>3. ASSUME rec.from = 0
          PROVE  n = HeaderBytes /\ r.need = 0 /\ n = rec.size /\ wire'[d] = Tail(wire[d])
      <4>1. rec.size = HeaderBytes
        BY <1>1, <2>3, <3>3 DEF Piece
      <4>2. QED
        BY <1>1, <1>6, <2>4, <4>1
    <3>4. QED
      BY <2>3, <2>4, <3>1, <3>2, <3>3
  <2>5. CASE in[d] # Ipc!Boundary
    <3>1. /\ in[d].part = "payload" /\ in[d].whole /\ Newer(d, in[d].frame)
          /\ in[d].at + in[d].need = HeaderBytes + L[in[d].frame] /\ HeaderBytes <= in[d].at
      BY <2>3, <2>5 DEF ReaderAt
    <3>2. rec.frame = in[d].frame /\ rec.from = in[d].at
      BY <2>3, <2>5 DEF Meets
    <3>3. rec.from + rec.size <= rec.from + in[d].need
      BY <1>1, <1>8, <2>3, <3>1, <3>2 DEF Piece
    <3>4. rec.size <= in[d].need
      BY SMTT(30), <1>8, <3>3
    <3>5. n = rec.size /\ wire'[d] = Tail(wire[d])
      BY <1>8, <3>4
    <3>6. QED
      BY <2>3, <2>5, <3>1, <3>2, <3>5
  <2>6. QED
    BY <2>4, <2>5
<1>10. CASE r.need > 0 /\ in' = [in EXCEPT ![d] = r] /\ UNCHANGED <<open, reading, stopping, got>>
  <2>1. in'[d] = r /\ got'[d] = got[d]
    BY <1>10 DEF IpcInv, IpcTyped
  <2>2. ASSUME Watched(d)
        PROVE  IpcHandedOn(d)' /\ (Spoiled(d)' \/ InStep(d)')
    <3>1. IpcHandedOn(d)'
      BY <1>10, <2>1 DEF IpcInv, Sound, IpcHandedOn
    <3>2. CASE Spoiled(d)
      <4>1. r.need < HeaderBytes
        BY <1>1, <1>8, <3>2 DEF Spoiled
      <4>2. QED
        BY <1>7, <2>1, <3>1, <3>2, <4>1 DEF Spoiled
    <3>3. CASE InStep(d) /\ in[d] = Ipc!Boundary
      <4>1. ~r.whole /\ r.part = "header"
        BY <1>1, <1>6, <1>9, <1>10, <2>2, <3>3
      <4>2. rec.size > 0
        BY <1>1, <1>8, <1>9, <2>2, <3>3 DEF Piece
      <4>3. n > 0
        BY <1>1, <1>6, <1>8, <3>3, <4>2
      <4>4. r.need < HeaderBytes
        BY <1>1, <1>6, <3>3, <4>3
      <4>5. QED
        BY <1>7, <2>1, <3>1, <4>1, <4>4
    <3>4. CASE InStep(d) /\ in[d] # Ipc!Boundary
      <4>1. /\ f = rec.frame /\ r.whole /\ r.part = "payload" /\ Newer(d, rec.frame)
            /\ n = rec.size /\ wire'[d] = Tail(wire[d]) /\ rec.from = in[d].at
            /\ rec.frame = in[d].frame /\ HeaderBytes <= in[d].at
            /\ in[d].at + in[d].need = HeaderBytes + L[rec.frame]
        BY <1>9, <2>2, <3>4 DEF Meets, ReaderAt
      <4>2. r.at = rec.from + rec.size /\ r.at + r.need = HeaderBytes + L[rec.frame]
              /\ HeaderBytes <= r.at
        <5>1. PICK a \in Nat, b \in Nat, c \in Nat :
                 a = in[d].at /\ b = in[d].need /\ c = HeaderBytes + L[rec.frame]
          <6>1. PICK l \in Nat : l = L[rec.frame]
            BY <1>8
          <6>2. HeaderBytes + l \in Nat
            BY <1>1
          <6>3. QED
            BY <1>8, <6>1, <6>2
        <5>2. a + b = c /\ r.at = a + n /\ r.need = b - n /\ HeaderBytes <= a
          BY <4>1, <5>1
        <5>3. (a + n) + (b - n) = c /\ HeaderBytes <= a + n
          BY <1>1, <5>2
        <5>4. QED
          BY <4>1, <5>1, <5>2, <5>3
      <4>3. Goes(d, rec)
        BY <1>3, <1>10, <2>1, <4>1, <4>2 DEF Goes
      <4>4. QED
        BY <1>10, <3>4, <4>1, <4>3, TakesInStep
    <3>5. QED
      BY <2>2, <3>2, <3>3, <3>4 DEF IpcInv, Sound
  <2>3. got' = [got EXCEPT ![d] = got[d]]
    BY <1>5, <1>10
  <2>4. QED
    BY <1>3, <1>4, <1>5, <1>10, <2>2, <2>3, TakesKeeps
<1>11. CASE Ipc!Fatal(d)
  BY <1>11, FatalKeeps
<1>12. CASE /\ r.need = 0 /\ r.part = "header" /\ r.whole /\ L[r.frame] > 0
            /\ in' = [in EXCEPT ![d] = [r EXCEPT !.part = "payload", !.need = L[r.frame]]]
            /\ UNCHANGED <<open, reading, stopping, got>>
  <2> DEFINE pay == [r EXCEPT !.part = "payload", !.need = L[r.frame]]
  <2>1. f = rec.frame /\ r.frame = rec.frame
    BY <1>12
  <2>2. /\ pay \in Readings /\ pay.part = "payload" /\ pay.need = L[rec.frame] /\ pay.frame = rec.frame
        /\ pay.at = r.at /\ pay.whole
    BY <1>8, <1>12, <2>1 DEF Readings
  <2> HIDE DEF pay
  <2>3. in'[d] = pay /\ got'[d] = got[d] /\ in' = [in EXCEPT ![d] = pay]
    BY <1>12 DEF IpcInv, IpcTyped, pay
  <2>4. ASSUME Watched(d)
        PROVE  IpcHandedOn(d)' /\ (Spoiled(d)' \/ InStep(d)')
    <3>1. in[d] = Ipc!Boundary /\ rec.from = 0 /\ InStep(d)
      BY <1>9, <1>12, <2>4 DEF IpcInv, Sound, Spoiled
    <3>2. n = HeaderBytes /\ n = rec.size /\ wire'[d] = Tail(wire[d]) /\ Newer(d, rec.frame)
      BY <1>9, <2>4, <3>1
    <3>3. r.at = HeaderBytes
      BY <1>1, <3>1, <3>2
    <3>4. Goes(d, rec)
      BY <1>1, <1>8, <1>12, <2>1, <2>2, <2>3, <3>1, <3>2, <3>3 DEF Goes
    <3>5. QED
      BY <1>12, <3>1, <3>2, <3>4, TakesInStep
  <2>5. got' = [got EXCEPT ![d] = got[d]]
    BY <1>5, <1>12
  <2>6. pay.frame <= Len(L)
    BY <1>2, <2>2
  <2>7. QED
    BY ZenonT(60), <1>4, <1>5, <1>12, <2>2, <2>3, <2>4, <2>5, <2>6, TakesKeeps
<1>13. CASE /\ Ipc!HandOn(d, r)
            /\ ~(r.need > 0)
            /\ ~(r.need = 0 /\ r.part = "header" /\ ~r.whole)
            /\ ~(r.need = 0 /\ r.part = "header" /\ r.whole /\ L[r.frame] > 0)
  <2> DEFINE x == [frame |-> r.frame, whole |-> r.whole]
             g == Append(got[d], x)
  <2>1. /\ got' = [got EXCEPT ![d] = g] /\ in' = [in EXCEPT ![d] = Ipc!Boundary]
        /\ UNCHANGED <<open, reading, stopping>> /\ r.need = 0
    BY <1>3, <1>13 DEF Ipc!HandOn
  <2>2. x \in [frame : Nat, whole : BOOLEAN] /\ x.frame <= Len(L)
    BY <1>3 DEF Readings
  <2> HIDE DEF x
  <2>3. /\ g \in Seq([frame : Nat, whole : BOOLEAN]) /\ Len(g) = Len(got[d]) + 1
        /\ g[Len(got[d]) + 1] = x /\ \A i \in 1 .. Len(got[d]) : g[i] = got[d][i]
    BY <1>5, <2>2
  <2>4. \A i \in 1 .. Len(g) : g[i].frame <= Len(L)
    <3> SUFFICES ASSUME NEW i \in 1 .. Len(g) PROVE g[i].frame <= Len(L)
      OBVIOUS
    <3>1. i = Len(got[d]) + 1 \/ i \in 1 .. Len(got[d])
      BY <1>5, <2>3, LenProperties
    <3>2. QED
      BY <1>5, <2>2, <2>3, <3>1
  <2>5. in'[d] = Ipc!Boundary /\ got'[d] = g
    BY <2>1 DEF IpcInv, IpcTyped
  <2>6. ASSUME Watched(d)
        PROVE  IpcHandedOn(d)' /\ (Spoiled(d)' \/ InStep(d)')
    <3>1. InStep(d)
      BY <1>3, <1>13, <2>1, <2>6 DEF IpcInv, Sound, Spoiled
    <3>2. CASE in[d] = Ipc!Boundary
      <4>1. rec.from = 0 /\ r.whole /\ f = rec.frame /\ L[r.frame] = 0
        BY SMTT(30), <1>6, <1>8, <1>9, <1>13, <2>1, <2>6, <3>1, <3>2
      <4>2. n = HeaderBytes /\ n = rec.size /\ wire'[d] = Tail(wire[d]) /\ Newer(d, rec.frame)
        BY <1>9, <2>6, <3>1, <3>2, <4>1
      <4>3. Complete(L, rec)
        BY <1>1, <4>1, <4>2 DEF Complete
      <4>4. Ends(d, rec)
        BY <2>5, <4>1, <4>3 DEF Ends, x
      <4>5. QED
        BY <2>1, <3>1, <4>2, <4>4, TakesInStep
    <3>3. CASE in[d] # Ipc!Boundary
      <4>1. /\ f = rec.frame /\ r.whole /\ r.part = "payload" /\ Newer(d, rec.frame)
            /\ n = rec.size /\ wire'[d] = Tail(wire[d]) /\ rec.from = in[d].at
            /\ in[d].at + in[d].need = HeaderBytes + L[rec.frame]
        BY <1>9, <2>6, <3>1, <3>3 DEF Meets, ReaderAt
      <4>2. rec.size = in[d].need
        BY <1>8, <2>1, <4>1
      <4>3. Complete(L, rec)
        BY <4>1, <4>2 DEF Complete
      <4>4. Ends(d, rec)
        BY <2>5, <4>1, <4>3 DEF Ends, x
      <4>5. QED
        BY <2>1, <3>1, <4>1, <4>4, TakesInStep
    <3>4. QED
      BY <3>2, <3>3
  <2>7. Ipc!Boundary.frame <= Len(L)
    BY <1>1, <1>6
  <2>8. QED
    BY <1>4, <1>6, <2>1, <2>3, <2>4, <2>6, <2>7, TakesKeeps
<1>14. QED
  BY <1>10, <1>11, <1>12, <1>13 DEF Ipc!Assemble

LEMMA ReceiveKeeps ==
    ASSUME Ipc!IpcConstants, IpcInv, NEW d \in Ipc!Directions, Ipc!Receive(d)
    PROVE  IpcInv'
<1> DEFINE rec == wire[d][1]
           n == IF rec.size < Ipc!Asked(d) THEN rec.size ELSE Ipc!Asked(d)
           first == in[d].part = "header" /\ in[d].need = HeaderBytes
           f == IF first THEN rec.frame ELSE in[d].frame
           r == [in[d] EXCEPT !.frame = f, !.at = rec.from + n, !.need = @ - n,
                              !.whole = @ /\ rec.frame = f /\ rec.from = in[d].at]
<1>1. /\ wire[d] \in Seq(Records) /\ Len(wire[d]) \in Nat /\ Len(wire[d]) > 0 /\ in[d] \in Readings
      /\ Head(wire[d]) = rec
  BY DEF Ipc!Receive, IpcInv, IpcTyped
<1>2. rec \in Records
  BY <1>1
<1>3. /\ Ipc!MayRead(d) /\ UNCHANGED <<lengths, out>>
      /\ IF rec.size <= Ipc!Asked(d)
         THEN wire' = [wire EXCEPT ![d] = Tail(@)] /\ Ipc!Assemble(d, r)
         ELSE IF keeps
         THEN wire' = [wire EXCEPT ![d] = Ipc!RestKept(d, n)] /\ Ipc!Assemble(d, r)
         ELSE wire' = [wire EXCEPT ![d] = Tail(@)] /\ Ipc!Fatal(d)
  BY <1>1 DEF Ipc!Receive
<1>4. /\ rec.size \in Nat /\ rec.from \in Nat /\ rec.frame \in Nat /\ in[d].need \in Nat
      /\ in[d].frame \in Nat /\ Ipc!Asked(d) = in[d].need
  BY <1>1, <1>2 DEF Records, Readings, Ipc!Asked
<1>5. /\ n \in Nat /\ n <= in[d].need /\ n <= rec.size /\ rec.from + n \in Nat /\ in[d].need - n \in Nat
      /\ rec.size <= Ipc!Asked(d) => n = rec.size
      /\ ~(rec.size <= Ipc!Asked(d)) => n = in[d].need /\ n < rec.size
  BY <1>4
<1>6. f \in Nat /\ f \in {rec.frame, in[d].frame} /\ (first => f = rec.frame) /\ (~first
        => f = in[d].frame)
  BY <1>4
<1> HIDE DEF n, f
<1>7. /\ r \in Readings /\ r.part = in[d].part /\ r.frame = f /\ r.at = rec.from + n
      /\ r.need = in[d].need - n
      /\ r.whole <=> in[d].whole /\ rec.frame = f /\ rec.from = in[d].at
  <2>1. (in[d].whole /\ rec.frame = f /\ rec.from = in[d].at) \in BOOLEAN
    BY <1>1 DEF Readings
  <2>2. QED
    BY <1>1, <1>5, <1>6, <2>1 DEF Readings
<1> HIDE DEF r
<1>8. /\ Tail(wire[d]) \in Seq(Records)
      /\ \A i \in 1 .. Len(Tail(wire[d])) : Tail(wire[d])[i].frame \in 1 .. Len(lengths[d])
  <2>1. /\ Tail(wire[d]) \in Seq(Records) /\ Len(Tail(wire[d])) = Len(wire[d]) - 1
        /\ \A i \in 1 .. Len(Tail(wire[d])) : Tail(wire[d])[i] = wire[d][i + 1]
    BY <1>1
  <2>2. \A i \in 1 .. Len(wire[d]) : wire[d][i].frame \in 1 .. Len(lengths[d])
    BY DEF IpcInv, Sound, Begun
  <2>3. \A i \in 1 .. Len(Tail(wire[d])) : i + 1 \in 1 .. Len(wire[d])
    BY <1>1, <2>1
  <2>4. QED
    BY <2>1, <2>2, <2>3
<1>9. ASSUME wire' = [wire EXCEPT ![d] = Tail(@)]
      PROVE  /\ wire' \in [Ipc!Directions -> Seq(Records)] /\ wire'[d] = Tail(wire[d])
             /\ \A e \in Ipc!Directions : e # d => wire'[e] = wire[e]
  BY <1>8, <1>9 DEF IpcInv, IpcTyped
<1>10. CASE rec.size <= Ipc!Asked(d) /\ wire' = [wire EXCEPT ![d] = Tail(@)] /\ Ipc!Assemble(d, r)
  BY ZenonT(60), <1>1, <1>3, <1>5, <1>6, <1>7, <1>8, <1>9, <1>10, AssembleKeeps
<1>11. CASE wire' = [wire EXCEPT ![d] = Tail(@)] /\ Ipc!Fatal(d)
  BY <1>3, <1>8, <1>9, <1>11, FatalKeeps
<1>12. CASE /\ ~(rec.size <= Ipc!Asked(d))
            /\ wire' = [wire EXCEPT ![d] = Ipc!RestKept(d, n)] /\ Ipc!Assemble(d, r)
  <2> DEFINE z == [rec EXCEPT !.from = @ + n, !.size = @ - n]
             s == Ipc!RestKept(d, n)
  <2>1. z \in Records /\ z.frame = rec.frame
    <3>1. rec.from + n \in Nat /\ rec.size - n \in Nat
      <4>1. PICK a \in Nat : a = rec.size
        BY <1>4
      <4>2. a - n \in Nat
        BY <1>5, <4>1
      <4>3. QED
        BY <1>5, <4>1, <4>2
    <3>2. QED
      BY <1>2, <3>1 DEF Records
  <2>2. s = <<z>> \o Tail(wire[d])
    BY <1>1 DEF Ipc!RestKept
  <2> HIDE DEF z, s
  <2>3. <<z>> \in Seq(Records) /\ Len(<<z>>) = 1 /\ <<z>>[1] = z
    BY <2>1
  <2>4. /\ s \in Seq(Records) /\ Len(s) = 1 + Len(Tail(wire[d])) /\ Len(Tail(wire[d])) \in Nat
        /\ \A i \in 1 .. 1 + Len(Tail(wire[d])) :
              s[i] = IF i <= 1 THEN <<z>>[i] ELSE Tail(wire[d])[i - 1]
    BY <1>8, <2>2, <2>3, ConcatProperties, LenProperties
  <2>5. rec.frame \in 1 .. Len(lengths[d])
    BY <1>1 DEF IpcInv, Sound, Begun
  <2>6. \A i \in 1 .. Len(s) : s[i].frame \in 1 .. Len(lengths[d])
    <3> SUFFICES ASSUME NEW i \in 1 .. Len(s) PROVE s[i].frame \in 1 .. Len(lengths[d])
      OBVIOUS
    <3>1. CASE i = 1
      BY <2>1, <2>3, <2>4, <2>5, <3>1
    <3>2. CASE i # 1
      <4>1. i - 1 \in 1 .. Len(Tail(wire[d])) /\ s[i] = Tail(wire[d])[i - 1]
        BY <2>4, <3>2
      <4>2. QED
        BY <1>8, <4>1
    <3>3. QED
      BY <3>1, <3>2
  <2>7. /\ wire' \in [Ipc!Directions -> Seq(Records)] /\ wire'[d] = s
        /\ \A e \in Ipc!Directions : e # d => wire'[e] = wire[e]
    BY <1>12, <2>4 DEF IpcInv, IpcTyped, s
  <2>8. QED
    BY SMTT(30), <1>1, <1>3, <1>5, <1>6, <1>7, <1>12, <2>6, <2>7, AssembleKeeps
<1>13. QED
  BY <1>3, <1>10, <1>11, <1>12

\* A read that ends without a record.
LEMMA ReadEndsKeeps ==
    ASSUME Ipc!IpcConstants, IpcInv, NEW d \in Ipc!Directions, Ipc!Fatal(d), UNCHANGED <<wire, lengths,
             out>>
    PROVE  IpcInv'
<1>1. /\ wire' \in [Ipc!Directions -> Seq(Records)]
      /\ \A i \in 1 .. Len(wire[d]) : wire[d][i].frame \in 1 .. Len(lengths[d])
  BY DEF IpcInv, IpcTyped, Sound, Begun
<1>2. QED
  BY <1>1, FatalKeeps

\* A step that only closes handles.
LEMMA ClosesKeeps ==
    ASSUME IpcInv, OnlyCloses, open' \in [{"client", "worker"} -> BOOLEAN],
           reading' \in BOOLEAN, stopping' \in BOOLEAN,
           UNCHANGED <<wire, lengths, out, in, got>>
    PROVE  IpcInv'
<1>1. IpcTyped' /\ \A d \in Ipc!Directions : Untouched(d)
  BY DEF IpcInv, IpcTyped, Untouched
<1>2. QED
  BY <1>1, OtherSide DEF IpcInv

LEMMA IpcStep ==
    ASSUME Ipc!IpcConstants, IpcInv, [Ipc!Next]_Ipc!vars
    PROVE  IpcInv'
<1>1. ASSUME NEW d \in Ipc!Directions, NEW k \in {"plain", "control", "shutdown"},
             NEW n \in UNION {Sizes[e] : e \in Ipc!Directions}, Ipc!BeginFrame(d, k, n)
      PROVE  IpcInv'
  BY <1>1, BeginFrameKeeps DEF Ipc!IpcConstants
<1>2. ASSUME NEW d \in Ipc!Directions, Ipc!SendRecord(d) \/ Ipc!SendFails(d) \/ Ipc!Receive(d)
      PROVE  IpcInv'
  BY <1>2, SendRecordKeeps, SendFailsKeeps, ReceiveKeeps
<1>3. ASSUME NEW d \in Ipc!Directions, Ipc!ReadFails(d)
      PROVE  IpcInv'
  BY <1>3, ReadEndsKeeps DEF Ipc!ReadFails
<1>4. CASE Ipc!RestIsLate
  BY <1>4, ReadEndsKeeps DEF Ipc!RestIsLate, Ipc!Directions
<1>5. CASE Ipc!Disconnect
  <2>1. /\ OnlyCloses /\ open' \in [{"client", "worker"} -> BOOLEAN]
        /\ reading' \in BOOLEAN /\ stopping' \in BOOLEAN
    BY <1>5 DEF Ipc!Disconnect, Ipc!DropTransport, OnlyCloses, IpcInv, IpcTyped
  <2>2. QED
    BY <1>5, <2>1, ClosesKeeps DEF Ipc!Disconnect
<1>6. CASE Ipc!WorkerLeaves
  <2>1. /\ OnlyCloses /\ open' \in [{"client", "worker"} -> BOOLEAN]
        /\ reading' \in BOOLEAN /\ stopping' \in BOOLEAN
    BY <1>6 DEF Ipc!WorkerLeaves, OnlyCloses, IpcInv, IpcTyped
  <2>2. QED
    BY <1>6, <2>1, ClosesKeeps DEF Ipc!WorkerLeaves
<1>7. CASE UNCHANGED Ipc!vars
  <2>1. /\ OnlyCloses /\ open' \in [{"client", "worker"} -> BOOLEAN]
        /\ reading' \in BOOLEAN /\ stopping' \in BOOLEAN
    BY <1>7 DEF Ipc!vars, OnlyCloses, IpcInv, IpcTyped
  <2>2. QED
    BY <1>7, <2>1, ClosesKeeps DEF Ipc!vars
<1>8. QED
  BY <1>1, <1>2, <1>3, <1>4, <1>5, <1>6, <1>7 DEF Ipc!Next, Ipc!Waits, Ipc!Finished

\* The inductive invariant of the transport: from the reader to the writer of
\* a direction there is one unbroken stream of records, until the reader has
\* refused a piece or an end is gone.
THEOREM IpcInvariant ==
    ASSUME Ipc!IpcConstants
    PROVE  Ipc!Spec => []IpcInv
<1>1. Ipc!Init => IpcInv
  BY IpcInitially
<1>2. IpcInv /\ [Ipc!Next]_Ipc!vars => IpcInv'
  BY IpcStep
<1>3. QED
  BY <1>1, <1>2, PTL DEF Ipc!Spec

\* For every size of header, record, payload and buffer: the worker is handed
\* whole frames in the order they were written, wherever a write or a read of
\* the client failed, and the client too until the worker's loop is ending.
THEOREM IpcFramesWhole ==
    ASSUME Ipc!IpcConstants
    PROVE  Ipc!Spec => []Ipc!FramesWhole
<1>1. IpcInv => Ipc!FramesWhole
  <2> SUFFICES ASSUME IpcInv PROVE Ipc!FramesWhole
    OBVIOUS
  <2>1. \A d \in Ipc!Directions : DOMAIN got[d] = 1 .. Len(got[d])
    BY GotTyped, LenProperties DEF IpcInv
  <2>2. IpcHandedOn("up") /\ IpcHandedOn("down") /\ stopping \in BOOLEAN
    BY DEF IpcInv, IpcTyped, Sound, Ipc!Directions
  <2>3. QED
    BY <2>1, <2>2 DEF IpcHandedOn, Ipc!FramesWhole, Ipc!Directions
<1>2. QED
  BY <1>1, IpcInvariant, PTL

\* The transport of the composition runs as IpcTransport says.
LEMMA IpcRuns == InboxSpec => Ipc!Spec
<1>1. InboxInit => Ipc!Init
  BY DEF InboxInit
<1>2. [InboxNext]_<<part, vars, ipcVars>> => [Ipc!Next]_(Ipc!vars)
  <2>1. UNCHANGED ipcVars => UNCHANGED Ipc!vars
    BY DEF ipcVars, Ipc!vars, Ipc!platform
  <2>2. QED
    BY <2>1 DEF InboxNext
<1>3. QED
  BY <1>1, <1>2, PTL DEF InboxSpec, Ipc!Spec

\* The same of the composition that the run checks: no write that fails half-way makes the other
\* end take parts of several frames for one.
THEOREM InboxFramesWhole == InboxSpec => []FramesWhole
<1>1. Ipc!Spec => []Ipc!FramesWhole
  BY IpcAssumption, IpcFramesWhole
<1>2. QED
  BY <1>1, IpcRuns, PTL DEF FramesWhole
=============================================================================
