----------------------------- MODULE SpscQueue -----------------------------
(***************************************************************************)
(* plugin/src/vw_queue.c: the lock-free ring between VLC's audio callback  *)
(* (the only producer) and the plugin's sender thread (the only consumer). *)
(* Every atomic access is an action of its own, and copying a chunk in or  *)
(* out takes two, so the two threads interleave inside push and pop.       *)
(*                                                                         *)
(* An acquire load may return a value that is not the latest one, as long  *)
(* as it is not older than what this thread has seen: the consumer's       *)
(* progress becomes visible to the producer late, and the other way round. *)
(***************************************************************************)
EXTENDS Naturals, Sequences, SequencesExt

CONSTANTS
    Capacity,       \* capacity_chunks
    MaxChunks       \* bound: chunks the producer offers

\* What the constants are.
QueueConstants == Capacity \in Nat \ {0} /\ MaxChunks \in Nat

VARIABLES
    head,           \* producer's index, atomic
    tail,           \* consumer's index, atomic
    ring,           \* the slots
    dropped,        \* audio_dropped_us, in chunks
    producer,       \* where push is
    consumer,       \* where pop is
    seenTail,       \* the newest tail the producer has loaded
    seenHead,       \* the newest head the consumer has loaded
    out,            \* the consumer's copy of the chunk
    offered,        \* history: chunks offered; chunk n is the n-th
    received        \* history: chunks popped

vars == <<head, tail, ring, dropped, producer, consumer, seenTail, seenHead,
          out, offered, received>>

Slots == 0 .. Capacity
Empty == 0                              \* calloc
Torn == MaxChunks + 1                   \* a slot or a copy half-way through
Chunks == 1 .. MaxChunks

\* The index after i in the ring of Capacity + 1 slots.
After(i) == (i + 1) % (Capacity + 1)

\* The values an atomic index took since it was seen, its current value last.
Since(seen, now) ==
    IF seen <= now THEN seen .. now ELSE (seen .. Capacity) \cup (0 .. now)

Init ==
    /\ head = 0 /\ tail = 0
    /\ ring = [i \in Slots |-> Empty]
    /\ dropped = 0
    /\ producer = "idle" /\ consumer = "idle"
    /\ seenTail = 0 /\ seenHead = 0
    /\ out = Empty
    /\ offered = 0 /\ received = << >>

-----------------------------------------------------------------------------
(* vw_spsc_queue_push.  The relaxed load of head is the producer's own      *)
(* value.                                                                   *)

PushLoadTail ==
    /\ producer = "idle"
    /\ offered < MaxChunks
    /\ \E t \in Since(seenTail, tail) :
        /\ seenTail' = t
        /\ offered' = offered + 1
        /\ IF After(head) = t
           THEN dropped' = dropped + 1 /\ producer' = "idle"
           ELSE producer' = "copying" /\ UNCHANGED dropped
    /\ UNCHANGED <<head, tail, ring, consumer, seenHead, out, received>>

\* Mutant: the head is published while the slot is being written.
PushBeginCopy_Published ==
    /\ producer = "copying"
    /\ ring' = [ring EXCEPT ![head] = Torn]
    /\ head' = After(head)
    /\ producer' = "torn"
    /\ UNCHANGED <<tail, dropped, consumer, seenTail, seenHead, out, offered, received>>

PushBeginCopy ==
    /\ producer = "copying"
    /\ ring' = [ring EXCEPT ![head] = Torn]
    /\ producer' = "torn"
    /\ UNCHANGED <<head, tail, dropped, consumer, seenTail, seenHead, out, offered, received>>

PushEndCopy ==
    /\ producer = "torn"
    /\ ring' = [ring EXCEPT ![head] = offered]
    /\ producer' = "publishing"
    /\ UNCHANGED <<head, tail, dropped, consumer, seenTail, seenHead, out, offered, received>>

PushPublish ==
    /\ producer = "publishing"
    /\ head' = After(head)
    /\ producer' = "idle"
    /\ UNCHANGED <<tail, ring, dropped, consumer, seenTail, seenHead, out, offered, received>>

-----------------------------------------------------------------------------
(* vw_spsc_queue_pop                                                        *)

\* Returns NULL when the head it loads equals its own tail.
PopLoadHead ==
    /\ consumer = "idle"
    /\ \E h \in Since(seenHead, head) :
        /\ seenHead' = h
        /\ consumer' = IF tail = h THEN "idle" ELSE "copying"
    /\ UNCHANGED <<head, tail, ring, dropped, producer, seenTail, out, offered, received>>

PopBeginCopy ==
    /\ consumer = "copying"
    /\ out' = ring[tail]
    /\ consumer' = "half"
    /\ UNCHANGED <<head, tail, ring, dropped, producer, seenTail, seenHead, offered, received>>

\* A slot that changed since the copy began leaves a torn copy.
PopEndCopy ==
    /\ consumer = "half"
    /\ out' = IF ring[tail] = out THEN out ELSE Torn
    /\ consumer' = "copied"
    /\ UNCHANGED <<head, tail, ring, dropped, producer, seenTail, seenHead, offered, received>>

PopAdvance ==
    /\ consumer = "copied"
    /\ tail' = After(tail)
    /\ received' = Append(received, out)
    /\ consumer' = "idle"
    /\ out' = Empty
    /\ UNCHANGED <<head, ring, dropped, producer, seenTail, seenHead, offered>>

PushStep == PushLoadTail \/ PushBeginCopy \/ PushEndCopy \/ PushPublish
PopStep == PopLoadHead \/ PopBeginCopy \/ PopEndCopy \/ PopAdvance

Next == PushStep \/ PopStep

Spec == Init /\ [][Next]_vars

-----------------------------------------------------------------------------
(* Properties                                                              *)

\* Indices are slots of the ring, and no thread ever hands out or keeps a
\* chunk it did not get whole.
TypeOK ==
    /\ head \in Slots /\ tail \in Slots
    /\ seenTail \in Slots /\ seenHead \in Slots
    /\ ring \in [Slots -> {Empty, Torn} \cup Chunks]
    /\ dropped \in Nat
    /\ producer \in {"idle", "copying", "torn", "publishing"}
    /\ consumer \in {"idle", "copying", "half", "copied"}
    /\ out \in Chunks \cup {Empty}
    /\ offered \in 0 .. MaxChunks
    /\ received \in Seq(Chunks)

Held == (head + Capacity + 1 - tail) % (Capacity + 1)
Inside == [n \in 1 .. Held |-> ring[(tail + n - 1) % (Capacity + 1)]]
InPush == IF producer = "idle" THEN 0 ELSE 1

Fifo == INSTANCE DropNewestFifo WITH
    offered <- offered - InPush,
    chan <- Inside

\* The ring is a FIFO queue: chunks come out whole, in order, once each, and
\* only a chunk refused at the entry, and counted, is missing.
FifoSpec == Fifo!Spec

=============================================================================
