---------------------------- MODULE WorkerQueue ----------------------------
(***************************************************************************)
(* worker/src/vw_worker_queue.c with the two threads that share it: the    *)
(* IPC reader (vw_worker_reader_main in worker/src/vw_worker.c), which     *)
(* pushes the frames it reads, and the main loop, which pops them.  Push   *)
(* and pop hold the queue's mutex, so each is one action; reading a frame  *)
(* and pushing it are two, because the main loop runs in between.          *)
(*                                                                         *)
(* A frame is its type, the sequence number of its header and, for audio,  *)
(* the duration the queue decodes from it (0 when it cannot be decoded).   *)
(***************************************************************************)
EXTENDS Naturals, Sequences, SequencesExt, FiniteSets

CONSTANTS
    Capacity,       \* slots of the queue
    Types,          \* the message types the peer sends
    Durations,      \* the durations an audio frame can have
    MaxSequence     \* bound: sequence numbers the peer uses

ASSUME CapacityAssumption == Capacity \in Nat \ {0}
ASSUME TypesAssumption == {"AUDIO", "SHUTDOWN"} \subseteq Types
ASSUME DurationsAssumption == Durations \subseteq Nat
ASSUME SequenceAssumption == MaxSequence \in Nat

VARIABLES
    q,              \* the frames queued, oldest first
    queuedUs,       \* queued_audio_us
    droppedUs,      \* dropped_audio_us
    reader,         \* where the reader thread is
    incoming,       \* the frame it has read
    lastSequence,   \* last_plugin_sequence
    running,
    fatalExit,
    pushedUs,       \* history: audio handed to push
    poppedUs,       \* history: audio popped
    lastPopped,     \* history: sequence number of the last frame popped
    newest,         \* history: the newest START or STOP handed to push
    applied         \* history: the newest START or STOP popped

vars == <<q, queuedUs, droppedUs, reader, incoming, lastSequence, running,
          fatalExit, pushedUs, poppedUs, lastPopped, newest, applied>>

NoFrame == [type |-> "NONE", seq |-> 0, us |-> 0]

\* The SHUTDOWN the reader pushes by itself carries no sequence number of the
\* peer; it is the last thing ever pushed.
WakeUp == [type |-> "SHUTDOWN", seq |-> MaxSequence + 1, us |-> 0]

Frames == {f \in [type : Types, seq : 1 .. MaxSequence, us : Durations \cup {0}] :
              f.type # "AUDIO" => f.us = 0}

Required == {"START", "STOP"}
Soft == {"PAUSE", "RESUME"}

IsAudio(f) == f.type = "AUDIO"
IsShutdown(f) == f.type = "SHUTDOWN"

\* The positions of the queued frames that satisfy a test, and the oldest.
Where(Test(_)) == {i \in DOMAIN q : Test(q[i])}
Oldest(S) == CHOOSE i \in S : \A j \in S : i <= j

Full == Len(q) >= Capacity

\* Mutant: START and STOP may also replace a queued SHUTDOWN.
Superseded_EvenShutdown(f) ==
    LET soft == Where(LAMBDA g : g.type \in Soft \cup {f.type})
    IN  IF IsShutdown(f) THEN DOMAIN q
        ELSE IF soft # {} THEN soft
        ELSE IF f.type \in Required THEN DOMAIN q ELSE {}

\* Mutant: every control, not only START and STOP, may replace a directive.
Superseded_ByAnyControl(f) ==
    LET soft == Where(LAMBDA g : g.type \in Soft \cup {f.type})
        others == Where(LAMBDA g : ~IsShutdown(g))
    IN  IF IsShutdown(f) THEN DOMAIN q
        ELSE IF soft # {} THEN soft ELSE others

\* A control the incoming one may replace: for SHUTDOWN any, otherwise a
\* pause or resume or one of its own type, and for START and STOP, failing
\* that, any that is not SHUTDOWN.
Superseded(f) ==
    LET soft == Where(LAMBDA g : g.type \in Soft \cup {f.type})
        others == Where(LAMBDA g : ~IsShutdown(g))
    IN  IF IsShutdown(f) THEN DOMAIN q
        ELSE IF soft # {} THEN soft
        ELSE IF f.type \in Required THEN others ELSE {}

\* The frames that could make room in a full queue: audio before controls,
\* and never a control for audio.
Victims(f) ==
    IF Where(IsAudio) # {} THEN Where(IsAudio)
    ELSE IF IsAudio(f) THEN {} ELSE Superseded(f)

\* Mutant: the evicted audio stays in the backlog counter.
Enqueue_KeepsBacklog(f, kept, freedUs) ==
    /\ q' = Append(kept, f)
    /\ queuedUs' = queuedUs + f.us
    /\ droppedUs' = droppedUs + freedUs

Enqueue(f, kept, freedUs) ==
    /\ q' = Append(kept, f)
    /\ queuedUs' = queuedUs + f.us - freedUs
    /\ droppedUs' = droppedUs + freedUs

\* vw_worker_queue_push.  The frame that makes room is the oldest candidate,
\* and the frames behind it move up; without a candidate the push is refused.
Push(f) ==
    LET victims == Victims(f)
        v == Oldest(victims)
    IN  IF ~Full THEN Enqueue(f, q, 0)
        ELSE IF victims # {} THEN Enqueue(f, RemoveAt(q, v), q[v].us)
        ELSE /\ droppedUs' = droppedUs + f.us
             /\ UNCHANGED <<q, queuedUs>>

-----------------------------------------------------------------------------

Init ==
    /\ q = << >> /\ queuedUs = 0 /\ droppedUs = 0
    /\ reader = "reading" /\ incoming = NoFrame /\ lastSequence = 0
    /\ running = TRUE /\ fatalExit = FALSE
    /\ pushedUs = 0 /\ poppedUs = 0
    /\ lastPopped = 0 /\ newest = 0 /\ applied = 0

history == <<pushedUs, poppedUs, lastPopped, newest, applied>>
queueVars == <<q, queuedUs, droppedUs>>

\* A whole frame has been read.  One whose sequence number does not advance
\* is read to its end and thrown away.
ReadFrame ==
    /\ reader = "reading" /\ running
    /\ \E f \in Frames :
        IF f.seq <= lastSequence
        THEN UNCHANGED <<reader, incoming, lastSequence>>
        ELSE /\ reader' = "pushing"
             /\ incoming' = f
             /\ lastSequence' = f.seq
    /\ UNCHANGED <<queueVars, running, fatalExit, history>>

PushFrame ==
    /\ reader = "pushing"
    /\ Push(incoming)
    /\ pushedUs' = pushedUs + incoming.us
    /\ newest' = IF incoming.type \in Required THEN incoming.seq ELSE newest
    /\ reader' = "reading"
    /\ incoming' = NoFrame
    /\ UNCHANGED <<lastSequence, running, fatalExit, poppedUs, lastPopped, applied>>

\* The peer closed the pipe or broke the framing: stop the worker first, and
\* wake the main loop with a SHUTDOWN of the reader's own afterwards.
ReadFails ==
    /\ reader = "reading" /\ running
    /\ fatalExit' = TRUE
    /\ running' = FALSE
    /\ reader' = "waking"
    /\ UNCHANGED <<queueVars, incoming, lastSequence, history>>

PushWakeUp ==
    /\ reader = "waking"
    /\ Push(WakeUp)
    /\ reader' = "done"
    /\ UNCHANGED <<incoming, lastSequence, running, fatalExit, history>>

\* The reader sees that the worker stops, at its next frame or time-out.
ReaderExits ==
    /\ reader = "reading" /\ ~running
    /\ reader' = "done"
    /\ UNCHANGED <<queueVars, incoming, lastSequence, running, fatalExit, history>>

\* vw_worker_queue_pop, and the main loop's use of the frame as far as the
\* queue is concerned: SHUTDOWN ends the loop, a frame it cannot process or a
\* reply it cannot send ends it with a fatal exit.
PopFrame ==
    /\ running /\ q # << >>
    /\ q' = Tail(q)
    /\ queuedUs' = queuedUs - Head(q).us
    /\ poppedUs' = poppedUs + Head(q).us
    /\ lastPopped' = Head(q).seq
    /\ applied' = IF Head(q).type \in Required THEN Head(q).seq ELSE applied
    /\ \/ running' = ~IsShutdown(Head(q)) /\ UNCHANGED fatalExit
       \/ running' = FALSE /\ fatalExit' = TRUE
    /\ UNCHANGED <<droppedUs, reader, incoming, lastSequence, pushedUs, newest>>

\* The main loop has left and joined the reader.
Stopped == ~running /\ reader = "done" /\ UNCHANGED vars

Next == ReadFrame \/ PushFrame \/ ReadFails \/ PushWakeUp \/ ReaderExits
        \/ PopFrame \/ Stopped

Spec == Init /\ [][Next]_vars

\* The main loop polls the queue every few milliseconds; the reader's reads
\* time out, so it always gets to push what it holds or to see running fall.
Fairness == /\ WF_vars(PopFrame) /\ WF_vars(PushFrame)
            /\ WF_vars(PushWakeUp) /\ WF_vars(ReaderExits)

FairSpec == Spec /\ Fairness

-----------------------------------------------------------------------------
(* Properties                                                              *)

\* The queue holds at most Capacity frames and the audio counters, unsigned
\* in the code, never go below zero.
TypeOK ==
    /\ q \in Seq(Frames \cup {WakeUp}) /\ Len(q) <= Capacity
    /\ queuedUs \in Nat /\ droppedUs \in Nat
    /\ reader \in {"reading", "pushing", "waking", "done"}
    /\ incoming \in Frames \cup {NoFrame}
    /\ lastSequence \in 0 .. MaxSequence
    /\ running \in BOOLEAN /\ fatalExit \in BOOLEAN
    /\ pushedUs \in Nat /\ poppedUs \in Nat

\* The audio in a sequence of frames, added up from its first frame.
TotalUs(s) ==
    LET total[i \in 0 .. Len(s)] == IF i = 0 THEN 0 ELSE total[i - 1] + s[i].us
    IN  total[Len(s)]

\* However evictions, refusals and pops interleave, the survivors stay in FIFO
\* order (the sequence numbers the main loop has popped and will pop strictly
\* increase), the backlog counter is the audio really in the queue, and every
\* microsecond handed to push is queued, popped or counted as dropped.
QueueExact ==
    /\ \A i, j \in DOMAIN q : i < j => q[i].seq < q[j].seq
    /\ q # << >> => lastPopped < Head(q).seq
    /\ queuedUs = TotalUs(q)
    /\ pushedUs = queuedUs + poppedUs + droppedUs

\* The newest session directive (START or STOP) the plugin sent is waiting in
\* the queue or was the last one applied, unless the worker is shutting down:
\* no burst of other frames can leave the worker in an outdated session.
NewestDirectiveSurvives ==
    \/ newest = applied
    \/ \E i \in DOMAIN q : q[i].seq = newest
    \/ Where(IsShutdown) # {}
    \/ ~running

\* A SHUTDOWN that was queued stops the worker, however many frames the peer
\* keeps sending, and then the reader stops too.
ShutdownObeyed == (Where(IsShutdown) # {}) ~> (~running /\ reader = "done")

\* The comment above the control eviction in vw_worker_queue_push: "Only a
\* soft incoming (PAUSE/RESUME) can be dropped; required incomings always
\* land"; a queue that holds a SHUTDOWN is exempt, its worker is exiting.
OnlySoftControlsRefused ==
    [][(/\ reader = "pushing" /\ reader' = "reading"
        /\ ~IsAudio(incoming) /\ incoming.type \notin Soft
        /\ Where(IsShutdown) = {})
          => \E j \in DOMAIN q' : q'[j] = incoming]_vars
=============================================================================
