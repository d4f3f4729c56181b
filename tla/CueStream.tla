------------------------------ MODULE CueStream ------------------------------
(***************************************************************************)
(* What the asynchronous translator promises the worker's main loop        *)
(* (worker/include/vw_translate_async.h): the cues accepted since the last *)
(* invalidation come back one by one, in the order they were accepted,     *)
(* each at most once; an invalidation forgets every cue that has not come  *)
(* back yet, and nothing of a forgotten epoch comes back afterwards.       *)
(*                                                                         *)
(* Threads, queues, ordinals and capacities do not appear here.            *)
(* TranslateAsync implements this specification.                           *)
(***************************************************************************)
EXTENDS Naturals, Sequences

VARIABLES
    epoch,      \* the current playback epoch
    accepted,   \* number of cues accepted in this epoch; cue n is the n-th
    log         \* the deliveries so far, oldest first

vars == <<epoch, accepted, log>>

Delivery == [epoch : Nat \ {0}, cue : Nat \ {0}]

\* The number of cues of epoch e at the end of the deliveries d.
DeliveredOf(d, e) ==
    IF d # << >> /\ d[Len(d)].epoch = e THEN d[Len(d)].cue ELSE 0

Init ==
    /\ epoch = 1
    /\ accepted = 0
    /\ log = << >>

Accept ==
    /\ accepted' = accepted + 1
    /\ UNCHANGED <<epoch, log>>

\* Only the oldest cue that has not come back yet can come back.
Deliver ==
    /\ DeliveredOf(log, epoch) < accepted
    /\ log' = Append(log, [epoch |-> epoch, cue |-> DeliveredOf(log, epoch) + 1])
    /\ UNCHANGED <<epoch, accepted>>

Invalidate ==
    /\ epoch' = epoch + 1
    /\ accepted' = 0
    /\ UNCHANGED log

Next == Accept \/ Deliver \/ Invalidate

Spec == Init /\ [][Next]_vars
=============================================================================
