--------------------------- MODULE DropNewestFifo ---------------------------
(***************************************************************************)
(* What the audio queue between the VLC callback and the sender thread     *)
(* promises (plugin/include/vw_queue.h): chunks come out whole and in the  *)
(* order they went in, at most Capacity are inside, and a chunk that does  *)
(* not go in is counted.  SpscQueue implements this.                       *)
(***************************************************************************)
EXTENDS Naturals, Sequences

CONSTANT Capacity

VARIABLES
    offered,    \* chunks offered so far; chunk n is the n-th
    chan,       \* the chunks inside, oldest first
    dropped,    \* how many were dropped
    received    \* the chunks received, oldest first

vars == <<offered, chan, dropped, received>>

Init == offered = 0 /\ chan = << >> /\ dropped = 0 /\ received = << >>

Put ==
    /\ Len(chan) < Capacity
    /\ offered' = offered + 1
    /\ chan' = Append(chan, offered + 1)
    /\ UNCHANGED <<dropped, received>>

\* The producer may see the room the consumer made only later.
Drop ==
    /\ offered' = offered + 1
    /\ dropped' = dropped + 1
    /\ UNCHANGED <<chan, received>>

Get ==
    /\ chan # << >>
    /\ received' = Append(received, Head(chan))
    /\ chan' = Tail(chan)
    /\ UNCHANGED <<offered, dropped>>

Next == Put \/ Drop \/ Get

Spec == Init /\ [][Next]_vars
=============================================================================
