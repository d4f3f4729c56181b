--------------------------- MODULE PluginThreads ----------------------------
(* The plugin's way from audio to captions: the callback that               *)
(* resamples VLC's blocks (AudioCapture), the lock-free queue it pushes the *)
(* chunks to (SpscQueue), the seeks and pauses that the audio thread and    *)
(* the sender thread each notice (PluginSeeks), and the                     *)
(* presenter (CaptionPresenter).  The four are checked one at a time: part  *)
(* says which runs.                                                         *)
EXTENDS AudioCapture, PluginSeeks

CONSTANTS
    Capacity, MaxChunks,                            \* of SpscQueue
    MaxVouts, MaxChannels, MaxTime, Floors, Default  \* of CaptionPresenter

VARIABLES
    part,
    head, tail, ring, dropped, producer, consumer, seenTail, seenHead, out, offered, received,
    screenPhase, vout, opened, channels, holds, ctx, held, chan, mheld, mchan, screenPend, screen

queueVars == <<head, tail, ring, dropped, producer, consumer, seenTail, seenHead, out,
               offered, received>>
screenVars == <<screenPhase, vout, opened, channels, holds, ctx, held, chan, mheld, mchan,
                screenPend, screen>>

Queue == INSTANCE SpscQueue

Presenter == INSTANCE CaptionPresenter WITH phase <- screenPhase, pend <- screenPend

ASSUME ThreadsAssumption == Queue!QueueConstants /\ Presenter!PresenterConstants

ThreadsInit ==
    /\ part \in {"capture", "queue", "epochs", "screen"}
    /\ Init /\ Queue!Init /\ Epochs!Init /\ Presenter!Init
    /\ part # "epochs" => pos = 1 /\ ~show

ThreadsNext ==
    \/ part = "capture" /\ Next /\ UNCHANGED <<part, queueVars, epochVars, screenVars>>
    \/ part = "queue" /\ Queue!Next /\ UNCHANGED <<part, vars, epochVars, screenVars>>
    \/ part = "epochs" /\ Epochs!Next /\ UNCHANGED <<part, vars, queueVars, screenVars>>
    \/ part = "screen" /\ Presenter!Next /\ UNCHANGED <<part, vars, queueVars, epochVars>>

ThreadsSpec ==
    ThreadsInit /\ [][ThreadsNext]_<<part, vars, queueVars, epochVars, screenVars>>

\* SpscQueue.FifoSpec: the ring is a FIFO queue that refuses the newest, under weak memory.
FifoSpec == Queue!FifoSpec

\* CaptionPresenter.ScreenContract: references balanced, captions erasable, nothing left, cues
\* readable.
ScreenContract == Presenter!ScreenContract
=============================================================================
