---------------------------- MODULE PluginSeeks -----------------------------
(* The seeks and pauses that the audio thread and the sender thread each    *)
(* notice (PluginEpochs), as a part of the compositions PluginThreads, with *)
(* live audio, and PluginSender, with a file the worker reads itself.       *)
EXTENDS Naturals, Sequences, FiniteSets

CONSTANTS Modes, Places, QueueSize, MaxSeeks, MaxJumps, MaxToggles, MaxGaps, MaxWire, MaxShown

VARIABLES
    pos, seeks, halted, toggles, swapped, source, show, block, run, gap, gaps, queue, disc,
    drainReq, epochPc, paused, epochCur, lastPos, pausedPos, resume, lastSeek, preview, stale,
    epochActive, sid, heard, told, wire, pend, shown

epochVars == <<pos, seeks, halted, toggles, swapped, source, show, block, run, gap, gaps, queue,
               disc, drainReq, epochPc, paused, epochCur, lastPos, pausedPos, resume, lastSeek,
               preview, stale, epochActive, sid, heard, told, wire, pend, shown>>

Epochs == INSTANCE PluginEpochs WITH pc <- epochPc, cur <- epochCur, active <- epochActive

ASSUME SeeksAssumption == Epochs!EpochsConstants

\* PluginEpochs.JumpSeparates: a live session and the screen never keep both sides of a jump.
JumpSeparates == Epochs!JumpSeparates

\* PluginEpochs.SourceCuesFresh: no cue from before a seek, no paused cue after the pause.
SourceCuesFresh == Epochs!SourceCuesFresh

\* PluginEpochs.SeekReachesWorker: the last seek sent to the worker is again and again where the
\* player is.
SeekReachesWorker == Epochs!SeekReachesWorker
=============================================================================
