-------------------------- MODULE CaptionPresenter --------------------------
(***************************************************************************)
(* plugin/src/vw_caption_presenter.c: one pending cue, one subpicture      *)
(* channel for captions and one for model progress, each with a reference  *)
(* to the video output it was registered on, while VLC replaces video      *)
(* outputs under the presenter's feet and every VLC call may fail.  The    *)
(* teardown calls of vw_plugin_log_scope_override.h are included.  Times   *)
(* are media times; text is left out.                                      *)
(***************************************************************************)
EXTENDS Integers, FiniteSetsExt

CONSTANTS
    MaxVouts,   \* bound: video outputs VLC opens
    MaxChannels,  \* bound: subpicture channels VLC registers
    MaxTime,    \* bound: media times of cues
    Floors,     \* VW_CAPTION_MIN_DISPLAY_DURATION_US at each playback rate
    Default     \* duration of a cue without one (2 s): above rate 2 less than the floor

\* What the constants are.
PresenterConstants ==
    /\ {MaxVouts, MaxChannels, MaxTime} \subseteq Nat
    /\ Floors \subseteq Nat \ {0} /\ Default \in Nat \ {0}

VARIABLES
    vout,           \* the video output the object walk finds; 0: none
    opened,         \* video outputs opened so far
    channels,       \* channels registered so far
    holds,          \* references the presenter holds on each
    ctx,            \* p_filter_ctx is set
    held, chan,     \* p_held_vout, spu_channel_id (0: none)
    mheld, mchan,   \* the same for model progress
    pend,           \* the pending cue, [start, end]
    screen,         \* items on the screens
    phase           \* "open", "closing" (captions of the drain), "closed"

caption == <<held, chan>>
progress == <<mheld, mchan>>
world == <<vout, opened>>
vars == <<world, channels, holds, ctx, caption, progress, pend, screen, phase>>

Osd == 1000                     \* VLC's own channel
NoCue == [start |-> -1, end |-> -1]
Cues == [start : 0 .. MaxTime, end : 0 .. MaxTime]

Init ==
    /\ vout = 0 /\ opened = 0 /\ channels = 0 /\ holds = [v \in 1 .. MaxVouts |-> 0]
    /\ ctx = TRUE /\ held = 0 /\ chan = 0 /\ mheld = 0 /\ mchan = 0
    /\ pend = NoCue /\ screen = {} /\ phase = "open"

-----------------------------------------------------------------------------
(* VLC.                                                                     *)

\* vout_FlushSubpictureChannel.
Erased(items, v, c) == {s \in items : s.vout # v \/ s.chan # c}

\* vlc_object_hold and vlc_object_release of the references that are kept.
Hold(h, v) == IF v = 0 THEN h ELSE [h EXCEPT ![v] = @ + 1]
Release(h, v) == IF v = 0 THEN h ELSE [h EXCEPT ![v] = @ - 1]

\* The window is closed, or another one found first.
VoutChanges ==
    /\ \/ opened < MaxVouts /\ opened' = opened + 1 /\ vout' = opened'
       \/ vout # 0 /\ vout' = 0 /\ UNCHANGED opened
    /\ screen' \in {screen, {s \in screen : s.vout # vout}}
    /\ UNCHANGED <<channels, holds, ctx, caption, progress, pend, phase>>

Expires ==
    /\ \E s \in screen : ~s.stays /\ screen' = screen \ {s}
    /\ UNCHANGED <<world, channels, holds, ctx, caption, progress, pend, phase>>

-----------------------------------------------------------------------------
(* How long a cue is shown.                                                 *)

\* The default for a cue without a duration, at least the floor for any other.
Readable(raw, floor) == IF raw <= 0 THEN Default ELSE IF raw < floor THEN floor ELSE raw

\* The pending cue ends where the next one begins, but not before the floor.
Clipped(c, next, floor) ==
    LET raw == c.end - c.start
        target == c.start + Readable(raw, floor)
        gap == next - c.start
        stop == IF next > c.start /\ target > next
                THEN IF gap >= floor THEN next ELSE c.start + floor
                ELSE target
        dur == stop - c.start
        safe == IF dur <= 0 THEN IF raw > 0 THEN raw ELSE Default ELSE dur
    IN  IF safe < floor THEN floor ELSE safe

-----------------------------------------------------------------------------
(* Rendering.                                                               *)

Item(v, c, stays, kind) == [vout |-> v, chan |-> c, stays |-> stays, kind |-> kind]

\* Mutant: the old channel is dropped with its captions.
Unregistered_Kept(items) == items

\* The captions of the channel that is given up are erased.
Unregistered(items) == IF chan = 0 THEN items ELSE Erased(items, held, chan)

\* One reference for another.
Swapped(h, old, new) == Hold(Release(h, old), new)

\* vw_render: the channel is registered again on a new video output; a caption
\* that cannot be drawn on it goes to VLC's own channel.
Render(replace, stays) ==
    /\ \/ vout = 0 /\ UNCHANGED <<caption, channels, holds, screen>>
       \/ /\ vout # 0
          /\ LET fresh == chan = 0 \/ held # vout
             IN  \E registers, draws \in BOOLEAN :
                   /\ ~fresh => registers
                   /\ fresh /\ registers => channels < MaxChannels
                   /\ ~registers => ~draws
                   /\ channels' = IF fresh /\ registers THEN channels + 1 ELSE channels
                   /\ chan' = IF ~fresh THEN chan ELSE IF registers THEN channels' ELSE 0
                   /\ held' = IF registers THEN vout ELSE 0
                   /\ holds' = IF fresh THEN Swapped(holds, held, held') ELSE holds
                   /\ LET left == IF fresh THEN Unregistered(screen) ELSE screen
                      IN  screen' = IF draws
                            THEN (IF replace THEN Erased(left, vout, chan') ELSE left)
                                   \cup {Item(vout, chan', stays, "spu")}
                            ELSE Erased(left, vout, Osd) \cup {Item(vout, Osd, FALSE, "osd")}

\* vw_caption_presenter_show_segment: the pending cue is rendered, the new one
\* becomes the pending cue.
ShowSegment ==
    /\ phase \in {"open", "closing"} /\ ctx' = TRUE
    /\ \E c \in Cues, media \in BOOLEAN :
         /\ phase = "closing" => ~media
         /\ pend' = c
         /\ IF pend = NoCue THEN UNCHANGED <<caption, channels, holds, screen>>
            ELSE Render(~media, FALSE)
    /\ UNCHANGED <<world, progress, phase>>

\* vw_caption_presenter_flush.
Flush ==
    /\ phase = "open" /\ pend # NoCue /\ pend' = NoCue
    /\ \E media \in BOOLEAN : Render(~media, FALSE)
    /\ UNCHANGED <<world, ctx, progress, phase>>

\* vw_caption_presenter_show_paused.
ShowPaused ==
    /\ phase = "open" /\ pend' = NoCue /\ Render(TRUE, TRUE)
    /\ UNCHANGED <<world, ctx, progress, phase>>

\* What is on the screen after vw_caption_presenter_blank.
Blanked ==
    IF chan # 0 /\ held # 0 THEN Erased(screen, held, chan)
    ELSE IF vout # 0 THEN Erased(screen, vout, Osd)
    ELSE screen

Blank ==
    /\ phase = "open" /\ pend' = NoCue /\ screen' = Blanked
    /\ UNCHANGED <<world, channels, holds, ctx, caption, progress, phase>>

-----------------------------------------------------------------------------
(* Model progress, on a channel of its own.                                 *)

ShowProgress ==
    /\ phase = "open" /\ vout # 0
    /\ LET fresh == mchan = 0 \/ mheld # vout
       IN  \E registers, draws \in BOOLEAN :
             /\ ~fresh => registers
             /\ fresh /\ registers => channels < MaxChannels
             /\ ~registers => ~draws
             /\ channels' = IF fresh /\ registers THEN channels + 1 ELSE channels
             /\ mchan' = IF ~fresh THEN mchan ELSE IF registers THEN channels' ELSE 0
             /\ mheld' = IF registers THEN vout ELSE 0
             /\ holds' = IF fresh THEN Swapped(holds, mheld, mheld') ELSE holds
             /\ LET left == IF fresh /\ mchan # 0 THEN Erased(screen, mheld, mchan) ELSE screen
                IN  screen' = IF draws THEN Erased(left, vout, mchan')
                                              \cup {Item(vout, mchan', FALSE, "progress")}
                              ELSE left
    /\ UNCHANGED <<world, ctx, caption, pend, phase>>

ClearProgress ==
    /\ phase = "open"
    /\ screen' = (IF mchan = 0 THEN screen ELSE Erased(screen, mheld, mchan))
    /\ holds' = Release(holds, mheld) /\ mheld' = 0 /\ mchan' = 0
    /\ UNCHANGED <<world, channels, ctx, caption, pend, phase>>

-----------------------------------------------------------------------------
(* Teardown: everything is cleared, then the last captions of the worker    *)
(* may come, and what they needed is released while they stay to expire.    *)

Clear ==
    /\ phase = "open" /\ phase' = "closing"
    /\ screen' = (IF mchan = 0 THEN Blanked ELSE Erased(Blanked, mheld, mchan))
    /\ holds' = Release(Release(holds, mheld), held)
    /\ pend' = NoCue /\ ctx' = FALSE
    /\ held' = 0 /\ chan' = 0 /\ mheld' = 0 /\ mchan' = 0
    /\ UNCHANGED <<world, channels>>

\* Nothing is held when the last captions have been put on the screen.
FinalHolds == Release(Release(holds, mheld), held)

\* The last caption of the drain is flushed; then the references go.
FlushLast ==
    /\ phase = "closing" /\ pend # NoCue /\ pend' = NoCue /\ Render(TRUE, FALSE)
    /\ UNCHANGED <<world, ctx, progress, phase>>

ReleasePreserving ==
    /\ phase = "closing" /\ pend = NoCue /\ phase' = "closed"
    /\ holds' = FinalHolds /\ held' = 0 /\ chan' = 0 /\ mheld' = 0 /\ mchan' = 0
    /\ ctx' = FALSE
    /\ UNCHANGED <<world, channels, pend, screen>>

Closed == phase = "closed" /\ UNCHANGED vars

Next ==
    \/ Blank \/ VoutChanges \/ Expires
    \/ ShowSegment \/ Flush \/ ShowPaused \/ ShowProgress \/ ClearProgress
    \/ Clear \/ FlushLast \/ ReleasePreserving \/ Closed

Spec == Init /\ [][Next]_vars

-----------------------------------------------------------------------------
(* Properties                                                               *)

\* Type invariant.
PresenterTypeOK ==
    /\ vout \in 0 .. MaxVouts /\ opened \in 0 .. MaxVouts /\ channels \in Nat
    /\ holds \in [1 .. MaxVouts -> Nat] /\ ctx \in BOOLEAN
    /\ held \in 0 .. MaxVouts /\ mheld \in 0 .. MaxVouts
    /\ chan \in 0 .. channels /\ mchan \in 0 .. channels
    /\ pend \in Cues \cup {NoCue} /\ phase \in {"open", "closing", "closed"}

\* The presenter holds one reference for each channel it keeps, and no other:
\* none is leaked when VLC replaces the video output, and none is released twice.
HoldsBalanced ==
    \A v \in 1 .. MaxVouts :
        holds[v] = (IF held = v THEN 1 ELSE 0) + (IF mheld = v THEN 1 ELSE 0)

\* A caption drawn on a channel of the presenter can be erased: it is on the
\* channel the presenter holds, whatever video outputs came and went.
CaptionsErasable ==
    phase # "closed" => \A s \in screen : s.kind = "spu" => s.vout = held /\ s.chan = chan

\* Nothing outlives the plugin: no reference is held after the teardown and no
\* caption that never expires is left on a screen.
NothingOutlives ==
    phase = "closed" => /\ \A v \in 1 .. MaxVouts : holds[v] = 0
                        /\ \A s \in screen : ~s.stays

\* However soon the next cue comes, and at whatever playback rate, the pending one is shown
\* for its own time or until the next begins, whichever is less, but never less than the
\* floor of that rate.
ReadableAndApart ==
    pend # NoCue => \A next \in 0 .. MaxTime, floor \in Floors :
        LET own == Max({floor, IF pend.end > pend.start THEN pend.end - pend.start ELSE Default})
        IN  Clipped(pend, next, floor) =
              IF next > pend.start THEN Max({floor, Min({own, next - pend.start})}) ELSE own

\* What the presenter promises of the screen: its references and its captions
\* are its own until they are given back, and a cue can be read.
ScreenContract == HoldsBalanced /\ CaptionsErasable /\ NothingOutlives /\ ReadableAndApart
=============================================================================
