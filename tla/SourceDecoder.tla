--------------------------- MODULE SourceDecoder ---------------------------
(***************************************************************************)
(* vw_source_decoder_ffmpeg.c: the worker reads a file's audio in blocks.  *)
(* A read takes packets from the demuxer, frames from the codec and        *)
(* samples from the resampler, each of which keeps some back and gives     *)
(* more than is wanted, and a seek lands before its target.  The caller    *)
(* gets every sample from the target on, once, with its time.              *)
(*                                                                         *)
(* FFmpeg is external: a sample is its time in the file, a packet and the  *)
(* frame made of it are sequences of samples, every frame has a time       *)
(* stamp.  One action is a turn of a loop of vw_source_decoder_read_s16le. *)
(***************************************************************************)
EXTENDS Integers, Sequences, SequencesExt

CONSTANTS
    Samples,        \* in the file
    PacketSize,     \* samples in a packet, at most
    CodecDepth,     \* frames the codec holds
    Delay,          \* samples the resampler keeps back
    OutCap,         \* 4096: samples it gives at once, and leftover_buffer
    BlockSize,      \* max_samples of a read
    MaxSeeks,       \* bound: seeks
    MaxPauses       \* bound: times the demuxer has no packet yet

\* What the constants are.
DecoderConstants ==
    /\ {PacketSize, CodecDepth, OutCap, BlockSize} \subseteq Nat \ {0}
    /\ {Samples, Delay, MaxSeeks, MaxPauses} \subseteq Nat

NoTarget == -1      \* INT64_MIN
NoPacket == <<>>    \* pkt_pending = false
Other == <<-1>>     \* a packet of another stream

VARIABLES
    at,             \* demuxer: the next sample
    codec,          \* the frames in the codec
    held,           \* samples in the resampler
    dec,            \* the struct: pts, target, demuxEof, flushSent, eof, left
    pkt,            \* the pending packet
    pc,             \* "idle", "loop", "room" and "recv" (receiving frames), "failed"
    out, label,     \* the block being read, the time it is given
    expect,         \* history: the sample the caller should get next
    seeks, pauses

vars == <<at, codec, held, dec, pkt, pc, out, label, expect, seeks, pauses>>

Lesser(a, b) == IF a < b THEN a ELSE b
Greater(a, b) == IF a > b THEN a ELSE b
Span(a, b) == [i \in 1 .. Greater(b - a, 0) |-> a + i - 1]      \* the samples a .. b - 1

\* vw_source_decoder_open.
Init ==
    /\ at = 0 /\ codec = <<>> /\ held = <<>>
    /\ dec = [pts |-> 0, target |-> NoTarget, demuxEof |-> FALSE, flushSent |-> FALSE,
              eof |-> FALSE, left |-> <<>>]
    /\ pkt = NoPacket /\ pc = "idle" /\ out = <<>> /\ label = NoTarget
    /\ expect = 0 /\ seeks = 0 /\ pauses = 0

-----------------------------------------------------------------------------
\* The samples of s that come before the target of the seek.
PreRoll(d, s) ==
    IF d.target # NoTarget /\ d.pts < d.target THEN Lesser(d.target - d.pts, Len(s)) ELSE 0

\* The samples of s that fit the block.
Fits(s) == Lesser(Len(s), BlockSize - Len(out))

\* vw_source_decoder_copy_samples: what becomes of the resampler's samples s.
Copied(d, s) ==
    LET skip == PreRoll(d, s)
        rest == SubSeq(s, skip + 1, Len(s))
        n == Fits(rest)
        reached == d.target # NoTarget /\ d.pts < d.target /\ d.pts + skip >= d.target
    IN [dec |-> [d EXCEPT !.pts = @ + skip + n,
                          !.target = IF reached THEN NoTarget ELSE @,
                          !.left = IF n < Len(rest) THEN SubSeq(rest, n + 1, Len(rest)) ELSE @],
        out |-> out \o SubSeq(rest, 1, n)]

\* The samples go to the caller, and the first of a block gives it its time.
Deliver(d, s) ==
    LET c == Copied(d, s)
    IN /\ dec' = c.dec /\ out' = c.out
       /\ label' = IF s # <<>> /\ out = <<>> /\ c.out # <<>> THEN c.dec.pts - Len(c.out) ELSE label

\* The time of the first sample that comes out when the frame goes in.
FrameTime(frame) == frame[1] - Len(held)

\* vw_source_decoder_process_frame of the codec's first frame.
ProcessFrame(d) ==
    LET frame == Head(codec)
        all == held \o frame
        n == Lesser(Greater(Len(all) - Delay, 0), OutCap)
    IN /\ codec' = Tail(codec) /\ held' = SubSeq(all, n + 1, Len(all))
       /\ Deliver([d EXCEPT !.pts = FrameTime(frame)], SubSeq(all, 1, n))

\* vw_source_decoder_drain_swr; nothing left in the resampler is the end.
DrainSwr(d) ==
    LET n == Lesser(Len(held), OutCap)
    IN IF n = 0
       THEN dec' = [d EXCEPT !.eof = d.left = <<>>] /\ UNCHANGED <<held, out, label>>
       ELSE held' = SubSeq(held, n + 1, Len(held)) /\ Deliver(d, SubSeq(held, 1, n))

-----------------------------------------------------------------------------
\* A read begins with what is left over; when that fills the block, or the end was reached
\* before, it ends there.
BeginRead ==
    /\ pc = "idle" /\ ~dec.eof
    /\ LET n == Lesser(Len(dec.left), BlockSize)
       IN /\ out' = SubSeq(dec.left, 1, n)
          /\ label' = IF n > 0 THEN dec.pts ELSE NoTarget
          /\ dec' = [dec EXCEPT !.pts = @ + n, !.left = SubSeq(@, n + 1, Len(@))]
    /\ pc' = "loop" /\ UNCHANGED <<at, codec, held, pkt, expect, seeks, pauses>>

Looping == pc = "loop" /\ Len(out) < BlockSize /\ ~dec.eof

\* READ_OK with samples, AGAIN or EOF without.
Return ==
    /\ pc' = "idle" /\ expect' = expect + Len(out) /\ out' = <<>> /\ label' = NoTarget

EndRead ==
    /\ pc = "loop" /\ ~Looping /\ Return
    /\ UNCHANGED <<at, codec, held, dec, pkt, seeks, pauses>>

\* av_read_frame: a packet of either stream, the end, or none yet.
ReadPacket ==
    /\ Looping /\ ~dec.demuxEof /\ pkt = NoPacket
    /\ \/ /\ \E next \in at + 1 .. Lesser(at + PacketSize, Samples) :
               pkt' = Span(at, next) /\ at' = next
          /\ UNCHANGED <<dec, pc, out, label, expect, pauses>>
       \/ /\ pauses < MaxPauses /\ pauses' = pauses + 1 /\ pkt' = Other
          /\ UNCHANGED <<at, dec, pc, out, label, expect>>
       \/ /\ at = Samples /\ dec' = [dec EXCEPT !.demuxEof = TRUE]
          /\ UNCHANGED <<at, pkt, pc, out, label, expect, pauses>>
       \/ /\ pauses < MaxPauses /\ pauses' = pauses + 1 /\ Return /\ UNCHANGED <<at, dec, pkt>>
    /\ UNCHANGED <<codec, held, seeks>>

\* A packet that is not audio.
SkipPacket ==
    /\ Looping /\ ~dec.demuxEof /\ pkt = Other /\ pkt' = NoPacket
    /\ UNCHANGED <<at, codec, held, dec, pc, out, label, expect, seeks, pauses>>

\* avcodec_send_packet: taken, or refused while the codec has a frame, which is received first.
SendPacket ==
    /\ Looping /\ ~dec.demuxEof /\ pkt \notin {NoPacket, Other}
    /\ \/ Len(codec) < CodecDepth /\ codec' = Append(codec, pkt) /\ pc' = "recv"
       \/ codec # <<>> /\ UNCHANGED codec /\ pc' = "room"
    /\ UNCHANGED <<at, held, dec, pkt, out, label, expect, seeks, pauses>>

\* Mutant: frames are received although samples are left over.
Receiving_Always(d, o) == Len(o) <= BlockSize

\* The loop that receives frames goes on: there is room in the block and nothing left over.
Receiving(d, o) == Len(o) < BlockSize /\ d.left = <<>>

ReceiveFrame ==
    /\ pc \in {"recv", "room"} /\ Receiving(dec, out) /\ codec # <<>> /\ ProcessFrame(dec)
    /\ UNCHANGED <<at, pkt, pc, expect, seeks, pauses>>

\* It stops there, or because the codec wants more packets.  A packet refused before is sent
\* again, unless the block is full: then it stays pending.
StopReceiving ==
    /\ pc \in {"recv", "room"} /\ (Receiving(dec, out) => Len(codec) < CodecDepth)
    /\ IF pc = "recv" THEN pkt' = NoPacket /\ pc' = "loop" /\ UNCHANGED codec
       ELSE IF Receiving(dec, out) THEN codec' = Append(codec, pkt) /\ pc' = "recv" /\ UNCHANGED pkt
       ELSE pc' = "loop" /\ UNCHANGED <<codec, pkt>>
    /\ UNCHANGED <<at, held, dec, out, label, expect, seeks, pauses>>

\* The end of the packets: the codec is told, its frames come, then what the resampler holds.
Flush ==
    /\ Looping /\ dec.demuxEof
    /\ LET told == dec.flushSent \/ Len(codec) < CodecDepth
           d == [dec EXCEPT !.flushSent = told]
       IN IF codec # <<>> THEN ProcessFrame(d) ELSE DrainSwr(d) /\ UNCHANGED codec
    /\ UNCHANGED <<at, pkt, pc, expect, seeks, pauses>>

\* FFmpeg reports an error: READ_ERROR, and the worker closes the decoder.
Fail ==
    /\ Looping \/ pc \in {"recv", "room"}
    /\ pc' = "failed" /\ out' = <<>> /\ label' = NoTarget
    /\ UNCHANGED <<at, codec, held, dec, pkt, expect, seeks, pauses>>

-----------------------------------------------------------------------------
\* The struct after a seek to t.
Sought(t) == [pts |-> t, target |-> t, demuxEof |-> FALSE, flushSent |-> FALSE, eof |-> FALSE,
              left |-> <<>>]

\* vw_source_decoder_seek, between two reads: the demuxer goes to a packet that starts at or
\* before t, the codec and the resampler start anew.  One that fails changes nothing.
Seek(t) ==
    /\ pc = "idle" /\ seeks < MaxSeeks /\ seeks' = seeks + 1
    /\ at' \in 0 .. t
    /\ codec' = <<>> /\ held' = <<>>
    /\ dec' = Sought(t) /\ pkt' = NoPacket
    /\ expect' = t
    /\ UNCHANGED <<pc, out, label, pauses>>

Reading == BeginRead \/ EndRead \/ ReadPacket \/ SkipPacket \/ SendPacket \/ ReceiveFrame
           \/ StopReceiving \/ Flush

Next == Reading \/ Fail \/ \E t \in 0 .. Samples : Seek(t)

Spec == Init /\ [][Next]_vars

-----------------------------------------------------------------------------
\* The types of the variables; what is left over fits its buffer.
DecoderTypeOK ==
    /\ at \in 0 .. Samples /\ Len(codec) <= CodecDepth /\ Len(out) <= BlockSize
    /\ pc \in {"idle", "loop", "room", "recv", "failed"} /\ Len(dec.left) <= OutCap

\* The caller gets the samples from the start or the target of the last seek on, each once and
\* in order, whatever was in the packet, the codec, the resampler and the left-overs.
InOrderNoGap == \A i \in DOMAIN out : out[i] = expect + i - 1

\* The time that comes with a block is the time of its first sample.
LabelIsTrue == out # <<>> => label = out[1]

\* The end is reported when there is nothing more to give.
EofMeansAll == dec.eof => expect + Len(out) >= Samples

\* What the reads deliver is the file, from the start or the last seek on: nothing twice, nothing
\* missing, rightly dated, to the end.
DeliversTheFile == InOrderNoGap /\ LabelIsTrue /\ EofMeansAll
=============================================================================
