---------------------------- MODULE IpcTransport ----------------------------
(***************************************************************************)
(* How frames cross the local transport: a header and a payload, each sent *)
(* in records of bounded size, through a socket or pipe that holds only    *)
(* some of them, and put together again by the receiver.  Direction "up"   *)
(* is from the client's only thread to the worker's reader thread, "down"  *)
(* from the worker's main loop to the client's thread.  A frame is its     *)
(* number, a record the stretch of its frame that it carries.              *)
(***************************************************************************)
EXTENDS Naturals, Sequences

CONSTANTS
    HeaderBytes,    \* sizeof(vw_frame_header_t)
    RecordMax,      \* VW_IPC_MAX_RECORD_BYTES
    Sizes,          \* Sizes[d]: payload lengths in direction d
    Buffer,         \* records the operating system holds in one direction
    MaxFrames       \* bound: MaxFrames[d]: frames in direction d

Directions == {"up", "down"}

\* What the constants are.
IpcConstants ==
    /\ {HeaderBytes, RecordMax, Buffer} \subseteq Nat \ {0}
    /\ HeaderBytes <= RecordMax
    /\ \A d \in Directions : Sizes[d] \subseteq Nat /\ MaxFrames[d] \in Nat

VARIABLES
    slow,           \* three seconds may pass while a call waits
    keeps,          \* Win32: what does not fit the buffer stays (ERROR_MORE_DATA)
    open,           \* open[e]: the handle of end e
    wire,           \* wire[d]: records under way
    lengths,        \* lengths[d]: payload lengths of the frames begun
    out,            \* out[d]: the frame being written
    in,             \* in[d]: the frame being read
    reading,        \* the reader thread runs
    stopping,       \* ~running of the worker
    got             \* history: got[d]: frames handed on

platform == <<slow, keeps>>
vars == <<platform, open, wire, lengths, out, in, reading, stopping, got>>

Writer(d) == IF d = "up" THEN "client" ELSE "worker"
Reader(d) == IF d = "up" THEN "worker" ELSE "client"

\* No frame is being written.
Idle == [kind |-> "none"]

\* At a frame boundary: the whole header is asked for.
Boundary == [part |-> "header", frame |-> 0, at |-> 0, need |-> HeaderBytes, whole |-> TRUE]

Init ==
    /\ slow \in BOOLEAN /\ keeps \in BOOLEAN
    /\ open = [e \in {"client", "worker"} |-> TRUE]
    /\ wire = [d \in Directions |-> <<>>] /\ lengths = [d \in Directions |-> <<>>]
    /\ out = [d \in Directions |-> Idle] /\ in = [d \in Directions |-> Boundary]
    /\ reading = TRUE /\ stopping = FALSE
    /\ got = [d \in Directions |-> <<>>]

-----------------------------------------------------------------------------
\* Writing.

\* A frame of kind k is encoded and its header handed to vw_ipc_send.  The client writes and
\* reads in one thread; a worker that is stopping finishes its iteration and may still write.
BeginFrame(d, k, n) ==
    /\ open[Writer(d)] /\ out[d] = Idle /\ Len(lengths[d]) < MaxFrames[d]
    /\ d = "up" => in["down"] = Boundary
    /\ k = "control" => d = "up"
    /\ k = "shutdown" => d = "up" /\ n = 0
    /\ lengths' = [lengths EXCEPT ![d] = Append(@, n)]
    /\ out' = [out EXCEPT ![d] = [kind |-> k, frame |-> Len(lengths[d]) + 1, at |-> 0,
                                  end |-> HeaderBytes, sound |-> TRUE]]
    /\ UNCHANGED <<platform, open, wire, in, reading, stopping, got>>

\* The client closes its handle after a write that failed.
DropTransport == open' = [open EXCEPT !["client"] = FALSE]

\* Mutant: the worker does not look at what vw_ipc_send returns.
WriteFailed_Unseen(d) ==
    /\ IF d = "up" /\ out[d].kind # "shutdown" THEN DropTransport ELSE UNCHANGED open
    /\ UNCHANGED stopping

\* What a failed write does: the client drops the transport, unless it was SHUTDOWN; the worker
\* ends its loop.
WriteFailed(d) ==
    IF d = "down" THEN stopping' = TRUE /\ UNCHANGED open
    ELSE /\ IF out[d].kind = "shutdown" THEN UNCHANGED open ELSE DropTransport
         /\ UNCHANGED stopping

\* The part that is being written is done: the payload follows the header.
AfterPart(d, sound) ==
    IF out[d].end = HeaderBytes /\ lengths[d][out[d].frame] > 0
    THEN [out[d] EXCEPT !.at = HeaderBytes, !.end = HeaderBytes + lengths[d][out[d].frame],
                        !.sound = sound]
    ELSE Idle

\* Size of the next record when n bytes are left.
RecordSize(n) == IF n < RecordMax THEN n ELSE RecordMax

\* vw_ipc_send puts one record into the buffer.  A control frame whose header failed is
\* unsound: its payload is written all the same, and then the transport is dropped.
SendRecord(d) ==
    LET w == out[d]
        n == RecordSize(w.end - w.at)
        done == w.at + n = w.end
    IN  /\ w # Idle /\ open[Writer(d)] /\ open[Reader(d)] /\ Len(wire[d]) < Buffer
        /\ wire' = [wire EXCEPT ![d] = Append(@, [frame |-> w.frame, from |-> w.at, size |-> n])]
        /\ out' = [out EXCEPT ![d] = IF done THEN AfterPart(d, w.sound) ELSE [w EXCEPT !.at = @ + n]]
        /\ IF done /\ ~w.sound THEN WriteFailed(d) ELSE UNCHANGED <<open, stopping>>
        /\ UNCHANGED <<platform, lengths, in, reading, got>>

\* vw_ipc_send fails: the peer is gone, or the buffer was full until the deadline.
\* send_control_frame writes the payload although the header failed.
SendFails(d) ==
    /\ out[d] # Idle /\ open[Writer(d)]
    /\ ~open[Reader(d)] \/ (slow /\ Len(wire[d]) = Buffer)
    /\ LET goesOn == /\ out[d].kind = "control" /\ out[d].end = HeaderBytes
                     /\ lengths[d][out[d].frame] > 0
       IN  IF goesOn THEN out' = [out EXCEPT ![d] = AfterPart(d, FALSE)] /\ UNCHANGED <<open, stopping>>
           ELSE out' = [out EXCEPT ![d] = Idle] /\ WriteFailed(d)
   
    /\ UNCHANGED <<platform, wire, lengths, in, reading, got>>

-----------------------------------------------------------------------------
\* Reading.

\* The reader of direction d can be in a receive: the worker's has a thread of its own.
MayRead(d) ==
    /\ open[Reader(d)]
    /\ IF d = "up" THEN reading ELSE out["up"] = Idle

\* The bytes that are asked for: all the part still lacks.
Asked(d) == in[d].need

\* The read fails for good: the client drops the transport, the reader ends and stops the worker.
Fatal(d) ==
    /\ IF d = "up" THEN reading' = FALSE /\ stopping' = TRUE /\ UNCHANGED open
       ELSE DropTransport /\ UNCHANGED <<reading, stopping>>
    /\ in' = [in EXCEPT ![d] = Boundary]
    /\ UNCHANGED got

\* The frame that was read goes to the frame queue, or to the caller.
HandOn(d, r) ==
    /\ got' = [got EXCEPT ![d] = Append(@, [frame |-> r.frame, whole |-> r.whole])]
    /\ in' = [in EXCEPT ![d] = Boundary]
    /\ UNCHANGED <<open, reading, stopping>>

\* r is what is known of the frame after the last piece.  A header must begin with the magic
\* number, which nothing but a header does; it tells the length of the payload.
Assemble(d, r) ==
    CASE r.need > 0 -> in' = [in EXCEPT ![d] = r] /\ UNCHANGED <<open, reading, stopping, got>>
      [] r.need = 0 /\ r.part = "header" /\ ~r.whole -> Fatal(d)
      [] r.need = 0 /\ r.part = "header" /\ r.whole /\ lengths[d][r.frame] > 0 ->
            /\ in' = [in EXCEPT ![d] = [r EXCEPT !.part = "payload", !.need = lengths[d][r.frame]]]
            /\ UNCHANGED <<open, reading, stopping, got>>
      [] OTHER -> HandOn(d, r)

\* Win32: n bytes of the first record are read and the rest is read by the next call.
RestKept(d, n) ==
    <<[Head(wire[d]) EXCEPT !.from = @ + n, !.size = @ - n]>> \o Tail(wire[d])

\* One record is received, or as much of it as was asked for.  A socket cuts what does not
\* fit, which is fatal; a pipe keeps it.
Receive(d) ==
    /\ MayRead(d) /\ wire[d] # <<>>
    /\ LET rec == Head(wire[d])
           n == IF rec.size < Asked(d) THEN rec.size ELSE Asked(d)
           first == in[d].part = "header" /\ in[d].need = HeaderBytes
           f == IF first THEN rec.frame ELSE in[d].frame
           r == [in[d] EXCEPT !.frame = f, !.at = rec.from + n, !.need = @ - n,
                              !.whole = @ /\ rec.frame = f /\ rec.from = in[d].at]
       IN  IF rec.size <= Asked(d)
           THEN wire' = [wire EXCEPT ![d] = Tail(@)] /\ Assemble(d, r)
           ELSE IF keeps
           THEN wire' = [wire EXCEPT ![d] = RestKept(d, n)] /\ Assemble(d, r)
           ELSE wire' = [wire EXCEPT ![d] = Tail(@)] /\ Fatal(d)
    /\ UNCHANGED <<platform, lengths, out>>

\* Mutant: the end of the stream between two frames is taken for silence.
PeerGone_MidFrame(d) == ~open[Writer(d)] /\ in[d] # Boundary

\* The other end is closed.
PeerGone(d) == ~open[Writer(d)]

\* End of stream; records still under way may be lost with it.
ReadFails(d) ==
    /\ MayRead(d) /\ PeerGone(d) /\ Fatal(d)
    /\ UNCHANGED <<platform, wire, lengths, out>>

\* The client waited three seconds for the rest of a frame.  The worker's reader waits on, and
\* at a boundary a deadline changes nothing.
RestIsLate ==
    /\ slow /\ MayRead("down") /\ in["down"] # Boundary /\ Fatal("down")
    /\ UNCHANGED <<platform, wire, lengths, out>>

-----------------------------------------------------------------------------
\* vw_worker_client_disconnect, between two calls.
Disconnect ==
    /\ open["client"] /\ out["up"] = Idle /\ in["down"] = Boundary
    /\ DropTransport
    /\ UNCHANGED <<platform, wire, lengths, out, in, reading, stopping, got>>

\* The loop has ended: the reader sees it at its next time-out, is joined, and the handle closed.
WorkerLeaves ==
    /\ open["worker"] /\ stopping /\ out["down"] = Idle
    /\ open' = [open EXCEPT !["worker"] = FALSE] /\ reading' = FALSE
    /\ UNCHANGED <<platform, wire, lengths, out, in, stopping, got>>

\* A call waits in poll, for room in the buffer or for a record.
Waits ==
    /\ \E d \in Directions :
        \/ out[d] # Idle /\ Len(wire[d]) = Buffer
        \/ MayRead(d) /\ wire[d] = <<>>
    /\ UNCHANGED vars

\* Both ends are closed.
Finished == (\A e \in DOMAIN open : ~open[e]) /\ UNCHANGED vars

Next ==
    \/ \E d \in Directions, k \in {"plain", "control", "shutdown"}, n \in UNION {Sizes[e] : e \in Directions} :
            (k = "shutdown" \/ n \in Sizes[d]) /\ BeginFrame(d, k, n)
    \/ \E d \in Directions : SendRecord(d) \/ SendFails(d) \/ Receive(d) \/ ReadFails(d)
    \/ RestIsLate \/ Disconnect \/ WorkerLeaves \/ Waits \/ Finished

Spec == Init /\ [][Next]_vars

\* Both processes go on with a call they are in, the client polls for frames, and a worker that
\* is stopping leaves.  No frame has to be sent.
Fairness ==
    /\ \A d \in Directions : WF_vars(SendRecord(d)) /\ WF_vars(SendFails(d)) /\ WF_vars(Receive(d))
    /\ \A d \in Directions : WF_vars(ReadFails(d))
    /\ WF_vars(RestIsLate) /\ WF_vars(WorkerLeaves)

FairSpec == Spec /\ Fairness

-----------------------------------------------------------------------------
\* The types of the variables.
IpcTypeOK ==
    /\ slow \in BOOLEAN /\ keeps \in BOOLEAN /\ reading \in BOOLEAN /\ stopping \in BOOLEAN
    /\ open \in [{"client", "worker"} -> BOOLEAN]
    /\ \A d \in Directions :
        /\ Len(wire[d]) <= Buffer /\ Len(lengths[d]) <= MaxFrames[d]
        /\ \A i \in DOMAIN wire[d] : wire[d][i].size \in 1 .. RecordMax
        /\ out[d] # Idle => out[d].frame \in DOMAIN lengths[d] /\ out[d].at < out[d].end
        /\ in[d].need > 0 /\ in[d].frame <= Len(lengths[d])

\* vw_worker_client_drop_transport: a client that fails in the middle of a frame "can never be
\* reframed".  What the worker is handed is always a frame the client wrote, whole and in order,
\* wherever a write failed and although send_control_frame writes a payload without its header;
\* and frames of the worker are only mixed when its write failed and its loop is ending.
FramesWhole ==
    /\ \A i \in DOMAIN got["up"] :
          got["up"][i].whole /\ \A j \in 1 .. i - 1 : got["up"][j].frame < got["up"][i].frame
    /\ (\E i \in DOMAIN got["down"] : ~got["down"][i].whole) => stopping

\* ADR-013, the worker's reader never writes: the two processes cannot wait for each other with
\* both buffers full.  Every write ends, also where no deadline ever ends it.
WritesEnd == \A d \in Directions : (~slow /\ out[d] # Idle) ~> out[d] = Idle

\* When one end is closed, or the worker is stopping after a failed write, the other end sees it,
\* in the middle of a frame or between frames, and is closed too.
BothEndsLeave == (stopping \/ ~open["client"]) ~> \A e \in DOMAIN open : ~open[e]

\* The transport lets go of both processes: no write blocks for good, and neither end outlives
\* the other.
NobodyStuck == WritesEnd /\ BothEndsLeave
=============================================================================
