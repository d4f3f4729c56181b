# A TLA+ model of vlc-whisper

vlc-whisper adds live captions to VLC. A plugin inside VLC captures audio and
shows captions; a worker process, connected by a pipe or Unix socket, runs
Whisper and, if asked, translates the captions over the network. This directory
models its components and the places in which threads and processes meet,
checks them with TLC on small instances and proves the most important facts
with TLAPS for all instances.

## The system

Paths are relative to the repository.

| Component | Keeps | Operations | Talks to |
| --- | --- | --- | --- |
| audio capture, `plugin/src/vw_audio_capture.c` | resampling phase, pending discontinuity | process a VLC block | audio queue (push) |
| audio queue, `plugin/src/vw_queue.c` | ring, head, tail, dropped time | push (VLC's audio callback), pop (sender thread) | capture, sender |
| supervisor, `plugin/src/vw_whisper_module.c` | worker client, media identity, pause and seek state, pending model request | open, filter, sender loop, respawn, close | client, presenter, audio queue |
| worker client, `plugin/src/vw_worker_client.c` | process, transport, session id, sequence numbers, cached translation settings | launch, start/stop session, position, receive, shutdown | IPC |
| presenter, `plugin/src/vw_caption_presenter.c` | held video output, SPU channel, current caption | show, flush, blank, clear | VLC video output |
| IPC transport, `protocol/src/vw_ipc_*` | socket or pipe | send and receive with deadlines | client, worker |
| codec and validation, `protocol/src/vw_protocol_*` | nothing | encode, decode, validate | client, worker |
| IPC reader thread, `worker/src/vw_worker.c` | last sequence number, frame being read | read, discard stale, push, give up | frame queue, main loop (`running`) |
| frame queue, `worker/src/vw_worker_queue.c` | frames, backlog and drop counters | push with eviction, pop | reader, main loop |
| main loop, `worker/src/vw_worker.c` | session, pause, source and translation state | one handler per message, source decoding, emission, delivery, drain | everything in the worker |
| audio buffer, `worker/src/vw_audio_buffer.c` | samples, time of the first one | append, read, drain, clear | main loop |
| segment builder, `worker/src/vw_segment_builder.c` | history, finished segments | push hypothesis, pop, clear | main loop |
| translation pool, `worker/src/vw_translate_async.c` | job ring, completions, epoch, ordinals, budget | create, submit, deliver, invalidate, destroy; 4 threads | main loop |
| translation request, `worker/src/vw_translate.c` | nothing lasting | three providers under one deadline | network |
| translation diagnostics, `worker/include/vw_worker_translation_diag_override.h` | registered transport, failure latch | wraps submit, deliver and send in the worker | pool, IPC |
| model download, `worker/src/vw_model_download.c` | stage, part file, abort flag | start, poll, abort; 1 thread | main loop, file system |
| source decoder, `worker/src/vw_source_decoder_*` | decoder, position | open, seek, read | main loop |
| boundary search, `worker/src/vw_vad.c` | nothing lasting | find a place to cut the decoded audio | main loop |
| Whisper engine, filters | model state | transcribe | main loop |

The hard behaviours are: the lock-free queue under VLC's realtime callback; the
pool's threads finishing after the main loop has moved on to another epoch;
frames that overtake, replace or evict each other in bounded queues; writes
that fail half-way; resets (pause, seek, media swap, refused START) that must
forget exactly what is obsolete; orderly ends (STOP at the media's end,
SHUTDOWN) that must forget nothing; a peer that disappears at any moment; and,
on the plugin's side, the handshake, respawn and teardown under time-outs.
`PROJECT.json` lists each of them under `hazards`, at its line.

What makes each component correct:

- *audio capture*: the conversion to 16 kHz does not drift however the audio is
  cut into blocks; no sample stays behind; time stamps stay close.
- *audio queue*: chunks come out whole, once and in order; a chunk is lost only
  at the entry and then counted; no slot is written while it is read.
- *supervisor*: no live caption or session crosses a jump of the time stamps, no cue
  of a file a seek; settings and seeks reach the worker; a dead worker comes back, under a budget; close delivers the last
  captions and always ends.
- *worker client and session protocol*: the client believes in a session only
  when the worker accepted exactly that one; both agree on source mode, settings
  and pause; no handshake blocks for ever.
- *presenter*: every reference held is released once, every caption drawn can be
  erased, nothing outlives the plugin.
- *transport*: frames arrive whole or the connection ends; the two processes
  never wait for each other.
- *frame queue*: bounded; survivors in order; audio accounted to the
  microsecond; SHUTDOWN and the newest START/STOP survive every burst.
- *source decoder, boundary search, audio buffer*: every sample once, in order,
  with its true time; no speech is drained; nothing waits past its time.
- *source timeline*: pauses, resumptions and jumps in any order leave no hole in
  the captions ahead of the viewer.
- *segment builder*: what is heard twice is captioned once.
- *pool*: accepted cues come back once, in order, only in their epoch; room for
  each completion; exact budget; destroy returns and no thread outlives it.
- *translation request*: ends in time, uses only a whole answer, leaves neither
  child nor descriptor behind, blames the right failure.
- *caption path*: captions belong to the active session, once, in order, with a
  failed translation blamed immediately before its caption; a reset forgets all,
  an orderly end nothing; the worker leaves when told to.
- *model download*: a published model is verified and stays so; an aborted
  download is not published; aborting and joining end.

## Modules

| Module | Models | Idea |
| --- | --- | --- |
| `AudioCapture` | `vw_audio_capture.c` | one action per input frame and output sample |
| `SpscQueue` | `vw_queue.c` | one action per atomic access, two per copy |
| `DropNewestFifo` | what `vw_queue.h` promises | abstract bounded FIFO queue that drops at the entry |
| `PluginEpochs` | seeks, pauses and cues in `vw_whisper_module.c` | audio thread and sender thread around shared flags |
| `PluginSupervisor` | launch, settings, requests, recovery in the sender loop | the loop's phases; each client call has its outcomes |
| `PluginClose` | `vw_plugin_close` and `vw_plugin_log_scope_override.h` | the phases of close against a worker that may hang |
| `CaptionPresenter` | `vw_caption_presenter.c` | one action per call, VLC's calls may fail |
| `WorkerClient`, `WorkerClientProofs` | `vw_worker_client.c` and the handlers that answer it | client, worker and two streams of frames |
| `IpcTransport` | `vw_ipc_*`, `receive_all`, the senders | frames as records in bounded buffers |
| `WorkerQueue` | `vw_worker_queue.c`, the reader thread, pop in the main loop | push and pop are atomic, reading and pushing are not |
| `SourceTimeline` | POSITION, PAUSE, RESUME and decoding in source mode, with the plugin's poll | player to screen, seconds of film |
| `SourceDecoder` | `vw_source_decoder_ffmpeg.c` | one action per turn of the read loops |
| `LookAhead` | `vw_vad_find_chunk_boundary`, the chunk loop, the tail flush | every pattern of speech and silence |
| `AudioBuffer` | `vw_audio_buffer.c` | a sample is its true time |
| `SegmentBuilder` | `vw_segment_builder.c` | a text is a sequence of words |
| `CueStream` | what `vw_translate_async.h` promises | abstract: accept, deliver the oldest, invalidate |
| `TranslateAsync`, `TranslateAsyncProofs` | `vw_translate_async.c` | one action per critical section |
| `TranslateRequest` | `vw_translate.c`, `vw_translate_pipe_policy.h` | one action per system call |
| `CaptionPipeline`, `CaptionPipelineProofs` | the caption path of `vw_worker_run` and the diagnostics, on top of `TranslateAsync` | the phases of one loop iteration |
| `ModelDownload` | `vw_model_download.c` and its owner in the main loop | paths and inodes |
| `WorkerInbox`, `WorkerInboxProofs` | | `WorkerQueue` and `IpcTransport` |
| `WorkerCurl`, `WorkerCurlProofs` | | `TranslateRequest` and `ModelDownload` |
| `WorkerAudio`, `WorkerAudioProofs` | | `AudioBuffer`, `SourceDecoder`, `LookAhead`, `SegmentBuilder` and `SourceTimeline` |
| `PluginSeeks` | | `PluginEpochs`, for the next two |
| `PluginThreads`, `PluginThreadsProofs` | | `AudioCapture`, `SpscQueue`, `CaptionPresenter` and `PluginSeeks` in live mode |
| `PluginSender`, `PluginSenderProofs` | | `PluginSupervisor`, `PluginClose` and `PluginSeeks` in source mode |
| `MC...` | | each of `TranslateAsync`, `CaptionPipeline`, `WorkerClient` and the five above, for TLC |

The five modules that name several others put parts side by side that share no state: the
variable `part`, chosen initially, says which of them runs, the others stay in their
initial state, and one run checks the properties of all of them on all behaviours of
each. All constants stay parameters, so that the theorems of a part hold of the module
too; an `ASSUME` collects what the parts assume of them (`IpcConstants`,
`EpochsConstants` and so on). Values are given in the `.cfg`, those that need an
expression in the MC module. Fairness is stated for the part that runs.

Names follow the source (`inflight` is `inflight_count`, `active` is
`active_translation_count`, `nextSubmit` is `next_submit_ordinal`,
`queuedUs` is `queued_audio_us`, `sessionActive` is `session_active`).
Operators named `X_Something` and marked "Mutant" are plausible bugs in `X`;
they are not part of any specification and serve to show that each property can
fail. Variables marked "history" are written and never read by the actions.

Components meet in three ways. `CaptionPipeline` extends `TranslateAsync`, so
both state machines run in one model. `SourceTimeline`, `WorkerClient`,
`IpcTransport`, `PluginEpochs` and `PluginClose` hold both processes or both
threads and what is between them. Elsewhere a neighbour is replaced by outcomes
that are chosen freely: a client call in `PluginSupervisor` (done, refused with the
transport kept, or the transport lost), a translation in `TranslateAsync`, a
transcription in `CaptionPipeline`.

### TranslateAsync

The owner (the worker's main loop) and `ActiveBudget` threads share the job
ring, the completions and the counters under one mutex, so an action is one
critical section. A waiting thread becomes ready by a signal, the broadcast or
spuriously. `work[t]` and `held` are the copies that live outside the mutex: the
job a thread translates and the completion the owner is delivering. A cue is
the number of its acceptance within the epoch. The completion array is a set:
its order is never observed, because `find_next` searches it by ordinal.
`MaxOrdinal` stands for `UINT64_MAX`; the wrap-around is part of the model. The
wrap-around of the 64-bit epoch is not (`MaxEpoch` bounds invalidations).

`StreamSpec` is the refinement: the pool implements `CueStream` with the same
three variables. The abstract delivery is the callback, not the removal from
the array.

### WorkerQueue

The reader reads a frame (one whose sequence number does not advance is thrown
away), then pushes it; the main loop pops. `Victims` and `Superseded` are the
eviction rules. The SHUTDOWN that the reader pushes by itself after a fatal read
is `WakeUp`. History variables record what was handed in and taken out.

### SpscQueue

The two threads of the lock-free ring interleave at every atomic access and in
the middle of every copy: a slot is `Torn` while it is written, and a copy of a
slot that changes is torn too. An acquire load may return any value the index
took since this thread last saw it. Refinement: the chunks between tail and head
are the abstract queue.

### CaptionPipeline

It extends `TranslateAsync` and adds the loop: a frame, delivery, the source
decoder, the builder's segments, delivery again. A segment is its id and
session; how many segments a transcription yields and whether a translation
succeeds are nondeterministic. `wire` is the sequence of caption and diagnostic
frames, a frame that failed half-way with `whole = FALSE`. A write may fail at
any time and a later one may succeed, as with `vw_ipc_send` and its three-second
deadline; after a failed diagnostic the latch refuses everything. STOP and
SHUTDOWN pass through the phases `tail` (what is left of a live stream) and
`drain`. Other replies matter only by failing.

`rejected` and `forgotten` are history: segments the pool turned down, and
segments a reset dropped on purpose.

### WorkerClient

The record `c` is the client structure, `w` the worker's session state, `down`
and `up` the two streams. `vw_worker_client_start_session` blocks, so it is one
action that sends START and then one per frame received (`Started`,
`StartError`, `StartDrains`, or `HandshakeFails` by deadline or write error);
`call` says which blocking call is under way. A seek of a source session is STOP
and START. The caller makes any call the sender thread makes. The stream may
repeat a frame, the worker may volunteer frames and die at any time.

### IpcTransport

A frame is its number; a record is the stretch of its frame that it carries. A
header and a payload are written by two calls of `vw_ipc_send`, each in records of
at most `RecordMax`, into a buffer of `Buffer` records. `keeps` chooses the
platform: a Unix socket cuts a record that does not fit the receiver's buffer
(fatal), a Windows pipe keeps the rest. The client has one thread for writing and
reading, the worker a reader thread and the main loop. A frame the receiver puts
together of the records of several frames is marked `whole = FALSE`.

### PluginSupervisor, PluginEpochs, PluginClose

The sender thread of `vw_whisper_module.c` is split by concern. `PluginSupervisor`
follows `pc` through one turn of the loop: poll of the configuration, translation
settings, model request, new settings, transport recovery, sending, receiving;
the user changes settings between any two steps. A START may be refused, by the
worker or before it is sent (a model or URL that is too long, no random bytes), and
leaves the transport as it was. `worker.sent`, a history variable, says whether the worker
was sent the settings the plugin holds, or its session was begun without them.

`PluginEpochs` has VLC's audio thread, which compares the time stamps of successive
blocks and raises a flag when they jump, and the sender, which polls the player's
position, its rate and its medium. The time stamps are dates of the audio output,
not positions in the film: a seek may make them jump or not, and they may jump without
a seek, so the two are independent choices of the model. Live audio and cues carry the
run of audio between two jumps that they come from, cues of a file the number of the
seek they follow. A medium may change with or without the poll seeing another
URI (streams all look alike to it). `told.stale` is history: a seek was sent to a
position that was polled of the medium before. `whisper-show-paused` is constant
in a behaviour. `PluginClose` is the order of `vw_plugin_close`: join,
clear, STOP, drain, SHUTDOWN, disconnect, with the watchdog as `late`.

### CaptionPresenter

The presenter's fields and the screens of up to two video outputs; VLC may
replace the output between any two calls, and registering a channel or allocating
a subpicture may fail. `holds` counts the references on each output. `Floors` are the
shortest times a cue is shown, a second of wall clock at each playback rate; `Default` is
the fixed 2 s of a cue without a duration, which above rate 2 is less than that. That a cue
is readable is stated of the one that makes way for the next (`Clipped`), where the code
applies the floor in the end; a cue without a duration that is flushed alone has the
default and no more.

### SourceTimeline

The film is seconds, each of which gets one caption. `Poll` is the sender's poll,
`Handle` the frame handlers, `Decode` one read with its caption, sent directly or
through the pool. `w.cur`, `w.dec` and `w.last` are `current_playback_pts_us`,
`decoded_pts_us` and `last_playback_pts_us`; `at` is where the decoder really is. The user may
change the playback rate: the poll blanks the captions, forgets the target of the last
seek and sends a plain position. The captions received ahead of the viewer are then gone and
nothing makes the worker decode them again; the history variable `lost` keeps them
until the next pause, resumption or seek, which starts over.

### SourceDecoder, LookAhead, AudioBuffer, AudioCapture

The data path of the audio. In `SourceDecoder` FFmpeg is external: a demuxer, a codec
that holds up to `CodecDepth` frames and a resampler that keeps `Delay` samples;
a sample is its time in the file. Time bases are not rounded: the conversions between
time base, microseconds and samples are the identity. `LookAhead` gives the boundary search every
pattern of speech and silence; the detector reports the true stretches or fails. A
segment is known by where it ends and where the next one begins. A block whose time stamp
is more than a sample off (a time base of milliseconds is enough) makes the audio buffer drop
the window that was not yet heard (`Replaces`); `SpeechKept` is about the boundaries, not
about that loss.
`AudioBuffer` counts in half microseconds, as the code does with its `frac` field.
`AudioCapture` keeps the accumulator of the rational resampler and the time stamps
of the chunks, rounded as in the code.

### SegmentBuilder

The speech is the words 1, 2, ...; the windows of the live loop slide over it, or grow
from the same start while a session is young (`NextWindow`), and a hypothesis is a
stretch of the window from which up to `Missed` words are missing. What is held back at
the edge of a growing window, or judged no speech, is in no hypothesis. `Verdict` is the
deduplication against one earlier caption, `Deciding` the newest that decides.
That no pair of words is captioned twice is stated while the windows hear the same words
(`intact`, a history variable). The comparison of the code is of exact words, and with
words missed it can be defeated: after 2 3 4 for the words 1 to 4, the hypothesis 2 3 5 6
for the words 2 to 6 shares neither its beginning nor a whole text with that caption and is
captioned whole. Once means at most once: a hypothesis that contains an earlier caption is
dropped with the words it adds. The order of the ring and what a clear forgets are stated of all
hypotheses.

### TranslateRequest

One action per system call between `pipe()` and `waitpid()`: the pipes and their
close-on-exec flags, spawn, non-blocking mode, the poll loop, the reaping, then the
judgement of the status line and the parser's verdict. Time runs in half
milliseconds, so that rounding to milliseconds can matter. Two threads share the
SIGPIPE disposition and the descriptors a child inherits.

### ModelDownload

A path holds an inode or nothing, and a downloader writes to the inode it opened.
`flock` is the lock of the destination, `child` the curl process, which may outlive
its worker for as long as its parent-death policy lets it.

## Runs

| Run | Part | Shows | Bounds |
| --- | --- | --- | --- |
| `pool` | | room for each completion; every cue in one place and an exact budget (`PoolAccounted`); no thread outlives the pool; refinement of `CueStream` (`StreamSpec`); every cue comes back | 3 threads, ring of 2, completion array of 4, ordinals wrap after 4, 5 cues, 2 epochs |
| `captions` | | each caption once, and in order unless the pool turned it down; a failed translation blamed just before its caption; a drain leaves nothing; nothing that a reset dropped comes back; the worker leaves | 1 thread, ring of 1: three segments fill the pool and the fourth is turned down; 3 epochs, 2 sessions |
| `worker_inbox` | queue | order and accounting (`QueueExact`), the newest START or STOP survives, SHUTDOWN is obeyed | 3 slots, 5 frames of 7 types |
| | ipc | frames whole (mixed ones only from a worker that is stopping); no write blocks for good and no end outlives the other (`NobodyStuck`) | header 2, records of at most 3, payloads 1, 2, 4 and 5, buffers of 2 records, 2 frames each way, both platforms, with and without expiring deadlines |
| `plugin_threads` | capture | exact conversion across blocks (`NoDrift`) | target 3, rates 2, 3, 8 and 9, chunks of 2, blocks up to 4, 14 frames |
| | queue | refinement of `DropNewestFifo` (`FifoSpec`): whole chunks, once, in order, losses counted | 3 chunks in 4 slots, 9 chunks: the indices go round twice |
| | epochs | live mode: no session and no caption crosses a jump of the time stamps (`JumpSeparates`) | 2 places, 1 jump, 1 seek or change of the medium, 1 pause, 1 stretch of invalid stamps, 1 chunk queued |
| | screen | references balanced, captions erasable, nothing left, cues readable | 2 outputs, 3 channels, times 0 to 4, floors below and above the default |
| `plugin_sender` | supervisor | settings reach the session (but for the first medium after a refused START), a pending download has a worker, the budget is accounted for (`BooksAgree`); a worker returns | 1 respawn, 2 deaths, 1 change by the user |
| | close | the tail is shown, SHUTDOWN is sent once (`OrderlyClose`); close ends | 3 units of audio, queue of 2 |
| | epochs | source mode: no cue crosses a seek, a paused preview goes (`SourceCuesFresh`); a seek reaches the worker | 1 seek, back, or change of the medium; 2 toggles |
| `worker_curl` | request | SIGPIPE never kills the worker, and a child that inherits the pipes of another request spoils no answer (`RequestsApart`) | 2 threads, 1 tier, deadline of 1 ms |
| | download | published stays verified, with no writer left; aborted is not published | 2 workers, 1 crash, 2 downloads, 2 inodes |
| `worker_curl_live` | request | whole answer, nothing left behind, right blame (`ReturnContract`); a request ends | 1 thread, 3 tiers, deadline of 2 ms, pipes of 1 part, buffer of 2 |
| | download | the join of the thread returns | 1 worker, 2 downloads, curl and WinHTTP |
| `worker_client` | | a session confirmed was accepted, by a worker that names its sessions, and no frame is used twice (`StaleFramesIgnored`); source mode, settings and pause arrive (`WorkerFollowsClient`) | 3 sessions, 2 workers, 3 calls, a repeated and a volunteered frame |
| `worker_audio` | buffer | the stamp does not drift and is true within the slack | ring of 4, blocks of 1, 2 and 6, stamps that jump by up to 64 µs either way |
| | decoder | every sample once, in order, with its time; the end means all (`DeliversTheFile`) | 9 samples, packets up to 4, blocks of 3, 2 seeks |
| | look | no speech drained, and cut through only by a full window (`SpeechKept`) | file of 15, chunks of 6 to 11, both detectors |
| | builder | nothing captioned twice, ring in order, a clear forgets (`CaptionedOnce`) | 5 words, windows of 4 that slide or grow, up to 1 missed, history of 2, 3 hypotheses between clears |
| | timeline | no hole ahead of the viewer but what a new rate blanks (`NoHoleAhead`); the anchor is true after a failed seek, which is not repeated (`FailuresContained`) | film of 3 s, lead 1 s, 1 jump or change of the rate, 2 toggles, 2 failed seeks |
| `captions_order` | | *violation*: a rejected segment overtakes older ones | as `captions`, one session |
| `worker_queue_refusal` | queue | *violation*: a refused control that is not soft | 2 slots, 4 frames |
| `translate_request_blame` | request | *violation*: an unreachable host is blamed on the provider | 3 tiers |

Each module also states its type invariant. TLC has evaluated them all on these
instances; the listed runs spend their time on the other properties, and those of the
modules with a proof module are parts of the invariants proved below.

Why the bounds are enough: each lets the structure fill up, overflow and empty
again, and lets something old survive a reset. In the pool a second epoch while
threads hold work of the first one is the only relation between epochs the code
looks at (equal or not); three threads give two orders of completion among
concurrent jobs while a third is stale. The queue needs one frame more than its
slots to evict, and two more to evict twice. The rings need to wrap. All types
of frames that the eviction rules tell apart occur. Two sessions, or the audio
before and after a jump, make one late frame of the first meet the second; one more
repeats that, and the theorems are about any number. `SeekReachesWorker`, which has no
theorem, meets its hard case with one seek: a flag of the audio thread, or a pause, handled
with the position from before it. In the transport a payload of 4 is as long as a header and a payload of 2,
so that a torn frame can be completed by the frame behind it. The sizes of
`LookAhead` keep the order of the code's thresholds (padding below the gap, gap
below the shortest chunk, longest chunk below the lead), and the file is longer
than a full window; those of `SourceDecoder` let a packet, the resampler's output
and a block each be larger than the next. Rates that are multiples, equal, slower
and without common divisor occur in `AudioCapture`. A model file needs two inodes:
the one published or being written and the one of a download that replaces it.

Every action and every alternative of an action is taken in some run, but one: at the
end of a file the boundary search of `LookAhead` always finds something to cut or to
drain, so the error path behind it is never taken (`LookInvariant` proves that).

Passing runs check for deadlock, except `worker_audio`, where the speech of
`SegmentBuilder` and the file of `SourceDecoder` come to an end, and the `worker_curl`
runs, where the calls of `TranslateRequest` return.

Symmetry is used for threads, workers and inodes in `worker_curl`, which has no
liveness property.

### Fairness

- `TranslateAsync`: every thread runs and every translation ends (each request
  has its deadline, `RequestEnds`); the main loop polls `try_deliver` on every
  iteration and does not stop inside a call. Submitting and invalidating are not
  fair, and neither are spurious wake-ups.
- `WorkerQueue`: the main loop polls the queue; the reader finishes its push and
  its receives time out, so it sees `running` fall. No frame has to arrive.
- `CaptionPipeline`: the loop's own steps, the pool's threads and destroy. No
  frame has to arrive.
- `IpcTransport`: a call goes on while it can, the client polls for frames in
  every turn of its loop, a worker that is stopping leaves. No frame is sent.
- `PluginSupervisor`: the thread runs; the retry without a worker is due again
  and again (strong fairness: it is by the clock, which other branches of the
  loop do not stop); whatever makes launches fail is repaired some day.
- `PluginEpochs` (source mode): the sender runs; its queue runs dry and the position, or the URI of
  another medium, can be read again and again (strong fairness: both are up to the player's pace).
- `PluginClose`: the closing thread and the watchdog's clock. Nothing is asked of
  the worker.
- `TranslateRequest`: the thread and the clock. A child may hang for ever.
- `ModelDownload`: thread, main loop and curl, which has `--max-time`.

`SpscQueue`, `CaptionPresenter`, `WorkerClient` and the modules of the audio path
are checked for safety only, so they state no fairness.

### Disagreements with the comments and documents

Three of them are runs:

- `vw_worker_queue.c:137` says that only PAUSE and RESUME can be dropped among
  controls. POSITION, TRANSLATE_CTRL and MODEL_CTRL can be refused as well, by a
  full queue of START and STOP (`worker_queue_refusal`).
- `vw_translate_async.c:247` says that a rejection "never exposes a newer caption
  ahead of older work". The caller sends the rejected segment at once, so it does
  (`captions_order`). `OnceAndInOrder` shows that this is the only way a caption
  overtakes another.
- `docs/api-contracts.md:94` keeps transport failures apart from the provider's.
  curl prints status 000 for a host it cannot reach, and that is classified as the
  provider's (`translate_request_blame`).

The others can be read off the actions of the models and have no run of their own:

- `docs/api-contracts.md:56` says that the wait for a download persists until its
  end. `start_session` reads a DONE and forgets it (`StartDrains` in `WorkerClient`).
- `vw_worker_client.c:332` and `:460` say that a STARTED left from an earlier attempt
  does not confirm the session of a retry. That needs the session id that STARTED
  carries since protocol minor 6. With an older worker a fatal ERROR of an earlier
  session can end a handshake whose STARTED is still to come, and the retry takes that
  one for its own. `StaleFramesIgnored` and the source mode in `WorkerFollowsClient`
  are therefore stated for workers that name their sessions (`c.modern`).
- `vw_whisper_module.c:1056` says that a missing client must not spend the
  recovery budget. A model request without a client does; `BudgetAccounted`, a part of
  `BooksAgree`, shows that nothing else does.
- `vw_whisper_module.c:1615` says that old audio is drained before new is queued.
  Nothing waits for that; the cost is new audio drained with the old.
- `vw_caption_presenter.c:481` says that blank flushes both channels. It returns
  after the subpicture channel when there is one, and a caption that had to be drawn on
  the OSD channel stays.
- `vw_translate_pipe_policy.h:24` promises close-on-exec originals. They are so
  only some calls after `pipe()`, and a child of another thread may inherit them in
  between and withhold the end of file. `RequestsApart` shows that the answers stay
  whole all the same, and `RequestEnds` that a request does not need the end of file.
- `vw_segment_builder.c:338` says that a cue begins where the covered audio ends.
  The tail trim returns before that clamp: after the cues 0-3 (words 2 3) and 3-4
  (word 4) the candidate 2 3 5 6 queues 5 6 at 3-6.
- `vw_segment_builder.c:296` says that the words of a dropped candidate are
  covered. A candidate that contains a one-word cue is dropped with its new words:
  after the cues 0-2 (1 2) and 2-3 (3) the candidate 2 3 4 5 is.
- `docs/architecture.md:66` caps trailing silence at 300 ms. The cap applies to the
  last segment of a window only, and only from 6 s on (`vw_vad.c:173`).

Seen while modelling, and stated by no document:

- After a caption frame fails half-way the worker may write more frames in the same
  iteration. If their lengths happen to add up, the client puts a header and foreign
  records together (`whole = FALSE` in `IpcTransport` is reachable); its payload
  decoder has the last word. `FramesWhole` and `NobodyStuck`
  bound the damage to a connection that is ending.
- `PluginEpochs`: a live seek whose time stamps do not jump is seen by the poll only, every
  100 ms, so audio of both sides may reach one session until then. After a restart of the
  session the poll has no last position either, and a seek before its next reading is not
  seen at all. `JumpSeparates` therefore speaks of jumps of the time stamps.
- `PluginEpochs`: a seek flagged just before the poll meets another medium is handled for
  the new one. When its position cannot be read in that poll, the worker is sent a seek to the
  position polled of the medium before, and as the poll starts afresh with the medium,
  nothing corrects that (`told.stale` in `SeekReachesWorker`).
- `PluginSupervisor`: translation settings polled while no session runs are stored and not
  sent (`vw_whisper_module.c:872`). A respawn and a live restart send them, a change of the medium
  (`:1104`) does not: after a START that was refused (a URL of 1024 bytes or more is)
  the session of the next medium runs untranslated until a setting changes.
  `SettingsReachSession` excepts exactly that (`sent = "skipped"`).
- `SourceTimeline`: a change of the playback rate leaves a hole of the captions already
  received (`lost`); `NoHoleAhead` says that it leaves no other.
- `PluginSupervisor`: a respawn reads backend, language and threads afresh while the
  snapshot is the older one; settings changed back within the poll's interval leave
  the worker with the reverted ones unnoticed. A model request written between the
  poll's read and the clearing is erased. A request that fails with the first
  snapshot is not tried again.
- `ModelDownload`: a download that starts and is aborted between two polls leaves
  stage IDLE, so the main loop keeps the finished download and its lock until the
  next request or the exit.
- `SourceTimeline`: a user's seek moves the decoder twice (a plain POSITION comes
  before the client's STOP and START). A resumption does not clear
  `seek_failed_pending`, so after one failed implicit seek none is tried until the
  next session; decoding catches up instead. Captions on the wire during a quick
  pause and resumption can be shown and then made again.
- `SourceDecoder`: a frame whose output exceeds 4096 samples leaves the rest in the
  resampler; the labels stay right.
- `AudioCapture`: a reset asked for between the load and the store of the flag is
  one with the reset that is being done.

## Proofs

The theorems hold for every value of the constants that satisfies the assumptions; the
runs show the same on one instance each. The assumptions are the named `ASSUME`s of the
modules, which TLC evaluates in the runs.

A module such as `WorkerInbox` extends its first part and instances the others. The
theorems on an instanced part are stated of the part's own specification, under the
part's assumptions (`ASSUME Ipc!IpcConstants PROVE Ipc!Spec => []Ipc!FramesWhole`), and a
last theorem carries the property over to the specification that the run checks
(`InboxSpec => []FramesWhole`), since every step of it is a step of the part or leaves
the part alone.

### The pool

`TranslateAsyncProofs` holds for every number of threads and every capacity
greater than zero, every ordinal range that covers the completion array
(`MaxOrdinal >= QueueCap + 2`) and all bounds; these are the named assumptions of
`TranslateAsync`.

`RoomForEveryCompletion` (the counter `inflight` is the number of threads at work, and
jobs, work and completions together fit into the completion array) is not
inductive by itself. `PoolInv` adds the types, that a working thread and a
delivering owner really hold a job and a completion, that the completions are
a finite set, and that threads are born in index order and a released pool has
only ended ones. Each action then moves one unit between ring, work and
completions, or removes one; only `submit` adds one, after checking for room.
There is one lemma per action; `PoolInvNext` joins them and four theorems
follow:

- `PoolInvariant`: `Spec => []PoolInv`;
- `TypeCorrect`: `Spec => []TypeOK`: among others the ring never overflows, the
  unsigned counters never go below zero and the budget is never exceeded;
- `CompletionsFit`: `Spec => []RoomForEveryCompletion`: the silent early return in
  `push_result_locked` is dead code;
- `PoolOutlivesThreads`: `Spec => []NoThreadOutlivesPool`.

`OrderInv` says which cue is where: the ring holds the newest cues, each thread of this
epoch and each completion has a cue of its own between those consumed and those in
the ring, none in between is missing, and every ordinal is its cue's number up to
wrap-arounds (`HasOrdinal`). The window between `nextResult` and `nextSubmit` has as
many cues as the three places hold, which `PoolInv` keeps below `MaxOrdinal`: so equal
ordinals are equal cues, and the completion that `try_deliver` finds by ordinal is
the next cue (`TryDeliverInTurn`). Stale work of older epochs is outside of all this,
so that finishing it changes nothing. Theorems:

- `OrderInvariant`: `Spec => []OrderInv`;
- `PoolImplementsStream`: `Spec => StreamSpec`, the refinement of `CueStream`;
- `BooksBalance`: `Spec => []PoolAccounted`: every accepted cue in one place, and
  `active_translation_count` exact, with lemmas on how the set of granted jobs changes
  when a job is appended or taken.

### The caption path

`CaptionPipelineProofs` is built on them, for every number of segments and sessions
too. Every step of the loop is a step of the pool or leaves it alone, so
`LoopUsesPool` (`PipeSpec => Spec`) carries the pool's theorems over, and from the pool the
proof needs only how many cues of this epoch were handed over (`Given`), since those
are the oldest ones. None of the four properties is inductive; `PipeInv` says where a
segment can be:

- the builder holds the newest segments, of the session that is active, and nothing in
  the phases that do not expect it (`BuilderKnown`);
- the submitted ones are in order, and all that left the builder is older than what is
  in it (`SegmentsOrdered`); the pending ones are of the active session and not
  dropped, or there is no session and they are (`PendingFresh`: a refused START leaves
  the pool with such work); they are not on the wire, and only rejected ones have
  overtaken them (`PendingUnsent`);
- while the worker runs, what left the builder is on the wire, dropped or pending
  (`NoneMissing`), and after the drain nothing is pending (`Drained`);
- a torn diagnostic has latched the transport (`TornLatches`), a latched one has
  stopped the worker, and nothing is made before the first delivery has
  registered the transport (`TransportKnown`). Without the last fact a diagnostic could fail
  on an unregistered transport, whose latch counts for nothing.

Theorems: `PipeInvariant`, `PipeTypeCorrect`, `CaptionedOnceInOrder` (`OnceAndInOrder`),
`BlameComesFirst` (`BlamePrecedesItsCaption`), `DrainIsComplete` (`DrainLeavesNothing`)
and the action property `NothingStaleIsWritten` (`NoStaleCaption`), which holds of
each step because only three actions write, each a segment that is fresh.

### The worker's inbox

`WorkerInboxProofs` holds for every capacity, every duration and every sequence of frames
from the plugin. `QueueInv` adds to the two properties that everything queued or popped
is older than what the reader will push next (`Older`), that the frame in the reader's
hands is the one it read last (`HandedOn`), and that no directive in the queue is newer
than `newest` (`DirectivesKnown`). Without `Older` an eviction could be followed by a
frame that breaks the order. The backlog is a sum over a sequence, and what an eviction
does to it is shown by induction: a counterexample to a statement on sums would have a
least length, and the well-founded order of the naturals gives that least one
(`LeastMember`, `Totals`). Theorems: `QueueInvariant`, `QueueIsExact` (`QueueExact`),
`NewestDirectiveKept` (`NewestDirectiveSurvives`).

For the transport (`IpcInv`) the sizes of headers, records, payloads and buffers are
arbitrary, and both platforms are covered. In each direction whose reader still reads, the
records from the reader's position to the writer's are one unbroken stream, each the
continuation of its frame or the first of a newer one (`InStep`); or the reader has taken
a piece of a payload for a header and is about to refuse it (`Spoiled`). The second case is
the control frame of the client whose header failed and whose payload is written all
the same. Theorems: `IpcInvariant`, `IpcFramesWhole`, `InboxFramesWhole` (`FramesWhole`).

### The audio of the worker

`WorkerAudioProofs`, the buffer: for every capacity and all block sizes, drains and gaps.
`AdvanceAdds` says that advancing a stamp by m and then by n samples is advancing it
by m + n, the half microsecond included; with it `BufferInv` (the types and
`NoDrift`: the stamp is the one last set, advanced by all samples dropped since)
is inductive, and `BufferTypes` and `StampNeverDrifts` follow. `StampDatesEverySample`
(`StampIsTrue`) says that the one stamp dates every sample copied out to within one
sample of its true time. It adds which sample of the window lies in which slot of the ring;
the lemmas on remainders show that positions less than a ring apart never
share a slot.

The decoder: for every file, packet, block, codec and resampler size, any seeks and pauses.
`DecoderInv` says that what is delivered, the left-overs, what the resampler and the codec
hold and the pending packet are one stretch of the file without a gap (`Unbroken`), that
it goes on where the block under way ends or lies before the target of a seek
(`Joined`), and that the decoder's clock is the time of its first sample (`Dated`). The
property, which speaks only of finished blocks, says nothing of the samples inside.
Theorems: `DecoderInvariant`, `DecoderDeliversTheFile`, `AudioDeliversTheFile`
(`DeliversTheFile`).

The look-ahead: for all chunk sizes, padding, pauses, leads and files with
`ChunkMin <= ChunkMax <= Lead`, `2 * Pad <= Gap` and `Pad <= Trailing`, as in
the code. The weight is on the lemmas on the boundary search, one for each way it can
answer: it takes at least one unit and no more than it saw, or nothing before the end of the file
(`Takes`); it drains no speech, and a cut does not go through speech unless the window is full
(`KeepsSpeech`). A cut in a pause needs `2 * Pad <= Gap`: with less the middle of the padded
pause could lie in the next word. Theorems: `LookInvariant` (the types, and the tail of
a file is never refused), `LookKeepsSpeech`, `AudioKeepsSpeech` (`SpeechKept`).

The builder: `BuilderInv` locates each pending caption in the ring, also across the
copy to a larger one, and counts the ids; while nothing has been captioned since the
last clear, nothing is known that could drop a hypothesis (`StartsAnew`). The history is
of captions made and ends with the newest, whatever it has forgotten (`HistoryEnds`), so
the newest caption is the first that a hypothesis meets. While no word has been missed
(`WordsOnce`), a caption is a run of words, begins no earlier than the captions before it
end, and the newest ends at `covered`. A hypothesis that is not dropped by its times and
begins before that frontier overlaps the newest caption (`NewestStops`), which lets it not
pass: it shares its beginning with that caption's end, or contains it (`VerdictOnRuns`).
So it is dropped, or trimmed to what follows the frontier (`PushWords`). The lemmas on
runs say what a part of a run is and that `TailPrefixLen` of two runs is where they overlap.
No size of the history, the windows or the tolerance is assumed. Theorems:
`BuilderInvariant`, `BuilderHandsOutInOrder`, `BuilderCaptionsOnce`, and of the
composition `AudioCaptionedOnce` (`CaptionedOnce`).

Source mode: for every film, lead, jump and set of rates, and any number of moves, changes of the
rate, toggles, failures and frames under way. `TimelineInv` orders the frames between plugin and worker: those no START
is behind are of the plugin's session, from its seek on and in the order of the film,
and what makes the worker drop captions is one with the plugin's pause, or has a RESUME
or START behind it (`FramesOrdered`, `InSession`). Then `NothingLost`: a second ahead of the
playhead is shown, on its way, in the window, about to be decoded again, or blanked for a new
rate since; `NoHoleAhead` is
what is left of it when nothing is on its way. Theorems: `TimelineInvariant`,
`TimelineFailuresContained`, `TimelineNoHoleAhead`, `AudioFailuresContained`
(`FailuresContained`), `AudioNoHoleAhead` (`NoHoleAhead`).

### The threads of the plugin

`PluginThreadsProofs`, the capture: for every target rate, set of source rates, chunk size
and clock. Its invariant `IInv` joins `CaptureTypeOK` with three equations: `Exact`
(samples made times the rate, plus the accumulator, is what was fed times the target,
plus the first accumulator), `InChunks` (a sample made is pushed or in the chunk)
and `Stamped` (the stamp of the chunk under way lies between the exact duration of
the chunks before it and that plus one rounding for each). `NoDrift` speaks only of
the time between blocks and is not inductive; `Exact` also holds inside the loops,
and since the accumulator is below the rate when a block ends, the quotient in
`NoDrift` is the number of samples. Theorems: `CaptureTypeCorrect`, `CaptureNoDrift`,
`CaptureAllPushed`, `CaptureStampsClose`.

The ring: for every capacity and number of chunks. `RingInv` places both indices and what
each thread has seen of the other's on the
ring: the producer's view of the tail is behind the tail, the consumer's view of the head
between tail and head. Hence a push writes outside the stretch from tail to head and
a pop reads inside it, all slots of which are whole. `RingImplementsFifo` and
`ThreadsFifo` (`FifoSpec`): every step is a step of `DropNewestFifo`, or a stutter, when
the queue is the contents of that stretch.

The presenter: for any number of outputs, channels and calls, and whatever the floors and the
default. `PresenterInv` ties a channel
to its reference, allows a caption that stays only on the channel that is held, and counts
one reference for each of the two fields that may hold an output. Theorems:
`PresenterInvariant`, `PresenterScreenContract`, `ThreadsScreenContract` (`ScreenContract`).

Seeks and pauses, in both modes: for any number of places, seeks, jumps of the time stamps,
pauses, changes of the medium, chunks and invalid stamps. `EpochsInv` says of a live session that
no handler is about to end that everything queued, sent and shown is of the run of audio the audio
thread is in (`LiveClean`), and of a source session that the cues with its number are those of the last seek
(`SourceClean`). The two properties alone say nothing of the queue between the two threads.
Theorems: `EpochsInvariant`, `EpochsJumpSeparates`, `EpochsCuesFresh`,
`ThreadsJumpSeparates` (`JumpSeparates`), `SeeksCuesFresh` (`SourceCuesFresh`).

### The sender and its worker

`PluginSenderProofs`, the supervisor: for every set of settings, every budget and any number
of deaths. `BooksAgree` becomes inductive with: a worker that was sent the settings has those
the plugin holds, whether it has a session or not, and a worker with a session was sent them or
had its session begun without (`SettingsKept`), and a death that is noticed has not been paid for
(`DeathUnpaid`). Theorems: `SupervisorInvariant`, `SupervisorBooks`.

The teardown: for every queue, any amount of audio and any number of reports. `CloseInv`
counts: a unit of audio is queued, on its way, with the worker, on its way back as
a caption or shown (`Accounted`, with occurrences in a sequence counted by running totals,
as in the inbox), and a worker that neither hangs nor dies meets SHUTDOWN as the
last frame and answers with the end of the stream (`InOrder`). Theorems:
`CloseInvariant`, `CloseIsOrderly`, `SenderOrderlyClose` (`OrderlyClose`).

`WorkerClientProofs` holds for any number of sessions, workers, calls and repeated
frames. `ProtocolInv` speaks of the frames under way: STARTs are of ever newer
sessions (`StartsFresh`), a STARTED is of an accepted session and tells its source mode
(`StartedsTrue`), the last settings under way, or without any the worker's own, are
those the client has cached (`SettingsOnTheWay`), and the same of the pause, from
START on (`PauseOnTheWay`). Theorems: `ProtocolInvariant`, `NoStaleFrame`
(`StaleFramesIgnored`), `ClientIsFollowed` (`WorkerFollowsClient`).

### The users of curl

`WorkerCurlProofs`, the requests: for any number of threads and every deadline, text,
pipe and buffer size. What is known of a thread (`Sound`) is a predicate of its own locals,
pipes and child and of the clock, so the step of another thread cannot disturb it;
only SIGPIPE is shared. It follows the text into the child (`Feeding`), the answer out
of it (`Reading`: what was read, is in the pipe and is left to print make up what curl
prints) and the blame (`Blamed`). Theorems: `RequestInvariant`, `RequestsKeepApart`
(`RequestsApart`), `CallReturnsAsPromised` (`ReturnContract`).

The download: for any number of workers, models, inodes and crashes. That a published file
stays verified depends on nobody having its inode open; `DownloadInv` therefore follows
the names of the inodes (no inode has two, `NamesApart`), who may write to them (a
downloader lives only while its thread waits for it, and writes to the thread's part file,
`ChildrenWatched`), and the lock that keeps two threads from one part file (`Locked`); what
a thread is about to publish has been verified (`Received`). Theorems: `DownloadInvariant`,
`DownloadPublishedStaysVerified`, `DownloadAbortedIsNotPublished`,
`CurlPublishedStaysVerified` (`PublishedStaysVerified`) and the action property
`CurlAbortedIsNotPublished` (`AbortedIsNotPublished`).

### Only model-checked

- The liveness properties: `EveryCueComesBack`, `WorkerLeaves`, `ShutdownObeyed`,
  `NobodyStuck`, `WorkerReturns`, `CloseEnds`, `SeekReachesWorker`, `RequestEnds`,
  `JoinReturns`. Fairness and `ENABLED` are out of the prover's reach.

Every other invariant and action property of a passing run is a theorem.

## Not modelled

- A worker whose translation pool could not be created (captions then go out
  untranslated), and `vw_translate_async_try_pop`, which only the tests call.
- Listening and connecting (`vw_ipc_listen`, `vw_ipc_connect`): one connection, a
  deadline and the peer check; in `WorkerClient` a launch succeeds or fails.
- The codec and the validation: pure functions of one frame. A frame that decodes
  badly is a choice of the models where the code reacts to it.
- Texts, languages, JSON and HTML extraction, the WinHTTP translation path, SHA-256,
  inference, voice detection and the hallucination filter: their results are
  choices.
- The sizes of live mode's windows (that they overlap and grow is in `SegmentBuilder`), and the
  Media Foundation decoder of the Windows build.
- In `SourceDecoder`, frames without a time stamp (`vw_source_decoder_ffmpeg.c:228`), a read
  that ends without progress (`:387`) and the end reported by the codec before the demuxer (`:389`).
- In `TranslateRequest`, a transfer that breaks in the body (status 200 with exit 18, 28 or 56),
  an error of `poll` (`vw_translate.c:980`) and a child that was reaped elsewhere (`:1055`).
- In `WorkerClient`, a START whose first source seek fails and that is answered by STARTED
  without source mode and without an ERROR before it (`vw_worker.c:809`).
- In `ModelDownload`, the moment between the release of the lock and the death of the child
  when a worker dies: they are one step.
- The half microsecond of the stamp that `vw_audio_buffer_get_samples` leaves out of the time it
  reports.
- `whisper-show-paused` in `SourceTimeline` (it is in `PluginEpochs`, and does not change while
  a film plays).
- Logging, benchmark, quality runner, configuration parsing, the Lua extension and
  the operating-system layers: output, input or metrics without a protocol.

## Plan

Modelled, in this order: the pool with its abstraction, the frame queue, the audio
queue with its abstraction, the caption path; then model download, client and
session protocol, supervisor, epochs, presenter, close, translation request, audio
buffer, segment builder, look-ahead, source decoder, source timeline, audio capture
and transport.

Proved: all safety and action properties of the runs, of the pool and the audio queue also
the refinements.

Worth doing next: how much is captioned twice when windows miss words; the buffer behind live
mode's windows; the WinHTTP translation path.
