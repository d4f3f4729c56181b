-------------------------- MODULE TranslateRequest --------------------------
(***************************************************************************)
(* vw_translate_text_detailed on the pool's threads: three tiers under one *)
(* deadline, each an HTTP request made by a curl child that is fed through *)
(* one pipe and read through another.  The threads share the process: its  *)
(* SIGPIPE disposition, and the descriptors any child inherits that are    *)
(* not yet close-on-exec.  The POSIX build, with the calls                 *)
(* vw_translate_pipe_policy.h puts in place of pipe() and sigaction().     *)
(* Time is counted in half milliseconds, so that rounding to milliseconds  *)
(* shows.  A response is a sequence of body parts and curl's status line.  *)
(***************************************************************************)
EXTENDS Integers, Sequences, FiniteSets, SequencesExt

CONSTANTS
    Threads,        \* threads of the pool, one request each
    Budget,         \* VW_TRANSLATE_TIMEOUT_MS, in half milliseconds
    Grace,          \* what a child may overrun before it is killed
    Horizon,        \* bound: the clock stops here, and no request begins that could pass it
    Payload,        \* parts of the text fed to curl
    PipeRoom,       \* parts a pipe holds before a write would block
    Buffer,         \* parts that fit in the response buffer
    LastTier,       \* tiers there are: 3 in the code, fewer to bound a run
    Bodies          \* sizes of a body, in parts

ASSUME RequestAssumption ==
    /\ Budget \in Nat \ {0} /\ Grace \in Nat /\ Horizon \in Nat
    /\ Payload \in Nat \ {0} /\ PipeRoom \in Nat \ {0} /\ Buffer \in Nat \ {0}
    /\ LastTier \in 1 .. 3 /\ Bodies \subseteq Nat \ {0}

VARIABLES
    clock,
    alive,          \* no SIGPIPE has killed the worker
    sigpipe,        \* the process's disposition: "ign" or "dfl"
    r,              \* the locals of a thread's request
    ends,           \* pipe ends the worker holds for it
    raw,            \* ... and has not made close-on-exec yet
    stdin,          \* parts in the pipe to the child
    stdout,         \* parts in the pipe from it
    child,          \* the curl child
    stray           \* ends of other requests' pipes the child inherited

vars == <<clock, alive, sigpipe, r, ends, raw, stdin, stdout, child, stray>>

Tiers == 1 .. LastTier
Causes == {"none", "provider", "transport", "parse", "deadline", "local"}
InEnds == {"in0", "in1"}
OutEnds == {"out0", "out1"}
Ends == InEnds \cup OutEnds
Statuses == {0, 200, 503}
Body == 1           \* a part of a body; a status line is its status
Part == {Body} \cup Statuses

NoChild == [st |-> "none", code |-> 0, left |-> <<>>, body |-> 0, fed |-> 0, until |-> 0]
Idle == [pc |-> "idle", tier |-> 0, tried |-> {}, cause |-> "none", status |-> 0,
         deadline |-> 0, ms |-> 0, saved |-> "dfl", hstatus |-> 0,
         written |-> 0, wfail |-> FALSE, over |-> FALSE, got |-> <<>>, polled |-> {},
         fate |-> "none", body |-> 0]

Init ==
    /\ clock = 0 /\ alive = TRUE /\ sigpipe \in {"ign", "dfl"}
    /\ r = [t \in Threads |-> Idle]
    /\ ends = [t \in Threads |-> {}] /\ raw = [t \in Threads |-> {}]
    /\ stdin = [t \in Threads |-> 0] /\ stdout = [t \in Threads |-> <<>>]
    /\ child = [t \in Threads |-> NoChild] /\ stray = [t \in Threads |-> {}]

-----------------------------------------------------------------------------
\* remaining_timeout_ms: rounded up, so it is 0 only when the deadline is there.
RemainingMs(d) == IF clock >= d THEN 0 ELSE (d - clock + 1) \div 2

\* Mutant: sigaction as written in the source, setting what it is told.
Disposition_AsTold(action) == action

\* vw_translate_keep_sigpipe_ignored, whatever the call asks for.
Disposition(action) == "ign"

\* Who holds an end of t's pipes: the worker, t's own child or a child that inherited it.
Inherited(t, e) == \E u \in Threads : <<t, e>> \in stray[u]
Runs(t) == child[t].st \in {"reads", "transfers", "writes"}
StdinHasReader(t) == Runs(t) \/ "in0" \in ends[t] \/ Inherited(t, "in0")
StdoutHasReader(t) == "out0" \in ends[t] \/ Inherited(t, "out0")
StdinAtEof(t) == stdin[t] = 0 /\ "in1" \notin ends[t] /\ ~Inherited(t, "in1")
StdoutHasWriter(t) == Runs(t) \/ "out1" \in ends[t] \/ Inherited(t, "out1")

\* The thread's next record and, with it, the descriptors it holds.
Local(t, rec) == r' = [r EXCEPT ![t] = rec]
Holds(t, es) ==
    /\ ends' = [ends EXCEPT ![t] = es] /\ raw' = [raw EXCEPT ![t] = @ \cap es]
Clean(t) == Holds(t, {})

\* http_request returns false: the tier takes over its thread-local outcome.
HttpFailed(rec, cause) ==
    [rec EXCEPT !.pc = "next", !.cause = cause, !.status = rec.hstatus]

-----------------------------------------------------------------------------
(* The call and its tiers.  The three tiers are three copies of one text in *)
(* the code.  An empty text is returned at once and changes nothing.        *)

\* The deadline is set; too long a text, or no memory, fails before any tier.
Begin(t) ==
    /\ r[t].pc = "idle" /\ clock + Budget + Grace < Horizon
    /\ \/ Local(t, [Idle EXCEPT !.pc = "tier", !.tier = 1, !.deadline = clock + Budget])
       \/ Local(t, [Idle EXCEPT !.pc = "done", !.cause = "local", !.deadline = clock + Budget])
    /\ UNCHANGED <<clock, alive, sigpipe, ends, raw, stdin, stdout, child, stray>>

\* A tier's fields, and vw_translate_http_failure_reset.
FreshTier(rec) ==
    [rec EXCEPT !.tried = @ \cup {rec.tier}, !.status = 0, !.fate = "none",
                !.hstatus = 0]

\* The tier builds its request and enters posix_http_request.
StartTier(t) ==
    LET rec == FreshTier(r[t])
    IN /\ r[t].pc = "tier"
       /\ IF RemainingMs(rec.deadline) = 0
          THEN Local(t, HttpFailed(rec, "deadline")) /\ UNCHANGED sigpipe
          ELSE /\ Local(t, [rec EXCEPT !.pc = "pipeout", !.saved = sigpipe,
                                       !.ms = RemainingMs(rec.deadline), !.written = 0,
                                       !.wfail = FALSE, !.over = FALSE, !.got = <<>>])
               /\ sigpipe' = Disposition("ign")
       /\ UNCHANGED <<clock, alive, ends, raw, stdin, stdout, child, stray>>

\* The tier's request does not fit its buffer: it fails without an HTTP request.
TierTooLarge(t) ==
    /\ r[t].pc = "tier"
    /\ Local(t, [FreshTier(r[t]) EXCEPT !.pc = "next", !.cause = "local", !.fate = "local",
                                        !.hstatus = r[t].hstatus])
    /\ UNCHANGED <<clock, alive, sigpipe, ends, raw, stdin, stdout, child, stray>>

\* pipe() of vw_translate_make_cloexec_pipe, then FD_CLOEXEC on one end after the other.
MakePipe(t) ==
    LET pair == IF r[t].pc = "pipeout" THEN OutEnds ELSE InEnds
    IN /\ r[t].pc \in {"pipeout", "pipein"}
       /\ ends' = [ends EXCEPT ![t] = @ \cup pair] /\ raw' = [raw EXCEPT ![t] = @ \cup pair]
       /\ Local(t, [r[t] EXCEPT !.pc = IF @ = "pipeout" THEN "flagout" ELSE "flagin"])
       /\ stdin' = [stdin EXCEPT ![t] = 0] /\ stdout' = [stdout EXCEPT ![t] = <<>>]
       /\ UNCHANGED <<clock, alive, sigpipe, child, stray>>

SetCloexec(t) ==
    LET readEnd == IF r[t].pc = "flagout" THEN "out0" ELSE "in0"
        rest == IF readEnd \in raw[t] THEN raw[t] \ {readEnd} ELSE {}
    IN /\ r[t].pc \in {"flagout", "flagin"}
       /\ raw' = [raw EXCEPT ![t] = rest]
       /\ Local(t, [r[t] EXCEPT !.pc = IF rest # {} THEN @
                                       ELSE IF @ = "flagout" THEN "pipein" ELSE "spawn"])
       /\ UNCHANGED <<clock, alive, sigpipe, ends, stdin, stdout, child, stray>>

\* pipe(), fcntl(), the spawn file actions or posix_spawn() fail: everything is closed.
LocalFails(t) ==
    /\ r[t].pc \in {"pipeout", "flagout", "pipein", "flagin", "spawn"}
    /\ Clean(t) /\ sigpipe' = Disposition(r[t].saved)
    /\ Local(t, HttpFailed([r[t] EXCEPT !.fate = "local"], "local"))
    /\ UNCHANGED <<clock, alive, stdin, stdout, child, stray>>

\* posix_spawn(): the child gets its two ends, and any other request's raw ends with them.
Spawn(t) ==
    /\ r[t].pc = "spawn" /\ Local(t, [r[t] EXCEPT !.pc = "nonblock"])
    /\ Holds(t, ends[t] \ {"out1", "in0"})
    /\ child' = [child EXCEPT ![t] = [NoChild EXCEPT !.st = "reads",
                                                     !.until = clock + 2 * r[t].ms]]
    /\ stray' = [stray EXCEPT ![t] = UNION {{u} \X raw[u] : u \in Threads \ {t}}]
    /\ UNCHANGED <<clock, alive, sigpipe, stdin, stdout>>

\* kill() if it still runs, and waitpid(): nothing of the child is left.
Reaped(t) ==
    /\ child' = [child EXCEPT ![t] = [@ EXCEPT !.st = "none",
                                               !.code = IF Runs(t) THEN 9 ELSE child[t].code]]
    /\ stray' = [stray EXCEPT ![t] = {}]

NonBlocking(t) ==
    /\ r[t].pc = "nonblock" /\ Local(t, [r[t] EXCEPT !.pc = "io"])
    /\ UNCHANGED <<clock, alive, sigpipe, ends, raw, stdin, stdout, child, stray>>

NonBlockingFails(t) ==
    /\ r[t].pc = "nonblock" /\ Clean(t) /\ Reaped(t) /\ sigpipe' = Disposition(r[t].saved)
    /\ Local(t, HttpFailed([r[t] EXCEPT !.fate = "local"], "local"))
    /\ UNCHANGED <<clock, alive, stdin, stdout>>

-----------------------------------------------------------------------------
(* The poll loop.  What poll() saw may be old when the thread acts on it.   *)

\* Less than a millisecond is left: the loop ends though the deadline is not there.
PollTimeLeft(t) == clock <= r[t].deadline /\ (r[t].deadline - clock) \div 2 > 0

Ready(t) ==
    (IF "out0" \in ends[t] /\ (stdout[t] # <<>> \/ ~StdoutHasWriter(t)) THEN {"out"} ELSE {})
    \cup (IF "in1" \notin ends[t] THEN {}
          ELSE IF ~StdinHasReader(t) THEN {"hup"}
          ELSE IF stdin[t] < PipeRoom THEN {"in"} ELSE {})

Poll(t) ==
    /\ r[t].pc = "io" /\ ends[t] # {} /\ PollTimeLeft(t) /\ Ready(t) # {}
    /\ Local(t, [r[t] EXCEPT !.pc = "act", !.polled = Ready(t)])
    /\ UNCHANGED <<clock, alive, sigpipe, ends, raw, stdin, stdout, child, stray>>

\* read() until it would block: what does not fit is dropped and marks an overflow.
Drained(rec, t) ==
    LET all == rec.got \o stdout[t]
    IN IF Len(all) <= Buffer THEN [rec EXCEPT !.got = all]
       ELSE [rec EXCEPT !.got = SubSeq(all, 1, Buffer), !.over = TRUE]

\* Drain stdout, then deal with stdin.
ActOnPoll(t) ==
    LET reads == "out" \in r[t].polled
        eof == reads /\ ~StdoutHasWriter(t)
        rec == [(IF reads THEN Drained(r[t], t) ELSE r[t]) EXCEPT !.pc = "io", !.polled = {}]
        broken == "hup" \in r[t].polled \/ ("in" \in r[t].polled /\ ~StdinHasReader(t))
        writes == "in" \in r[t].polled /\ ~broken
        free == PipeRoom - stdin[t]
        n == IF ~writes THEN 0
             ELSE IF Payload - rec.written < free THEN Payload - rec.written ELSE free
        full == writes /\ rec.written + n = Payload
    IN /\ r[t].pc = "act"
       /\ stdout' = IF reads THEN [stdout EXCEPT ![t] = <<>>] ELSE stdout
       /\ stdin' = [stdin EXCEPT ![t] = @ + n]
       /\ Local(t, [rec EXCEPT !.written = @ + n, !.wfail = @ \/ broken])
       /\ Holds(t, ends[t] \ ((IF eof THEN {"out0"} ELSE {})
                              \cup (IF broken \/ full THEN {"in1"} ELSE {})))
       /\ alive' = (alive /\ ~(broken /\ "in" \in r[t].polled /\ sigpipe = "dfl"))
       /\ UNCHANGED <<clock, sigpipe, child, stray>>

\* Mutant: the loop waits for both pipes, whatever the time.
EndIo_BothClosed(t) ==
    /\ r[t].pc = "io" /\ ends[t] = {}
    /\ Clean(t) /\ sigpipe' = Disposition(r[t].saved)
    /\ Local(t, [r[t] EXCEPT !.pc = "reap"])
    /\ UNCHANGED <<clock, alive, stdin, stdout, child, stray>>

\* Both pipes are closed or the time is up.
EndIo(t) ==
    /\ r[t].pc = "io" /\ (ends[t] = {} \/ ~PollTimeLeft(t))
    /\ Clean(t) /\ sigpipe' = Disposition(r[t].saved)
    /\ Local(t, [r[t] EXCEPT !.pc = "reap"])
    /\ UNCHANGED <<clock, alive, stdin, stdout, child, stray>>

Reap(t) ==
    /\ r[t].pc = "reap" /\ (child[t].st = "exited" \/ clock > r[t].deadline + Grace)
    /\ Local(t, [r[t] EXCEPT !.pc = "judge"]) /\ Reaped(t)
    /\ UNCHANGED <<clock, alive, sigpipe, ends, raw, stdin, stdout>>

-----------------------------------------------------------------------------
\* The status line curl appends: the last part read, when it is one.
StatusValid(rec) == rec.got # <<>> /\ Last(rec.got) \in Statuses
StatusOk(rec) == StatusValid(rec) /\ Last(rec.got) = 200
ExitedWith(t, code) == child[t].code = code

\* Mutant: a response is taken as it is, whether or not its status line came.
Accepted_AnyPrefix(rec, t) ==
    /\ ~rec.over /\ ~rec.wfail /\ rec.got # <<>> /\ ExitedWith(t, 0)
    /\ clock <= rec.deadline

Accepted(rec, t) ==
    /\ ~rec.over /\ ~rec.wfail /\ StatusOk(rec) /\ Len(rec.got) > 1
    /\ ExitedWith(t, 0) /\ clock <= rec.deadline

Blame(rec, t) ==
    IF RemainingMs(rec.deadline) = 0 \/ ExitedWith(t, 28) THEN "deadline"
    ELSE IF (StatusValid(rec) /\ ~StatusOk(rec)) \/ ExitedWith(t, 22) THEN "provider"
    ELSE "transport"

Judge(t) ==
    LET rec == [r[t] EXCEPT !.hstatus = IF StatusValid(r[t]) THEN Last(r[t].got) ELSE @]
    IN /\ r[t].pc = "judge"
       /\ Local(t, IF Accepted(rec, t) THEN [rec EXCEPT !.pc = "parse"]
                   ELSE HttpFailed(rec, Blame(rec, t)))
       /\ UNCHANGED <<clock, alive, sigpipe, ends, raw, stdin, stdout, child, stray>>

\* The tier's parser, between two looks at the clock.
Parse(t) ==
    /\ r[t].pc = "parse"
    /\ \/ clock > r[t].deadline /\ Local(t, [r[t] EXCEPT !.pc = "next", !.cause = "deadline"])
       \/ clock <= r[t].deadline /\ Local(t, [r[t] EXCEPT !.pc = "next", !.cause = "parse"])
       \/ clock <= r[t].deadline
          /\ Local(t, [r[t] EXCEPT !.pc = "parsed", !.body = Cardinality(
                           {i \in DOMAIN r[t].got : r[t].got[i] = Body})])
    /\ UNCHANGED <<clock, alive, sigpipe, ends, raw, stdin, stdout, child, stray>>

Parsed(t) ==
    /\ r[t].pc = "parsed"
    /\ Local(t, IF clock > r[t].deadline THEN [r[t] EXCEPT !.pc = "next", !.cause = "deadline"]
                ELSE [r[t] EXCEPT !.pc = "done", !.cause = "none", !.status = 0])
    /\ UNCHANGED <<clock, alive, sigpipe, ends, raw, stdin, stdout, child, stray>>

\* The tier failed: the next one, unless the time is up or it was the last.  What an
\* earlier parser may have left in the output is erased.
NextTier(t) ==
    LET late == r[t].cause = "deadline" \/ RemainingMs(r[t].deadline) = 0
    IN /\ r[t].pc = "next"
       /\ Local(t, IF r[t].tier = LastTier THEN [r[t] EXCEPT !.pc = "done", !.body = 0]
                   ELSE IF late THEN [r[t] EXCEPT !.pc = "done", !.body = 0, !.cause = "deadline"]
                   ELSE [r[t] EXCEPT !.pc = "tier", !.tier = @ + 1])
       /\ UNCHANGED <<clock, alive, sigpipe, ends, raw, stdin, stdout, child, stray>>

-----------------------------------------------------------------------------
(* The curl child.  SIGPIPE has its default action in it.                   *)

ChildReads(t) ==
    /\ child[t].st = "reads" /\ stdin[t] > 0
    /\ stdin' = [stdin EXCEPT ![t] = @ - 1]
    /\ child' = [child EXCEPT ![t].fed = @ + 1]
    /\ UNCHANGED <<clock, alive, sigpipe, r, ends, raw, stdout, stray>>

ChildTransfers(t) ==
    /\ child[t].st = "reads" /\ StdinAtEof(t)
    /\ child' = [child EXCEPT ![t].st = "transfers"]
    /\ UNCHANGED <<clock, alive, sigpipe, r, ends, raw, stdin, stdout, stray>>

\* An answer; an HTTP error (-f: no body); no connection (-w still prints 000); -m is over.
ChildAnswers(t) ==
    /\ child[t].st = "transfers"
    /\ \E outcome \in [fate : {"answered", "refused", "unreachable", "timeout"}, n : Bodies] :
          LET n == IF outcome.fate = "answered" THEN outcome.n ELSE 0
              status == CASE outcome.fate = "answered" -> 200
                          [] outcome.fate = "refused" -> 503
                          [] OTHER -> 0
              code == CASE outcome.fate = "answered" -> 0
                        [] outcome.fate = "refused" -> 22
                        [] outcome.fate = "unreachable" -> 7
                        [] OTHER -> 28
          IN /\ outcome.fate = "timeout" => clock >= child[t].until
             /\ child' = [child EXCEPT ![t] = [@ EXCEPT
                    !.st = "writes", !.code = code, !.body = n,
                    !.left = Append([i \in 1 .. n |-> Body], status)]]
             /\ r' = [r EXCEPT ![t].fate = outcome.fate]
    /\ UNCHANGED <<clock, alive, sigpipe, ends, raw, stdin, stdout, stray>>

\* Writes its output part by part, and ends; or dies of a closed pipe.
ChildWrites(t) ==
    /\ child[t].st = "writes"
    /\ LET c == child[t]
       IN IF c.left = <<>>
          THEN /\ child' = [child EXCEPT ![t].st = "exited"]
               /\ stray' = [stray EXCEPT ![t] = {}] /\ UNCHANGED stdout
          ELSE IF StdoutHasReader(t)
          THEN /\ child' = [child EXCEPT ![t].left = Tail(c.left)]
               /\ stdout' = [stdout EXCEPT ![t] = Append(@, Head(c.left))] /\ UNCHANGED stray
          ELSE /\ child' = [child EXCEPT ![t] = [c EXCEPT !.st = "exited", !.code = 13]]
               /\ stray' = [stray EXCEPT ![t] = {}] /\ UNCHANGED stdout
    /\ UNCHANGED <<clock, alive, sigpipe, r, ends, raw, stdin>>

\* The child dies by itself before it has read its input.
ChildCrashes(t) ==
    /\ child[t].st = "reads"
    /\ child' = [child EXCEPT ![t] = [@ EXCEPT !.st = "exited", !.code = 2]]
    /\ stray' = [stray EXCEPT ![t] = {}]
    /\ UNCHANGED <<clock, alive, sigpipe, r, ends, raw, stdin, stdout>>

Tick ==
    /\ clock < Horizon /\ clock' = clock + 1
    /\ UNCHANGED <<alive, sigpipe, r, ends, raw, stdin, stdout, child, stray>>

-----------------------------------------------------------------------------
Request(t) ==
    \/ Begin(t) \/ StartTier(t) \/ TierTooLarge(t) \/ MakePipe(t) \/ SetCloexec(t)
    \/ LocalFails(t) \/ Spawn(t) \/ NonBlocking(t) \/ NonBlockingFails(t) \/ Poll(t)
    \/ ActOnPoll(t) \/ EndIo(t) \/ Reap(t) \/ Judge(t) \/ Parse(t) \/ Parsed(t) \/ NextTier(t)

Curl(t) ==
    ChildReads(t) \/ ChildTransfers(t) \/ ChildAnswers(t) \/ ChildWrites(t) \/ ChildCrashes(t)

Next == Tick \/ \E t \in Threads : Request(t) \/ Curl(t)

Spec == Init /\ [][Next]_vars

\* The threads run and time passes; a child may hang for ever.
LiveSpec == Spec /\ WF_vars(Tick) /\ \A t \in Threads : WF_vars(Request(t))

-----------------------------------------------------------------------------
\* The types of the variables.
RequestTypeOK ==
    /\ clock \in 0 .. Horizon /\ alive \in BOOLEAN /\ sigpipe \in {"ign", "dfl"}
    /\ \A t \in Threads :
          /\ r[t].tier \in 0 .. LastTier /\ r[t].tried \subseteq Tiers /\ r[t].cause \in Causes
          /\ r[t].hstatus \in Statuses
          /\ r[t].status \in Statuses /\ r[t].written \in 0 .. Payload
          /\ Len(r[t].got) <= Buffer /\ Range(r[t].got) \subseteq Part
          /\ raw[t] \subseteq ends[t] /\ ends[t] \subseteq Ends
          /\ stdin[t] \in 0 .. PipeRoom /\ Range(stdout[t]) \subseteq Part
          /\ stray[t] \subseteq (Threads \ {t}) \X Ends

\* A write to a child that has just died never kills the worker, whatever the other
\* requests do with the process-wide SIGPIPE disposition meanwhile.
WorkerSurvives == alive

\* A translation is made from the whole body of the child of the tier that is named, and
\* that child was given the whole text: not from what was read when the poll loop ran out
\* of time, when the buffer was full or when the text could not be written.
WholeAnswer ==
    \A t \in Threads : (r[t].pc = "done" /\ r[t].cause = "none") =>
        r[t].fate = "answered" /\ r[t].body = child[t].body /\ child[t].fed = Payload

\* When the call returns, on any path, no child of it runs or waits to be reaped, and the
\* worker holds no end of its pipes.
NothingLeftBehind ==
    \A t \in Threads : r[t].pc = "done" => child[t].st = "none" /\ ends[t] = {}

\* The failure reported is that of the last tier tried: its cause agrees with what happened
\* to that tier's request, its provider status is one that tier's child printed, never one
\* an earlier request left in the thread, and the deadline is blamed only once it is there.
BlameIsTheLastTiers ==
    \A t \in Threads : (r[t].pc = "done" /\ r[t].cause # "none") =>
        /\ r[t].tried = 1 .. r[t].tier
        /\ r[t].status # 0 => r[t].fate \in {"answered", "refused"}
        /\ r[t].cause = "parse" => r[t].fate = "answered"
        /\ r[t].cause = "local" => r[t].fate \in {"local", "none"}
        /\ r[t].cause = "provider" => r[t].fate \in {"refused", "unreachable"}
        /\ r[t].cause = "deadline" => clock >= r[t].deadline

\* What vw_translate_text_detailed promises when it returns, on whichever path.
ReturnContract == WholeAnswer /\ NothingLeftBehind /\ BlameIsTheLastTiers

\* Concurrent requests do each other no harm through what they share, the SIGPIPE disposition and
\* the descriptors that a child spawned at the wrong moment inherits: the worker lives, and a
\* request neither takes a part of its answer for the whole nor leaves anything behind.
RequestsApart == WorkerSurvives /\ WholeAnswer /\ NothingLeftBehind

\* docs/api-contracts.md: E_TRANSLATION_TRANSPORT when the last tier "failed at the
\* network/transport layer".
NetworkFailureIsTransport ==
    \A t \in Threads : (r[t].pc = "done" /\ r[t].fate = "unreachable") =>
        r[t].cause \in {"transport", "deadline"}

\* Every call returns: a hung child, or one that keeps another request's pipe open, costs no
\* more than the deadline.
RequestEnds == \A t \in Threads : (r[t].pc = "tier") ~> (r[t].pc = "done")
=============================================================================
