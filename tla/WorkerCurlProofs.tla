-------------------------- MODULE WorkerCurlProofs --------------------------
(***************************************************************************)
(* The requests of any number of threads keep apart and return what        *)
(* vw_translate_text_detailed promises, for every deadline, text length,   *)
(* pipe and buffer size and every answer of the provider; and a published  *)
(* model stays verified for any number of workers, models and inodes,      *)
(* whenever a worker crashes.                                              *)
(***************************************************************************)
EXTENDS WorkerCurl, FiniteSetTheorems, TLAPS

-----------------------------------------------------------------------------
(* The translation requests (TranslateRequest).  What is known of a thread   *)
(* is a predicate of its own locals, pipes and child, so that a step of      *)
(* another thread cannot disturb it: only the SIGPIPE disposition and the    *)
(* clock are shared.                                                         *)

\* The stages in which a request makes its pipes and in which its child runs.
Making == {"pipeout", "flagout", "pipein", "flagin", "spawn"}
Transferring == {"nonblock", "io", "act"}
Live == Transferring \cup {"reap", "judge"}
Quiet == {"idle", "tier", "judge", "parse", "parsed", "next", "done"}
Stages == Making \cup Live \cup Quiet

CurlFates == {"answered", "refused", "unreachable", "timeout"}

Requests ==
    [pc : Stages, tier : 0 .. LastTier, tried : SUBSET Tiers, cause : Causes, status : Statuses,
     deadline : Nat, ms : Nat, saved : {"ign", "dfl"}, hstatus : Statuses,
     written : 0 .. Payload, wfail : BOOLEAN, over : BOOLEAN, got : Seq(Part),
     polled : SUBSET {"out", "in", "hup"}, fate : CurlFates \cup {"none", "local"}, body : Nat]

Children ==
    [st : {"none", "reads", "transfers", "writes", "exited"}, code : Nat, left : Seq(Part),
     body : Nat, fed : Nat, until : Nat]

\* The types of the variables, as the steps need them.
Typed ==
    /\ clock \in Nat /\ sigpipe \in {"ign", "dfl"} /\ alive \in BOOLEAN
    /\ r \in [Threads -> Requests] /\ child \in [Threads -> Children]
    /\ ends \in [Threads -> SUBSET Ends]
    /\ stdin \in [Threads -> 0 .. PipeRoom] /\ stdout \in [Threads -> Seq(Part)]

-----------------------------------------------------------------------------
(* What is known of one thread: rec its locals, es the pipe ends it holds,  *)
(* n and out what is in its pipes, ch its child, now the clock.             *)

\* The descriptors and the child go with the stage.
Held(rec, es, ch) ==
    /\ rec.pc \in Quiet \cup {"pipeout", "reap"} => es = {}
    /\ rec.pc \in Quiet \cup Making => ch.st = "none"
    /\ rec.pc \in {"flagin", "spawn", "nonblock"} => "in1" \in es
    /\ rec.pc \in Transferring => es \subseteq {"out0", "in1"}

\* A tier begins its HTTP request with nothing of an earlier one.
FreshRequest(rec, n, out) ==
    /\ rec.pc \in Making =>
          /\ rec.written = 0 /\ rec.got = << >> /\ ~rec.over /\ rec.fate = "none"
    /\ rec.pc \in Making \ {"pipeout"} => n = 0 /\ out = << >>
    /\ rec.pc \in Making \cup Live => rec.hstatus = 0
    /\ rec.pc \in Making \cup Live \cup {"parse", "parsed"} => rec.status = 0

\* The text on its way to the child: what was written is read or in the pipe,
\* and a child that transfers has all that will ever come.  While the thread
\* still polls, that is the whole text unless a write failed.
Feeding(rec, es, n, ch) ==
    /\ rec.pc \in Live =>
          /\ ch.fed + n = rec.written
          /\ ch.st = "transfers" \/ rec.fate # "none" => n = 0
    /\ rec.pc \in Transferring =>
          /\ ch.st = "transfers" \/ rec.fate # "none" => "in1" \notin es
          /\ "in1" \in es \/ rec.wfail \/ rec.written = Payload
    /\ rec.pc = "act" /\ rec.polled \cap {"in", "hup"} # {} => "in1" \in es
    /\ rec.pc \in {"reap", "judge"} =>
          rec.got = << >> \/ rec.wfail \/ rec.written = Payload

\* The i-th part of what curl prints: the body's n parts and the status line.
StatusOf(fate) == IF fate = "answered" THEN 200 ELSE IF fate = "refused" THEN 503 ELSE 0
Printed(n, fate, i) == IF i <= n THEN Body ELSE StatusOf(fate)

\* s is what curl prints, from after the first k parts.
Prints(s, k, n, fate) ==
    /\ k + Len(s) <= n + 1
    /\ \A i \in 1 .. Len(s) : s[i] = Printed(n, fate, k + i)

\* What was read, what is in the pipe and what is left to print make up the
\* answer, until the buffer overflows; what was read is its beginning even then.
Reading(rec, out, ch) ==
    rec.pc \in Live =>
        /\ rec.fate = "none" =>
              rec.got = << >> /\ out = << >> /\ ~rec.over /\ ch.st # "writes"
        /\ rec.fate # "none" =>
              /\ rec.fate \in CurlFates /\ ch.st \in {"writes", "exited", "none"}
              /\ Prints(rec.got, 0, ch.body, rec.fate)
              /\ ~rec.over =>
                    /\ Prints(out, Len(rec.got), ch.body, rec.fate)
                    /\ Prints(ch.left, Len(rec.got) + Len(out), ch.body, rec.fate)
        /\ rec.over => Len(rec.got) = Buffer

\* curl's -m is never shorter than what is left of the deadline, and its exit
\* code tells what happened.
Timed(rec, ch, now) ==
    /\ rec.pc \in Making => now + 2 * rec.ms >= rec.deadline
    /\ rec.pc \in Live =>
          /\ ch.until >= rec.deadline
          /\ rec.fate = "timeout" => now >= rec.deadline
          /\ ch.code = 22 => rec.fate = "refused"
          /\ ch.code = 28 => rec.fate = "timeout"

\* A response that was accepted is whole, and so is the text it answers.
AnswerWhole(rec, ch) ==
    /\ rec.pc = "parse" => {i \in DOMAIN rec.got : rec.got[i] = Body} = 1 .. ch.body
    /\ rec.pc = "parsed" \/ (rec.pc = "done" /\ rec.cause = "none") => rec.body = ch.body
    /\ rec.pc \in {"parse", "parsed"} \/ (rec.pc = "done" /\ rec.cause = "none") =>
          rec.fate = "answered" /\ ch.fed = Payload

\* The tiers are tried one after the other.
TiersInOrder(rec) ==
    /\ rec.pc = "tier" => rec.tier \in 1 .. LastTier /\ rec.tried = 1 .. (rec.tier - 1)
    /\ rec.pc \in Making \cup Live \cup {"parse", "parsed", "next"} =>
          rec.tier \in 1 .. LastTier /\ rec.tried = 1 .. rec.tier

\* The blame goes with what happened to the tier tried last.
Blamed(rec, now) ==
    /\ rec.pc = "next" => rec.cause # "none"
    /\ (rec.pc = "next" \/ (rec.pc = "done" /\ rec.cause # "none")) =>
          /\ rec.tried = 1 .. rec.tier
          /\ rec.status # 0 => rec.fate \in {"answered", "refused"}
          /\ rec.cause = "parse" => rec.fate = "answered"
          /\ rec.cause = "local" => rec.fate \in {"local", "none"}
          /\ rec.cause = "provider" => rec.fate \in {"refused", "unreachable"}
          /\ rec.cause = "deadline" => now >= rec.deadline

\* All that is known of a thread.
Sound(rec, es, n, out, ch, now) ==
    /\ Held(rec, es, ch)
    /\ FreshRequest(rec, n, out)
    /\ Feeding(rec, es, n, ch)
    /\ Reading(rec, out, ch)
    /\ Timed(rec, ch, now)
    /\ AnswerWhole(rec, ch)
    /\ TiersInOrder(rec)
    /\ Blamed(rec, now)

\* Once a request has begun to make pipes SIGPIPE is ignored for good.
SigpipeIgnored ==
    \A t \in Threads :
        r[t].pc \in Making \cup Live \cup {"parse", "parsed"} => sigpipe = "ign"

\* The inductive invariant of the requests.
RequestInv ==
    /\ Typed
    /\ \A t \in Threads : Sound(r[t], ends[t], stdin[t], stdout[t], child[t], clock)
    /\ SigpipeIgnored
    /\ alive

-----------------------------------------------------------------------------
\* A step that leaves a variable alone leaves the thread's part of it alone.
LEMMA SamePart ==
    ASSUME NEW S, NEW f \in [Threads -> S], NEW t \in Threads
    PROVE  f = [f EXCEPT ![t] = f[t]] /\ f[t] \in S
  OBVIOUS

\* The stages in which the thread relies on SIGPIPE being ignored.
Relying == Making \cup Live \cup {"parse", "parsed"}

\* A step of one thread on its own locals, pipes and child keeps the invariant
\* if the thread is sound after it: the other threads see nothing of it.
LEMMA OneThreadSteps ==
    ASSUME RequestInv, NEW t \in Threads,
           r' = [r EXCEPT ![t] = r'[t]], ends' = [ends EXCEPT ![t] = ends'[t]],
           stdin' = [stdin EXCEPT ![t] = stdin'[t]],
           stdout' = [stdout EXCEPT ![t] = stdout'[t]],
           child' = [child EXCEPT ![t] = child'[t]],
           r'[t] \in Requests, ends'[t] \in SUBSET Ends, stdin'[t] \in 0 .. PipeRoom,
           stdout'[t] \in Seq(Part), child'[t] \in Children,
           clock' = clock, alive',
           Sound(r'[t], ends'[t], stdin'[t], stdout'[t], child'[t], clock),
           \/ sigpipe' = "ign"
           \/ sigpipe' = sigpipe /\ (r'[t].pc \in Relying => r[t].pc \in Relying)
    PROVE  RequestInv'
<1> USE DEF RequestInv
<1>1. /\ r \in [Threads -> Requests] /\ child \in [Threads -> Children]
      /\ ends \in [Threads -> SUBSET Ends] /\ stdin \in [Threads -> 0 .. PipeRoom]
      /\ stdout \in [Threads -> Seq(Part)] /\ clock \in Nat /\ sigpipe \in {"ign", "dfl"}
  BY DEF Typed
<1>2. r' \in [Threads -> Requests]
  BY <1>1
<1>3. child' \in [Threads -> Children]
  BY <1>1
<1>4. ends' \in [Threads -> SUBSET Ends]
  BY <1>1
<1>5. stdin' \in [Threads -> 0 .. PipeRoom]
  BY <1>1
<1>6. stdout' \in [Threads -> Seq(Part)]
  BY <1>1
<1>7. Typed'
  BY <1>1, <1>2, <1>3, <1>4, <1>5, <1>6 DEF Typed
<1>9. ASSUME NEW u \in Threads, u # t
      PROVE  r'[u] = r[u] /\ ends'[u] = ends[u] /\ stdin'[u] = stdin[u]
             /\ stdout'[u] = stdout[u] /\ child'[u] = child[u]
  BY <1>1, <1>9
<1>10. ASSUME NEW u \in Threads
       PROVE  Sound(r'[u], ends'[u], stdin'[u], stdout'[u], child'[u], clock')
  <2>1. CASE u = t
    BY <2>1, Zenon
  <2>2. CASE u # t
    BY <1>9, <2>2, Zenon
  <2>3. QED
    BY <2>1, <2>2
<1>11. SigpipeIgnored'
  <2>1. ASSUME NEW u \in Threads, r'[u].pc \in Relying PROVE sigpipe' = "ign"
    <3>1. CASE u = t
      BY <2>1, <3>1 DEF SigpipeIgnored, Relying
    <3>2. CASE u # t
      BY <1>9, <2>1, <3>2 DEF SigpipeIgnored, Relying
    <3>3. QED
      BY <3>1, <3>2
  <2>2. QED
    BY <2>1 DEF SigpipeIgnored, Relying
<1>12. QED
  BY <1>7, <1>10, <1>11, Zenon DEF RequestInv

\* What a step of thread t may rely on.
LEMMA ThreadFacts ==
    ASSUME RequestInv, NEW t \in Threads
    PROVE  /\ r[t] \in Requests /\ child[t] \in Children /\ ends[t] \in SUBSET Ends
           /\ stdin[t] \in 0 .. PipeRoom /\ stdout[t] \in Seq(Part)
           /\ clock \in Nat /\ alive
           /\ r = [r EXCEPT ![t] = r[t]] /\ child = [child EXCEPT ![t] = child[t]]
           /\ ends = [ends EXCEPT ![t] = ends[t]] /\ stdin = [stdin EXCEPT ![t] = stdin[t]]
           /\ stdout = [stdout EXCEPT ![t] = stdout[t]]
           /\ Held(r[t], ends[t], child[t]) /\ FreshRequest(r[t], stdin[t], stdout[t])
           /\ Feeding(r[t], ends[t], stdin[t], child[t]) /\ Reading(r[t], stdout[t], child[t])
           /\ Timed(r[t], child[t], clock) /\ AnswerWhole(r[t], child[t])
           /\ TiersInOrder(r[t]) /\ Blamed(r[t], clock)
<1>1. Typed /\ Sound(r[t], ends[t], stdin[t], stdout[t], child[t], clock) /\ alive
  BY Zenon DEF RequestInv
<1>2. /\ r[t] \in Requests /\ child[t] \in Children /\ ends[t] \in SUBSET Ends
      /\ stdin[t] \in 0 .. PipeRoom /\ stdout[t] \in Seq(Part) /\ clock \in Nat
      /\ r = [r EXCEPT ![t] = r[t]] /\ child = [child EXCEPT ![t] = child[t]]
      /\ ends = [ends EXCEPT ![t] = ends[t]] /\ stdin = [stdin EXCEPT ![t] = stdin[t]]
      /\ stdout = [stdout EXCEPT ![t] = stdout[t]]
  BY <1>1, SamePart, Zenon DEF Typed
<1>3. QED
  BY <1>1, <1>2, Zenon DEF Sound

\* A step that changes only the thread's locals, and perhaps the disposition.
LEMMA OnlyLocals ==
    ASSUME RequestInv, NEW t \in Threads,
           r' = [r EXCEPT ![t] = r'[t]], r'[t] \in Requests,
           UNCHANGED <<clock, alive, ends, stdin, stdout, child>>,
           Sound(r'[t], ends[t], stdin[t], stdout[t], child[t], clock),
           \/ sigpipe' = "ign"
           \/ sigpipe' = sigpipe /\ (r'[t].pc \in Relying => r[t].pc \in Relying)
    PROVE  RequestInv'
<1>1. /\ clock' = clock /\ alive' = alive /\ ends' = ends
      /\ stdin' = stdin /\ stdout' = stdout /\ child' = child
  OBVIOUS
<1>2. /\ ends = [ends EXCEPT ![t] = ends[t]] /\ child = [child EXCEPT ![t] = child[t]]
      /\ stdin = [stdin EXCEPT ![t] = stdin[t]] /\ stdout = [stdout EXCEPT ![t] = stdout[t]]
      /\ child[t] \in Children /\ ends[t] \in SUBSET Ends
      /\ stdin[t] \in 0 .. PipeRoom /\ stdout[t] \in Seq(Part) /\ alive
  BY ThreadFacts
<1>3. Sound(r'[t], ends'[t], stdin'[t], stdout'[t], child'[t], clock)
  BY <1>1, Zenon
<1>4. QED
  BY <1>1, <1>2, <1>3, OneThreadSteps

\* A tier that failed, on whichever path, is sound if its blame is.
LEMMA FailedIsSound ==
    ASSUME NEW rec, NEW es, NEW n, NEW out, NEW ch, NEW now,
           rec.pc = "next", es = {}, ch.st = "none", TiersInOrder(rec), Blamed(rec, now)
    PROVE  Sound(rec, es, n, out, ch, now)
<1>1. Held(rec, es, ch)
  BY DEF Held, Quiet, Making, Transferring
<1>2. FreshRequest(rec, n, out) /\ Feeding(rec, es, n, ch)
  BY DEF FreshRequest, Feeding, Making, Live, Transferring
<1>3. Reading(rec, out, ch) /\ Timed(rec, ch, now) /\ AnswerWhole(rec, ch)
  BY DEF Reading, Timed, AnswerWhole, Making, Live, Transferring
<1>4. QED
  BY <1>1, <1>2, <1>3 DEF Sound

\* A call that begins, ends or goes to its next tier needs only its order of
\* tiers, its answer and its blame.
LEMMA RestingIsSound ==
    ASSUME NEW rec, NEW es, NEW n, NEW out, NEW ch, NEW now,
           rec.pc \in {"tier", "done"}, es = {}, ch.st = "none",
           AnswerWhole(rec, ch), TiersInOrder(rec), Blamed(rec, now)
    PROVE  Sound(rec, es, n, out, ch, now)
<1>1. Held(rec, es, ch)
  BY DEF Held, Quiet, Making, Transferring
<1>2. FreshRequest(rec, n, out) /\ Feeding(rec, es, n, ch)
  BY DEF FreshRequest, Feeding, Making, Live, Transferring
<1>3. Reading(rec, out, ch) /\ Timed(rec, ch, now)
  BY DEF Reading, Timed, Making, Live, Transferring
<1>4. QED
  BY <1>1, <1>2, <1>3 DEF Sound

\* While the pipes are made nothing is read, answered or blamed.
LEMMA MakingIsSound ==
    ASSUME NEW rec, NEW es, NEW n, NEW out, NEW ch, NEW now,
           rec.pc \in Making, Held(rec, es, ch), FreshRequest(rec, n, out),
           Timed(rec, ch, now), TiersInOrder(rec)
    PROVE  Sound(rec, es, n, out, ch, now)
<1>1. rec.pc \notin Live \cup {"parse", "parsed", "done", "next"}
  BY DEF Making, Live, Transferring
<1>2. Feeding(rec, es, n, ch) /\ Reading(rec, out, ch)
  BY <1>1 DEF Feeding, Reading, Live, Transferring
<1>3. AnswerWhole(rec, ch) /\ Blamed(rec, now)
  BY <1>1 DEF AnswerWhole, Blamed
<1>4. QED
  BY <1>2, <1>3 DEF Sound

\* While the child runs nothing is answered or blamed.
LEMMA LiveIsSound ==
    ASSUME NEW rec, NEW es, NEW n, NEW out, NEW ch, NEW now,
           rec.pc \in Live, Held(rec, es, ch), FreshRequest(rec, n, out),
           Feeding(rec, es, n, ch), Reading(rec, out, ch), Timed(rec, ch, now), TiersInOrder(rec)
    PROVE  Sound(rec, es, n, out, ch, now)
<1>1. rec.pc \notin {"parse", "parsed", "done", "next"}
  BY DEF Live, Transferring
<1>2. AnswerWhole(rec, ch) /\ Blamed(rec, now)
  BY <1>1 DEF AnswerWhole, Blamed
<1>3. QED
  BY <1>2 DEF Sound

\* remaining_timeout_ms rounds up: it is never less than what is left, and 0
\* only once the deadline is there.
LEMMA RemainingRoundsUp ==
    ASSUME clock \in Nat, NEW d \in Nat
    PROVE  /\ RemainingMs(d) \in Nat
           /\ RemainingMs(d) = 0 <=> clock >= d
           /\ clock + 2 * RemainingMs(d) >= d
  BY DEF RemainingMs

-----------------------------------------------------------------------------
(* The call and its tiers.                                                  *)

\* A new call has no child, no pipes and no tier behind it.
LEMMA BeginKeeps ==
    ASSUME RequestInv, NEW t \in Threads, Begin(t)
    PROVE  RequestInv'
<1> USE RequestAssumption
<1> DEFINE d == clock + Budget
<1>0. /\ r[t].pc = "idle" /\ sigpipe' = sigpipe
      /\ UNCHANGED <<clock, alive, ends, stdin, stdout, child>>
  BY DEF Begin
<1>1. /\ d \in Nat /\ 0 \in 0 .. Payload /\ << >> \in Seq(Part) /\ 0 \in Statuses
      /\ 0 \in 0 .. LastTier /\ 1 \in 0 .. LastTier
  BY ThreadFacts DEF Statuses
<1> HIDE DEF d
<1>2. PICK rec \in {[Idle EXCEPT !.pc = "tier", !.tier = 1, !.deadline = d],
                    [Idle EXCEPT !.pc = "done", !.cause = "local", !.deadline = d]} :
          r' = [r EXCEPT ![t] = rec]
  BY DEF Begin, Local, d
<1>3. /\ \/ (rec.pc = "tier" /\ rec.tier = 1)
         \/ (rec.pc = "done" /\ rec.tier = 0 /\ rec.cause = "local")
      /\ rec.tried = {} /\ rec.status = 0 /\ rec.fate = "none"
  BY ZenonT(60), <1>2 DEF Idle
<1>4. rec \in Requests
  <2>1. CASE rec = [Idle EXCEPT !.pc = "tier", !.tier = 1, !.deadline = d]
    BY ZenonT(60), <1>1, <2>1 DEF Idle, Requests, Stages, Quiet, Causes, CurlFates
  <2>2. CASE rec = [Idle EXCEPT !.pc = "done", !.cause = "local", !.deadline = d]
    BY ZenonT(60), <1>1, <2>2 DEF Idle, Requests, Stages, Quiet, Causes, CurlFates
  <2>3. QED
    BY <1>2, <2>1, <2>2
<1>5. Sound(rec, ends[t], stdin[t], stdout[t], child[t], clock)
  <2>1. ends[t] = {} /\ child[t].st = "none"
    BY <1>0, ThreadFacts DEF Held, Quiet
  <2>2. AnswerWhole(rec, child[t]) /\ TiersInOrder(rec) /\ Blamed(rec, clock)
    BY <1>3 DEF AnswerWhole, TiersInOrder, Blamed, Making, Live, Transferring
  <2>3. QED
    BY <1>3, <2>1, <2>2, RestingIsSound
<1>6. rec.pc \notin Relying
  BY <1>3 DEF Relying, Making, Live, Transferring
<1>7. r'[t] = rec /\ r' = [r EXCEPT ![t] = r'[t]]
  BY <1>2, ThreadFacts DEF RequestInv, Typed
<1>8. QED
  BY <1>0, <1>4, <1>5, <1>6, <1>7, OnlyLocals, Zenon

\* The tier's fields are set afresh; the tiers tried are those up to it.
LEMMA FreshTierFacts ==
    ASSUME NEW rec \in Requests, rec.pc = "tier", TiersInOrder(rec)
    PROVE  /\ FreshTier(rec) \in Requests
           /\ FreshTier(rec).tier = rec.tier /\ FreshTier(rec).tier \in 1 .. LastTier
           /\ FreshTier(rec).tried = 1 .. rec.tier
           /\ FreshTier(rec).status = 0 /\ FreshTier(rec).hstatus = 0
           /\ FreshTier(rec).fate = "none" /\ FreshTier(rec).deadline = rec.deadline
<1> USE RequestAssumption
<1>1. rec.tier \in 1 .. LastTier /\ rec.tried = 1 .. (rec.tier - 1)
  BY DEF TiersInOrder
<1>2. rec.tried \cup {rec.tier} = 1 .. rec.tier /\ rec.tried \cup {rec.tier} \in SUBSET Tiers
  BY <1>1 DEF Tiers
<1>3. FreshTier(rec) \in Requests
  <2>1. 0 \in Statuses /\ "none" \in CurlFates \cup {"none", "local"}
    BY DEF Statuses
  <2>2. QED
    BY <1>2, <2>1 DEF FreshTier, Requests
<1>4. QED
  BY <1>1, <1>2, <1>3 DEF FreshTier, Requests

\* The tier ends at once if the deadline is there; if not it goes on with the
\* time that is left and SIGPIPE ignored.
LEMMA StartTierKeeps ==
    ASSUME RequestInv, NEW t \in Threads, StartTier(t)
    PROVE  RequestInv'
<1> USE RequestAssumption
<1> DEFINE rec == FreshTier(r[t])
           left == RemainingMs(rec.deadline)
<1>0. /\ r[t].pc = "tier" /\ UNCHANGED <<clock, alive, ends, stdin, stdout, child>>
      /\ r \in [Threads -> Requests] /\ clock \in Nat
      /\ r[t] \in Requests /\ ends[t] = {} /\ child[t].st = "none"
  BY ThreadFacts DEF StartTier, RequestInv, Typed, Held, Quiet
<1>1. /\ rec \in Requests
      /\ rec.tier \in 1 .. LastTier /\ rec.tried = 1 .. rec.tier
      /\ rec.status = 0 /\ rec.hstatus = 0 /\ rec.fate = "none"
  BY <1>0, ThreadFacts, FreshTierFacts
<1>2. left \in Nat /\ (left = 0 <=> clock >= rec.deadline) /\ clock + 2 * left >= rec.deadline
  BY <1>0, <1>1, RemainingRoundsUp DEF Requests
<1>3. CASE left = 0
  <2>1. r' = [r EXCEPT ![t] = HttpFailed(rec, "deadline")] /\ sigpipe' = sigpipe
    BY <1>3 DEF StartTier, Local
  <2> HIDE DEF rec, left
  <2>2. r'[t] = HttpFailed(rec, "deadline") /\ r' = [r EXCEPT ![t] = r'[t]]
    BY <1>0, <2>1
  <2>3. /\ r'[t].pc = "next" /\ r'[t].cause = "deadline" /\ r'[t].status = 0
        /\ r'[t].tier = rec.tier /\ r'[t].tried = rec.tried /\ r'[t].deadline = rec.deadline
    BY <1>1, <2>2 DEF HttpFailed, Requests
  <2>4. r'[t] \in Requests
    BY ZenonT(60), <1>1, <2>2 DEF HttpFailed, Requests, Stages, Quiet, Causes
  <2>5. TiersInOrder(r'[t]) /\ Blamed(r'[t], clock)
    BY <1>1, <1>2, <1>3, <2>3 DEF TiersInOrder, Blamed
  <2>6. Sound(r'[t], ends[t], stdin[t], stdout[t], child[t], clock)
    BY <1>0, <2>3, <2>5, FailedIsSound
  <2>7. r'[t].pc \notin Relying
    BY <2>3 DEF Relying, Making, Live, Transferring
  <2>8. QED
    BY <1>0, <2>1, <2>2, <2>4, <2>6, <2>7, OnlyLocals, Zenon
<1>4. CASE left # 0
  <2>1. /\ r' = [r EXCEPT ![t] = [rec EXCEPT !.pc = "pipeout", !.saved = sigpipe,
                                     !.ms = left, !.written = 0,
                                     !.wfail = FALSE, !.over = FALSE, !.got = << >>]]
        /\ sigpipe' = "ign"
    BY <1>4 DEF StartTier, Local, Disposition
  <2> HIDE DEF rec, left
  <2>2. /\ r'[t] = [rec EXCEPT !.pc = "pipeout", !.saved = sigpipe,
                                     !.ms = left, !.written = 0,
                                     !.wfail = FALSE, !.over = FALSE, !.got = << >>]
        /\ r' = [r EXCEPT ![t] = r'[t]]
    BY <1>0, <2>1
  <2>3. /\ r'[t].pc = "pipeout" /\ r'[t].ms = left /\ r'[t].written = 0 /\ ~r'[t].over
        /\ r'[t].got = << >> /\ r'[t].fate = "none" /\ r'[t].status = 0 /\ r'[t].hstatus = 0
        /\ r'[t].tier = rec.tier /\ r'[t].tried = rec.tried /\ r'[t].deadline = rec.deadline
    BY <1>1, <2>2 DEF Requests
  <2>4. r'[t] \in Requests
    <3>1. sigpipe \in {"ign", "dfl"} /\ 0 \in 0 .. Payload /\ << >> \in Seq(Part)
      BY DEF RequestInv, Typed
    <3> DEFINE begun == [rec EXCEPT !.pc = "pipeout", !.saved = sigpipe, !.ms = left]
    <3>2. begun \in Requests
      BY <1>1, <1>2, <3>1 DEF Requests, Stages, Making
    <3>3. r'[t] = [begun EXCEPT !.written = 0, !.wfail = FALSE, !.over = FALSE, !.got = << >>]
      BY <2>2
    <3> HIDE DEF begun
    <3>4. QED
      BY ZenonT(60), <3>1, <3>2, <3>3 DEF Requests
  <2>5. Held(r'[t], ends[t], child[t])
    BY <1>0, <2>3 DEF Held, Transferring, Quiet
  <2>6. FreshRequest(r'[t], stdin[t], stdout[t])
    BY <2>3 DEF FreshRequest, Making, Live, Transferring
  <2>7. Timed(r'[t], child[t], clock) /\ TiersInOrder(r'[t])
    BY <1>1, <1>2, <2>3 DEF Timed, TiersInOrder, Live, Transferring
  <2>8. Sound(r'[t], ends[t], stdin[t], stdout[t], child[t], clock)
    BY <2>3, <2>5, <2>6, <2>7, MakingIsSound DEF Making
  <2>9. QED
    BY <1>0, <2>1, <2>2, <2>4, <2>8, OnlyLocals, Zenon
<1>5. QED
  BY <1>3, <1>4

\* A request too large for its buffer fails its tier, with no status to report.
LEMMA TierTooLargeKeeps ==
    ASSUME RequestInv, NEW t \in Threads, TierTooLarge(t)
    PROVE  RequestInv'
<1> DEFINE rec == FreshTier(r[t])
<1>0. /\ r[t].pc = "tier" /\ UNCHANGED <<clock, alive, sigpipe, ends, stdin, stdout, child>>
      /\ r \in [Threads -> Requests]
      /\ r[t] \in Requests /\ ends[t] = {} /\ child[t].st = "none"
      /\ r' = [r EXCEPT ![t] = [rec EXCEPT !.pc = "next", !.cause = "local", !.fate = "local",
                                           !.hstatus = r[t].hstatus]]
  BY ThreadFacts DEF TierTooLarge, Local, RequestInv, Typed, Held, Quiet
<1>1. /\ rec \in Requests
      /\ rec.tier \in 1 .. LastTier /\ rec.tried = 1 .. rec.tier /\ rec.status = 0
  BY <1>0, ThreadFacts, FreshTierFacts
<1>2. r[t].hstatus \in Statuses
  BY <1>0 DEF Requests
<1> HIDE DEF rec
<1>3. /\ r'[t] = [rec EXCEPT !.pc = "next", !.cause = "local", !.fate = "local",
                             !.hstatus = r[t].hstatus]
      /\ r' = [r EXCEPT ![t] = r'[t]]
  BY <1>0
<1>4. /\ r'[t].pc = "next" /\ r'[t].cause = "local" /\ r'[t].fate = "local"
      /\ r'[t].status = 0 /\ r'[t].tier = rec.tier /\ r'[t].tried = rec.tried
  BY <1>1, <1>3 DEF Requests
<1>5. r'[t] \in Requests
  BY ZenonT(60), <1>1, <1>2, <1>3 DEF Requests, Stages, Quiet, Causes
<1>6. TiersInOrder(r'[t]) /\ Blamed(r'[t], clock)
  BY <1>1, <1>4 DEF TiersInOrder, Blamed
<1>7. Sound(r'[t], ends[t], stdin[t], stdout[t], child[t], clock)
  BY <1>0, <1>4, <1>6, FailedIsSound
<1>8. r'[t].pc \notin Relying
  BY <1>4 DEF Relying, Making, Live, Transferring
<1>9. QED
  BY <1>0, <1>3, <1>5, <1>7, <1>8, OnlyLocals

\* A new pipe is empty, and nobody else knows it yet.
LEMMA MakePipeKeeps ==
    ASSUME RequestInv, NEW t \in Threads, MakePipe(t)
    PROVE  RequestInv'
<1> DEFINE pair == IF r[t].pc = "pipeout" THEN OutEnds ELSE InEnds
           flagging == IF r[t].pc = "pipeout" THEN "flagout" ELSE "flagin"
<1>0. /\ r[t].pc \in {"pipeout", "pipein"} /\ UNCHANGED <<clock, alive, sigpipe, child>>
      /\ r' = [r EXCEPT ![t] = [r[t] EXCEPT !.pc = flagging]]
      /\ ends' = [ends EXCEPT ![t] = ends[t] \cup pair]
      /\ stdin' = [stdin EXCEPT ![t] = 0] /\ stdout' = [stdout EXCEPT ![t] = << >>]
  BY DEF MakePipe, Local
<1>1. Typed /\ r[t] \in Requests /\ ends[t] \in SUBSET Ends /\ child[t] \in Children
  BY ThreadFacts DEF RequestInv
<1>2. pair \in SUBSET Ends /\ (r[t].pc = "pipein" => "in1" \in pair)
  BY DEF Ends, InEnds, OutEnds
<1>3. flagging \in {"flagout", "flagin"} /\ (flagging = "flagin" => r[t].pc = "pipein")
  BY <1>0
<1> HIDE DEF pair, flagging
<1>4. r'[t] = [r[t] EXCEPT !.pc = flagging] /\ r' = [r EXCEPT ![t] = r'[t]]
  BY <1>0, <1>1 DEF Typed
<1>5. /\ ends'[t] = ends[t] \cup pair /\ ends' = [ends EXCEPT ![t] = ends'[t]]
      /\ stdin'[t] = 0 /\ stdin' = [stdin EXCEPT ![t] = stdin'[t]]
      /\ stdout'[t] = << >> /\ stdout' = [stdout EXCEPT ![t] = stdout'[t]]
  BY <1>0, <1>1 DEF Typed
<1>6. /\ child'[t] = child[t] /\ child' = [child EXCEPT ![t] = child'[t]]
      /\ child'[t] \in Children
  BY <1>0, ThreadFacts
<1>7. /\ r'[t].pc = flagging /\ r'[t].ms = r[t].ms /\ r'[t].written = r[t].written
      /\ r'[t].over = r[t].over /\ r'[t].got = r[t].got /\ r'[t].fate = r[t].fate
      /\ r'[t].status = r[t].status /\ r'[t].hstatus = r[t].hstatus
      /\ r'[t].tier = r[t].tier /\ r'[t].tried = r[t].tried /\ r'[t].deadline = r[t].deadline
  BY <1>1, <1>4 DEF Requests
<1>8. r'[t] \in Requests
  BY <1>1, <1>3, <1>4 DEF Requests, Stages, Making
<1>9. ends'[t] \in SUBSET Ends /\ stdin'[t] \in 0 .. PipeRoom /\ stdout'[t] \in Seq(Part)
  BY <1>1, <1>2, <1>5, RequestAssumption
<1>10. Held(r'[t], ends'[t], child'[t])
  <2>1. child[t].st = "none"
    BY <1>0, ThreadFacts DEF Held, Making
  <2>2. flagging = "flagin" => "in1" \in ends'[t]
    BY <1>2, <1>3, <1>5
  <2>3. QED
    BY <1>3, <1>6, <1>7, <2>1, <2>2 DEF Held, Quiet, Transferring
<1>11. FreshRequest(r'[t], stdin'[t], stdout'[t])
  BY <1>0, <1>3, <1>5, <1>7, ThreadFacts DEF FreshRequest, Making
<1>12. Timed(r'[t], child'[t], clock) /\ TiersInOrder(r'[t])
  BY <1>0, <1>3, <1>7, ThreadFacts DEF Timed, TiersInOrder, Making, Live, Transferring
<1>13. Sound(r'[t], ends'[t], stdin'[t], stdout'[t], child'[t], clock)
  BY <1>3, <1>7, <1>10, <1>11, <1>12, MakingIsSound DEF Making
<1>14. r[t].pc \in Relying /\ alive' /\ clock' = clock /\ sigpipe' = sigpipe
  BY <1>0, ThreadFacts DEF Relying, Making
<1>15. QED
  BY <1>4, <1>5, <1>6, <1>8, <1>9, <1>13, <1>14, OneThreadSteps

\* FD_CLOEXEC goes on one end after the other.
LEMMA SetCloexecKeeps ==
    ASSUME RequestInv, NEW t \in Threads, SetCloexec(t)
    PROVE  RequestInv'
<1>0. /\ r[t].pc \in {"flagout", "flagin"}
      /\ UNCHANGED <<clock, alive, sigpipe, ends, stdin, stdout, child>>
  BY DEF SetCloexec
<1>1. PICK flagging : /\ flagging = r[t].pc \/ (flagging = "pipein" /\ r[t].pc = "flagout")
                         \/ (flagging = "spawn" /\ r[t].pc = "flagin")
                      /\ r' = [r EXCEPT ![t] = [r[t] EXCEPT !.pc = flagging]]
  BY <1>0 DEF SetCloexec, Local
<1>2. r \in [Threads -> Requests] /\ r[t] \in Requests
  BY ThreadFacts DEF RequestInv, Typed
<1>3. r'[t] = [r[t] EXCEPT !.pc = flagging] /\ r' = [r EXCEPT ![t] = r'[t]]
  BY <1>1, <1>2
<1>4. flagging \in {"flagout", "flagin", "pipein", "spawn"}
  BY <1>0, <1>1
<1>5. /\ r'[t].pc = flagging /\ r'[t].ms = r[t].ms /\ r'[t].written = r[t].written
      /\ r'[t].over = r[t].over /\ r'[t].got = r[t].got /\ r'[t].fate = r[t].fate
      /\ r'[t].status = r[t].status /\ r'[t].hstatus = r[t].hstatus
      /\ r'[t].tier = r[t].tier /\ r'[t].tried = r[t].tried /\ r'[t].deadline = r[t].deadline
  BY <1>2, <1>3 DEF Requests
<1>6. r'[t] \in Requests
  BY ZenonT(60), <1>2, <1>3, <1>4 DEF Requests, Stages, Making
<1>7. Held(r'[t], ends[t], child[t])
  BY <1>0, <1>1, <1>4, <1>5, ThreadFacts DEF Held, Quiet, Making, Transferring
<1>8. FreshRequest(r'[t], stdin[t], stdout[t])
  BY <1>0, <1>4, <1>5, ThreadFacts DEF FreshRequest, Making
<1>9. Timed(r'[t], child[t], clock) /\ TiersInOrder(r'[t])
  BY <1>0, <1>4, <1>5, ThreadFacts DEF Timed, TiersInOrder, Making, Live, Transferring
<1>10. Sound(r'[t], ends[t], stdin[t], stdout[t], child[t], clock)
  BY <1>4, <1>5, <1>7, <1>8, <1>9, MakingIsSound DEF Making
<1>11. r[t].pc \in Relying
  BY <1>0 DEF Relying, Making
<1>12. QED
  BY <1>0, <1>3, <1>6, <1>10, <1>11, OnlyLocals

\* kill() and waitpid() leave nothing of the child but its record.
LEMMA ReapedFacts ==
    ASSUME RequestInv, NEW t \in Threads, Reaped(t)
    PROVE  /\ child' = [child EXCEPT ![t] = child'[t]] /\ child'[t] \in Children
           /\ child'[t].st = "none" /\ child'[t].left = child[t].left
           /\ child'[t].body = child[t].body /\ child'[t].fed = child[t].fed
           /\ child'[t].until = child[t].until /\ child'[t].code \in {9, child[t].code}
<1>1. child \in [Threads -> Children] /\ child[t] \in Children
  BY ThreadFacts DEF RequestInv, Typed
<1>2. PICK code \in {9, child[t].code} :
         child' = [child EXCEPT ![t] = [child[t] EXCEPT !.st = "none", !.code = code]]
  <2> DEFINE code == IF Runs(t) THEN 9 ELSE child[t].code
  <2>1. child' = [child EXCEPT ![t] = [child[t] EXCEPT !.st = "none", !.code = code]]
    BY <1>1 DEF Reaped, Children
  <2>2. code \in {9, child[t].code}
    OBVIOUS
  <2> HIDE DEF code
  <2>3. QED
    BY <2>1, <2>2
<1>3. child'[t] = [child[t] EXCEPT !.st = "none", !.code = code]
  BY <1>1, <1>2
<1>4. code \in Nat
  BY <1>1 DEF Children
<1>5. child'[t] \in Children
  BY <1>1, <1>3, <1>4 DEF Children
<1>6. QED
  BY <1>1, <1>2, <1>3, <1>5 DEF Children

\* A failure of the machine closes everything and blames no one else.
LEMMA LocalFailsKeeps ==
    ASSUME RequestInv, NEW t \in Threads, LocalFails(t)
    PROVE  RequestInv'
<1>0. /\ r[t].pc \in Making /\ UNCHANGED <<clock, alive, stdin, stdout, child>>
      /\ r' = [r EXCEPT ![t] = HttpFailed([r[t] EXCEPT !.fate = "local"], "local")]
      /\ ends' = [ends EXCEPT ![t] = {}] /\ sigpipe' = "ign"
  BY DEF LocalFails, Making, Local, Clean, Holds, Disposition
<1>1. Typed /\ r[t] \in Requests /\ r[t].hstatus = 0
  BY <1>0, ThreadFacts DEF RequestInv, FreshRequest
<1>2. /\ r'[t] = HttpFailed([r[t] EXCEPT !.fate = "local"], "local")
      /\ r' = [r EXCEPT ![t] = r'[t]]
      /\ ends'[t] = {} /\ ends' = [ends EXCEPT ![t] = ends'[t]]
  BY <1>0, <1>1 DEF Typed
<1>3. /\ r'[t].pc = "next" /\ r'[t].cause = "local" /\ r'[t].fate = "local" /\ r'[t].status = 0
      /\ r'[t].tier = r[t].tier /\ r'[t].tried = r[t].tried
  BY <1>1, <1>2 DEF HttpFailed, Requests
<1>4. r'[t] \in Requests
  BY ZenonT(60), <1>1, <1>2 DEF HttpFailed, Requests, Stages, Quiet, Causes
<1>5. /\ stdin' = stdin /\ stdout' = stdout /\ child' = child /\ clock' = clock /\ alive'
      /\ child[t].st = "none"
  BY <1>0, ThreadFacts DEF Held
<1>6. TiersInOrder(r'[t]) /\ Blamed(r'[t], clock)
  BY <1>0, <1>3, ThreadFacts DEF TiersInOrder, Blamed, Making, Live, Transferring
<1>7. Sound(r'[t], ends'[t], stdin'[t], stdout'[t], child'[t], clock)
  BY <1>2, <1>3, <1>5, <1>6, FailedIsSound
<1>8. QED
  BY <1>0, <1>2, <1>4, <1>5, <1>7, ThreadFacts, OneThreadSteps

\* The child starts with empty pipes and at least the time that is left.
LEMMA SpawnKeeps ==
    ASSUME RequestInv, NEW t \in Threads, Spawn(t)
    PROVE  RequestInv'
<1> DEFINE until == clock + 2 * r[t].ms
<1>0. /\ r[t].pc = "spawn" /\ UNCHANGED <<clock, alive, sigpipe, stdin, stdout>>
      /\ r' = [r EXCEPT ![t] = [r[t] EXCEPT !.pc = "nonblock"]]
      /\ ends' = [ends EXCEPT ![t] = ends[t] \ {"out1", "in0"}]
      /\ child' = [child EXCEPT ![t] = [NoChild EXCEPT !.st = "reads", !.until = until]]
  BY DEF Spawn, Local, Holds
<1>1. Typed /\ r[t] \in Requests /\ clock \in Nat /\ ends[t] \in SUBSET Ends
  BY ThreadFacts DEF RequestInv
<1>2. until \in Nat
  BY <1>1 DEF Requests
<1>3. until >= r[t].deadline
  BY <1>0, ThreadFacts DEF Timed, Making
<1> HIDE DEF until
<1>4. /\ r'[t] = [r[t] EXCEPT !.pc = "nonblock"] /\ r' = [r EXCEPT ![t] = r'[t]]
      /\ ends'[t] = ends[t] \ {"out1", "in0"} /\ ends' = [ends EXCEPT ![t] = ends'[t]]
      /\ child'[t] = [NoChild EXCEPT !.st = "reads", !.until = until]
      /\ child' = [child EXCEPT ![t] = child'[t]]
  BY <1>0, <1>1 DEF Typed
<1>5. /\ r'[t].pc = "nonblock" /\ r'[t].written = r[t].written
      /\ r'[t].over = r[t].over /\ r'[t].got = r[t].got /\ r'[t].fate = r[t].fate
      /\ r'[t].status = r[t].status /\ r'[t].hstatus = r[t].hstatus
      /\ r'[t].tier = r[t].tier /\ r'[t].tried = r[t].tried /\ r'[t].deadline = r[t].deadline
  BY <1>1, <1>4 DEF Requests
<1>6. child'[t].st = "reads" /\ child'[t].fed = 0 /\ child'[t].code = 0 /\ child'[t].until = until
  BY <1>4 DEF NoChild
<1>7. r'[t] \in Requests /\ ends'[t] \in SUBSET Ends
  BY ZenonT(60), <1>1, <1>4 DEF Requests, Stages, Live, Transferring
<1>8. child'[t] \in Children
  <2>1. << >> \in Seq(Part)
    OBVIOUS
  <2>2. child'[t] = [st |-> "reads", code |-> 0, left |-> << >>, body |-> 0, fed |-> 0,
                     until |-> until]
    BY <1>4 DEF NoChild
  <2>3. QED
    BY <1>2, <2>1, <2>2 DEF Children
<1>9. stdin' = stdin /\ stdout' = stdout /\ clock' = clock /\ alive'
  BY <1>0, ThreadFacts
<1>10. /\ r[t].written = 0 /\ r[t].got = << >> /\ ~r[t].over /\ r[t].fate = "none"
       /\ stdin[t] = 0 /\ stdout[t] = << >> /\ r[t].hstatus = 0 /\ r[t].status = 0
       /\ "in1" \in ends[t]
  BY <1>0, ThreadFacts DEF FreshRequest, Held, Making
<1>11. Held(r'[t], ends'[t], child'[t])
  <2>1. "in1" \in ends'[t] /\ ends'[t] \subseteq {"out0", "in1"}
    BY <1>1, <1>4, <1>10 DEF Ends, InEnds, OutEnds
  <2>2. QED
    BY <1>5, <2>1 DEF Held, Quiet, Making
<1>12. FreshRequest(r'[t], stdin'[t], stdout'[t])
  BY <1>5, <1>10 DEF FreshRequest, Making
<1>13. Feeding(r'[t], ends'[t], stdin'[t], child'[t])
  BY <1>4, <1>5, <1>6, <1>9, <1>10 DEF Feeding, Live, Transferring
<1>14. Reading(r'[t], stdout'[t], child'[t])
  BY <1>5, <1>6, <1>9, <1>10 DEF Reading
<1>15. Timed(r'[t], child'[t], clock)
  BY <1>3, <1>5, <1>6, <1>10 DEF Timed, Making
<1>16. TiersInOrder(r'[t])
  BY <1>0, <1>5, ThreadFacts DEF TiersInOrder, Making
<1>17. Sound(r'[t], ends'[t], stdin'[t], stdout'[t], child'[t], clock)
  BY <1>5, <1>11, <1>12, <1>13, <1>14, <1>15, <1>16, LiveIsSound DEF Live, Transferring
<1>18. r[t].pc \in Relying /\ sigpipe' = sigpipe
  BY <1>0 DEF Relying, Making
<1>19. QED
  BY <1>4, <1>7, <1>8, <1>9, <1>17, <1>18, ThreadFacts, OneThreadSteps

\* The pipes are made non-blocking: the poll loop begins.
LEMMA NonBlockingKeeps ==
    ASSUME RequestInv, NEW t \in Threads, NonBlocking(t)
    PROVE  RequestInv'
<1>0. /\ r[t].pc = "nonblock"
      /\ UNCHANGED <<clock, alive, sigpipe, ends, stdin, stdout, child>>
      /\ r' = [r EXCEPT ![t] = [r[t] EXCEPT !.pc = "io"]]
  BY DEF NonBlocking, Local
<1>1. Typed /\ r[t] \in Requests
  BY ThreadFacts DEF RequestInv
<1>2. r'[t] = [r[t] EXCEPT !.pc = "io"] /\ r' = [r EXCEPT ![t] = r'[t]]
  BY <1>0, <1>1 DEF Typed
<1>3. /\ r'[t].pc = "io" /\ r'[t].written = r[t].written /\ r'[t].wfail = r[t].wfail
      /\ r'[t].over = r[t].over /\ r'[t].got = r[t].got /\ r'[t].fate = r[t].fate
      /\ r'[t].status = r[t].status /\ r'[t].hstatus = r[t].hstatus
      /\ r'[t].tier = r[t].tier /\ r'[t].tried = r[t].tried /\ r'[t].deadline = r[t].deadline
  BY <1>1, <1>2 DEF Requests
<1>4. r'[t] \in Requests
  BY <1>1, <1>2 DEF Requests, Stages, Live, Transferring
<1>5. Held(r'[t], ends[t], child[t]) /\ FreshRequest(r'[t], stdin[t], stdout[t])
  BY <1>0, <1>3, ThreadFacts DEF Held, FreshRequest, Quiet, Making, Live, Transferring
<1>6. Feeding(r'[t], ends[t], stdin[t], child[t])
  BY <1>0, <1>3, ThreadFacts DEF Feeding, Live, Transferring
<1>7. Reading(r'[t], stdout[t], child[t])
  BY ZenonT(60), <1>0, <1>3, ThreadFacts DEF Reading, Live, Transferring
<1>8. Timed(r'[t], child[t], clock) /\ TiersInOrder(r'[t])
  BY <1>0, <1>3, ThreadFacts DEF Timed, TiersInOrder, Making, Live, Transferring
<1>9. Sound(r'[t], ends[t], stdin[t], stdout[t], child[t], clock)
  BY <1>3, <1>5, <1>6, <1>7, <1>8, LiveIsSound DEF Live, Transferring
<1>10. r[t].pc \in Relying
  BY <1>0 DEF Relying, Live, Transferring
<1>11. QED
  BY <1>0, <1>2, <1>4, <1>9, <1>10, OnlyLocals

\* fcntl() fails: the child is killed and reaped, and everything is closed.
LEMMA NonBlockingFailsKeeps ==
    ASSUME RequestInv, NEW t \in Threads, NonBlockingFails(t)
    PROVE  RequestInv'
<1>0. /\ r[t].pc = "nonblock" /\ UNCHANGED <<clock, alive, stdin, stdout>> /\ Reaped(t)
      /\ r' = [r EXCEPT ![t] = HttpFailed([r[t] EXCEPT !.fate = "local"], "local")]
      /\ ends' = [ends EXCEPT ![t] = {}] /\ sigpipe' = "ign"
  BY DEF NonBlockingFails, Local, Clean, Holds, Disposition
<1>1. Typed /\ r[t] \in Requests /\ r[t].hstatus = 0
  BY <1>0, ThreadFacts DEF RequestInv, FreshRequest, Live, Transferring
<1>2. /\ r'[t] = HttpFailed([r[t] EXCEPT !.fate = "local"], "local")
      /\ r' = [r EXCEPT ![t] = r'[t]]
      /\ ends'[t] = {} /\ ends' = [ends EXCEPT ![t] = ends'[t]]
  BY <1>0, <1>1 DEF Typed
<1>3. /\ r'[t].pc = "next" /\ r'[t].cause = "local" /\ r'[t].fate = "local" /\ r'[t].status = 0
      /\ r'[t].tier = r[t].tier /\ r'[t].tried = r[t].tried
  BY <1>1, <1>2 DEF HttpFailed, Requests
<1>4. r'[t] \in Requests
  BY <1>1, <1>2 DEF HttpFailed, Requests, Stages, Quiet, Causes
<1>5. stdin' = stdin /\ stdout' = stdout /\ clock' = clock /\ alive'
  BY <1>0, ThreadFacts
<1>6. /\ child' = [child EXCEPT ![t] = child'[t]] /\ child'[t] \in Children
      /\ child'[t].st = "none"
  BY <1>0, ReapedFacts
<1>7. TiersInOrder(r'[t]) /\ Blamed(r'[t], clock)
  BY <1>0, <1>3, ThreadFacts DEF TiersInOrder, Blamed, Making, Live, Transferring
<1>8. Sound(r'[t], ends'[t], stdin'[t], stdout'[t], child'[t], clock)
  BY <1>2, <1>3, <1>6, <1>7, FailedIsSound
<1>9. QED
  BY <1>0, <1>2, <1>4, <1>5, <1>6, <1>8, ThreadFacts, OneThreadSteps

-----------------------------------------------------------------------------
(* The poll loop.                                                           *)

\* poll() reports the stdin pipe only while the thread holds its end.
LEMMA PollKeeps ==
    ASSUME RequestInv, NEW t \in Threads, Poll(t)
    PROVE  RequestInv'
<1> DEFINE ready == Ready(t)
<1>0. /\ r[t].pc = "io"
      /\ UNCHANGED <<clock, alive, sigpipe, ends, stdin, stdout, child>>
      /\ r' = [r EXCEPT ![t] = [r[t] EXCEPT !.pc = "act", !.polled = ready]]
  BY DEF Poll, Local
<1>1. Typed /\ r[t] \in Requests
  BY ThreadFacts DEF RequestInv
<1>2. ready \in SUBSET {"out", "in", "hup"} /\ (ready \cap {"in", "hup"} # {} => "in1" \in ends[t])
  BY DEF Ready
<1> HIDE DEF ready
<1>3. /\ r'[t] = [r[t] EXCEPT !.pc = "act", !.polled = ready]
      /\ r' = [r EXCEPT ![t] = r'[t]]
  BY <1>0, <1>1 DEF Typed
<1>4. /\ r'[t].pc = "act" /\ r'[t].written = r[t].written /\ r'[t].wfail = r[t].wfail
      /\ r'[t].over = r[t].over /\ r'[t].got = r[t].got /\ r'[t].fate = r[t].fate
      /\ r'[t].status = r[t].status /\ r'[t].hstatus = r[t].hstatus /\ r'[t].polled = ready
      /\ r'[t].tier = r[t].tier /\ r'[t].tried = r[t].tried /\ r'[t].deadline = r[t].deadline
  BY <1>1, <1>3 DEF Requests
<1>5. r'[t] \in Requests
  BY ZenonT(60), <1>1, <1>2, <1>3 DEF Requests, Stages, Live, Transferring
<1>6. Held(r'[t], ends[t], child[t]) /\ FreshRequest(r'[t], stdin[t], stdout[t])
  BY <1>0, <1>4, ThreadFacts DEF Held, FreshRequest, Quiet, Making, Live, Transferring
<1>7. Feeding(r'[t], ends[t], stdin[t], child[t])
  BY <1>0, <1>2, <1>4, ThreadFacts DEF Feeding, Live, Transferring
<1>8. Reading(r'[t], stdout[t], child[t])
  BY ZenonT(60), <1>0, <1>4, ThreadFacts DEF Reading, Live, Transferring
<1>9. Timed(r'[t], child[t], clock) /\ TiersInOrder(r'[t])
  BY <1>0, <1>4, ThreadFacts DEF Timed, TiersInOrder, Making, Live, Transferring
<1>10. Sound(r'[t], ends[t], stdin[t], stdout[t], child[t], clock)
  BY <1>4, <1>6, <1>7, <1>8, <1>9, LiveIsSound DEF Live, Transferring
<1>11. r[t].pc \in Relying
  BY <1>0 DEF Relying, Live, Transferring
<1>12. QED
  BY <1>0, <1>3, <1>5, <1>10, <1>11, OnlyLocals

\* The loop ends: what was read of an answer was read from a child that had
\* been given all it would get.
LEMMA EndIoKeeps ==
    ASSUME RequestInv, NEW t \in Threads, EndIo(t)
    PROVE  RequestInv'
<1>0. /\ r[t].pc = "io" /\ UNCHANGED <<clock, alive, stdin, stdout, child>>
      /\ r' = [r EXCEPT ![t] = [r[t] EXCEPT !.pc = "reap"]]
      /\ ends' = [ends EXCEPT ![t] = {}] /\ sigpipe' = "ign"
  BY DEF EndIo, Local, Clean, Holds, Disposition
<1>1. Typed /\ r[t] \in Requests
  BY ThreadFacts DEF RequestInv
<1>2. /\ r'[t] = [r[t] EXCEPT !.pc = "reap"] /\ r' = [r EXCEPT ![t] = r'[t]]
      /\ ends'[t] = {} /\ ends' = [ends EXCEPT ![t] = ends'[t]]
  BY <1>0, <1>1 DEF Typed
<1>3. /\ r'[t].pc = "reap" /\ r'[t].written = r[t].written /\ r'[t].wfail = r[t].wfail
      /\ r'[t].over = r[t].over /\ r'[t].got = r[t].got /\ r'[t].fate = r[t].fate
      /\ r'[t].status = r[t].status /\ r'[t].hstatus = r[t].hstatus
      /\ r'[t].tier = r[t].tier /\ r'[t].tried = r[t].tried /\ r'[t].deadline = r[t].deadline
  BY <1>1, <1>2 DEF Requests
<1>4. r'[t] \in Requests
  BY ZenonT(60), <1>1, <1>2 DEF Requests, Stages, Live
<1>5. /\ stdin' = stdin /\ stdout' = stdout /\ child' = child /\ clock' = clock /\ alive'
  BY <1>0, ThreadFacts
<1>6. Held(r'[t], ends'[t], child[t]) /\ FreshRequest(r'[t], stdin[t], stdout[t])
  BY <1>0, <1>2, <1>3, ThreadFacts DEF Held, FreshRequest, Quiet, Making, Live, Transferring
<1>7. Feeding(r'[t], ends'[t], stdin[t], child[t])
  <2>1. r[t].got = << >> \/ r[t].wfail \/ r[t].written = Payload
    BY <1>0, ThreadFacts DEF Feeding, Reading, Live, Transferring
  <2>2. QED
    BY <1>0, <1>3, <2>1, ThreadFacts DEF Feeding, Live, Transferring
<1>8. Reading(r'[t], stdout[t], child[t])
  BY ZenonT(60), <1>0, <1>3, ThreadFacts DEF Reading, Live, Transferring
<1>9. Timed(r'[t], child[t], clock) /\ TiersInOrder(r'[t])
  BY <1>0, <1>3, ThreadFacts DEF Timed, TiersInOrder, Making, Live, Transferring
<1>10. Sound(r'[t], ends'[t], stdin'[t], stdout'[t], child'[t], clock)
  BY <1>3, <1>5, <1>6, <1>7, <1>8, <1>9, LiveIsSound DEF Live
<1>11. QED
  BY <1>0, <1>2, <1>4, <1>5, <1>10, ThreadFacts, OneThreadSteps

\* The child is reaped: its exit code can only become the one of a kill.
LEMMA ReapKeeps ==
    ASSUME RequestInv, NEW t \in Threads, Reap(t)
    PROVE  RequestInv'
<1>0. /\ r[t].pc = "reap" /\ UNCHANGED <<clock, alive, sigpipe, ends, stdin, stdout>>
      /\ r' = [r EXCEPT ![t] = [r[t] EXCEPT !.pc = "judge"]] /\ Reaped(t)
  BY DEF Reap, Local
<1>1. Typed /\ r[t] \in Requests /\ child[t] \in Children
  BY ThreadFacts DEF RequestInv
<1>2. r'[t] = [r[t] EXCEPT !.pc = "judge"] /\ r' = [r EXCEPT ![t] = r'[t]]
  BY <1>0, <1>1 DEF Typed
<1>3. /\ r'[t].pc = "judge" /\ r'[t].written = r[t].written /\ r'[t].wfail = r[t].wfail
      /\ r'[t].over = r[t].over /\ r'[t].got = r[t].got /\ r'[t].fate = r[t].fate
      /\ r'[t].status = r[t].status /\ r'[t].hstatus = r[t].hstatus
      /\ r'[t].tier = r[t].tier /\ r'[t].tried = r[t].tried /\ r'[t].deadline = r[t].deadline
  BY <1>1, <1>2 DEF Requests
<1>4. r'[t] \in Requests
  BY <1>1, <1>2 DEF Requests, Stages, Live
<1>5. ends' = ends /\ stdin' = stdin /\ stdout' = stdout /\ clock' = clock /\ alive'
  BY <1>0, ThreadFacts
<1>6. /\ child' = [child EXCEPT ![t] = child'[t]] /\ child'[t] \in Children
      /\ child'[t].st = "none" /\ child'[t].left = child[t].left
      /\ child'[t].body = child[t].body /\ child'[t].fed = child[t].fed
      /\ child'[t].until = child[t].until /\ child'[t].code \in {9, child[t].code}
  BY <1>0, ReapedFacts
<1>7. Held(r'[t], ends[t], child'[t]) /\ FreshRequest(r'[t], stdin[t], stdout[t])
  BY <1>0, <1>3, <1>6, ThreadFacts DEF Held, FreshRequest, Quiet, Making, Live, Transferring
<1>8. Feeding(r'[t], ends[t], stdin[t], child'[t])
  BY <1>0, <1>3, <1>6, ThreadFacts DEF Feeding, Live, Transferring
<1>9. Reading(r'[t], stdout[t], child'[t])
  <2>1. Reading(r[t], stdout[t], child[t]) /\ r[t].pc \in Live
    BY <1>0, ThreadFacts DEF Live
  <2>2. CASE r[t].fate = "none"
    BY <1>3, <1>6, <2>1, <2>2 DEF Reading
  <2>3. CASE r[t].fate # "none"
    BY <1>3, <1>6, <2>1, <2>3 DEF Reading
  <2>4. QED
    BY <2>2, <2>3
<1>10. Timed(r'[t], child'[t], clock) /\ TiersInOrder(r'[t])
  BY <1>0, <1>3, <1>6, ThreadFacts DEF Timed, TiersInOrder, Making, Live, Transferring
<1>11. Sound(r'[t], ends'[t], stdin'[t], stdout'[t], child'[t], clock)
  BY <1>3, <1>5, <1>7, <1>8, <1>9, <1>10, LiveIsSound DEF Live
<1>12. r[t].pc \in Relying /\ sigpipe' = sigpipe
  BY <1>0 DEF Relying, Live
<1>13. QED
  BY <1>2, <1>4, <1>5, <1>6, <1>11, <1>12, ThreadFacts, OneThreadSteps

-----------------------------------------------------------------------------
(* What curl prints, on its way to the thread.                              *)

\* The child moves a part from what is left to the pipe.
LEMMA PrintsMove ==
    ASSUME NEW out \in Seq(Part), NEW left \in Seq(Part), NEW k \in Nat, NEW n \in Nat, NEW fate,
           left # << >>, Prints(out, k, n, fate), Prints(left, k + Len(out), n, fate)
    PROVE  /\ Append(out, Head(left)) \in Seq(Part) /\ Tail(left) \in Seq(Part)
           /\ Prints(Append(out, Head(left)), k, n, fate)
           /\ Prints(Tail(left), k + Len(Append(out, Head(left))), n, fate)
<1>1. Len(left) > 0 /\ Head(left) = left[1] /\ left[1] \in Part
  OBVIOUS
<1>2. /\ Append(out, Head(left)) \in Seq(Part) /\ Len(Append(out, Head(left))) = Len(out) + 1
      /\ \A i \in 1 .. Len(out) : Append(out, Head(left))[i] = out[i]
      /\ Append(out, Head(left))[Len(out) + 1] = left[1]
  BY <1>1
<1>3. /\ Tail(left) \in Seq(Part) /\ Len(Tail(left)) = Len(left) - 1
      /\ \A i \in 1 .. Len(Tail(left)) : Tail(left)[i] = left[i + 1]
  BY <1>1
<1>4. left[1] = Printed(n, fate, k + Len(out) + 1)
  BY <1>1 DEF Prints
<1>5. Prints(Append(out, Head(left)), k, n, fate)
  <2>1. k + Len(Append(out, Head(left))) <= n + 1
    BY <1>1, <1>2 DEF Prints
  <2>2. ASSUME NEW i \in 1 .. Len(out) + 1
        PROVE  Append(out, Head(left))[i] = Printed(n, fate, k + i)
    <3>1. CASE i \in 1 .. Len(out)
      BY <1>2, <3>1 DEF Prints
    <3>2. CASE i = Len(out) + 1
      <4>1. k + i = k + Len(out) + 1
        BY <3>2
      <4>2. QED
        BY <1>2, <1>4, <3>2, <4>1
    <3>3. QED
      BY <3>1, <3>2
  <2>3. QED
    BY <1>2, <2>1, <2>2 DEF Prints
<1>6. Prints(Tail(left), k + Len(out) + 1, n, fate)
  <2>1. k + Len(out) + 1 + Len(Tail(left)) <= n + 1
    BY <1>3 DEF Prints
  <2>2. ASSUME NEW i \in 1 .. Len(Tail(left))
        PROVE  Tail(left)[i] = Printed(n, fate, k + Len(out) + 1 + i)
    <3>1. i + 1 \in 1 .. Len(left) /\ k + Len(out) + (i + 1) = k + Len(out) + 1 + i
      BY <1>1, <1>3
    <3>2. left[i + 1] = Printed(n, fate, k + Len(out) + (i + 1))
      BY <3>1 DEF Prints
    <3>3. QED
      BY <1>3, <3>1, <3>2
  <2>3. QED
    BY <2>1, <2>2 DEF Prints
<1>7. k + Len(Append(out, Head(left))) = k + Len(out) + 1
  BY <1>2
<1>8. QED
  BY <1>2, <1>3, <1>5, <1>6, <1>7

\* read() joins what is in the pipe to what was read before, up to any length.
LEMMA PrintsJoin ==
    ASSUME NEW got \in Seq(Part), NEW out \in Seq(Part), NEW n \in Nat, NEW fate,
           Prints(got, 0, n, fate), Prints(out, Len(got), n, fate)
    PROVE  /\ Prints(got \o out, 0, n, fate)
           /\ \A b \in 0 .. Len(got \o out) : Prints(SubSeq(got \o out, 1, b), 0, n, fate)
<1>1. /\ got \o out \in Seq(Part) /\ Len(got \o out) = Len(got) + Len(out)
      /\ \A i \in 1 .. Len(got) : (got \o out)[i] = got[i]
      /\ \A i \in Len(got) + 1 .. Len(got) + Len(out) : (got \o out)[i] = out[i - Len(got)]
  OBVIOUS
<1>2. ASSUME NEW i \in 1 .. Len(got \o out) PROVE (got \o out)[i] = Printed(n, fate, 0 + i)
  <2>1. CASE i \in 1 .. Len(got)
    BY <1>1, <2>1 DEF Prints
  <2>2. CASE i \in Len(got) + 1 .. Len(got) + Len(out)
    <3>1. i - Len(got) \in 1 .. Len(out) /\ Len(got) + (i - Len(got)) = i
      BY <2>2
    <3>2. out[i - Len(got)] = Printed(n, fate, Len(got) + (i - Len(got)))
      BY <3>1 DEF Prints
    <3>3. QED
      BY <1>1, <2>2, <3>1, <3>2
  <2>3. QED
    BY <1>1, <2>1, <2>2
<1>3. 0 + Len(got \o out) <= n + 1
  BY <1>1 DEF Prints
<1>4. Prints(got \o out, 0, n, fate)
  BY <1>2, <1>3 DEF Prints
<1>5. ASSUME NEW b \in 0 .. Len(got \o out)
      PROVE  Prints(SubSeq(got \o out, 1, b), 0, n, fate)
  <2>1. /\ Len(SubSeq(got \o out, 1, b)) = b
        /\ \A i \in 1 .. b : SubSeq(got \o out, 1, b)[i] = (got \o out)[i]
    BY <1>1
  <2>2. 0 + b <= n + 1 /\ 1 .. b \subseteq 1 .. Len(got \o out)
    BY <1>1, <1>3
  <2>3. QED
    BY <1>2, <2>1, <2>2 DEF Prints
<1>6. QED
  BY <1>4, <1>5

\* The answer as curl has it when the transfer ends.
LEMMA PrintsAll ==
    ASSUME NEW n \in Nat, NEW fate \in CurlFates
    PROVE  /\ Append([i \in 1 .. n |-> Body], StatusOf(fate)) \in Seq(Part)
           /\ Prints(Append([i \in 1 .. n |-> Body], StatusOf(fate)), 0, n, fate)
<1> DEFINE body == [i \in 1 .. n |-> Body]
<1>1. body \in Seq(Part) /\ Len(body) = n /\ \A i \in 1 .. n : body[i] = Body
  <2>1. Body \in Part
    BY DEF Part
  <2>2. QED
    BY <2>1
<1>2. StatusOf(fate) \in Part
  BY DEF StatusOf, Part, Statuses
<1> HIDE DEF body
<1>3. /\ Append(body, StatusOf(fate)) \in Seq(Part)
      /\ Len(Append(body, StatusOf(fate))) = n + 1
      /\ \A i \in 1 .. n : Append(body, StatusOf(fate))[i] = Body
      /\ Append(body, StatusOf(fate))[n + 1] = StatusOf(fate)
  BY <1>1, <1>2
<1>4. ASSUME NEW i \in 1 .. n + 1
      PROVE  Append(body, StatusOf(fate))[i] = Printed(n, fate, 0 + i)
  <2>1. CASE i \in 1 .. n
    BY <1>3, <2>1 DEF Printed
  <2>2. CASE i = n + 1
    BY <1>3, <2>2 DEF Printed
  <2>3. i \in 1 .. n \/ i = n + 1
    OBVIOUS
  <2>4. QED
    BY <2>1, <2>2, <2>3
<1>5. Prints(Append(body, StatusOf(fate)), 0, n, fate)
  BY <1>3, <1>4 DEF Prints
<1>6. QED
  BY <1>3, <1>5 DEF body

\* A status line among what was read is its last part, and then all was read.
LEMMA StatusEndsIt ==
    ASSUME NEW got \in Seq(Part), NEW n \in Nat, NEW fate, Prints(got, 0, n, fate),
           got # << >>, Last(got) \in Statuses
    PROVE  /\ Len(got) = n + 1 /\ Last(got) = StatusOf(fate)
           /\ {i \in DOMAIN got : got[i] = Body} = 1 .. n
<1>1. Len(got) \in Nat \ {0} /\ DOMAIN got = 1 .. Len(got) /\ Len(got) <= n + 1
  BY DEF Prints
<1>2. Last(got) = Printed(n, fate, Len(got))
  BY <1>1 DEF Prints, Last
<1>3. Body \notin Statuses /\ StatusOf(fate) # Body
  BY DEF Body, Statuses, StatusOf
<1>4. ~(Len(got) <= n)
  BY <1>2, <1>3 DEF Printed
<1>5. Len(got) = n + 1 /\ Last(got) = StatusOf(fate)
  <2>1. Last(got) = StatusOf(fate)
    BY <1>2, <1>4 DEF Printed
  <2>2. Len(got) \in Nat /\ Len(got) <= n + 1
    BY <1>1
  <2>3. \A m \in Nat : m <= n + 1 /\ ~(m <= n) => m = n + 1
    OBVIOUS
  <2>4. QED
    BY <1>4, <2>1, <2>2, <2>3
<1>6. \A i \in 1 .. n + 1 : got[i] = Body <=> i \in 1 .. n
  <2>1. ASSUME NEW i \in 1 .. n + 1 PROVE got[i] = Body <=> i \in 1 .. n
    <3>1. got[i] = Printed(n, fate, i)
      BY <1>5 DEF Prints
    <3>2. QED
      BY <1>3, <3>1 DEF Printed
  <2>2. QED
    BY <2>1
<1>7. {i \in DOMAIN got : got[i] = Body} = 1 .. n
  BY <1>1, <1>5, <1>6
<1>8. QED
  BY <1>5, <1>7

-----------------------------------------------------------------------------
(* The curl child.                                                          *)

\* A child that runs belongs to a request that waits for it.
LEMMA ChildFacts ==
    ASSUME RequestInv, NEW t \in Threads, child[t].st # "none"
    PROVE  /\ r[t].pc \in Transferring \cup {"reap"} /\ r[t].pc \in Live
           /\ r[t].pc \notin Quiet \cup Making
<1>1. r[t].pc \in Stages /\ r[t].pc \notin Quiet \cup Making
  BY ThreadFacts DEF Held, Requests
<1>2. QED
  BY <1>1 DEF Stages, Live, Quiet

\* A step of the child that leaves the thread's locals and its pipe ends alone.
LEMMA OnlyChild ==
    ASSUME RequestInv, NEW t \in Threads, child[t].st # "none",
           UNCHANGED <<clock, alive, sigpipe, r, ends>>,
           stdin' = [stdin EXCEPT ![t] = stdin'[t]], stdin'[t] \in 0 .. PipeRoom,
           stdout' = [stdout EXCEPT ![t] = stdout'[t]], stdout'[t] \in Seq(Part),
           child' = [child EXCEPT ![t] = child'[t]], child'[t] \in Children,
           Feeding(r[t], ends[t], stdin'[t], child'[t]),
           Reading(r[t], stdout'[t], child'[t]), Timed(r[t], child'[t], clock)
    PROVE  RequestInv'
<1>1. r' = r /\ ends' = ends /\ clock' = clock /\ sigpipe' = sigpipe /\ alive'
  BY ThreadFacts
<1>2. r[t].pc \in Live /\ r[t].pc \notin Quiet \cup Making
  BY ChildFacts
<1>3. Held(r[t], ends[t], child'[t]) /\ FreshRequest(r[t], stdin'[t], stdout'[t])
  BY <1>2, ThreadFacts DEF Held, FreshRequest
<1>4. Sound(r[t], ends[t], stdin'[t], stdout'[t], child'[t], clock)
  BY <1>2, <1>3, ThreadFacts, LiveIsSound
<1>5. QED
  BY <1>1, <1>4, ThreadFacts, OneThreadSteps

\* The child takes a part of the text out of its pipe.
LEMMA ChildReadsKeeps ==
    ASSUME RequestInv, NEW t \in Threads, ChildReads(t)
    PROVE  RequestInv'
<1>0. /\ child[t].st = "reads" /\ stdin[t] > 0 /\ stdout' = stdout
      /\ UNCHANGED <<clock, alive, sigpipe, r, ends>>
      /\ stdin' = [stdin EXCEPT ![t] = stdin[t] - 1]
      /\ child' = [child EXCEPT ![t] = [child[t] EXCEPT !.fed = child[t].fed + 1]]
  <2>1. child \in [Threads -> Children]
    BY DEF RequestInv, Typed
  <2>2. QED
    BY <2>1 DEF ChildReads
<1>1. Typed /\ child[t] \in Children /\ stdin[t] \in 0 .. PipeRoom
  BY ThreadFacts DEF RequestInv
<1>2. /\ stdin'[t] = stdin[t] - 1 /\ stdin' = [stdin EXCEPT ![t] = stdin'[t]]
      /\ child'[t] = [child[t] EXCEPT !.fed = child[t].fed + 1]
      /\ child' = [child EXCEPT ![t] = child'[t]]
  BY <1>0, <1>1 DEF Typed
<1>3. stdin'[t] \in 0 .. PipeRoom /\ stdin[t] # 0
  BY <1>0, <1>1, <1>2, RequestAssumption
<1>4. child[t].fed + 1 \in Nat
  BY <1>1 DEF Children
<1>5. /\ child'[t].st = "reads" /\ child'[t].fed = child[t].fed + 1
      /\ child'[t].code = child[t].code /\ child'[t].left = child[t].left
      /\ child'[t].body = child[t].body /\ child'[t].until = child[t].until
  BY <1>0, <1>1, <1>2 DEF Children
<1>6. child'[t] \in Children
  BY <1>1, <1>2, <1>4 DEF Children
<1>7. r[t].pc \in Live
  BY <1>0, ChildFacts
<1>8. r[t].fate = "none"
  BY <1>0, <1>7, ThreadFacts DEF Reading
<1>9. Feeding(r[t], ends[t], stdin'[t], child'[t])
  <2>1. child'[t].fed + stdin'[t] = child[t].fed + stdin[t]
    BY SMTT(30), <1>1, <1>2, <1>5 DEF Children
  <2>2. QED
    BY <1>0, <1>5, <1>8, <2>1, ThreadFacts DEF Feeding
<1>10. Reading(r[t], stdout'[t], child'[t]) /\ Timed(r[t], child'[t], clock)
  BY ZenonT(60), <1>0, <1>5, <1>8, ThreadFacts DEF Reading, Timed
<1>11. QED
  BY <1>0, <1>2, <1>3, <1>6, <1>9, <1>10, ThreadFacts, OnlyChild

\* At the end of the text nothing of it is in the pipe and the thread has
\* closed its end: the whole text was written, or a write failed.
LEMMA ChildTransfersKeeps ==
    ASSUME RequestInv, NEW t \in Threads, ChildTransfers(t)
    PROVE  RequestInv'
<1>0. /\ child[t].st = "reads" /\ stdin[t] = 0 /\ "in1" \notin ends[t]
      /\ stdout' = stdout /\ stdin' = stdin
      /\ UNCHANGED <<clock, alive, sigpipe, r, ends>>
      /\ child' = [child EXCEPT ![t] = [child[t] EXCEPT !.st = "transfers"]]
  BY DEF ChildTransfers, StdinAtEof
<1>1. Typed /\ child[t] \in Children
  BY ThreadFacts DEF RequestInv
<1>2. /\ child'[t] = [child[t] EXCEPT !.st = "transfers"]
      /\ child' = [child EXCEPT ![t] = child'[t]]
  BY <1>0, <1>1 DEF Typed
<1>3. /\ child'[t].st = "transfers" /\ child'[t].fed = child[t].fed
      /\ child'[t].code = child[t].code /\ child'[t].left = child[t].left
      /\ child'[t].body = child[t].body /\ child'[t].until = child[t].until
  BY <1>0, <1>1, <1>2 DEF Children
<1>4. child'[t] \in Children
  BY <1>1, <1>2 DEF Children
<1>5. r[t].pc \in Live /\ r[t].fate = "none"
  BY <1>0, ChildFacts, ThreadFacts DEF Reading
<1>6. Feeding(r[t], ends[t], stdin'[t], child'[t])
  BY <1>0, <1>3, <1>5, ThreadFacts DEF Feeding
<1>7. Reading(r[t], stdout'[t], child'[t]) /\ Timed(r[t], child'[t], clock)
  BY ZenonT(60), <1>0, <1>3, <1>5, ThreadFacts DEF Reading, Timed
<1>8. QED
  BY <1>0, <1>2, <1>4, <1>6, <1>7, ThreadFacts, OnlyChild

\* The child dies before the end of its input: it has printed nothing.
LEMMA ChildCrashesKeeps ==
    ASSUME RequestInv, NEW t \in Threads, ChildCrashes(t)
    PROVE  RequestInv'
<1>0. /\ child[t].st = "reads" /\ stdout' = stdout /\ stdin' = stdin
      /\ UNCHANGED <<clock, alive, sigpipe, r, ends>>
  BY DEF ChildCrashes
<1>1. Typed /\ child[t] \in Children
  BY ThreadFacts DEF RequestInv
<1>p. PICK code \in Nat :
       /\ code = 2
       /\ child' = [child EXCEPT ![t] = [child[t] EXCEPT !.st = "exited", !.code = code]]
  BY DEF ChildCrashes
<1>2. /\ child'[t] = [child[t] EXCEPT !.st = "exited", !.code = code]
      /\ child' = [child EXCEPT ![t] = child'[t]]
  BY <1>p, <1>1 DEF Typed
<1>3. /\ child'[t].st = "exited" /\ child'[t].fed = child[t].fed
      /\ child'[t].code = code /\ child'[t].until = child[t].until
  BY <1>1, <1>2 DEF Children
<1>4. child'[t] \in Children
  BY <1>1, <1>2 DEF Children
<1>5. r[t].pc \in Live /\ r[t].fate = "none"
  BY <1>0, ChildFacts, ThreadFacts DEF Reading
<1>6. Feeding(r[t], ends[t], stdin'[t], child'[t])
  BY <1>0, <1>3, <1>5, ThreadFacts DEF Feeding
<1>7. Reading(r[t], stdout'[t], child'[t]) /\ Timed(r[t], child'[t], clock)
  <2>1. child'[t].code # 22 /\ child'[t].code # 28 /\ r[t].pc \notin Making
    BY <1>0, <1>p, <1>3, ChildFacts
  <2>2. QED
    BY <1>0, <1>3, <1>5, <2>1, ThreadFacts DEF Reading, Timed
<1>8. QED
  BY <1>0, <1>2, <1>4, <1>6, <1>7, ThreadFacts, OnlyChild

\* The transfer ends: what the child will print is settled, and so is its exit
\* code; nothing was printed before.
LEMMA ChildAnswersKeeps ==
    ASSUME RequestInv, NEW t \in Threads, ChildAnswers(t)
    PROVE  RequestInv'
<1>0. /\ child[t].st = "transfers" /\ stdout' = stdout /\ stdin' = stdin
      /\ ends' = ends /\ clock' = clock /\ sigpipe' = sigpipe /\ alive'
  BY ThreadFacts DEF ChildAnswers
<1>1. Typed /\ r[t] \in Requests /\ child[t] \in Children
  BY ThreadFacts DEF RequestInv
<1>2. PICK fate \in CurlFates, n \in Nat, code \in Nat, left \in Seq(Part) :
         /\ left = Append([i \in 1 .. n |-> Body], StatusOf(fate))
         /\ code = 22 => fate = "refused"
         /\ code = 28 => fate = "timeout"
         /\ fate = "timeout" => clock >= child[t].until
         /\ child' = [child EXCEPT ![t] = [child[t] EXCEPT !.st = "writes", !.code = code,
                                                           !.body = n, !.left = left]]
         /\ r' = [r EXCEPT ![t].fate = fate]
  <2>1. PICK outcome \in [fate : CurlFates, n : Bodies] :
          LET n == IF outcome.fate = "answered" THEN outcome.n ELSE 0
              status == CASE outcome.fate = "answered" -> 200
                          [] outcome.fate = "refused" -> 503
                          [] OTHER -> 0
              code == CASE outcome.fate = "answered" -> 0
                        [] outcome.fate = "refused" -> 22
                        [] outcome.fate = "unreachable" -> 7
                        [] OTHER -> 28
          IN /\ outcome.fate = "timeout" => clock >= child[t].until
             /\ child' = [child EXCEPT ![t] = [child[t] EXCEPT
                    !.st = "writes", !.code = code, !.body = n,
                    !.left = Append([i \in 1 .. n |-> Body], status)]]
             /\ r' = [r EXCEPT ![t].fate = outcome.fate]
    BY DEF ChildAnswers, CurlFates
  <2> DEFINE n == IF outcome.fate = "answered" THEN outcome.n ELSE 0
             status == CASE outcome.fate = "answered" -> 200
                         [] outcome.fate = "refused" -> 503
                         [] OTHER -> 0
             code == CASE outcome.fate = "answered" -> 0
                       [] outcome.fate = "refused" -> 22
                       [] outcome.fate = "unreachable" -> 7
                       [] OTHER -> 28
             fate == outcome.fate
             left == Append([i \in 1 .. n |-> Body], status)
  <2>2. fate \in CurlFates /\ n \in Nat
    BY RequestAssumption
  <2>3. status = StatusOf(fate)
    BY DEF StatusOf, CurlFates
  <2>4. code \in Nat
    BY DEF CurlFates
  <2>5. (code = 22 => fate = "refused") /\ (code = 28 => fate = "timeout")
    BY DEF CurlFates
  <2>6. /\ fate = "timeout" => clock >= child[t].until
        /\ child' = [child EXCEPT ![t] = [child[t] EXCEPT !.st = "writes", !.code = code,
                                                          !.body = n, !.left = left]]
        /\ r' = [r EXCEPT ![t].fate = fate]
    BY <2>1
  <2>7. left = Append([i \in 1 .. n |-> Body], StatusOf(fate))
    BY <2>3
  <2> HIDE DEF n, status, code, fate, left
  <2>8. left \in Seq(Part)
    BY <2>2, <2>7, PrintsAll
  <2>9. QED
    BY <2>2, <2>4, <2>5, <2>6, <2>7, <2>8
<1>3. left \in Seq(Part) /\ Prints(left, 0, n, fate)
  BY <1>2, PrintsAll
<1>4. /\ child'[t] = [child[t] EXCEPT !.st = "writes", !.code = code, !.body = n, !.left = left]
      /\ child' = [child EXCEPT ![t] = child'[t]]
      /\ r'[t] = [r[t] EXCEPT !.fate = fate] /\ r' = [r EXCEPT ![t] = r'[t]]
  BY <1>1, <1>2 DEF Typed
<1>5. /\ child'[t].st = "writes" /\ child'[t].code = code /\ child'[t].body = n
      /\ child'[t].left = left /\ child'[t].fed = child[t].fed
      /\ child'[t].until = child[t].until /\ child'[t] \in Children
  BY <1>1, <1>3, <1>4 DEF Children
<1>6. /\ r'[t].fate = fate /\ r'[t].pc = r[t].pc /\ r'[t].written = r[t].written
      /\ r'[t].wfail = r[t].wfail /\ r'[t].over = r[t].over /\ r'[t].got = r[t].got
      /\ r'[t].status = r[t].status /\ r'[t].hstatus = r[t].hstatus
      /\ r'[t].polled = r[t].polled
      /\ r'[t].tier = r[t].tier /\ r'[t].tried = r[t].tried /\ r'[t].deadline = r[t].deadline
  BY <1>1, <1>4 DEF Requests
<1>7. r'[t] \in Requests
  BY ZenonT(60), <1>1, <1>4 DEF Requests
<1>8. /\ r[t].pc \in Live /\ r[t].pc \notin Quiet \cup Making /\ r[t].fate = "none"
      /\ r[t].got = << >> /\ stdout[t] = << >> /\ ~r[t].over
  BY <1>0, ChildFacts, ThreadFacts DEF Reading
<1>9. Held(r'[t], ends[t], child'[t]) /\ FreshRequest(r'[t], stdin[t], stdout[t])
  BY <1>6, <1>8, ThreadFacts DEF Held, FreshRequest
<1>10. Feeding(r'[t], ends[t], stdin[t], child'[t])
  BY <1>0, <1>5, <1>6, <1>8, ThreadFacts DEF Feeding
<1>11. Reading(r'[t], stdout[t], child'[t])
  <2>1. Len(r'[t].got) = 0 /\ Len(stdout[t]) = 0
    BY <1>6, <1>8
  <2>2. Prints(r'[t].got, 0, n, fate) /\ Prints(stdout[t], 0, n, fate)
    BY <2>1 DEF Prints
  <2>3. fate # "none" /\ 0 + 0 = 0 /\ ~r'[t].over
    BY <1>6, <1>8 DEF CurlFates
  <2>4. QED
    BY <1>3, <1>5, <1>6, <2>1, <2>2, <2>3 DEF Reading
<1>12. Timed(r'[t], child'[t], clock)
  <2>1. clock \in Nat /\ child[t].until \in Nat /\ r[t].deadline \in Nat
    BY <1>1 DEF Typed, Requests, Children
  <2>2. child[t].until >= r[t].deadline
    BY <1>8, ThreadFacts DEF Timed
  <2>3. fate = "timeout" => clock >= r[t].deadline
    BY <1>2, <2>1, <2>2
  <2>4. QED
    BY <1>2, <1>5, <1>6, <1>8, <2>2, <2>3 DEF Timed
<1>13. TiersInOrder(r'[t])
  BY <1>6, ThreadFacts DEF TiersInOrder
<1>14. Sound(r'[t], ends'[t], stdin'[t], stdout'[t], child'[t], clock)
  BY <1>0, <1>6, <1>8, <1>9, <1>10, <1>11, <1>12, <1>13, LiveIsSound
<1>15. r'[t].pc \in Relying => r[t].pc \in Relying
  BY <1>6
<1>16. QED
  BY <1>0, <1>4, <1>5, <1>7, <1>14, <1>15, ThreadFacts, OneThreadSteps

\* The child prints a part, ends, or dies of a pipe nobody reads.
LEMMA ChildWritesKeeps ==
    ASSUME RequestInv, NEW t \in Threads, ChildWrites(t)
    PROVE  RequestInv'
<1> DEFINE c == child[t]
<1>0. /\ c.st = "writes" /\ stdin' = stdin /\ UNCHANGED <<clock, alive, sigpipe, r, ends>>
  BY DEF ChildWrites
<1>1. Typed /\ c \in Children /\ stdout[t] \in Seq(Part) /\ r[t] \in Requests
  BY ThreadFacts DEF RequestInv
<1>2. r[t].pc \in Live /\ r[t].pc \notin Making /\ r[t].fate # "none"
  BY <1>0, ChildFacts, ThreadFacts DEF Reading
<1>3. CASE child' = [child EXCEPT ![t].st = "exited"] /\ stdout' = stdout
  <2>1. /\ child'[t] = [c EXCEPT !.st = "exited"] /\ child' = [child EXCEPT ![t] = child'[t]]
    BY <1>1, <1>3 DEF Typed
  <2>2. /\ child'[t].st = "exited" /\ child'[t].code = c.code /\ child'[t].body = c.body
        /\ child'[t].left = c.left /\ child'[t].fed = c.fed /\ child'[t].until = c.until
        /\ child'[t] \in Children
    BY <1>1, <2>1 DEF Children
  <2>3. Feeding(r[t], ends[t], stdin[t], child'[t])
    BY <1>2, <2>2, ThreadFacts DEF Feeding
  <2>4. Reading(r[t], stdout[t], child'[t]) /\ Timed(r[t], child'[t], clock)
    BY <1>2, <2>2, ThreadFacts DEF Reading, Timed
  <2>5. QED
    BY <1>0, <1>3, <2>1, <2>2, <2>3, <2>4, ThreadFacts, OnlyChild
<1>4. CASE /\ c.left # << >>
           /\ child' = [child EXCEPT ![t].left = Tail(c.left)]
           /\ stdout' = [stdout EXCEPT ![t] = Append(stdout[t], Head(c.left))]
  <2>0. c.left \in Seq(Part) /\ Tail(c.left) \in Seq(Part)
    BY <1>1, <1>4 DEF Children
  <2>1. /\ child'[t] = [c EXCEPT !.left = Tail(c.left)]
        /\ child' = [child EXCEPT ![t] = child'[t]]
        /\ stdout'[t] = Append(stdout[t], Head(c.left))
        /\ stdout' = [stdout EXCEPT ![t] = stdout'[t]]
    BY <1>1, <1>4 DEF Typed
  <2>2. /\ child'[t].st = c.st /\ child'[t].code = c.code /\ child'[t].body = c.body
        /\ child'[t].left = Tail(c.left) /\ child'[t].fed = c.fed
        /\ child'[t].until = c.until /\ child'[t] \in Children
    BY <1>1, <2>0, <2>1 DEF Children
  <2>3. Feeding(r[t], ends[t], stdin[t], child'[t]) /\ Timed(r[t], child'[t], clock)
    BY <1>2, <2>2, ThreadFacts DEF Feeding, Timed
  <2>4. Reading(r[t], stdout[t], c) /\ c.body \in Nat /\ Len(r[t].got) \in Nat
    BY SMTT(30), <1>1, ThreadFacts DEF Children, Requests
  <2>5. stdout'[t] \in Seq(Part)
    BY <1>1, <1>4, <2>0, <2>1
  <2>6. ~r[t].over => /\ Prints(stdout'[t], Len(r[t].got), c.body, r[t].fate)
                      /\ Prints(child'[t].left, Len(r[t].got) + Len(stdout'[t]), c.body, r[t].fate)
    <3>1. SUFFICES ASSUME ~r[t].over
                   PROVE  /\ Prints(stdout'[t], Len(r[t].got), c.body, r[t].fate)
                          /\ Prints(child'[t].left, Len(r[t].got) + Len(stdout'[t]), c.body,
                                    r[t].fate)
      OBVIOUS
    <3>2. /\ Prints(stdout[t], Len(r[t].got), c.body, r[t].fate)
          /\ Prints(c.left, Len(r[t].got) + Len(stdout[t]), c.body, r[t].fate)
      BY <1>2, <2>4, <3>1 DEF Reading
    <3> HIDE DEF c
    <3>3. /\ Prints(Append(stdout[t], Head(c.left)), Len(r[t].got), c.body, r[t].fate)
          /\ Prints(Tail(c.left), Len(r[t].got) + Len(Append(stdout[t], Head(c.left))), c.body,
                    r[t].fate)
      BY <1>1, <1>4, <2>0, <2>4, <3>2, PrintsMove
    <3>4. QED
      BY <2>1, <2>2, <3>3
  <2>7. Reading(r[t], stdout'[t], child'[t])
    BY <1>0, <1>2, <2>2, <2>4, <2>6 DEF Reading
  <2>8. QED
    BY <1>0, <2>1, <2>2, <2>3, <2>5, <2>7, ThreadFacts, OnlyChild
<1>5. ASSUME NEW code \in Nat, code = 13, stdout' = stdout,
             child' = [child EXCEPT ![t] = [c EXCEPT !.st = "exited", !.code = code]]
      PROVE  RequestInv'
  <2>0. code # 22 /\ code # 28
    BY <1>5
  <2>1. /\ child'[t] = [c EXCEPT !.st = "exited", !.code = code]
        /\ child' = [child EXCEPT ![t] = child'[t]]
    BY <1>1, <1>5 DEF Typed
  <2>2. /\ child'[t].st = "exited" /\ child'[t].code = code /\ child'[t].body = c.body
        /\ child'[t].left = c.left /\ child'[t].fed = c.fed /\ child'[t].until = c.until
        /\ child'[t] \in Children
    BY <1>1, <2>1 DEF Children
  <2>3. Feeding(r[t], ends[t], stdin[t], child'[t])
    BY <1>2, <2>2, ThreadFacts DEF Feeding
  <2>4. Reading(r[t], stdout[t], child'[t])
    BY <1>2, <2>2, ThreadFacts DEF Reading
  <2>5. Timed(r[t], child'[t], clock)
    BY <1>2, <2>0, <2>2, ThreadFacts DEF Timed
  <2>6. QED
    BY <1>0, <1>5, <2>1, <2>2, <2>3, <2>4, <2>5, ThreadFacts, OnlyChild
<1>6. \/ child' = [child EXCEPT ![t].st = "exited"] /\ stdout' = stdout
      \/ /\ c.left # << >>
         /\ child' = [child EXCEPT ![t].left = Tail(c.left)]
         /\ stdout' = [stdout EXCEPT ![t] = Append(stdout[t], Head(c.left))]
      \/ /\ stdout' = stdout
         /\ child' = [child EXCEPT ![t] = [c EXCEPT !.st = "exited", !.code = 13]]
  BY DEF ChildWrites
<1> HIDE DEF c
<1>7. QED
  BY <1>3, <1>4, <1>5, <1>6

-----------------------------------------------------------------------------
(* The thread acts on what poll() saw.                                      *)

\* A sequence that agrees with what was read is as good a beginning.
LEMMA PrintsSame ==
    ASSUME NEW got, NEW s, NEW n, NEW fate, Prints(got, 0, n, fate), Len(s) = Len(got),
           \A i \in 1 .. Len(got) : s[i] = got[i]
    PROVE  Prints(s, 0, n, fate)
  BY DEF Prints

\* What is read is appended; a buffer holds the beginning of it.
LEMMA JoinFacts ==
    ASSUME NEW got \in Seq(Part), NEW out \in Seq(Part), NEW b \in Nat
    PROVE  /\ got \o out \in Seq(Part) /\ Len(got \o out) = Len(got) + Len(out)
           /\ \A i \in 1 .. Len(got) : (got \o out)[i] = got[i]
           /\ ~(Len(got \o out) <= b) =>
                 /\ SubSeq(got \o out, 1, b) \in Seq(Part) /\ Len(SubSeq(got \o out, 1, b)) = b
                 /\ \A i \in 1 .. b : SubSeq(got \o out, 1, b)[i] = (got \o out)[i]
                 /\ b \in 0 .. Len(got \o out)
<1> DEFINE all == got \o out
<1>1. /\ all \in Seq(Part) /\ Len(all) = Len(got) + Len(out)
      /\ \A i \in 1 .. Len(got) : all[i] = got[i]
  OBVIOUS
<1> HIDE DEF all
<1>2. ASSUME ~(Len(all) <= b)
      PROVE  /\ SubSeq(all, 1, b) \in Seq(Part) /\ Len(SubSeq(all, 1, b)) = b
             /\ \A i \in 1 .. b : SubSeq(all, 1, b)[i] = all[i]
             /\ b \in 0 .. Len(all)
  <2>1. Len(all) \in Nat /\ b <= Len(all)
    BY <1>1, <1>2
  <2>2. QED
    BY <1>1, <2>1
<1>3. QED
  BY <1>1, <1>2 DEF all

\* read() to the end of what is in the pipe: the buffer holds the beginning of
\* the answer, all of it so far unless there was an overflow, and the pipe is
\* empty.
LEMMA DrainedFacts ==
    ASSUME RequestInv, NEW t \in Threads, r[t].pc = "act"
    PROVE  /\ Drained(r[t], t) \in Requests
           /\ Reading(Drained(r[t], t), << >>, child[t])
           /\ Drained(r[t], t).pc = r[t].pc /\ Drained(r[t], t).fate = r[t].fate
           /\ Drained(r[t], t).written = r[t].written /\ Drained(r[t], t).wfail = r[t].wfail
           /\ Drained(r[t], t).status = r[t].status /\ Drained(r[t], t).hstatus = r[t].hstatus
           /\ Drained(r[t], t).tier = r[t].tier /\ Drained(r[t], t).tried = r[t].tried
           /\ Drained(r[t], t).deadline = r[t].deadline
<1> DEFINE D == Drained(r[t], t)
           got == r[t].got
           out == stdout[t]
           all == got \o out
           c == child[t]
           fate == r[t].fate
<1>0. /\ r[t] \in Requests /\ got \in Seq(Part) /\ out \in Seq(Part) /\ c \in Children
      /\ c.body \in Nat /\ Reading(r[t], out, c) /\ r[t].pc \in Live /\ r[t].over \in BOOLEAN
      /\ Buffer \in Nat
  BY ThreadFacts, RequestAssumption DEF Requests, Children, Live, Transferring
<1>1. /\ all \in Seq(Part) /\ Len(all) = Len(got) + Len(out)
      /\ \A i \in 1 .. Len(got) : all[i] = got[i]
  BY <1>0, JoinFacts
<1>2. \/ Len(all) <= Buffer /\ D = [r[t] EXCEPT !.got = all]
      \/ ~(Len(all) <= Buffer) /\ D = [r[t] EXCEPT !.got = SubSeq(all, 1, Buffer), !.over = TRUE]
  BY DEF Drained
<1> HIDE DEF D
<1>3. ~(Len(all) <= Buffer) =>
         /\ SubSeq(all, 1, Buffer) \in Seq(Part) /\ Len(SubSeq(all, 1, Buffer)) = Buffer
         /\ \A i \in 1 .. Buffer : SubSeq(all, 1, Buffer)[i] = all[i]
         /\ Buffer \in 0 .. Len(all)
  BY <1>0, JoinFacts
<1> HIDE DEF all, got, out, c, fate
<1>4. /\ D.pc = r[t].pc /\ D.fate = fate /\ D.written = r[t].written
      /\ D.wfail = r[t].wfail /\ D.status = r[t].status /\ D.hstatus = r[t].hstatus
      /\ D.tier = r[t].tier /\ D.tried = r[t].tried /\ D.deadline = r[t].deadline
      /\ \/ Len(all) <= Buffer /\ D.got = all /\ D.over = r[t].over
         \/ ~(Len(all) <= Buffer) /\ D.got = SubSeq(all, 1, Buffer) /\ D.over = TRUE
  BY ZenonT(60), <1>0, <1>2 DEF Requests, fate
<1>5. D \in Requests
  <2>1. CASE Len(all) <= Buffer
    BY ZenonT(60), <1>0, <1>1, <1>2, <2>1 DEF Requests
  <2>2. CASE ~(Len(all) <= Buffer)
    <3>1. D = [r[t] EXCEPT !.got = SubSeq(all, 1, Buffer), !.over = TRUE]
      BY <1>2, <2>2
    <3>2. SubSeq(all, 1, Buffer) \in Seq(Part)
      BY <1>3, <2>2
    <3>3. QED
      BY <1>0, <3>1, <3>2 DEF Requests
  <2>3. QED
    BY <2>1, <2>2
<1>6. Reading(D, << >>, c)
  <2>0. Len(<< >>) = 0
    OBVIOUS
  <2>1. CASE fate = "none"
    <3>1. got = << >> /\ out = << >> /\ r[t].over = FALSE
      BY <1>0, <2>1 DEF Reading, fate, got
    <3>2. all = << >> /\ Len(all) <= Buffer
      BY <1>0, <3>1 DEF all
    <3>3. D.got = << >> /\ D.over = FALSE
      BY <1>4, <3>1, <3>2
    <3>4. c.st # "writes"
      BY <1>0, <2>1 DEF Reading, fate
    <3>5. QED
      BY <1>4, <2>1, <3>3, <3>4 DEF Reading
  <2>2. CASE fate # "none" /\ r[t].over = FALSE
    <3>1. /\ fate \in CurlFates /\ c.st \in {"writes", "exited", "none"}
          /\ Prints(got, 0, c.body, fate) /\ Prints(out, Len(got), c.body, fate)
          /\ Prints(c.left, Len(got) + Len(out), c.body, fate)
      BY <1>0, <2>2 DEF Reading, fate, got
    <3>2. /\ Prints(all, 0, c.body, fate)
          /\ \A b \in 0 .. Len(all) : Prints(SubSeq(all, 1, b), 0, c.body, fate)
      BY <1>0, <3>1, PrintsJoin DEF all
    <3>3. CASE Len(all) <= Buffer
      <4>1. D.got = all /\ D.over = FALSE
        BY <1>4, <2>2, <3>3
      <4>2. Len(all) + 0 = Len(got) + Len(out) /\ Len(all) \in Nat /\ Len(all) <= c.body + 1
        BY <1>1, <3>2 DEF Prints
      <4>3. Prints(<< >>, Len(all), c.body, fate)
        BY <1>0, <2>0, <4>2 DEF Prints
      <4>4. Prints(c.left, Len(all) + Len(<< >>), c.body, fate)
        BY <2>0, <3>1, <4>2
      <4>5. QED
        BY <1>4, <2>2, <3>1, <3>2, <4>1, <4>3, <4>4 DEF Reading
    <3>4. CASE ~(Len(all) <= Buffer)
      <4>1. D.got = SubSeq(all, 1, Buffer) /\ D.over = TRUE /\ Len(D.got) = Buffer
        BY <1>3, <1>4, <3>4
      <4>2. Prints(D.got, 0, c.body, fate)
        BY <1>3, <3>2, <3>4, <4>1
      <4>3. QED
        BY <1>4, <2>2, <3>1, <4>1, <4>2 DEF Reading
    <3>5. QED
      BY <3>3, <3>4
  <2>3. CASE fate # "none" /\ r[t].over = TRUE
    <3>1. /\ fate \in CurlFates /\ c.st \in {"writes", "exited", "none"}
          /\ Prints(got, 0, c.body, fate) /\ Len(got) = Buffer
      BY <1>0, <2>3 DEF Reading, fate, got
    <3>2. Len(D.got) = Len(got) /\ \A i \in 1 .. Len(got) : D.got[i] = got[i]
      <4>1. CASE Len(all) <= Buffer
        <5>1. Len(all) = Len(got)
          BY <1>0, <1>1, <3>1, <4>1
        <5>2. QED
          BY <1>1, <1>4, <4>1, <5>1
      <4>2. CASE ~(Len(all) <= Buffer)
        BY <1>1, <1>3, <1>4, <3>1, <4>2
      <4>3. QED
        BY <4>1, <4>2
    <3>3. D.over = TRUE
      BY <1>4, <2>3
    <3>4. Prints(D.got, 0, c.body, fate)
      BY <3>1, <3>2, PrintsSame
    <3>5. QED
      BY <1>4, <2>3, <3>1, <3>2, <3>3, <3>4 DEF Reading
  <2>4. QED
    BY <1>0, <2>1, <2>2, <2>3
<1>7. QED
  BY <1>4, <1>5, <1>6 DEF D, c, fate

\* write() takes what is left of the text or what fits in the pipe.
LEMMA WriteFits ==
    ASSUME NEW w \in 0 .. Payload, NEW s \in 0 .. PipeRoom, NEW m,
           m = 0 \/ m = (IF Payload - w < PipeRoom - s THEN Payload - w ELSE PipeRoom - s)
    PROVE  m \in Nat /\ w + m \in 0 .. Payload /\ s + m \in 0 .. PipeRoom
<1>1. Payload \in Nat /\ PipeRoom \in Nat
  BY RequestAssumption
<1>2. w \in Nat /\ s \in Nat /\ w <= Payload /\ s <= PipeRoom
  BY <1>1
<1>3. CASE m = 0
  BY <1>1, <1>2, <1>3
<1>4. CASE Payload - w < PipeRoom - s /\ m = Payload - w
  BY <1>1, <1>2, <1>4
<1>5. CASE ~(Payload - w < PipeRoom - s) /\ m = PipeRoom - s
  BY <1>1, <1>2, <1>5
<1>6. QED
  BY <1>3, <1>4, <1>5

\* Drain stdout, then write or close stdin.  A write to a dead child raises
\* SIGPIPE, which is ignored; a closed stdin means that the whole text was
\* written or that a write failed.
LEMMA ActOnPollKeeps ==
    ASSUME RequestInv, NEW t \in Threads, ActOnPoll(t)
    PROVE  RequestInv'
<1> DEFINE reads == "out" \in r[t].polled
           eof == reads /\ ~StdoutHasWriter(t)
           rec0 == IF reads THEN Drained(r[t], t) ELSE r[t]
           out == IF reads THEN << >> ELSE stdout[t]
           rec == [rec0 EXCEPT !.pc = "io", !.polled = {}]
           broken == "hup" \in r[t].polled \/ ("in" \in r[t].polled /\ ~StdinHasReader(t))
           writes == "in" \in r[t].polled /\ ~broken
           free == PipeRoom - stdin[t]
           n == IF ~writes THEN 0
                ELSE IF Payload - rec.written < free THEN Payload - rec.written ELSE free
           full == writes /\ rec.written + n = Payload
           es == ends[t] \ ((IF eof THEN {"out0"} ELSE {})
                              \cup (IF broken \/ full THEN {"in1"} ELSE {}))
<1>0. /\ r[t].pc = "act" /\ UNCHANGED <<clock, sigpipe, child>>
      /\ stdout' = IF reads THEN [stdout EXCEPT ![t] = << >>] ELSE stdout
      /\ stdin' = [stdin EXCEPT ![t] = stdin[t] + n]
      /\ r' = [r EXCEPT ![t] = [rec EXCEPT !.written = rec.written + n,
                                           !.wfail = rec.wfail \/ broken]]
      /\ ends' = [ends EXCEPT ![t] = es]
      /\ alive' = (alive /\ ~(broken /\ "in" \in r[t].polled /\ sigpipe = "dfl"))
  BY DEF ActOnPoll, Local, Holds
<1>1. /\ Typed /\ r[t] \in Requests /\ ends[t] \in SUBSET Ends /\ child[t] \in Children
      /\ stdin[t] \in 0 .. PipeRoom /\ stdout[t] \in Seq(Part)
  BY ThreadFacts DEF RequestInv
<1>2. /\ rec0 \in Requests /\ Reading(rec0, out, child[t])
      /\ rec0.pc = r[t].pc /\ rec0.fate = r[t].fate
      /\ rec0.written = r[t].written /\ rec0.wfail = r[t].wfail
      /\ rec0.status = r[t].status /\ rec0.hstatus = r[t].hstatus
      /\ rec0.tier = r[t].tier /\ rec0.tried = r[t].tried
      /\ rec0.deadline = r[t].deadline
  <2>1. CASE reads
    BY <1>0, <2>1, DrainedFacts
  <2>2. CASE ~reads
    BY <1>1, <2>2, ThreadFacts
  <2>3. QED
    BY <2>1, <2>2
<1>3. out \in Seq(Part) /\ stdout'[t] = out /\ stdout' = [stdout EXCEPT ![t] = stdout'[t]]
  <2>1. CASE reads
    <3>1. << >> \in Seq(Part) /\ out = << >> /\ stdout' = [stdout EXCEPT ![t] = << >>]
      BY <1>0, <2>1
    <3>2. QED
      BY <1>1, <3>1 DEF Typed
  <2>2. CASE ~reads
    BY <1>0, <1>1, <2>2, ThreadFacts
  <2>3. QED
    BY <2>1, <2>2
<1>4. alive'
  <2>1. alive /\ sigpipe = "ign"
    BY <1>0 DEF RequestInv, SigpipeIgnored, Live, Transferring
  <2>2. QED
    BY <1>0, <2>1
<1> HIDE DEF rec0, out
<1>5. rec \in Requests /\ rec.written = r[t].written /\ rec.pc = "io" /\ rec.fate = r[t].fate
      /\ rec.wfail = r[t].wfail /\ rec.status = r[t].status /\ rec.hstatus = r[t].hstatus
      /\ rec.tier = r[t].tier /\ rec.tried = r[t].tried /\ rec.deadline = r[t].deadline
      /\ rec.got = rec0.got /\ rec.over = rec0.over
  BY <1>2 DEF Requests, Stages, Live, Transferring
<1>6. rec.written \in 0 .. Payload /\ rec.wfail \in BOOLEAN
  BY <1>5 DEF Requests
<1> HIDE DEF rec
<1>7. /\ n \in Nat /\ rec.written + n \in 0 .. Payload /\ stdin[t] + n \in 0 .. PipeRoom
      /\ (~writes => n = 0)
  <2>1. ~writes => n = 0
    OBVIOUS
  <2>2. n = 0 \/ n = (IF Payload - rec.written < PipeRoom - stdin[t]
                     THEN Payload - rec.written ELSE PipeRoom - stdin[t])
    OBVIOUS
  <2> HIDE DEF n
  <2>3. QED
    BY <1>1, <1>6, <2>1, <2>2, WriteFits
<1> HIDE DEF n
<1>8. broken \in BOOLEAN /\ writes \in BOOLEAN /\ full \in BOOLEAN
  OBVIOUS
<1>9. /\ writes \/ broken => r[t].polled \cap {"in", "hup"} # {}
      /\ full => rec.written + n = Payload
  OBVIOUS
<1>10. /\ es \subseteq ends[t]
       /\ "in1" \in es <=> ("in1" \in ends[t] /\ ~broken /\ ~full)
  OBVIOUS
<1> HIDE DEF broken, writes, full, es, reads
<1>11. /\ r'[t] = [rec EXCEPT !.written = rec.written + n, !.wfail = rec.wfail \/ broken]
       /\ r' = [r EXCEPT ![t] = r'[t]]
       /\ ends'[t] = es /\ ends' = [ends EXCEPT ![t] = ends'[t]]
       /\ stdin'[t] = stdin[t] + n /\ stdin' = [stdin EXCEPT ![t] = stdin'[t]]
  BY <1>0, <1>1 DEF Typed
<1>12. (rec.wfail \/ broken) \in BOOLEAN
  BY <1>6, <1>8
<1>13. r'[t] \in Requests
  BY ZenonT(60), <1>5, <1>7, <1>11, <1>12 DEF Requests
<1>14. /\ r'[t].pc = "io" /\ r'[t].fate = r[t].fate /\ r'[t].written = r[t].written + n
       /\ (r'[t].wfail <=> (r[t].wfail \/ broken))
       /\ r'[t].status = r[t].status /\ r'[t].hstatus = r[t].hstatus
       /\ r'[t].tier = r[t].tier /\ r'[t].tried = r[t].tried
       /\ r'[t].deadline = r[t].deadline /\ r'[t].got = rec0.got /\ r'[t].over = rec0.over
  <2> DEFINE w == rec.written + n
             f == rec.wfail \/ broken
  <2>1. r'[t] = [rec EXCEPT !.written = w, !.wfail = f]
    BY <1>11
  <2>2. w = r[t].written + n /\ (f <=> (r[t].wfail \/ broken))
    BY <1>5
  <2> HIDE DEF w, f
  <2>3. /\ r'[t].written = w /\ r'[t].wfail = f /\ r'[t].pc = rec.pc /\ r'[t].fate = rec.fate
        /\ r'[t].status = rec.status /\ r'[t].hstatus = rec.hstatus
        /\ r'[t].tier = rec.tier /\ r'[t].tried = rec.tried
        /\ r'[t].deadline = rec.deadline /\ r'[t].got = rec.got /\ r'[t].over = rec.over
    BY <1>5, <2>1 DEF Requests
  <2>4. QED
    BY <1>5, <2>2, <2>3
<1>15. /\ ends'[t] \in SUBSET Ends /\ stdin'[t] \in 0 .. PipeRoom /\ stdout'[t] \in Seq(Part)
       /\ child' = child /\ clock' = clock /\ sigpipe' = sigpipe
  BY <1>0, <1>1, <1>3, <1>7, <1>10, <1>11
<1>16. Held(r'[t], ends'[t], child[t]) /\ FreshRequest(r'[t], stdin'[t], stdout'[t])
  BY <1>0, <1>10, <1>11, <1>14, ThreadFacts
     DEF Held, FreshRequest, Quiet, Making, Live, Transferring
<1>17. Feeding(r'[t], ends'[t], stdin'[t], child[t])
  <2>1. /\ child[t].fed + stdin[t] = r[t].written
        /\ (child[t].st = "transfers" \/ r[t].fate # "none") => stdin[t] = 0 /\ "in1" \notin ends[t]
        /\ "in1" \in ends[t] \/ r[t].wfail \/ r[t].written = Payload
        /\ r[t].polled \cap {"in", "hup"} # {} => "in1" \in ends[t]
    BY <1>0, ThreadFacts DEF Feeding, Live, Transferring
  <2>2. child[t].fed + stdin'[t] = r'[t].written
    <3>1. child[t].fed \in Nat /\ stdin[t] \in Nat /\ n \in Nat /\ r[t].written \in Nat
      <4>1. child[t].fed \in Nat
        BY <1>1 DEF Children
      <4>2. r[t].written \in 0 .. Payload
        BY <1>1 DEF Requests
      <4>3. QED
        BY <1>1, <1>7, <4>1, <4>2, RequestAssumption
    <3>2. child[t].fed + (stdin[t] + n) = r[t].written + n
      BY <2>1, <3>1
    <3>3. QED
      BY <1>11, <1>14, <3>2
  <2>3. "in1" \notin ends[t] => n = 0
    BY <1>7, <1>9, <2>1
  <2>4. child[t].st = "transfers" \/ r'[t].fate # "none" =>
            stdin'[t] = 0 /\ "in1" \notin ends'[t]
    <3>1. SUFFICES ASSUME child[t].st = "transfers" \/ r'[t].fate # "none"
                   PROVE  stdin'[t] = 0 /\ "in1" \notin ends'[t]
      OBVIOUS
    <3>2. stdin[t] = 0 /\ "in1" \notin ends[t]
      BY <1>14, <2>1, <3>1
    <3>3. n = 0
      BY <2>3, <3>2
    <3>4. "in1" \notin ends'[t]
      BY <1>10, <1>11, <3>2
    <3>5. stdin'[t] = 0
      BY <1>11, <3>2, <3>3
    <3>6. QED
      BY <3>4, <3>5
  <2>5. "in1" \in ends'[t] \/ r'[t].wfail \/ r'[t].written = Payload
    <3>1. CASE "in1" \notin ends[t]
      <4>1. r'[t].written = r[t].written
        BY <1>1, <1>14, <2>3, <3>1, RequestAssumption DEF Requests
      <4>2. QED
        BY <1>14, <2>1, <3>1, <4>1
    <3>2. CASE "in1" \in ends[t]
      BY <1>5, <1>9, <1>10, <1>11, <1>14, <3>2
    <3>3. QED
      BY <3>1, <3>2
  <2>6. QED
    BY <1>14, <2>2, <2>4, <2>5 DEF Feeding, Live, Transferring
<1>18. Reading(r'[t], stdout'[t], child[t])
  <2>1. rec0.pc \in Live /\ r'[t].pc \in Live
    BY <1>0, <1>2, <1>14 DEF Live, Transferring
  <2>2. r'[t].fate = rec0.fate /\ r'[t].got = rec0.got /\ (r'[t].over <=> rec0.over)
    BY <1>2, <1>14
  <2>3. QED
    BY <1>2, <1>3, <2>1, <2>2 DEF Reading
<1>19. Timed(r'[t], child[t], clock) /\ TiersInOrder(r'[t])
  BY <1>0, <1>14, ThreadFacts DEF Timed, TiersInOrder, Making, Live, Transferring
<1>20. Sound(r'[t], ends'[t], stdin'[t], stdout'[t], child'[t], clock)
  BY <1>14, <1>15, <1>16, <1>17, <1>18, <1>19, LiveIsSound DEF Live, Transferring
<1>21. r[t].pc \in Relying
  BY <1>0 DEF Relying, Live, Transferring
<1>22. QED
  BY <1>3, <1>4, <1>11, <1>13, <1>15, <1>20, <1>21, ThreadFacts, OneThreadSteps

-----------------------------------------------------------------------------
(* The verdict.                                                             *)

\* A response that is being parsed needs only its answer and its tiers.
LEMMA ParsingIsSound ==
    ASSUME NEW rec, NEW es, NEW n, NEW out, NEW ch, NEW now,
           rec.pc \in {"parse", "parsed"}, es = {}, ch.st = "none", rec.status = 0,
           AnswerWhole(rec, ch), TiersInOrder(rec)
    PROVE  Sound(rec, es, n, out, ch, now)
<1>1. Held(rec, es, ch)
  BY DEF Held, Quiet, Making, Transferring
<1>2. FreshRequest(rec, n, out) /\ Feeding(rec, es, n, ch)
  BY DEF FreshRequest, Feeding, Making, Live, Transferring
<1>3. Reading(rec, out, ch) /\ Timed(rec, ch, now) /\ Blamed(rec, now)
  BY DEF Reading, Timed, Blamed, Making, Live, Transferring
<1>4. QED
  BY <1>1, <1>2, <1>3 DEF Sound

\* What the buffer says when the child is reaped: a status line in it is the one
\* of this tier's child, and then the whole answer was read, to the whole text
\* unless a write failed.
LEMMA VerdictFacts ==
    ASSUME RequestInv, NEW t \in Threads, r[t].pc = "judge", StatusValid(r[t])
    PROVE  /\ r[t].fate \in CurlFates /\ Last(r[t].got) = StatusOf(r[t].fate)
           /\ Last(r[t].got) \in Statuses
           /\ {i \in DOMAIN r[t].got : r[t].got[i] = Body} = 1 .. child[t].body
           /\ r[t].wfail \/ child[t].fed = Payload
<1>1. r[t].got \in Seq(Part) /\ child[t].body \in Nat /\ r[t].pc \in Live
  BY ThreadFacts DEF Requests, Children, Live
<1>2. r[t].got # << >> /\ Last(r[t].got) \in Statuses
  BY DEF StatusValid
<1>3. r[t].fate \in CurlFates /\ r[t].fate # "none"
      /\ Prints(r[t].got, 0, child[t].body, r[t].fate)
  BY <1>1, <1>2, ThreadFacts DEF Reading
<1>4. /\ Last(r[t].got) = StatusOf(r[t].fate)
      /\ {i \in DOMAIN r[t].got : r[t].got[i] = Body} = 1 .. child[t].body
  BY <1>1, <1>2, <1>3, StatusEndsIt
<1>5. r[t].wfail \/ child[t].fed = Payload
  <2>1. /\ child[t].fed + stdin[t] = r[t].written /\ stdin[t] = 0
        /\ r[t].wfail \/ r[t].written = Payload
    BY <1>1, <1>2, <1>3, ThreadFacts DEF Feeding
  <2>2. child[t].fed \in Nat
    BY ThreadFacts DEF Children
  <2>3. QED
    BY <2>1, <2>2
<1>6. QED
  BY <1>2, <1>3, <1>4, <1>5

\* The response is accepted only whole; otherwise the blame goes with the
\* child's fate.
LEMMA JudgeKeeps ==
    ASSUME RequestInv, NEW t \in Threads, Judge(t)
    PROVE  RequestInv'
<1> DEFINE h == IF StatusValid(r[t]) THEN Last(r[t].got) ELSE r[t].hstatus
           rec == [r[t] EXCEPT !.hstatus = h]
<1>0. /\ r[t].pc = "judge" /\ UNCHANGED <<clock, alive, sigpipe, ends, stdin, stdout, child>>
      /\ r' = [r EXCEPT ![t] = IF Accepted(rec, t) THEN [rec EXCEPT !.pc = "parse"]
                               ELSE HttpFailed(rec, Blame(rec, t))]
  BY DEF Judge, Local
<1>1. Typed /\ r[t] \in Requests /\ clock \in Nat
  BY ThreadFacts DEF RequestInv
<1>2. /\ ends[t] = {} /\ child[t].st = "none" /\ r[t].hstatus = 0 /\ r[t].status = 0
      /\ TiersInOrder(r[t]) /\ Timed(r[t], child[t], clock) /\ r[t].pc \in Live
  BY <1>0, ThreadFacts DEF Held, FreshRequest, Quiet, Live
<1>3. h \in Statuses /\ (h # 0 => r[t].fate \in {"answered", "refused"})
  <2>1. CASE StatusValid(r[t])
    <3>1. r[t].fate \in CurlFates /\ h = StatusOf(r[t].fate) /\ h \in Statuses
      BY <1>0, <2>1, VerdictFacts
    <3>2. QED
      BY <3>1 DEF StatusOf, CurlFates
  <2>2. CASE ~StatusValid(r[t])
    BY <1>1, <1>2, <2>2 DEF Requests
  <2>3. QED
    BY <2>1, <2>2
<1> HIDE DEF h
<1>4. /\ rec \in Requests /\ rec.hstatus = h /\ rec.pc = r[t].pc /\ rec.fate = r[t].fate
      /\ rec.got = r[t].got /\ rec.over = r[t].over /\ rec.wfail = r[t].wfail
      /\ rec.status = 0 /\ rec.tier = r[t].tier /\ rec.tried = r[t].tried
      /\ rec.deadline = r[t].deadline
  BY <1>1, <1>2, <1>3 DEF Requests
<1>5. StatusValid(rec) <=> StatusValid(r[t])
  BY <1>4 DEF StatusValid
<1> HIDE DEF rec
<1>6. CASE Accepted(rec, t)
  <2>1. r'[t] = [rec EXCEPT !.pc = "parse"] /\ r' = [r EXCEPT ![t] = r'[t]]
    BY <1>0, <1>1, <1>6 DEF Typed
  <2>2. /\ r'[t].pc = "parse" /\ r'[t].fate = rec.fate /\ r'[t].got = rec.got
        /\ r'[t].status = rec.status /\ r'[t].tier = rec.tier /\ r'[t].tried = rec.tried
    BY <1>4, <2>1 DEF Requests
  <2>3. r'[t] \in Requests
    BY SMTT(30), <1>4, <2>1 DEF Requests, Stages, Quiet
  <2>4. StatusValid(r[t]) /\ Last(r[t].got) = 200 /\ ~r[t].wfail
    BY <1>4, <1>5, <1>6 DEF Accepted, StatusOk
  <2>5. AnswerWhole(r'[t], child[t])
    <3>1. r[t].fate = "answered"
      BY <1>0, <2>4, VerdictFacts DEF StatusOf
    <3>2. /\ {i \in DOMAIN r[t].got : r[t].got[i] = Body} = 1 .. child[t].body
          /\ child[t].fed = Payload
      BY <1>0, <2>4, VerdictFacts
    <3>3. QED
      BY <1>4, <2>2, <3>1, <3>2 DEF AnswerWhole
  <2>6. TiersInOrder(r'[t])
    BY <1>2, <1>4, <2>2 DEF TiersInOrder
  <2>7. Sound(r'[t], ends[t], stdin[t], stdout[t], child[t], clock)
    BY <1>2, <1>4, <2>2, <2>5, <2>6, ParsingIsSound
  <2>8. r[t].pc \in Relying
    BY <1>2 DEF Relying
  <2>9. QED
    BY <1>0, <2>1, <2>3, <2>7, <2>8, OnlyLocals
<1>7. CASE ~Accepted(rec, t)
  <2> DEFINE blame == Blame(rec, t)
  <2>1. r'[t] = HttpFailed(rec, blame) /\ r' = [r EXCEPT ![t] = r'[t]]
    BY <1>0, <1>1, <1>7 DEF Typed
  <2>2. blame \in {"deadline", "provider", "transport"}
    BY DEF Blame
  <2>3. RemainingMs(rec.deadline) = 0 <=> clock >= rec.deadline
    BY <1>1, <1>4, RemainingRoundsUp DEF Requests
  <2>4. blame = "deadline" => clock >= rec.deadline
    <3>1. blame = "deadline" => RemainingMs(rec.deadline) = 0 \/ child[t].code = 28
      BY DEF Blame, ExitedWith
    <3>2. child[t].code = 28 => clock >= r[t].deadline
      BY <1>2 DEF Timed
    <3>3. QED
      BY <1>4, <2>3, <3>1, <3>2
  <2>5. blame = "provider" => rec.fate \in {"refused", "unreachable"}
    <3>1. SUFFICES ASSUME blame = "provider" PROVE rec.fate \in {"refused", "unreachable"}
      OBVIOUS
    <3>2. /\ RemainingMs(rec.deadline) # 0
          /\ (StatusValid(rec) /\ ~StatusOk(rec)) \/ child[t].code = 22
      BY <3>1 DEF Blame, ExitedWith
    <3>3. r[t].fate # "timeout"
      BY <1>2, <1>4, <2>3, <3>2 DEF Timed
    <3>4. CASE child[t].code = 22
      BY <1>2, <1>4, <3>4 DEF Timed
    <3>5. CASE StatusValid(rec) /\ ~StatusOk(rec)
      <4>1. Last(r[t].got) # 200
        BY <1>4, <3>5 DEF StatusOk
      <4>2. r[t].fate \in CurlFates /\ r[t].fate # "answered"
        BY <1>0, <1>5, <3>5, <4>1, VerdictFacts DEF StatusOf
      <4>3. QED
        BY <1>4, <3>3, <4>2 DEF CurlFates
    <3>6. QED
      BY <3>2, <3>4, <3>5
  <2> HIDE DEF blame
  <2>6. /\ r'[t].pc = "next" /\ r'[t].cause = blame /\ r'[t].status = h
        /\ r'[t].fate = rec.fate /\ r'[t].tier = rec.tier /\ r'[t].tried = rec.tried
        /\ r'[t].deadline = rec.deadline
    BY <1>4, <2>1 DEF HttpFailed, Requests
  <2>7. r'[t] \in Requests
    <3>1. blame \in Causes
      BY <2>2 DEF Causes
    <3>2. "next" \in Stages
      BY DEF Stages, Quiet
    <3>3. QED
      BY ZenonT(60), <1>4, <2>1, <3>1, <3>2 DEF HttpFailed, Requests
  <2>8. TiersInOrder(r'[t])
    BY <1>2, <1>4, <2>6 DEF TiersInOrder
  <2>9. Blamed(r'[t], clock)
    BY <1>3, <1>4, <2>2, <2>4, <2>5, <2>6, <2>8 DEF Blamed, TiersInOrder
  <2>10. Sound(r'[t], ends[t], stdin[t], stdout[t], child[t], clock)
    BY <1>2, <2>6, <2>8, <2>9, FailedIsSound
  <2>11. r[t].pc \in Relying
    BY <1>2 DEF Relying
  <2>12. QED
    BY <1>0, <2>1, <2>7, <2>10, <2>11, OnlyLocals
<1>8. QED
  BY <1>6, <1>7

\* The tier's parser gives up or takes the parts of the body, which are all the
\* child had.
LEMMA ParseKeeps ==
    ASSUME RequestInv, NEW t \in Threads, Parse(t)
    PROVE  RequestInv'
<1> DEFINE size == Cardinality({i \in DOMAIN r[t].got : r[t].got[i] = Body})
<1>0. r[t].pc = "parse" /\ UNCHANGED <<clock, alive, sigpipe, ends, stdin, stdout, child>>
  BY DEF Parse
<1>1. Typed /\ r[t] \in Requests /\ clock \in Nat /\ child[t] \in Children
  BY ThreadFacts DEF RequestInv
<1>2. /\ ends[t] = {} /\ child[t].st = "none" /\ r[t].status = 0
      /\ TiersInOrder(r[t]) /\ AnswerWhole(r[t], child[t])
  BY <1>0, ThreadFacts DEF Held, FreshRequest, Quiet
<1>3. r[t].pc \in Relying
  BY <1>0 DEF Relying
<1>4. size = child[t].body /\ size \in Nat
  <2>1. child[t].body \in Nat
    BY <1>1 DEF Children
  <2>2. {i \in DOMAIN r[t].got : r[t].got[i] = Body} = 1 .. child[t].body
    BY <1>0, <1>2 DEF AnswerWhole
  <2>3. Cardinality(1 .. child[t].body) = child[t].body
    BY <2>1, FS_Interval
  <2>4. QED
    BY <2>1, <2>2, <2>3
<1> HIDE DEF size
<1>5. ASSUME NEW cause \in {"deadline", "parse"}, cause = "deadline" => clock > r[t].deadline,
             r' = [r EXCEPT ![t] = [r[t] EXCEPT !.pc = "next", !.cause = cause]]
      PROVE  RequestInv'
  <2>1. /\ r'[t] = [r[t] EXCEPT !.pc = "next", !.cause = cause]
        /\ r' = [r EXCEPT ![t] = r'[t]]
    BY <1>1, <1>5 DEF Typed
  <2>2. /\ r'[t].pc = "next" /\ r'[t].cause = cause /\ r'[t].status = 0
        /\ r'[t].fate = r[t].fate /\ r'[t].tier = r[t].tier /\ r'[t].tried = r[t].tried
        /\ r'[t].deadline = r[t].deadline /\ r[t].deadline \in Nat
    BY <1>1, <1>2, <2>1 DEF Requests
  <2>3. r'[t] \in Requests
    <3>1. cause \in Causes /\ "next" \in Stages
      BY DEF Causes, Stages, Quiet
    <3>2. QED
      BY ZenonT(60), <1>1, <2>1, <3>1 DEF Requests
  <2>4. TiersInOrder(r'[t])
    BY <1>0, <1>2, <2>2 DEF TiersInOrder
  <2>5. Blamed(r'[t], clock)
    <3>1. cause = "deadline" => clock >= r[t].deadline
      BY <1>1, <1>5, <2>2
    <3>2. r[t].fate = "answered"
      BY <1>0, <1>2 DEF AnswerWhole
    <3>3. QED
      BY <1>5, <2>2, <2>4, <3>1, <3>2 DEF Blamed, TiersInOrder
  <2>6. Sound(r'[t], ends[t], stdin[t], stdout[t], child[t], clock)
    BY <1>2, <2>2, <2>4, <2>5, FailedIsSound
  <2>7. QED
    BY <1>0, <1>3, <2>1, <2>3, <2>6, OnlyLocals
<1>6. CASE r' = [r EXCEPT ![t] = [r[t] EXCEPT !.pc = "parsed", !.body = size]]
  <2>1. /\ r'[t] = [r[t] EXCEPT !.pc = "parsed", !.body = size]
        /\ r' = [r EXCEPT ![t] = r'[t]]
    BY <1>1, <1>6 DEF Typed
  <2>2. /\ r'[t].pc = "parsed" /\ r'[t].body = size /\ r'[t].status = 0
        /\ r'[t].fate = r[t].fate /\ r'[t].tier = r[t].tier /\ r'[t].tried = r[t].tried
    BY <1>1, <1>2, <2>1 DEF Requests
  <2>3. r'[t] \in Requests
    BY ZenonT(60), <1>1, <1>4, <2>1 DEF Requests, Stages, Quiet
  <2>4. TiersInOrder(r'[t]) /\ AnswerWhole(r'[t], child[t])
    BY <1>0, <1>2, <1>4, <2>2 DEF TiersInOrder, AnswerWhole
  <2>5. Sound(r'[t], ends[t], stdin[t], stdout[t], child[t], clock)
    BY <1>2, <2>2, <2>4, ParsingIsSound
  <2>6. QED
    BY <1>0, <1>3, <2>1, <2>3, <2>5, OnlyLocals
<1>7. \/ clock > r[t].deadline
           /\ r' = [r EXCEPT ![t] = [r[t] EXCEPT !.pc = "next", !.cause = "deadline"]]
      \/ r' = [r EXCEPT ![t] = [r[t] EXCEPT !.pc = "next", !.cause = "parse"]]
      \/ r' = [r EXCEPT ![t] = [r[t] EXCEPT !.pc = "parsed", !.body = size]]
  BY DEF Parse, Local, size
<1>8. QED
  BY <1>5, <1>6, <1>7

\* The deadline is looked at once more before the translation is returned.
LEMMA ParsedKeeps ==
    ASSUME RequestInv, NEW t \in Threads, Parsed(t)
    PROVE  RequestInv'
<1>0. /\ r[t].pc = "parsed" /\ UNCHANGED <<clock, alive, sigpipe, ends, stdin, stdout, child>>
      /\ r' = [r EXCEPT ![t] = IF clock > r[t].deadline
                               THEN [r[t] EXCEPT !.pc = "next", !.cause = "deadline"]
                               ELSE [r[t] EXCEPT !.pc = "done", !.cause = "none", !.status = 0]]
  BY DEF Parsed, Local
<1>1. Typed /\ r[t] \in Requests /\ clock \in Nat
  BY ThreadFacts DEF RequestInv
<1>2. /\ ends[t] = {} /\ child[t].st = "none" /\ r[t].status = 0
      /\ TiersInOrder(r[t]) /\ AnswerWhole(r[t], child[t])
  BY <1>0, ThreadFacts DEF Held, FreshRequest, Quiet
<1>3. r[t].pc \in Relying
  BY <1>0 DEF Relying
<1>4. CASE clock > r[t].deadline
  <2>1. /\ r'[t] = [r[t] EXCEPT !.pc = "next", !.cause = "deadline"]
        /\ r' = [r EXCEPT ![t] = r'[t]]
    BY <1>0, <1>1, <1>4 DEF Typed
  <2>2. /\ r'[t].pc = "next" /\ r'[t].cause = "deadline" /\ r'[t].status = 0
        /\ r'[t].tier = r[t].tier /\ r'[t].tried = r[t].tried
        /\ r'[t].deadline = r[t].deadline /\ r[t].deadline \in Nat
    BY <1>1, <1>2, <2>1 DEF Requests
  <2>3. r'[t] \in Requests
    BY <1>1, <2>1 DEF Requests, Stages, Quiet, Causes
  <2>4. TiersInOrder(r'[t])
    BY <1>0, <1>2, <2>2 DEF TiersInOrder
  <2>5. clock >= r[t].deadline
    BY <1>1, <1>4, <2>2
  <2>6. Blamed(r'[t], clock)
    BY <2>2, <2>4, <2>5 DEF Blamed, TiersInOrder
  <2>7. Sound(r'[t], ends[t], stdin[t], stdout[t], child[t], clock)
    BY <1>2, <2>2, <2>4, <2>6, FailedIsSound
  <2>8. QED
    BY <1>0, <1>3, <2>1, <2>3, <2>7, OnlyLocals
<1>5. CASE ~(clock > r[t].deadline)
  <2>0. PICK zero \in Statuses : zero = 0 /\ r'
            = [r EXCEPT ![t] = [r[t] EXCEPT !.pc = "done", !.cause = "none", !.status = zero]]
    BY <1>0, <1>5 DEF Statuses
  <2>1. /\ r'[t] = [r[t] EXCEPT !.pc = "done", !.cause = "none", !.status = zero]
        /\ r' = [r EXCEPT ![t] = r'[t]]
    BY <1>1, <2>0 DEF Typed
  <2>2. /\ r'[t].pc = "done" /\ r'[t].cause = "none" /\ r'[t].fate = r[t].fate
        /\ r'[t].body = r[t].body
    BY <1>1, <2>1 DEF Requests
  <2>3. r'[t] \in Requests
    BY ZenonT(60), <1>1, <2>1 DEF Requests, Stages, Quiet, Causes
  <2>4. AnswerWhole(r'[t], child[t]) /\ TiersInOrder(r'[t]) /\ Blamed(r'[t], clock)
    BY <1>0, <1>2, <2>2
       DEF TiersInOrder, AnswerWhole, Blamed, Making, Live, Transferring
  <2>5. Sound(r'[t], ends[t], stdin[t], stdout[t], child[t], clock)
    BY <1>2, <2>2, <2>4, RestingIsSound
  <2>6. QED
    BY <1>0, <1>3, <2>1, <2>3, <2>5, OnlyLocals
<1>6. QED
  BY <1>4, <1>5

\* The blame is the last tier's when the call ends, or the deadline's.
LEMMA NextTierKeeps ==
    ASSUME RequestInv, NEW t \in Threads, NextTier(t)
    PROVE  RequestInv'
<1> USE RequestAssumption
<1> DEFINE late == r[t].cause = "deadline" \/ RemainingMs(r[t].deadline) = 0
<1>0. /\ r[t].pc = "next" /\ UNCHANGED <<clock, alive, sigpipe, ends, stdin, stdout, child>>
      /\ r' = [r EXCEPT ![t] =
                  IF r[t].tier = LastTier THEN [r[t] EXCEPT !.pc = "done", !.body = 0]
                  ELSE IF late THEN [r[t] EXCEPT !.pc = "done", !.body = 0, !.cause = "deadline"]
                  ELSE [r[t] EXCEPT !.pc = "tier", !.tier = r[t].tier + 1]]
  BY DEF NextTier, Local
<1>1. Typed /\ r[t] \in Requests /\ clock \in Nat
  BY ThreadFacts DEF RequestInv
<1>2. /\ ends[t] = {} /\ child[t].st = "none" /\ r[t].tier \in 1 .. LastTier
      /\ r[t].tried = 1 .. r[t].tier /\ Blamed(r[t], clock) /\ r[t].cause # "none"
  BY <1>0, ThreadFacts DEF Held, TiersInOrder, Blamed, Quiet
<1>3. late => clock >= r[t].deadline
  <2>1. RemainingMs(r[t].deadline) = 0 <=> clock >= r[t].deadline
    BY <1>1, RemainingRoundsUp DEF Requests
  <2>2. r[t].cause = "deadline" => clock >= r[t].deadline
    BY <1>0, <1>2 DEF Blamed
  <2>3. QED
    BY <2>1, <2>2
<1> HIDE DEF late
<1>4. ASSUME NEW cause \in Causes, cause # "none",
             cause = r[t].cause \/ (cause = "deadline" /\ clock >= r[t].deadline),
             r'[t] \in Requests, r' = [r EXCEPT ![t] = r'[t]],
             r'[t].pc = "done", r'[t].cause = cause, r'[t].status = r[t].status,
             r'[t].fate = r[t].fate, r'[t].tier = r[t].tier, r'[t].tried = r[t].tried,
             r'[t].deadline = r[t].deadline
      PROVE  RequestInv'
  <2>1. AnswerWhole(r'[t], child[t]) /\ TiersInOrder(r'[t])
    BY <1>4 DEF AnswerWhole, TiersInOrder, Making, Live, Transferring
  <2>2. Blamed(r'[t], clock)
    BY <1>0, <1>2, <1>4 DEF Blamed
  <2>3. Sound(r'[t], ends[t], stdin[t], stdout[t], child[t], clock)
    BY <1>2, <1>4, <2>1, <2>2, RestingIsSound
  <2>4. r'[t].pc \notin Relying
    BY <1>4 DEF Relying, Making, Live, Transferring
  <2>5. QED
    BY <1>0, <1>4, <2>3, <2>4, OnlyLocals
<1>5. CASE r[t].tier = LastTier
  <2>0. PICK zero \in Nat : r' = [r EXCEPT ![t] = [r[t] EXCEPT !.pc = "done", !.body = zero]]
    BY <1>0, <1>5
  <2>1. /\ r'[t] = [r[t] EXCEPT !.pc = "done", !.body = zero]
        /\ r' = [r EXCEPT ![t] = r'[t]]
    BY <1>1, <2>0 DEF Typed
  <2>2. /\ r'[t].pc = "done" /\ r'[t].cause = r[t].cause /\ r'[t].fate = r[t].fate
        /\ r'[t].status = r[t].status /\ r'[t].tier = r[t].tier /\ r'[t].tried = r[t].tried
        /\ r'[t].deadline = r[t].deadline /\ r[t].cause \in Causes
    BY <1>1, <2>1 DEF Requests
  <2>3. r'[t] \in Requests
    BY ZenonT(60), <1>1, <2>1 DEF Requests, Stages, Quiet
  <2>4. QED
    BY <1>2, <1>4, <2>1, <2>2, <2>3
<1>6. CASE r[t].tier # LastTier /\ late
  <2>0. PICK zero \in Nat : r' = [r EXCEPT ![t] = [r[t] EXCEPT !.pc = "done", !.body = zero,
                                                               !.cause = "deadline"]]
    BY <1>0, <1>6
  <2>1. /\ r'[t] = [r[t] EXCEPT !.pc = "done", !.body = zero, !.cause = "deadline"]
        /\ r' = [r EXCEPT ![t] = r'[t]]
    BY <1>1, <2>0 DEF Typed
  <2>2. /\ r'[t].pc = "done" /\ r'[t].cause = "deadline" /\ r'[t].fate = r[t].fate
        /\ r'[t].status = r[t].status /\ r'[t].tier = r[t].tier /\ r'[t].tried = r[t].tried
        /\ r'[t].deadline = r[t].deadline
    BY <1>1, <2>1 DEF Requests
  <2>3. r'[t] \in Requests
    <3>1. "done" \in Stages /\ "deadline" \in Causes
      BY DEF Stages, Quiet, Causes
    <3>2. QED
      BY ZenonT(60), <1>1, <2>1, <3>1 DEF Requests
  <2>4. "deadline" \in Causes
    BY DEF Causes
  <2>5. QED
    BY <1>3, <1>4, <1>6, <2>1, <2>2, <2>3, <2>4
<1>7. CASE r[t].tier # LastTier /\ ~late
  <2>0. PICK tier \in 1 .. LastTier :
           /\ tier - 1 = r[t].tier
           /\ r' = [r EXCEPT ![t] = [r[t] EXCEPT !.pc = "tier", !.tier = tier]]
    <3>1. r[t].tier + 1 \in 1 .. LastTier /\ (r[t].tier + 1) - 1 = r[t].tier
      BY <1>2, <1>7
    <3>2. QED
      BY <1>0, <1>7, <3>1
  <2>1. /\ r'[t] = [r[t] EXCEPT !.pc = "tier", !.tier = tier]
        /\ r' = [r EXCEPT ![t] = r'[t]]
    BY <1>1, <2>0 DEF Typed
  <2>2. r'[t].pc = "tier" /\ r'[t].tier = tier /\ r'[t].tried = r[t].tried
    BY <1>1, <2>1 DEF Requests
  <2>3. r'[t] \in Requests
    <3>1. tier \in 0 .. LastTier
      OBVIOUS
    <3>2. QED
      BY ZenonT(60), <1>1, <2>1, <3>1 DEF Requests, Stages, Quiet
  <2>4. AnswerWhole(r'[t], child[t]) /\ TiersInOrder(r'[t]) /\ Blamed(r'[t], clock)
    BY <1>2, <2>0, <2>2 DEF AnswerWhole, TiersInOrder, Blamed, Making, Live, Transferring
  <2>5. Sound(r'[t], ends[t], stdin[t], stdout[t], child[t], clock)
    BY <1>2, <2>2, <2>4, RestingIsSound
  <2>6. r'[t].pc \notin Relying
    BY <2>2 DEF Relying, Making, Live, Transferring
  <2>7. QED
    BY <1>0, <2>1, <2>3, <2>5, <2>6, OnlyLocals
<1>8. QED
  BY <1>5, <1>6, <1>7

-----------------------------------------------------------------------------
\* What is known of a thread stays so as time passes.
LEMMA SoundLater ==
    ASSUME NEW rec \in Requests, NEW es, NEW n, NEW out, NEW ch, NEW now \in Nat,
           Sound(rec, es, n, out, ch, now)
    PROVE  Sound(rec, es, n, out, ch, now + 1)
<1>1. rec.deadline \in Nat /\ rec.ms \in Nat
  BY DEF Requests
<1>2. /\ now >= rec.deadline => now + 1 >= rec.deadline
      /\ now + 2 * rec.ms >= rec.deadline => now + 1 + 2 * rec.ms >= rec.deadline
  BY <1>1
<1>3. Timed(rec, ch, now) /\ Blamed(rec, now)
  BY DEF Sound
<1>4. Timed(rec, ch, now + 1)
  BY <1>2, <1>3 DEF Timed
<1>5. Blamed(rec, now + 1)
  BY <1>2, <1>3 DEF Blamed
<1>6. QED
  BY <1>4, <1>5 DEF Sound

\* The clock ticks.
LEMMA TickKeeps ==
    ASSUME RequestInv, Tick
    PROVE  RequestInv'
<1>1. /\ clock' = clock + 1 /\ alive' = alive /\ sigpipe' = sigpipe /\ r' = r /\ ends' = ends
      /\ stdin' = stdin /\ stdout' = stdout /\ child' = child
  BY DEF Tick
<1>2. Typed /\ alive /\ SigpipeIgnored
  BY DEF RequestInv
<1>3. Typed'
  BY <1>1, <1>2 DEF Typed
<1>4. ASSUME NEW t \in Threads
      PROVE  Sound(r'[t], ends'[t], stdin'[t], stdout'[t], child'[t], clock')
  <2>1. Sound(r[t], ends[t], stdin[t], stdout[t], child[t], clock)
    BY DEF RequestInv
  <2>2. r[t] \in Requests /\ clock \in Nat
    BY ThreadFacts
  <2>3. Sound(r[t], ends[t], stdin[t], stdout[t], child[t], clock + 1)
    BY <2>1, <2>2, SoundLater
  <2>4. QED
    BY <1>1, <2>3
<1>5. SigpipeIgnored' /\ alive'
  BY <1>1, <1>2 DEF SigpipeIgnored
<1>6. QED
  BY <1>3, <1>4, <1>5 DEF RequestInv

\* At first no thread has begun.
LEMMA RequestInit == Init => RequestInv
<1> SUFFICES ASSUME Init PROVE RequestInv
  OBVIOUS
<1> USE RequestAssumption
<1>1. /\ clock = 0 /\ alive /\ sigpipe \in {"ign", "dfl"} /\ r = [t \in Threads |-> Idle]
      /\ ends = [t \in Threads |-> {}] /\ stdin = [t \in Threads |-> 0]
      /\ stdout = [t \in Threads |-> << >>] /\ child = [t \in Threads |-> NoChild]
  BY DEF Init
<1>2. << >> \in Seq(Part) /\ 0 \in Statuses /\ 0 \in 0 .. LastTier /\ 0 \in 0 .. Payload
      /\ 0 \in 0 .. PipeRoom /\ {} \in SUBSET Ends
  BY DEF Statuses
<1>3. Idle \in Requests
  BY <1>2 DEF Idle, Requests, Stages, Quiet, Causes
<1>4. NoChild \in Children
  BY <1>2 DEF NoChild, Children
<1>5. Typed
  <2>1. r \in [Threads -> Requests]
    BY <1>1, <1>3
  <2>2. child \in [Threads -> Children]
    BY <1>1, <1>4
  <2>3. ends \in [Threads -> SUBSET Ends]
    BY <1>1
  <2>4. stdin \in [Threads -> 0 .. PipeRoom] /\ stdout \in [Threads -> Seq(Part)]
    BY <1>1, <1>2
  <2>5. QED
    BY <1>1, <2>1, <2>2, <2>3, <2>4 DEF Typed
<1>6. Idle.pc = "idle" /\ NoChild.st = "none"
  BY DEF Idle, NoChild
<1>7. ASSUME NEW t \in Threads
      PROVE  Sound(r[t], ends[t], stdin[t], stdout[t], child[t], clock)
  <2>1. r[t].pc = "idle" /\ ends[t] = {} /\ child[t].st = "none"
    BY <1>1, <1>6
  <2>2. Held(r[t], ends[t], child[t])
    BY <2>1 DEF Held, Transferring
  <2>3. FreshRequest(r[t], stdin[t], stdout[t]) /\ Feeding(r[t], ends[t], stdin[t], child[t])
    BY <2>1 DEF FreshRequest, Feeding, Making, Live, Transferring
  <2>4. Reading(r[t], stdout[t], child[t]) /\ Timed(r[t], child[t], clock)
    BY <2>1 DEF Reading, Timed, Making, Live, Transferring
  <2>5. AnswerWhole(r[t], child[t]) /\ TiersInOrder(r[t]) /\ Blamed(r[t], clock)
    BY <2>1 DEF AnswerWhole, TiersInOrder, Blamed, Making, Live, Transferring
  <2>6. QED
    BY <2>2, <2>3, <2>4, <2>5 DEF Sound
<1>8. SigpipeIgnored
  BY <1>1, <1>6 DEF SigpipeIgnored, Making, Live, Transferring
<1>9. QED
  BY <1>1, <1>5, <1>7, <1>8 DEF RequestInv

\* A step that changes nothing.
LEMMA RequestStutter ==
    ASSUME RequestInv, UNCHANGED vars
    PROVE  RequestInv'
<1>1. /\ clock' = clock /\ alive' = alive /\ sigpipe' = sigpipe /\ r' = r /\ ends' = ends
      /\ stdin' = stdin /\ stdout' = stdout /\ child' = child
  BY DEF vars
<1>2. QED
  BY <1>1 DEF RequestInv, Typed, SigpipeIgnored

\* Every step of a thread, of a child or of the clock keeps the invariant.
LEMMA RequestNext == RequestInv /\ [Next]_vars => RequestInv'
<1> SUFFICES ASSUME RequestInv, [Next]_vars PROVE RequestInv'
  OBVIOUS
<1>1. CASE Tick
  BY <1>1, TickKeeps
<1>2. ASSUME NEW t \in Threads, Request(t) PROVE RequestInv'
  <2>1. CASE Begin(t) \/ StartTier(t) \/ TierTooLarge(t)
    BY <2>1, BeginKeeps, StartTierKeeps, TierTooLargeKeeps
  <2>2. CASE MakePipe(t) \/ SetCloexec(t) \/ LocalFails(t) \/ Spawn(t)
    BY <2>2, MakePipeKeeps, SetCloexecKeeps, LocalFailsKeeps, SpawnKeeps
  <2>3. CASE NonBlocking(t) \/ NonBlockingFails(t) \/ Poll(t) \/ ActOnPoll(t)
    BY <2>3, NonBlockingKeeps, NonBlockingFailsKeeps, PollKeeps, ActOnPollKeeps
  <2>4. CASE EndIo(t) \/ Reap(t) \/ Judge(t)
    BY <2>4, EndIoKeeps, ReapKeeps, JudgeKeeps
  <2>5. CASE Parse(t) \/ Parsed(t) \/ NextTier(t)
    BY <2>5, ParseKeeps, ParsedKeeps, NextTierKeeps
  <2>6. QED
    BY <1>2, <2>1, <2>2, <2>3, <2>4, <2>5 DEF Request
<1>3. ASSUME NEW t \in Threads, Curl(t) PROVE RequestInv'
  BY <1>3, ChildReadsKeeps, ChildTransfersKeeps, ChildAnswersKeeps, ChildWritesKeeps,
     ChildCrashesKeeps DEF Curl
<1>4. CASE UNCHANGED vars
  BY <1>4, RequestStutter
<1>5. QED
  BY <1>1, <1>2, <1>3, <1>4 DEF Next

\* The inductive invariant of the requests holds of every behaviour.
THEOREM RequestInvariant == Spec => []RequestInv
<1>1. Init => RequestInv
  BY RequestInit
<1>2. RequestInv /\ [Next]_vars => RequestInv'
  BY RequestNext
<1>3. QED
  BY <1>1, <1>2, PTL DEF Spec

\* The invariant has what the call promises.
LEMMA InvMeansContract == RequestInv => RequestsApart /\ ReturnContract
<1> SUFFICES ASSUME RequestInv PROVE RequestsApart /\ ReturnContract
  OBVIOUS
<1>1. WorkerSurvives
  BY DEF RequestInv, WorkerSurvives
<1>2. WholeAnswer
  BY ThreadFacts DEF WholeAnswer, AnswerWhole
<1>3. NothingLeftBehind
  BY ThreadFacts DEF NothingLeftBehind, Held, Quiet
<1>4. BlameIsTheLastTiers
  BY ThreadFacts DEF BlameIsTheLastTiers, Blamed
<1>5. QED
  BY <1>1, <1>2, <1>3, <1>4 DEF RequestsApart, ReturnContract

\* Concurrent calls of vw_translate_text_detailed do each other no harm, however
\* many threads the pool has: no SIGPIPE kills the worker, no call takes a part
\* of its answer for the whole, and none leaves a child or a pipe behind.
THEOREM RequestsKeepApart == Spec => []RequestsApart
<1>1. RequestInv => RequestsApart
  BY InvMeansContract
<1>2. QED
  BY <1>1, RequestInvariant, PTL

\* What vw_translate_text_detailed returns is right for every deadline, buffer
\* and answer of the providers: a translation is made from a whole answer to the
\* whole text, and a failure is blamed on what happened to the tier tried last.
THEOREM CallReturnsAsPromised == Spec => []ReturnContract
<1>1. RequestInv => ReturnContract
  BY InvMeansContract
<1>2. QED
  BY <1>1, RequestInvariant, PTL

-----------------------------------------------------------------------------
(* The model download (ModelDownload).                                       *)

ThreadPcs == {Download!None, "begin", "attempt", "transfer", "open", "receiving", "received",
              "notReceived", "retry", "fail", "verifying", "verify", "publish",
              "aborting", "finishAbort", "ended"}

\* The types of all variables that the invariant reads.
DownloadTyped ==
    /\ Download!DownloadTypeOK
    /\ thread \in [Workers -> ThreadPcs]
    /\ curl \in [Workers -> [state : {Download!None, "opening", "writing", "ok", "failed"},
                             inode : Inodes \cup {Download!None}]]
    /\ told \in [Workers -> (Download!Stages \cup {Download!None}) \X (Models \cup {Download!None})]

\* A thread runs exactly while model_dl is set, and holds the lock of its model.
Locked ==
    \A w \in Workers :
        /\ model[w] = Download!None <=> thread[w] = Download!None
        /\ model[w] # Download!None => flock[model[w]] = w
        /\ main[w] = "starting" => model[w] = Download!None /\ after[w] \in Models

\* There is a downloader only while its thread waits for it, and the inode it
\* writes to is the part file of the thread's model.
ChildrenWatched ==
    \A w \in Workers :
        /\ thread[w] \notin {"transfer", "receiving"} => curl[w] = Download!NoChild
        /\ thread[w] = "receiving" \/ curl[w].state \in {"writing", "ok"}
              => curl[w].inode # Download!None
        /\ curl[w].inode # Download!None => curl[w].inode = partial[model[w]]

\* What a thread has received is its part file; what it is about to publish
\* has been verified; only the first attempt is repeated.
Received ==
    \A w \in Workers :
        /\ thread[w] \in {"received", "verifying", "verify", "publish"}
              => partial[model[w]] # Download!None
        /\ thread[w] = "publish" => content[partial[model[w]]] = "good"
        /\ thread[w] = "retry" => attempt[w] = 0

\* No inode has two names.
NamesApart ==
    \A m, n \in Models :
        /\ partial[m] # Download!None => partial[m] # final[n]
        /\ m # n /\ partial[m] # Download!None => partial[m] # partial[n]

\* A published file holds the verified bytes.
FinalsGood == \A m \in Models : final[m] # Download!None => content[final[m]] = "good"

\* DONE is the stage, and is reported, only when the model file is there.
DoneIsThere ==
    \A w \in Workers :
        /\ stage[w] = "done" => model[w] # Download!None /\ final[model[w]] # Download!None
        /\ told[w][1] = "done" => told[w][2] # Download!None /\ final[told[w][2]] # Download!None

DownloadInv == /\ DownloadTyped /\ Locked /\ ChildrenWatched /\ Received /\ NamesApart
               /\ FinalsGood /\ DoneIsThere

LEMMA DownloadInit ==
    ASSUME Download!DownloadConstants, Download!Init
    PROVE  DownloadInv
<1>1. DownloadTyped
  BY DEF Download!Init, Download!DownloadConstants, DownloadTyped, Download!DownloadTypeOK, ThreadPcs,
     Download!NoChild, Download!Stages, Download!None
<1>2. Locked /\ ChildrenWatched /\ Received /\ NamesApart /\ FinalsGood /\ DoneIsThere
  BY DEF Download!Init, Locked, ChildrenWatched, Received, NamesApart, FinalsGood, DoneIsThere,
     Download!None, Download!NoChild
<1>3. QED
  BY <1>1, <1>2 DEF DownloadInv

\* Two threads never work on the same model.
LEMMA OneThreadPerModel ==
    ASSUME DownloadInv, NEW v \in Workers, NEW w \in Workers, v # w, model[w] # Download!None
    PROVE  model[v] # model[w]
BY DEF DownloadInv, Locked

\* What Report does to told.
ToldType == [Workers -> (Download!Stages \cup {Download!None}) \X (Models \cup {Download!None})]

LEMMA ReportIs ==
    ASSUME told \in ToldType, NEW w \in Workers, NEW s \in Download!Stages \cup {Download!None},
           NEW m \in Models \cup {Download!None}, Download!Report(w, s, m)
    PROVE  /\ told' \in ToldType /\ told'[w][1] = s /\ told'[w][2] = m
           /\ \A v \in Workers : v # w => told'[v] = told[v]
<1>1. told' = [told EXCEPT ![w] = <<s, m>>]
  BY DEF Download!Report
<1>2. <<s, m>> \in (Download!Stages \cup {Download!None}) \X (Models \cup {Download!None})
  OBVIOUS
<1>3. told' \in ToldType
  BY <1>1, <1>2 DEF ToldType
<1>4. told'[w] = <<s, m>> /\ \A v \in Workers : v # w => told'[v] = told[v]
  BY <1>1 DEF ToldType
<1>5. QED
  BY <1>3, <1>4

-----------------------------------------------------------------------------
(* The main loop.  It leaves the files and the children alone.              *)

\* MODEL_CTRL(ABORT) and the cancellation when the worker leaves.
LEMMA CancelledIs ==
    ASSUME DownloadInv, NEW w \in Workers, Download!Cancelled(w)
    PROVE  /\ abort' \in [Workers -> BOOLEAN] /\ stage' \in [Workers -> Download!Stages]
           /\ \A v \in Workers : stage'[v] = "done" => stage[v] = "done"
BY ZenonT(60) DEF DownloadInv, DownloadTyped, Download!DownloadTypeOK, Download!Cancelled, Download!Stages

LEMMA RequestAbortKeeps ==
    ASSUME Download!DownloadConstants, DownloadInv, NEW w \in Workers, Download!RequestAbort(w)
    PROVE  DownloadInv'
<1>1. /\ abort' \in [Workers -> BOOLEAN] /\ stage' \in [Workers -> Download!Stages]
      /\ \A v \in Workers : stage'[v] = "done" => stage[v] = "done"
  BY CancelledIs DEF Download!RequestAbort, DownloadInv, DownloadTyped, Download!DownloadTypeOK
<1>2. told' \in ToldType /\ \A v \in Workers : told'[v][1] = "done" => told'[v] = told[v]
  <2>1. CASE told' = told
    BY <2>1 DEF DownloadInv, DownloadTyped, ToldType
  <2>2. CASE Download!Report(w, "idle", Download!None)
    BY <2>2, ReportIs DEF DownloadInv, DownloadTyped, ToldType, Download!Stages
  <2>3. QED
    BY <2>1, <2>2 DEF Download!RequestAbort
<1>3. UNCHANGED <<transport, main, after, model, thread, attempt, curl, lastStage,
                  flock, partial, final, content>>
  BY DEF Download!RequestAbort, Download!fileVars
<1>4. DownloadTyped'
  BY <1>1, <1>2, <1>3 DEF DownloadInv, DownloadTyped, Download!DownloadTypeOK, ToldType
<1>5. Locked' /\ ChildrenWatched' /\ Received' /\ NamesApart' /\ FinalsGood'
  BY <1>3 DEF DownloadInv, Locked, ChildrenWatched, Received, NamesApart, FinalsGood
<1>6. DoneIsThere'
  BY <1>1, <1>2, <1>3 DEF DownloadInv, DoneIsThere
<1>7. QED
  BY <1>4, <1>5, <1>6 DEF DownloadInv

LEMMA DownloadPollKeeps ==
    ASSUME Download!DownloadConstants, DownloadInv, NEW w \in Workers, Download!Poll(w)
    PROVE  DownloadInv'
<1>1. /\ main[w] = "idle" /\ model[w] # Download!None /\ Download!Report(w, stage[w], model[w])
      /\ UNCHANGED <<transport, model, stage, thread, attempt, curl, flock, partial, final, content>>
  BY DEF Download!Poll, Download!fileVars
<1>2. stage[w] \in Download!Stages /\ model[w] \in Models
  BY <1>1 DEF DownloadInv, DownloadTyped, Download!DownloadTypeOK
<1>3. /\ told' \in ToldType /\ told'[w][1] = stage[w] /\ told'[w][2] = model[w]
      /\ \A v \in Workers : v # w => told'[v] = told[v]
  BY <1>1, <1>2, ReportIs DEF DownloadInv, DownloadTyped, ToldType
<1>4. /\ main' \in [Workers -> {"idle", "joining", "starting", "dead", "left"}]
      /\ after' \in [Workers -> Models \cup {Download!None, "leave"}]
      /\ abort' \in [Workers -> BOOLEAN]
           /\ lastStage' \in [Workers -> Download!Stages \cup {Download!None}]
  BY <1>2 DEF Download!Poll, DownloadInv, DownloadTyped, Download!DownloadTypeOK
<1>5. \A v \in Workers : main'[v] = "starting" => main[v] = "starting" /\ after'[v] = after[v]
  BY <1>1 DEF Download!Poll, DownloadInv, DownloadTyped, Download!DownloadTypeOK
<1>6. DownloadTyped'
  BY <1>1, <1>3, <1>4 DEF DownloadInv, DownloadTyped, Download!DownloadTypeOK, ToldType
<1>7. Locked' /\ ChildrenWatched' /\ Received' /\ NamesApart' /\ FinalsGood'
  BY <1>1, <1>5 DEF DownloadInv, Locked, ChildrenWatched, Received, NamesApart, FinalsGood
<1>8. DoneIsThere'
  BY <1>1, <1>3 DEF DownloadInv, DoneIsThere
<1>9. QED
  BY <1>6, <1>7, <1>8 DEF DownloadInv

LEMMA LeaveKeeps ==
    ASSUME Download!DownloadConstants, DownloadInv, NEW w \in Workers, Download!Leave(w)
    PROVE  DownloadInv'
<1>1. /\ main[w] = "idle"
      /\ UNCHANGED <<transport, model, thread, attempt, curl, lastStage, told, flock, partial,
                     final, content>>
  BY DEF Download!Leave, Download!fileVars
<1>2. /\ abort' \in [Workers -> BOOLEAN] /\ stage' \in [Workers -> Download!Stages]
      /\ \A v \in Workers : stage'[v] = "done" => stage[v] = "done"
  BY CancelledIs DEF Download!Leave, DownloadInv, DownloadTyped, Download!DownloadTypeOK
<1>3. /\ main' \in [Workers -> {"idle", "joining", "starting", "dead", "left"}]
      /\ after' \in [Workers -> Models \cup {Download!None, "leave"}]
  BY DEF Download!Leave, DownloadInv, DownloadTyped, Download!DownloadTypeOK
<1>4. \A v \in Workers : main'[v] = "starting" => main[v] = "starting" /\ after'[v] = after[v]
  BY <1>1 DEF Download!Leave, DownloadInv, DownloadTyped, Download!DownloadTypeOK
<1>5. DownloadTyped'
  BY <1>1, <1>2, <1>3 DEF DownloadInv, DownloadTyped, Download!DownloadTypeOK
<1>6. Locked' /\ ChildrenWatched' /\ Received' /\ NamesApart' /\ FinalsGood'
  BY <1>1, <1>4 DEF DownloadInv, Locked, ChildrenWatched, Received, NamesApart, FinalsGood
<1>7. DoneIsThere'
  BY <1>1, <1>2 DEF DownloadInv, DoneIsThere
<1>8. QED
  BY <1>5, <1>6, <1>7 DEF DownloadInv

\* vw_model_download_start by a loop that has no download.
LEMMA StartKeeps ==
    ASSUME Download!DownloadConstants, DownloadInv, NEW w \in Workers, NEW m \in Models,
             model[w] = Download!None,
           Download!Started(w, m) \/ Download!StartFailed(w, m),
           UNCHANGED <<transport, curl, partial, final, content, lastStage>>,
           main' \in [Workers -> {"idle", "joining", "starting", "dead", "left"}],
           after' \in [Workers -> Models \cup {Download!None, "leave"}],
           main'[w] # "starting",
           \A v \in Workers : v # w => main'[v] = main[v] /\ after'[v] = after[v]
    PROVE  DownloadInv'
<1>0. thread[w] = Download!None /\ m # Download!None
  BY DEF DownloadInv, Locked, Download!DownloadConstants
<1>1. told' \in ToldType /\ \A v \in Workers : told'[v][1] = "done" => told'[v] = told[v]
  <2>1. CASE told' = told
    BY <2>1 DEF DownloadInv, DownloadTyped, ToldType
  <2>2. CASE Download!Report(w, "failed", m)
    BY <2>2, ReportIs DEF DownloadInv, DownloadTyped, ToldType, Download!Stages
  <2>3. QED
    BY <2>1, <2>2 DEF Download!Started, Download!StartFailed
<1>2. CASE Download!Started(w, m)
  <2>1. DownloadTyped'
    BY <1>1, <1>2 DEF Download!Started, DownloadInv, DownloadTyped, Download!DownloadTypeOK, ToldType,
       ThreadPcs, Download!Stages
  <2>2. Locked'
    BY <1>0, <1>2 DEF Download!Started, Download!LockFree, DownloadInv, DownloadTyped,
       Download!DownloadTypeOK, Locked, Download!None, Download!DownloadConstants
  <2>3. ChildrenWatched'
    BY <1>0, <1>2 DEF Download!Started, DownloadInv, DownloadTyped, Download!DownloadTypeOK,
       ChildrenWatched, Download!NoChild, Download!None
  <2>4. Received'
    BY <1>2 DEF Download!Started, DownloadInv, DownloadTyped, Download!DownloadTypeOK, Received
  <2>5. NamesApart' /\ FinalsGood'
    BY DEF DownloadInv, NamesApart, FinalsGood
  <2>6. DoneIsThere'
    BY <1>1, <1>2 DEF Download!Started, DownloadInv, DownloadTyped, Download!DownloadTypeOK, DoneIsThere
  <2>7. QED
    BY <2>1, <2>2, <2>3, <2>4, <2>5, <2>6 DEF DownloadInv
<1>3. CASE Download!StartFailed(w, m)
  <2>1. model' = model
    BY <1>3 DEF Download!StartFailed, DownloadInv, DownloadTyped, Download!DownloadTypeOK
  <2>2. DownloadTyped'
    BY <1>1, <1>3, <2>1 DEF Download!StartFailed, DownloadInv, DownloadTyped, Download!DownloadTypeOK,
       ToldType
  <2>3. Locked'
    BY <1>3, <2>1 DEF Download!StartFailed, DownloadInv, Locked
  <2>4. ChildrenWatched' /\ Received' /\ NamesApart' /\ FinalsGood'
    BY <1>3, <2>1 DEF Download!StartFailed, DownloadInv, ChildrenWatched, Received, NamesApart,
       FinalsGood
  <2>5. DoneIsThere'
    BY <1>1, <1>3, <2>1 DEF Download!StartFailed, DownloadInv, DoneIsThere
  <2>6. QED
    BY <2>2, <2>3, <2>4, <2>5 DEF DownloadInv
<1>4. QED
  BY <1>2, <1>3

LEMMA StartNextKeeps ==
    ASSUME Download!DownloadConstants, DownloadInv, NEW w \in Workers, Download!StartNext(w)
    PROVE  DownloadInv'
<1>1. model[w] = Download!None /\ after[w] \in Models
  BY DEF Download!StartNext, DownloadInv, Locked
<1>2. Download!Started(w, after[w]) \/ Download!StartFailed(w, after[w])
  BY DEF Download!StartNext
<1>3. /\ UNCHANGED <<transport, curl, partial, final, content, lastStage>>
      /\ main' \in [Workers -> {"idle", "joining", "starting", "dead", "left"}]
      /\ after' \in [Workers -> Models \cup {Download!None, "leave"}]
      /\ main'[w] # "starting"
      /\ \A v \in Workers : v # w => main'[v] = main[v] /\ after'[v] = after[v]
  BY DEF Download!StartNext, DownloadInv, DownloadTyped, Download!DownloadTypeOK
<1>4. QED
  BY <1>1, <1>2, <1>3, StartKeeps

LEMMA RequestDownloadKeeps ==
    ASSUME Download!DownloadConstants, DownloadInv, NEW w \in Workers, NEW m \in Models,
           Download!RequestDownload(w, m)
    PROVE  DownloadInv'
<1>1. main[w] = "idle" /\ UNCHANGED <<transport, curl, partial, final, content>>
  BY DEF Download!RequestDownload
<1>2. CASE /\ Download!Report(w, "failed", m)
           /\ UNCHANGED <<main, after, model, stage, abort, thread, attempt, flock, lastStage>>
  <2>1. told' \in ToldType /\ \A v \in Workers : told'[v][1] = "done" => told'[v] = told[v]
    BY <1>2, ReportIs DEF DownloadInv, DownloadTyped, ToldType, Download!Stages
  <2>2. DownloadTyped'
    BY <1>1, <1>2, <2>1 DEF DownloadInv, DownloadTyped, Download!DownloadTypeOK, ToldType
  <2>3. Locked' /\ ChildrenWatched' /\ Received' /\ NamesApart' /\ FinalsGood'
    BY <1>1, <1>2 DEF DownloadInv, Locked, ChildrenWatched, Received, NamesApart, FinalsGood
  <2>4. DoneIsThere'
    BY <1>1, <1>2, <2>1 DEF DownloadInv, DoneIsThere
  <2>5. QED
    BY <2>2, <2>3, <2>4 DEF DownloadInv
<1>3. CASE /\ model[w] # Download!None /\ stage[w] \notin Download!Busy
           /\ main' = [main EXCEPT ![w] = "joining"]
           /\ after' = [after EXCEPT ![w] = m]
           /\ abort' = [abort EXCEPT ![w] = @ \/ stage[w] = "idle"]
           /\ lastStage' = [lastStage EXCEPT ![w] = Download!None]
           /\ UNCHANGED <<model, stage, thread, attempt, flock, told>>
  <2>1. DownloadTyped'
    BY <1>1, <1>3 DEF DownloadInv, DownloadTyped, Download!DownloadTypeOK
  <2>2. \A v \in Workers : main'[v] = "starting" => main[v] = "starting" /\ after'[v] = after[v]
    BY <1>1, <1>3 DEF DownloadInv, DownloadTyped, Download!DownloadTypeOK
  <2>3. Locked' /\ ChildrenWatched' /\ Received' /\ NamesApart' /\ FinalsGood' /\ DoneIsThere'
    BY <1>1, <1>3, <2>2 DEF DownloadInv, Locked, ChildrenWatched, Received, NamesApart,
       FinalsGood, DoneIsThere
  <2>4. QED
    BY <2>1, <2>3 DEF DownloadInv
<1>4. CASE /\ model[w] = Download!None
           /\ Download!Started(w, m) \/ Download!StartFailed(w, m)
           /\ UNCHANGED <<main, after, lastStage>>
  <2>1. /\ main' \in [Workers -> {"idle", "joining", "starting", "dead", "left"}]
        /\ after' \in [Workers -> Models \cup {Download!None, "leave"}]
        /\ main'[w] # "starting"
        /\ \A v \in Workers : v # w => main'[v] = main[v] /\ after'[v] = after[v]
    BY <1>1, <1>4 DEF DownloadInv, DownloadTyped, Download!DownloadTypeOK
  <2>2. QED
    BY <1>1, <1>4, <2>1, StartKeeps
<1>5. QED
  BY <1>2, <1>3, <1>4 DEF Download!RequestDownload

LEMMA JoinedKeeps ==
    ASSUME Download!DownloadConstants, DownloadInv, NEW w \in Workers, Download!Joined(w)
    PROVE  DownloadInv'
<1>1. model[w] \in Models /\ thread[w] = "ended"
  BY DEF Download!Joined, DownloadInv, DownloadTyped, Download!DownloadTypeOK, Locked, Download!None
<1>2. UNCHANGED <<transport, after, curl, lastStage, told, partial, final, content>>
  BY DEF Download!Joined
<1>3. DownloadTyped'
  BY <1>1, <1>2 DEF Download!Joined, Download!Released, DownloadInv, DownloadTyped,
     Download!DownloadTypeOK, ThreadPcs, Download!Stages
<1>4. Locked'
  BY <1>1, <1>2, OneThreadPerModel DEF Download!Joined, Download!Released, DownloadInv, DownloadTyped,
     Download!DownloadTypeOK, Locked
<1>5. ChildrenWatched'
  BY <1>1, <1>2 DEF Download!Joined, DownloadInv, DownloadTyped, Download!DownloadTypeOK,
     ChildrenWatched, Download!NoChild, Download!None
<1>6. Received'
  BY <1>1, <1>2 DEF Download!Joined, DownloadInv, DownloadTyped, Download!DownloadTypeOK, Received,
     Download!None
<1>7. NamesApart' /\ FinalsGood'
  BY <1>2 DEF DownloadInv, NamesApart, FinalsGood
<1>8. DoneIsThere'
  BY <1>1, <1>2 DEF Download!Joined, DownloadInv, DownloadTyped, Download!DownloadTypeOK, DoneIsThere
<1>9. QED
  BY <1>3, <1>4, <1>5, <1>6, <1>7, <1>8 DEF DownloadInv

-----------------------------------------------------------------------------
(* The thread.                                                              *)

\* A step of the thread that leaves the files and the children alone.
LEMMA ThreadMoves ==
    ASSUME Download!DownloadConstants, DownloadInv, NEW w \in Workers, thread[w] # Download!None,
           NEW pc \in ThreadPcs \ {Download!None, "receiving"}, Download!Go(w, pc),
           UNCHANGED <<transport, Download!loopVars, model, abort, Download!fileVars, curl>>,
           stage' \in [Workers -> Download!Stages], attempt' \in [Workers -> {0, 1}],
           \A v \in Workers : stage'[v] = "done" => stage[v] = "done",
           thread[w] \in {"transfer", "receiving"} => pc = "transfer",
           pc \in {"received", "verifying", "verify", "publish"} => partial[model[w]] # Download!None,
           pc = "publish" => content[partial[model[w]]] = "good",
           pc = "retry" => attempt'[w] = 0,
           \A v \in Workers : v # w => attempt'[v] = attempt[v]
    PROVE  DownloadInv'
<1>1. DownloadTyped'
  BY DEF Download!Go, Download!loopVars, Download!fileVars, DownloadInv, DownloadTyped,
     Download!DownloadTypeOK
<1>2. Locked'
  BY DEF Download!Go, Download!loopVars, Download!fileVars, DownloadInv, DownloadTyped, Locked
<1>3. ChildrenWatched'
  BY DEF Download!Go, Download!loopVars, Download!fileVars, DownloadInv, DownloadTyped, ChildrenWatched
<1>4. Received'
  BY DEF Download!Go, Download!loopVars, Download!fileVars, DownloadInv, DownloadTyped, Received
<1>5. NamesApart' /\ FinalsGood' /\ DoneIsThere'
  BY DEF Download!loopVars, Download!fileVars, DownloadInv, NamesApart, FinalsGood, DoneIsThere
<1>6. QED
  BY <1>1, <1>2, <1>3, <1>4, <1>5 DEF DownloadInv

LEMMA DownloadBeginKeeps ==
    ASSUME Download!DownloadConstants, DownloadInv, NEW w \in Workers, Download!Begin(w)
    PROVE  DownloadInv'
<1>1. PICK pc \in {"ended", "attempt"}, s \in {"idle", "downloading"} : Download!Go(w, pc)
        /\ Download!SetStage(w, s)
  BY DEF Download!Begin
<1>2. /\ stage' \in [Workers -> Download!Stages] /\ attempt' \in [Workers -> {0, 1}]
      /\ \A v \in Workers : stage'[v] = "done" => stage[v] = "done"
      /\ \A v \in Workers : v # w => attempt'[v] = attempt[v]
  BY <1>1 DEF Download!Begin, Download!SetStage, DownloadInv, DownloadTyped, Download!DownloadTypeOK,
     Download!Stages
<1>3. thread[w] = "begin" /\ UNCHANGED <<transport, Download!loopVars, model, abort, Download!fileVars,
        curl>>
  BY DEF Download!Begin, Download!ThreadKeeps
<1>4. pc \in ThreadPcs \ {Download!None, "receiving"}
  BY DEF ThreadPcs, Download!None
<1>5. QED
  BY <1>1, <1>2, <1>3, <1>4, ThreadMoves DEF Download!None

LEMMA RetryKeeps ==
    ASSUME Download!DownloadConstants, DownloadInv, NEW w \in Workers, Download!Retry(w)
    PROVE  DownloadInv'
<1>1. Download!Go(w, "attempt") /\ Download!SetStage(w, "downloading")
  BY DEF Download!Retry
<1>2. /\ stage' \in [Workers -> Download!Stages] /\ attempt' \in [Workers -> {0, 1}]
      /\ \A v \in Workers : stage'[v] = "done" => stage[v] = "done"
      /\ \A v \in Workers : v # w => attempt'[v] = attempt[v]
  BY <1>1 DEF Received, Download!Retry, Download!SetStage, DownloadInv, DownloadTyped,
     Download!DownloadTypeOK, Download!Stages
<1>3. thread[w] = "retry" /\ UNCHANGED <<transport, Download!loopVars, model, abort, Download!fileVars,
        curl>>
  BY DEF Download!Retry, Download!ThreadKeeps
<1>4. "attempt" \in ThreadPcs \ {Download!None, "receiving"}
  BY DEF ThreadPcs, Download!None
<1>5. QED
  BY <1>1, <1>2, <1>3, <1>4, ThreadMoves DEF Download!None

LEMMA SettleKeeps ==
    ASSUME Download!DownloadConstants, DownloadInv, NEW w \in Workers, Download!Settle(w)
    PROVE  DownloadInv'
<1>1. PICK pc \in {"ended", "verify", "finishAbort"}, s \in {"failed", "verifying", "aborting"} :
         Download!Go(w, pc) /\ Download!SetStage(w, s) /\ (pc = "verify" => thread[w] = "verifying")
  BY DEF Download!Settle
<1>2. /\ stage' \in [Workers -> Download!Stages] /\ attempt' \in [Workers -> {0, 1}]
      /\ \A v \in Workers : stage'[v] = "done" => stage[v] = "done"
      /\ \A v \in Workers : v # w => attempt'[v] = attempt[v]
  BY <1>1 DEF Download!Settle, Download!SetStage, DownloadInv, DownloadTyped, Download!DownloadTypeOK,
     Download!Stages
<1>3. /\ thread[w] \in {"fail", "verifying", "aborting"}
      /\ UNCHANGED <<transport, Download!loopVars, model, abort, Download!fileVars, curl>>
  BY DEF Download!Settle, Download!ThreadKeeps
<1>4. pc \in ThreadPcs \ {Download!None, "receiving"}
  BY DEF ThreadPcs, Download!None
<1>5. pc = "verify" => partial[model[w]] # Download!None
  BY <1>1 DEF DownloadInv, Received
<1>6. QED
  BY <1>1, <1>2, <1>3, <1>4, <1>5, ThreadMoves DEF Download!None

\* A step of the thread that removes its part file.
LEMMA ThreadUnlinks ==
    ASSUME Download!DownloadConstants, DownloadInv, NEW w \in Workers,
           thread[w] \notin {Download!None, "transfer", "receiving"},
           NEW pc \in {"retry", "fail", "ended"}, Download!Go(w, pc), Download!Unlinked(model[w]),
           UNCHANGED <<transport, Download!loopVars, model, abort, flock, final, content, curl,
             attempt>>,
           stage' \in [Workers -> Download!Stages],
           \A v \in Workers : stage'[v] = "done" => stage[v] = "done",
           pc = "retry" => attempt[w] = 0
    PROVE  DownloadInv'
<1>1. model[w] \in Models /\ model[w] # Download!None
  BY DEF DownloadInv, DownloadTyped, Download!DownloadTypeOK, Locked
<1>2. /\ partial' \in [Models -> Inodes \cup {Download!None}] /\ partial'[model[w]] = Download!None
      /\ \A m \in Models : partial'[m] # Download!None => partial'[m] = partial[m]
      /\ \A v \in Workers : v # w /\ model[v] \in Models => partial'[model[v]] = partial[model[v]]
  BY <1>1, OneThreadPerModel DEF Download!Unlinked, DownloadInv, DownloadTyped, Download!DownloadTypeOK
<1>3. DownloadTyped'
  BY <1>2 DEF Download!Go, Download!loopVars, DownloadInv, DownloadTyped, Download!DownloadTypeOK,
     ThreadPcs
<1>4. Locked'
  BY DEF Download!Go, Download!loopVars, DownloadInv, DownloadTyped, Locked, Download!None
<1>5. curl[w] = Download!NoChild /\ \A v \in Workers : thread[v] = Download!None
        => curl[v] = Download!NoChild
  BY DEF DownloadInv, ChildrenWatched, Download!None
<1>6. \A v \in Workers : model[v] \in Models \/ thread[v] = Download!None
  BY DEF DownloadInv, DownloadTyped, Download!DownloadTypeOK, Locked
<1>7. ChildrenWatched'
  BY <1>2, <1>5, <1>6 DEF Download!Go, DownloadInv, DownloadTyped, ChildrenWatched, Download!NoChild,
     Download!None
<1>8. Received'
  BY <1>2, <1>6 DEF Download!Go, DownloadInv, DownloadTyped, Received, Download!None
<1>9. NamesApart'
  BY <1>2 DEF DownloadInv, NamesApart
<1>10. FinalsGood' /\ DoneIsThere'
  BY DEF Download!loopVars, DownloadInv, FinalsGood, DoneIsThere
<1>11. QED
  BY <1>3, <1>4, <1>7, <1>8, <1>9, <1>10 DEF DownloadInv

LEMMA FinishAbortKeeps ==
    ASSUME Download!DownloadConstants, DownloadInv, NEW w \in Workers, Download!FinishAbort(w)
    PROVE  DownloadInv'
<1>1. /\ thread[w] = "finishAbort" /\ Download!Unlinked(model[w]) /\ Download!Go(w, "ended")
      /\ UNCHANGED <<transport, Download!loopVars, model, abort, flock, final, content, curl, attempt>>
  BY DEF Download!FinishAbort, Download!ThreadKeeps
<1>2. /\ stage' \in [Workers -> Download!Stages]
      /\ \A v \in Workers : stage'[v] = "done" => stage[v] = "done"
  BY DEF Download!FinishAbort, Download!SetStage, DownloadInv, DownloadTyped, Download!DownloadTypeOK,
     Download!Stages
<1>3. QED
  BY <1>1, <1>2, ThreadUnlinks DEF Download!None

LEMMA VerifyKeeps ==
    ASSUME Download!DownloadConstants, DownloadInv, NEW w \in Workers, Download!Verify(w)
    PROVE  DownloadInv'
<1>1. /\ thread[w] = "verify"
      /\ UNCHANGED <<transport, Download!loopVars, model, abort, flock, final, content, curl, attempt,
           stage>>
  BY DEF Download!Verify, Download!ThreadKeeps
<1>2. /\ stage' \in [Workers -> Download!Stages] /\ attempt' \in [Workers -> {0, 1}]
      /\ \A v \in Workers : stage'[v] = "done" => stage[v] = "done"
      /\ \A v \in Workers : v # w => attempt'[v] = attempt[v]
  BY <1>1 DEF DownloadInv, DownloadTyped, Download!DownloadTypeOK
<1>3. CASE Download!Verified(partial[model[w]]) /\ Download!Go(w, "publish") /\ partial' = partial
  <2>1. partial[model[w]] # Download!None /\ content[partial[model[w]]] = "good"
    BY <1>1, <1>3 DEF DownloadInv, Received, Download!Verified
  <2>2. "publish" \in ThreadPcs \ {Download!None, "receiving"}
    BY DEF ThreadPcs, Download!None
  <2>3. QED
    BY <1>1, <1>2, <1>3, <2>1, <2>2, ThreadMoves DEF Download!fileVars, Download!None
<1>4. CASE Download!Unlinked(model[w]) /\ Download!Go(w, Download!RetryOrFail(w))
  <2>1. PICK pc \in {"retry", "fail", "ended"} : Download!Go(w, pc) /\ (pc = "retry" => attempt[w] = 0)
    BY <1>4 DEF Download!RetryOrFail
  <2>2. QED
    BY <1>1, <1>2, <1>4, <2>1, ThreadUnlinks DEF Download!None
<1>5. QED
  BY <1>3, <1>4 DEF Download!Verify

LEMMA DownloadJudgeKeeps ==
    ASSUME Download!DownloadConstants, DownloadInv, NEW w \in Workers, Download!Judge(w)
    PROVE  DownloadInv'
<1>1. /\ thread[w] \in {"received", "notReceived"}
      /\ UNCHANGED <<transport, Download!loopVars, model, abort, flock, final, content, curl, attempt,
           stage>>
  BY DEF Download!Judge, Download!ThreadKeeps
<1>2. /\ stage' \in [Workers -> Download!Stages] /\ attempt' \in [Workers -> {0, 1}]
      /\ \A v \in Workers : stage'[v] = "done" => stage[v] = "done"
      /\ \A v \in Workers : v # w => attempt'[v] = attempt[v]
  BY <1>1 DEF DownloadInv, DownloadTyped, Download!DownloadTypeOK
<1>3. CASE Download!Go(w, "aborting") /\ partial' = partial
  <2>1. "aborting" \in ThreadPcs \ {Download!None, "receiving"}
    BY DEF ThreadPcs, Download!None
  <2>2. QED
    BY <1>1, <1>2, <1>3, <2>1, ThreadMoves DEF Download!fileVars, Download!None
<1>4. CASE thread[w] = "received" /\ Download!Go(w, "verifying") /\ partial' = partial
  <2>1. "verifying" \in ThreadPcs \ {Download!None, "receiving"}
    BY DEF ThreadPcs, Download!None
  <2>2. partial[model[w]] # Download!None
    BY <1>4 DEF DownloadInv, Received
  <2>3. QED
    BY <1>1, <1>2, <1>4, <2>1, <2>2, ThreadMoves DEF Download!fileVars, Download!None
<1>5. CASE Download!Unlinked(model[w]) /\ (Download!Go(w, "fail") \/ Download!Go(w,
             Download!RetryOrFail(w)))
  <2>1. PICK pc \in {"retry", "fail", "ended"} : Download!Go(w, pc) /\ (pc = "retry" => attempt[w] = 0)
    BY <1>5 DEF Download!RetryOrFail
  <2>2. QED
    BY <1>1, <1>2, <1>5, <2>1, ThreadUnlinks DEF Download!None
<1>6. QED
  BY <1>3, <1>4, <1>5 DEF Download!Judge

LEMMA PublishKeeps ==
    ASSUME Download!DownloadConstants, DownloadInv, NEW w \in Workers, Download!Publish(w)
    PROVE  DownloadInv'
<1>1. /\ thread[w] = "publish"
      /\ UNCHANGED <<transport, Download!loopVars, model, abort, flock, content, curl, attempt>>
  BY DEF Download!Publish, Download!ThreadKeeps
<1>2. CASE Download!SetStage(w, "aborting") /\ Download!Go(w, "finishAbort") /\ UNCHANGED <<partial,
             final>>
  <2>1. /\ stage' \in [Workers -> Download!Stages] /\ attempt' \in [Workers -> {0, 1}]
        /\ \A v \in Workers : stage'[v] = "done" => stage[v] = "done"
        /\ \A v \in Workers : v # w => attempt'[v] = attempt[v]
    BY <1>1, <1>2 DEF Download!SetStage, DownloadInv, DownloadTyped, Download!DownloadTypeOK,
       Download!Stages
  <2>2. "finishAbort" \in ThreadPcs \ {Download!None, "receiving"}
    BY DEF ThreadPcs, Download!None
  <2>3. QED
    BY <1>1, <1>2, <2>1, <2>2, ThreadMoves DEF Download!fileVars, Download!None
<1>3. CASE /\ Download!SetStage(w, "failed") /\ Download!Go(w, "ended") /\ Download!Unlinked(model[w])
                /\ final' = final
  <2>1. /\ stage' \in [Workers -> Download!Stages]
        /\ \A v \in Workers : stage'[v] = "done" => stage[v] = "done"
    BY <1>3 DEF Download!SetStage, DownloadInv, DownloadTyped, Download!DownloadTypeOK, Download!Stages
  <2>2. QED
    BY <1>1, <1>3, <2>1, ThreadUnlinks DEF Download!None
<1>4. CASE Download!SetStage(w, "done") /\ Download!Go(w, "ended") /\ Download!Renamed(model[w])
  <2> DEFINE m == model[w]
  <2>1. m \in Models /\ m # Download!None /\ partial[m] \in Inodes /\ partial[m] # Download!None
          /\ content[partial[m]] = "good"
    BY <1>1 DEF DownloadInv, DownloadTyped, Download!DownloadTypeOK, Locked, Received, Download!None
  <2>2. partial' = [partial EXCEPT ![m] = Download!None] /\ final' = [final EXCEPT ![m] = partial[m]]
    BY <1>4 DEF Download!Renamed, Download!Unlinked
  <2>3. /\ partial' \in [Models -> Inodes \cup {Download!None}] /\ partial'[m] = Download!None
        /\ \A n \in Models : partial'[n] # Download!None => n # m /\ partial'[n] = partial[n]
        /\ \A v \in Workers : v # w /\ model[v] \in Models => partial'[model[v]] = partial[model[v]]
    BY <2>1, <2>2, OneThreadPerModel DEF DownloadInv, DownloadTyped, Download!DownloadTypeOK
  <2>4. /\ final' \in [Models -> Inodes \cup {Download!None}] /\ final'[m] = partial[m]
        /\ \A n \in Models : n # m => final'[n] = final[n]
    BY <2>1, <2>2 DEF DownloadInv, DownloadTyped, Download!DownloadTypeOK
  <2>5. DownloadTyped'
    BY <1>1, <1>4, <2>3, <2>4 DEF Download!SetStage, Download!Go, Download!loopVars, DownloadInv,
       DownloadTyped, Download!DownloadTypeOK,
       ThreadPcs, Download!Stages
  <2>6. Locked'
    BY <1>1, <1>4, <2>1 DEF Download!Go, Download!loopVars, DownloadInv, DownloadTyped, Locked,
       Download!None
  <2>7. curl[w] = Download!NoChild /\ \A v \in Workers : thread[v] = Download!None
          => curl[v] = Download!NoChild
    BY <1>1 DEF DownloadInv, ChildrenWatched, Download!None
  <2>8. \A v \in Workers : model[v] \in Models \/ thread[v] = Download!None
    BY DEF DownloadInv, DownloadTyped, Download!DownloadTypeOK, Locked
  <2>9. ChildrenWatched'
    BY <1>1, <1>4, <2>3, <2>7, <2>8 DEF Download!Go, DownloadInv, DownloadTyped, ChildrenWatched,
       Download!NoChild, Download!None
  <2>10. Received'
    BY <1>1, <1>4, <2>3, <2>8 DEF Download!Go, DownloadInv, DownloadTyped, Received, Download!None
  <2>11. NamesApart'
    BY <2>1, <2>3, <2>4 DEF DownloadInv, NamesApart
  <2>12. FinalsGood'
    BY <1>1, <2>1, <2>4 DEF DownloadInv, FinalsGood
  <2>13. \A n \in Models : final[n] # Download!None => final'[n] # Download!None
    BY <2>1, <2>4
  <2>14. \A v \in Workers : stage'[v] = "done" => v = w \/ stage[v] = "done"
    BY <1>4 DEF Download!SetStage, DownloadInv, DownloadTyped, Download!DownloadTypeOK
  <2>15. /\ \A v \in Workers : model[v] # Download!None => model[v] \in Models
         /\ \A v \in Workers : told[v][2] # Download!None => told[v][2] \in Models
    BY DEF DownloadInv, DownloadTyped, Download!DownloadTypeOK
  <2>16. DoneIsThere'
    BY <1>1, <2>1, <2>4, <2>13, <2>14, <2>15 DEF Download!loopVars, DownloadInv, DoneIsThere
  <2>17. QED
    BY <2>5, <2>6, <2>9, <2>10, <2>11, <2>12, <2>16 DEF DownloadInv
<1>5. QED
  BY <1>2, <1>3, <1>4 DEF Download!Publish

-----------------------------------------------------------------------------
(* The downloaders.                                                         *)

\* A step that only moves the thread of w and its child and changes no bytes
\* but those of the part file of w.
LEMMA ChildMoves ==
    ASSUME Download!DownloadConstants, DownloadInv, NEW w \in Workers,
           thread[w] \in {"attempt", "transfer", "receiving"},
           NEW pc \in {"transfer", "receiving", "received", "notReceived"}, Download!Go(w, pc),
           UNCHANGED <<transport, Download!loopVars, model, abort, flock, partial, final, stage,
             attempt>>,
           content' \in [Inodes -> {"partial", "good", "bad", "large"}],
           \A i \in Inodes : content'[i] # content[i] => i = partial[model[w]],
           NEW c \in [state : {Download!None, "opening", "writing", "ok", "failed"},
                      inode : Inodes \cup {Download!None}],
           curl' = [curl EXCEPT ![w] = c],
           pc \notin {"transfer", "receiving"} => c = Download!NoChild,
           pc = "receiving" \/ c.state \in {"writing", "ok"} => c.inode # Download!None,
           c.inode # Download!None => c.inode = partial[model[w]],
           pc = "received" => partial[model[w]] # Download!None
    PROVE  DownloadInv'
<1>1. model[w] \in Models /\ model[w] # Download!None
  BY DEF DownloadInv, DownloadTyped, Download!DownloadTypeOK, Locked, Download!None
<1>2. DownloadTyped'
  <2>1. Download!DownloadTypeOK'
    BY DEF Download!loopVars, DownloadInv, DownloadTyped, Download!DownloadTypeOK
  <2>2. thread' \in [Workers -> ThreadPcs]
    BY DEF Download!Go, DownloadInv, DownloadTyped, ThreadPcs
  <2>3. curl' \in [Workers -> [state : {Download!None, "opening", "writing", "ok", "failed"},
                               inode : Inodes \cup {Download!None}]]
    BY DEF DownloadInv, DownloadTyped
  <2>4. QED
    BY <2>1, <2>2, <2>3 DEF Download!loopVars, DownloadInv, DownloadTyped
<1>3. Locked'
  BY <1>1 DEF Download!Go, Download!loopVars, DownloadInv, DownloadTyped, Locked, Download!None
<1>4. ChildrenWatched'
  BY DEF Download!Go, DownloadInv, DownloadTyped, ChildrenWatched
<1>5. \A v \in Workers : thread[v] = "publish" => partial[model[v]] # partial[model[w]]
  <2> SUFFICES ASSUME NEW v \in Workers, thread[v] = "publish"
               PROVE  partial[model[v]] # partial[model[w]]
    OBVIOUS
  <2>1. v # w
    OBVIOUS
  <2>2. model[v] \in Models /\ partial[model[v]] # Download!None
    BY DEF DownloadInv, DownloadTyped, Download!DownloadTypeOK, Locked, Received, Download!None
  <2>3. model[v] # model[w]
    BY <1>1, <2>1, OneThreadPerModel
  <2>4. QED
    BY <1>1, <2>2, <2>3 DEF DownloadInv, NamesApart
<1>6. \A v \in Workers : thread[v] = "publish" => partial[model[v]] \in Inodes
  BY DEF DownloadInv, DownloadTyped, Download!DownloadTypeOK, Locked, Received, Download!None
<1>7. Received'
  BY <1>5, <1>6 DEF Download!Go, DownloadInv, DownloadTyped, Received
<1>8. NamesApart' /\ DoneIsThere'
  BY DEF Download!loopVars, DownloadInv, NamesApart, DoneIsThere
<1>9. \A m \in Models : final[m] # Download!None => final[m] # partial[model[w]] /\ final[m] \in Inodes
  BY <1>1 DEF DownloadInv, DownloadTyped, Download!DownloadTypeOK, NamesApart
<1>10. FinalsGood'
  BY <1>9 DEF DownloadInv, FinalsGood
<1>11. QED
  BY <1>2, <1>3, <1>4, <1>7, <1>8, <1>10 DEF DownloadInv

LEMMA AttemptKeeps ==
    ASSUME Download!DownloadConstants, DownloadInv, NEW w \in Workers, Download!Attempt(w)
    PROVE  DownloadInv'
<1>1. /\ thread[w] = "attempt"
      /\ UNCHANGED <<transport, Download!loopVars, model, abort, Download!fileVars, attempt>>
  BY DEF Download!Attempt, Download!ThreadKeeps
<1>2. /\ stage' \in [Workers -> Download!Stages] /\ attempt' \in [Workers -> {0, 1}]
      /\ \A v \in Workers : stage'[v] = "done" => stage[v] = "done"
      /\ \A v \in Workers : v # w => attempt'[v] = attempt[v]
  BY ZenonT(60), <1>1 DEF Download!Attempt, Download!SetStage, DownloadInv, DownloadTyped, Download!DownloadTypeOK,
     Download!Stages
<1>3. CASE \E pc \in {"ended", "open", "notReceived"} : Download!Go(w, pc) /\ curl' = curl
  <2>1. PICK pc \in {"ended", "open", "notReceived"} : Download!Go(w, pc) /\ curl' = curl
    BY <1>3
  <2>2. pc \in ThreadPcs \ {Download!None, "receiving"}
    BY DEF ThreadPcs, Download!None
  <2>3. QED
    BY <1>1, <1>2, <2>1, <2>2, ThreadMoves DEF Download!None
<1>4. CASE /\ Download!Go(w, "transfer") /\ stage' = stage
           /\ curl' = [curl EXCEPT ![w] = [state |-> "opening", inode |-> Download!None]]
  <2>1. [state |-> "opening", inode |-> Download!None]
          \in [state : {Download!None, "opening", "writing", "ok", "failed"},
            inode : Inodes \cup {Download!None}]
    OBVIOUS
  <2>2. content' \in [Inodes -> {"partial", "good", "bad", "large"}] /\ content' = content
    BY <1>1 DEF Download!fileVars, DownloadInv, DownloadTyped, Download!DownloadTypeOK
  <2>3. QED
    BY <1>1, <1>4, <2>1, <2>2, ChildMoves DEF Download!fileVars
<1>5. QED
  BY <1>3, <1>4 DEF Download!Attempt

\* A child whose state is not NONE belongs to a thread that waits for it.
LEMMA ChildIsWatched ==
    ASSUME DownloadInv, NEW w \in Workers, curl[w].state # Download!None
    PROVE  thread[w] \in {"transfer", "receiving"}
BY DEF DownloadInv, ChildrenWatched, Download!NoChild

LEMMA CurlOverrunsKeeps ==
    ASSUME Download!DownloadConstants, DownloadInv, NEW w \in Workers, Download!CurlOverruns(w)
    PROVE  DownloadInv'
<1>1. /\ curl[w].state = "writing"
      /\ UNCHANGED <<transport, Download!loopVars, model, stage, abort, thread, attempt, curl, flock,
                     partial, final>>
  BY DEF Download!CurlOverruns
<1>2. thread[w] \in {"transfer", "receiving"}
  BY <1>1, ChildIsWatched DEF Download!None
<1>3. curl[w].inode # Download!None /\ curl[w].inode = partial[model[w]]
  BY <1>1 DEF DownloadInv, ChildrenWatched
<1>4. /\ curl[w] \in [state : {Download!None, "opening", "writing", "ok", "failed"},
                      inode : Inodes \cup {Download!None}]
      /\ curl' = [curl EXCEPT ![w] = curl[w]]
  BY <1>1 DEF DownloadInv, DownloadTyped
<1>5. /\ content' \in [Inodes -> {"partial", "good", "bad", "large"}]
      /\ \A i \in Inodes : content'[i] # content[i] => i = partial[model[w]]
  BY <1>3 DEF Download!CurlOverruns, DownloadInv, DownloadTyped, Download!DownloadTypeOK
<1>6. Download!Go(w, thread[w])
  BY <1>1 DEF Download!Go, DownloadInv, DownloadTyped
<1>7. thread[w] \in {"attempt", "transfer", "receiving"}
  BY <1>2
<1> DEFINE d == curl[w]
           pc == thread[w]
<1>9. /\ d \in [state : {Download!None, "opening", "writing", "ok", "failed"},
           inode : Inodes \cup {Download!None}]
      /\ curl' = [curl EXCEPT ![w] = d] /\ d.inode # Download!None /\ d.inode = partial[model[w]]
  BY <1>3, <1>4
<1>10. pc \in {"transfer", "receiving"} /\ Download!Go(w, pc)
  BY <1>2, <1>6
<1>11. UNCHANGED <<transport, Download!loopVars, model, abort, flock, partial, final, stage, attempt>>
  BY <1>1
<1> HIDE DEF d, pc
<1>12. QED
  BY <1>5, <1>7, <1>9, <1>10, <1>11, ChildMoves

LEMMA CurlEndsKeeps ==
    ASSUME Download!DownloadConstants, DownloadInv, NEW w \in Workers, Download!CurlEnds(w)
    PROVE  DownloadInv'
<1>1. UNCHANGED <<transport, Download!loopVars, model, stage, abort, thread, attempt, flock, partial,
        final>>
  BY DEF Download!CurlEnds
<1>2. curl[w].state \in {"opening", "writing"}
  BY DEF Download!CurlEnds
<1>3. thread[w] \in {"transfer", "receiving"}
  BY <1>2, ChildIsWatched DEF Download!None
<1>4. Download!Go(w, thread[w])
  BY <1>1 DEF Download!Go, DownloadInv, DownloadTyped
<1>5. /\ curl[w].state = "writing" \/ thread[w] = "receiving" => curl[w].inode # Download!None
      /\ curl[w].inode # Download!None => curl[w].inode = partial[model[w]]
  BY DEF DownloadInv, ChildrenWatched
<1>6. curl[w] \in [state : {Download!None, "opening", "writing", "ok", "failed"},
                   inode : Inodes \cup {Download!None}]
  BY DEF DownloadInv, DownloadTyped
<1>7. CASE /\ curl[w].state = "writing"
           /\ \E c \in {"good", "bad"} :
                 content' = [content EXCEPT ![curl[w].inode] = IF @ = "large" THEN @ ELSE c]
           /\ curl' = [curl EXCEPT ![w].state = "ok"]
  <2> DEFINE d == [curl[w] EXCEPT !.state = "ok"]
  <2>1. /\ d \in [state : {Download!None, "opening", "writing", "ok", "failed"},
             inode : Inodes \cup {Download!None}]
        /\ d.state = "ok" /\ d.inode = curl[w].inode
    BY <1>6
  <2>2. curl' = [curl EXCEPT ![w] = d]
    BY <1>7
  <2>3. /\ content' \in [Inodes -> {"partial", "good", "bad", "large"}]
        /\ \A i \in Inodes : content'[i] # content[i] => i = partial[model[w]]
    BY <1>5, <1>7 DEF DownloadInv, DownloadTyped, Download!DownloadTypeOK
  <2>4. d.inode # Download!None /\ d.inode = partial[model[w]]
    BY <1>5, <1>7, <2>1
  <2> HIDE DEF d
  <2>5. QED
    BY <1>1, <1>3, <1>4, <2>1, <2>2, <2>3, <2>4, ChildMoves
<1>8. CASE content' = content /\ curl' = [curl EXCEPT ![w].state = "failed"]
  <2> DEFINE d == [curl[w] EXCEPT !.state = "failed"]
  <2>1. /\ d \in [state : {Download!None, "opening", "writing", "ok", "failed"},
             inode : Inodes \cup {Download!None}]
        /\ d.state = "failed" /\ d.inode = curl[w].inode
    BY <1>6
  <2>2. curl' = [curl EXCEPT ![w] = d]
    BY <1>8
  <2>3. /\ content' \in [Inodes -> {"partial", "good", "bad", "large"}]
        /\ \A i \in Inodes : content'[i] # content[i] => i = partial[model[w]]
    BY <1>8 DEF DownloadInv, DownloadTyped, Download!DownloadTypeOK
  <2> HIDE DEF d
  <2>4. QED
    BY <1>1, <1>3, <1>4, <1>5, <2>1, <2>2, <2>3, ChildMoves
<1>9. QED
  BY <1>7, <1>8 DEF Download!CurlEnds

LEMMA NoChildIs ==
    /\ Download!NoChild \in [state : {Download!None, "opening", "writing", "ok", "failed"},
         inode : Inodes \cup {Download!None}]
    /\ Download!NoChild.inode = Download!None /\ Download!NoChild.state \notin {"writing", "ok"}
BY DEF Download!NoChild, Download!None

LEMMA WatchCurlKeeps ==
    ASSUME Download!DownloadConstants, DownloadInv, NEW w \in Workers, Download!WatchCurl(w)
    PROVE  DownloadInv'
<1>1. /\ thread[w] = "transfer" /\ curl' = [curl EXCEPT ![w] = Download!NoChild]
      /\ UNCHANGED <<transport, Download!loopVars, model, abort, flock, partial, final, stage, attempt,
           content>>
  BY DEF Download!WatchCurl, Download!ThreadKeeps, Download!fileVars
<1>2. PICK pc \in {"received", "notReceived"} :
         Download!Go(w, pc) /\ (pc = "received" => curl[w].state = "ok")
  BY DEF Download!WatchCurl
<1>3. pc = "received" => partial[model[w]] # Download!None
  BY <1>2 DEF DownloadInv, ChildrenWatched
<1>4. content' \in [Inodes -> {"partial", "good", "bad", "large"}]
  BY <1>1 DEF DownloadInv, DownloadTyped, Download!DownloadTypeOK
<1>5. QED
  BY <1>1, <1>2, <1>3, <1>4, NoChildIs, ChildMoves

LEMMA WinhttpReceivesKeeps ==
    ASSUME Download!DownloadConstants, DownloadInv, NEW w \in Workers, Download!WinhttpReceives(w)
    PROVE  DownloadInv'
<1>1. /\ thread[w] = "receiving" /\ curl' = [curl EXCEPT ![w] = Download!NoChild]
      /\ UNCHANGED <<transport, Download!loopVars, model, abort, flock, partial, final, stage, attempt>>
  BY DEF Download!WinhttpReceives, Download!ThreadKeeps
<1>2. curl[w].inode # Download!None /\ curl[w].inode = partial[model[w]]
  BY <1>1 DEF DownloadInv, ChildrenWatched
<1>3. /\ content' \in [Inodes -> {"partial", "good", "bad", "large"}]
      /\ \A i \in Inodes : content'[i] # content[i] => i = partial[model[w]]
  BY <1>2 DEF Download!WinhttpReceives, DownloadInv, DownloadTyped, Download!DownloadTypeOK
<1>4. PICK pc \in {"received", "notReceived"} : Download!Go(w, pc)
  BY DEF Download!WinhttpReceives
<1>5. QED
  BY <1>1, <1>2, <1>3, <1>4, NoChildIs, ChildMoves

\* A downloader opens the part file: it takes the inode that is there or one
\* that has no name and no writer.
LEMMA OpensKeeps ==
    ASSUME Download!DownloadConstants, DownloadInv, NEW w \in Workers,
           thread[w] \in {"transfer", "open", "receiving"},
           NEW pc \in {"transfer", "receiving"}, Download!Go(w, pc),
             NEW i \in Download!OpenFor(model[w]),
           UNCHANGED <<transport, Download!loopVars, model, abort, flock, final, stage, attempt>>,
           partial' = [partial EXCEPT ![model[w]] = i],
           content' = [content EXCEPT ![i] = "partial"],
           curl' = [curl EXCEPT ![w] = [state |-> "writing", inode |-> i]]
    PROVE  DownloadInv'
<1> DEFINE m == model[w]
<1>1. m \in Models /\ m # Download!None
  BY DEF DownloadInv, DownloadTyped, Download!DownloadTypeOK, Locked, Download!None
<1>2. /\ i \in Inodes /\ i # Download!None
      /\ \A n \in Models : i # final[n]
      /\ \A n \in Models : n # m => i # partial[n]
  <2>1. CASE partial[m] # Download!None
    BY <1>1, <2>1 DEF Download!OpenFor, DownloadInv, DownloadTyped, Download!DownloadTypeOK, NamesApart
  <2>2. CASE partial[m] = Download!None
    BY <1>1, <2>2 DEF Download!OpenFor, Download!Linked, Download!DownloadConstants
  <2>3. QED
    BY <2>1, <2>2
<1>3. /\ partial' \in [Models -> Inodes \cup {Download!None}] /\ partial'[m] = i
      /\ \A n \in Models : n # m => partial'[n] = partial[n]
  BY <1>1, <1>2 DEF DownloadInv, DownloadTyped, Download!DownloadTypeOK
<1>4. /\ content' \in [Inodes -> {"partial", "good", "bad", "large"}]
      /\ \A j \in Inodes : j # i => content'[j] = content[j]
  BY <1>2 DEF DownloadInv, DownloadTyped, Download!DownloadTypeOK
<1>5. /\ curl' \in [Workers -> [state : {Download!None, "opening", "writing", "ok", "failed"},
                                inode : Inodes \cup {Download!None}]]
      /\ curl'[w].state = "writing" /\ curl'[w].inode = i
      /\ \A v \in Workers : v # w => curl'[v] = curl[v]
  BY <1>2 DEF DownloadInv, DownloadTyped
<1>6. /\ thread' \in [Workers -> ThreadPcs] /\ thread'[w] = pc
      /\ \A v \in Workers : v # w => thread'[v] = thread[v]
  BY DEF Download!Go, DownloadInv, DownloadTyped, ThreadPcs
<1>7. \A v \in Workers : v # w /\ thread[v] # Download!None
          => /\ model[v] \in Models /\ model[v] # m /\ partial'[model[v]] = partial[model[v]]
             /\ partial[model[v]] # i
  BY <1>1, <1>2, <1>3, OneThreadPerModel DEF DownloadInv, DownloadTyped, Download!DownloadTypeOK, Locked
<1>8. DownloadTyped'
  <2>1. Download!DownloadTypeOK'
    BY <1>3, <1>4 DEF Download!loopVars, DownloadInv, DownloadTyped, Download!DownloadTypeOK
  <2>2. QED
    BY <1>5, <1>6, <2>1 DEF Download!loopVars, DownloadInv, DownloadTyped
<1>9. Locked'
  BY <1>1, <1>6 DEF Download!loopVars, DownloadInv, Locked, Download!None
<1>10. ChildrenWatched'
  <2>1. \A v \in Workers : v # w /\ curl[v] # Download!NoChild => thread[v] # Download!None
    BY DEF DownloadInv, ChildrenWatched, Download!None
  <2>2. Download!NoChild.inode = Download!None
    BY DEF Download!NoChild
  <2> SUFFICES ASSUME NEW v \in Workers
               PROVE  /\ thread'[v] \notin {"transfer", "receiving"} => curl'[v] = Download!NoChild
                      /\ thread'[v] = "receiving" \/ curl'[v].state \in {"writing", "ok"}
                            => curl'[v].inode # Download!None
                      /\ curl'[v].inode # Download!None => curl'[v].inode = partial'[model[v]]
    BY DEF ChildrenWatched
  <2>3. CASE v = w
    BY <1>2, <1>3, <1>5, <1>6, <2>3
  <2>4. CASE v # w
    BY <1>5, <1>6, <1>7, <2>1, <2>2, <2>4 DEF DownloadInv, ChildrenWatched
  <2>5. QED
    BY <2>3, <2>4
<1>11. Received'
  <2> SUFFICES ASSUME NEW v \in Workers
               PROVE  /\ thread'[v] \in {"received", "verifying", "verify", "publish"}
                            => partial'[model[v]] # Download!None
                      /\ thread'[v] = "publish" => content'[partial'[model[v]]] = "good"
                      /\ thread'[v] = "retry" => attempt[v] = 0
    BY DEF Received
  <2>1. CASE v = w
    BY <1>6, <2>1
  <2>2. CASE v # w
    <3>1. thread'[v] = thread[v]
      BY <1>6, <2>2
    <3>2. thread[v] # Download!None /\ partial[model[v]] # Download!None
            => /\ partial'[model[v]] = partial[model[v]] /\ partial[model[v]] \in Inodes
               /\ content'[partial[model[v]]] = content[partial[model[v]]]
      BY <1>4, <1>7, <2>2 DEF DownloadInv, DownloadTyped, Download!DownloadTypeOK
    <3>3. QED
      BY <3>1, <3>2 DEF DownloadInv, Received, Download!None
  <2>3. QED
    BY <2>1, <2>2
<1>12. NamesApart'
  BY <1>2, <1>3 DEF DownloadInv, NamesApart
<1>13. FinalsGood'
  BY <1>2, <1>4 DEF DownloadInv, DownloadTyped, Download!DownloadTypeOK, FinalsGood
<1>14. DoneIsThere'
  BY DEF Download!loopVars, DownloadInv, DoneIsThere
<1>15. QED
  BY <1>8, <1>9, <1>10, <1>11, <1>12, <1>13, <1>14 DEF DownloadInv

LEMMA CurlOpensKeeps ==
    ASSUME Download!DownloadConstants, DownloadInv, NEW w \in Workers, Download!CurlOpens(w)
    PROVE  DownloadInv'
<1>1. /\ curl[w].state = "opening"
      /\ UNCHANGED <<transport, Download!loopVars, model, abort, flock, final, stage, attempt>>
  BY DEF Download!CurlOpens
<1>2. PICK i \in Download!OpenFor(model[w]) :
         /\ partial' = [partial EXCEPT ![model[w]] = i]
         /\ content' = [content EXCEPT ![i] = "partial"]
         /\ curl' = [curl EXCEPT ![w] = [state |-> "writing", inode |-> i]]
  BY DEF Download!CurlOpens
<1>3. thread[w] \in {"transfer", "receiving"}
  BY <1>1, ChildIsWatched DEF Download!None
<1>4. Download!Go(w, thread[w])
  BY DEF Download!CurlOpens, Download!Go, DownloadInv, DownloadTyped
<1>5. QED
  BY <1>1, <1>2, <1>3, <1>4, OpensKeeps

LEMMA WinhttpOpensKeeps ==
    ASSUME Download!DownloadConstants, DownloadInv, NEW w \in Workers, Download!WinhttpOpens(w)
    PROVE  DownloadInv'
<1>1. /\ thread[w] = "open"
      /\ UNCHANGED <<transport, Download!loopVars, model, abort, flock, final, stage, attempt>>
  BY DEF Download!WinhttpOpens, Download!ThreadKeeps
<1>2. CASE Download!Go(w, "notReceived") /\ UNCHANGED <<partial, content, curl>>
  <2>1. /\ stage' \in [Workers -> Download!Stages] /\ attempt' \in [Workers -> {0, 1}]
        /\ \A v \in Workers : stage'[v] = "done" => stage[v] = "done"
        /\ \A v \in Workers : v # w => attempt'[v] = attempt[v]
    BY <1>1 DEF DownloadInv, DownloadTyped, Download!DownloadTypeOK
  <2>2. "notReceived" \in ThreadPcs \ {Download!None, "receiving"}
    BY DEF ThreadPcs, Download!None
  <2>3. QED
    BY <1>1, <1>2, <2>1, <2>2, ThreadMoves DEF Download!fileVars, Download!None
<1>3. CASE \E i \in Download!OpenFor(model[w]) :
             /\ Download!Go(w, "receiving")
             /\ partial' = [partial EXCEPT ![model[w]] = i]
             /\ content' = [content EXCEPT ![i] = "partial"]
             /\ curl' = [curl EXCEPT ![w] = [state |-> "writing", inode |-> i]]
  BY <1>1, <1>3, OpensKeeps
<1>4. QED
  BY <1>2, <1>3 DEF Download!WinhttpOpens

-----------------------------------------------------------------------------
(* The operating system.                                                    *)

LEMMA CrashKeeps ==
    ASSUME Download!DownloadConstants, DownloadInv, NEW w \in Workers, Download!Crash(w)
    PROVE  DownloadInv'
<1>1. UNCHANGED <<transport, partial, final, content>>
  BY DEF Download!Crash
<1>2. /\ told' \in ToldType /\ told'[w][1] = Download!None
      /\ \A v \in Workers : v # w => told'[v] = told[v]
  <2>1. Download!Report(w, Download!None, Download!None)
    BY DEF Download!Crash, Download!Report
  <2>2. QED
    BY <2>1, ReportIs DEF DownloadInv, DownloadTyped, ToldType
<1>3. /\ main' \in [Workers -> {"idle", "joining", "starting", "dead", "left"}]
      /\ main'[w] = "dead" /\ after' \in [Workers -> Models \cup {Download!None, "leave"}]
      /\ model' \in [Workers -> Models \cup {Download!None}] /\ model'[w] = Download!None
      /\ stage' \in [Workers -> Download!Stages] /\ stage'[w] = "idle"
      /\ abort' \in [Workers -> BOOLEAN] /\ attempt' \in [Workers -> {0, 1}]
      /\ lastStage' \in [Workers -> Download!Stages \cup {Download!None}]
      /\ thread' \in [Workers -> ThreadPcs] /\ thread'[w] = Download!None
      /\ \A v \in Workers : v # w =>
            /\ main'[v] = main[v] /\ after'[v] = after[v] /\ model'[v] = model[v]
            /\ stage'[v] = stage[v] /\ attempt'[v] = attempt[v] /\ thread'[v] = thread[v]
  BY DEF Download!Crash, DownloadInv, DownloadTyped, Download!DownloadTypeOK, Download!Stages, ThreadPcs
<1>4. /\ flock' \in [Models -> Workers \cup {Download!None}]
      /\ \A n \in Models : flock[n] # w => flock'[n] = flock[n]
  BY DEF Download!Crash, DownloadInv, DownloadTyped, Download!DownloadTypeOK
<1>5. /\ curl' \in [Workers -> [state : {Download!None, "opening", "writing", "ok", "failed"},
                                inode : Inodes \cup {Download!None}]]
      /\ curl'[w] = Download!NoChild
      /\ \A v \in Workers : v # w => curl'[v] = curl[v]
  BY NoChildIs DEF Download!Crash, Download!ChildrenAfterDeath, DownloadInv, DownloadTyped
<1>6. DownloadTyped'
  BY <1>1, <1>2, <1>3, <1>4, <1>5 DEF DownloadInv, DownloadTyped, Download!DownloadTypeOK, ToldType
<1>7. Locked'
  BY <1>3, <1>4 DEF DownloadInv, DownloadTyped, Download!DownloadTypeOK, Locked
<1>8. ChildrenWatched'
  BY <1>1, <1>3, <1>5, NoChildIs DEF DownloadInv, ChildrenWatched, Download!None
<1>9. Received'
  BY <1>1, <1>3 DEF DownloadInv, Received, Download!None
<1>10. NamesApart' /\ FinalsGood'
  BY <1>1 DEF DownloadInv, NamesApart, FinalsGood
<1>11. DoneIsThere'
  BY <1>1, <1>2, <1>3 DEF DownloadInv, DoneIsThere, Download!None
<1>12. QED
  BY <1>6, <1>7, <1>8, <1>9, <1>10, <1>11 DEF DownloadInv

LEMMA RespawnKeeps ==
    ASSUME Download!DownloadConstants, DownloadInv, NEW w \in Workers, Download!Respawn(w)
    PROVE  DownloadInv'
<1>1. UNCHANGED <<transport, after, model, stage, abort, thread, attempt, curl,
                  lastStage, told, flock, partial, final, content>>
  BY DEF Download!Respawn, Download!fileVars
<1>2. /\ main' \in [Workers -> {"idle", "joining", "starting", "dead", "left"}]
      /\ \A v \in Workers : main'[v] = "starting" => main[v] = "starting"
  BY DEF Download!Respawn, DownloadInv, DownloadTyped, Download!DownloadTypeOK
<1>3. DownloadTyped' /\ Locked'
  BY <1>1, <1>2 DEF DownloadInv, DownloadTyped, Download!DownloadTypeOK, Locked
<1>4. ChildrenWatched' /\ Received' /\ NamesApart' /\ FinalsGood' /\ DoneIsThere'
  BY <1>1 DEF DownloadInv, ChildrenWatched, Received, NamesApart, FinalsGood, DoneIsThere
<1>5. QED
  BY <1>3, <1>4 DEF DownloadInv

LEMMA DownloadStutters ==
    ASSUME DownloadInv, UNCHANGED Download!vars
    PROVE  DownloadInv'
BY DEF Download!vars, DownloadInv, DownloadTyped, Download!DownloadTypeOK, Locked, ChildrenWatched,
   Received, NamesApart,
   FinalsGood, DoneIsThere

LEMMA DownloadStep ==
    ASSUME Download!DownloadConstants, DownloadInv, [Download!Next]_Download!vars
    PROVE  DownloadInv'
<1>1. CASE Download!AllLeft \/ UNCHANGED Download!vars
  BY <1>1, DownloadStutters DEF Download!AllLeft
<1>2. ASSUME NEW w \in Workers,
             \/ \E m \in Models : Download!RequestDownload(w, m)
             \/ Download!RequestAbort(w) \/ Download!Leave(w) \/ Download!LoopStep(w)
                  \/ Download!Crash(w) \/ Download!Respawn(w)
      PROVE  DownloadInv'
  BY <1>2, RequestDownloadKeeps, RequestAbortKeeps, LeaveKeeps, DownloadPollKeeps, JoinedKeeps,
     StartNextKeeps, CrashKeeps, RespawnKeeps DEF Download!LoopStep
<1>3. ASSUME NEW w \in Workers, Download!ThreadStep(w)
      PROVE  DownloadInv'
  BY <1>3, DownloadBeginKeeps, AttemptKeeps, WatchCurlKeeps, WinhttpOpensKeeps, WinhttpReceivesKeeps,
     DownloadJudgeKeeps, RetryKeeps, SettleKeeps, FinishAbortKeeps, VerifyKeeps,
       PublishKeeps DEF Download!ThreadStep
<1>4. ASSUME NEW w \in Workers, Download!CurlStep(w)
      PROVE  DownloadInv'
  BY <1>4, CurlOpensKeeps, CurlOverrunsKeeps, CurlEndsKeeps DEF Download!CurlStep
<1>5. QED
  BY <1>1, <1>2, <1>3, <1>4 DEF Download!Next

-----------------------------------------------------------------------------
(* The theorems.                                                            *)

\* The inductive invariant of vw_model_download.c: a thread holds the lock of
\* its model, a downloader writes only to the part file of the thread that
\* waits for it, no inode has two names, and what is published is verified.
THEOREM DownloadInvariant ==
    ASSUME Download!DownloadConstants
    PROVE  Download!Spec => []DownloadInv
<1>1. Download!Init => DownloadInv
  BY DownloadInit
<1>2. DownloadInv /\ [Download!Next]_Download!vars => DownloadInv'
  BY DownloadStep
<1>3. QED
  BY <1>1, <1>2, PTL DEF Download!Spec

\* For every number of workers, models and inodes, with crashes at any moment
\* and with either transport: a model file under its final name holds the
\* verified bytes, and DONE is told only of a file that is there.
THEOREM DownloadPublishedStaysVerified ==
    ASSUME Download!DownloadConstants
    PROVE  Download!Spec => []Download!PublishedStaysVerified
<1>1. DownloadInv => Download!PublishedStaysVerified
  BY DEF DownloadInv, FinalsGood, DoneIsThere, Download!PublishedStaysVerified
<1>2. QED
  BY <1>1, DownloadInvariant, PTL

\* For every number of workers and models: a step that gives a model file its
\* final name and ends a publication finds no abort requested there.
THEOREM DownloadAbortedIsNotPublished ==
    ASSUME Download!DownloadConstants
    PROVE  Download!Spec => Download!AbortedIsNotPublished
<1> DEFINE A == \A w \in Workers, m \in Models :
          final'[m] # final[m] /\ thread[w] = "publish" /\ thread'[w] # "publish" => ~abort[w]
<1>1. DownloadInv /\ [Download!Next]_Download!vars => [A]_Download!vars
  <2> SUFFICES ASSUME DownloadInv, Download!Next,
                      NEW w \in Workers, NEW m \in Models, final'[m] # final[m],
                      thread[w] = "publish", thread'[w] # "publish", abort[w]
               PROVE  FALSE
    BY DEF Download!vars
  <2>1. final' # final
    OBVIOUS
  <2>2. PICK v \in Workers : Download!Publish(v)
    BY <2>1 DEF Download!Next, Download!AllLeft, Download!vars, Download!fileVars,
       Download!RequestDownload, Download!RequestAbort, Download!Leave, Download!LoopStep,
       Download!Poll,
       Download!Joined, Download!StartNext, Download!Crash, Download!Respawn, Download!CurlStep,
         Download!CurlOpens, Download!CurlOverruns, Download!CurlEnds, Download!ThreadStep,
       Download!Begin, Download!Attempt, Download!WatchCurl, Download!WinhttpOpens,
         Download!WinhttpReceives, Download!Judge, Download!Retry, Download!Settle,
         Download!FinishAbort,
       Download!Verify
  <2>3. \E pc \in ThreadPcs : Download!Go(v, pc)
    BY <2>2 DEF Download!Publish, ThreadPcs
  <2>4. v = w
    BY <2>3 DEF Download!Go, DownloadInv, DownloadTyped
  <2>5. ~abort[v]
    BY <2>1, <2>2 DEF Download!Publish
  <2>6. QED
    BY <2>4, <2>5
<1>2. Download!Spec => [][A]_Download!vars
  BY <1>1, DownloadInvariant, PTL DEF Download!Spec
<1>3. QED
  BY <1>2 DEF Download!AbortedIsNotPublished

\* The download of the composition runs as ModelDownload says.
LEMMA DownloadRuns == CurlSpec => Download!Spec
<1>1. CurlInit => Download!Init
  BY DEF CurlInit
<1>2. [CurlNext]_<<part, vars, downloadVars>> => [Download!Next]_(Download!vars)
  <2>1. UNCHANGED downloadVars => UNCHANGED Download!vars
    BY DEF downloadVars, Download!vars
  <2>2. QED
    BY <2>1 DEF CurlNext
<1>3. QED
  BY <1>1, <1>2, PTL DEF CurlSpec, Download!Spec

\* The same of the composition that the run checks: no crash, orphan or second worker spoils a
\* published model.
THEOREM CurlPublishedStaysVerified == CurlSpec => []PublishedStaysVerified
<1>1. Download!Spec => []Download!PublishedStaysVerified
  BY DownloadAssumption, DownloadPublishedStaysVerified
<1>2. QED
  BY <1>1, DownloadRuns, PTL DEF PublishedStaysVerified

\* And: an accepted abort and the publication exclude each other.
THEOREM CurlAbortedIsNotPublished == CurlSpec => AbortedIsNotPublished
<1>1. Download!Spec => Download!AbortedIsNotPublished
  BY DownloadAssumption, DownloadAbortedIsNotPublished
<1>2. QED
  BY <1>1, DownloadRuns, PTL DEF AbortedIsNotPublished
=============================================================================
