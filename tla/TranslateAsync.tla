--------------------------- MODULE TranslateAsync ---------------------------
(***************************************************************************)
(* worker/src/vw_translate_async.c: the pool of translation threads behind *)
(* the worker's main loop.  Every action is one critical section of the    *)
(* translator's mutex, or one step outside it (a thread blocked in         *)
(* pthread_cond_wait, the delivery callback, pthread_join).                *)
(*                                                                         *)
(* The owner is the worker's main loop: it creates and destroys the pool,  *)
(* submits cues, delivers completions and invalidates the epoch.  The      *)
(* threads take a job, translate it with the mutex released and file the   *)
(* completion.  A cue stands for its segment, text and languages; cue n is *)
(* the n-th one accepted in its epoch.                                     *)
(***************************************************************************)
EXTENDS Naturals, Sequences, FiniteSets

CONSTANTS
    ActiveBudget,   \* VW_TRANSLATE_ASYNC_ACTIVE_BUDGET: threads and budget
    QueueCap,       \* VW_TRANSLATE_ASYNC_QUEUE_CAPACITY
    MaxOrdinal,     \* UINT64_MAX: an ordinal wraps from here to 1
    MaxCues,        \* bound: cues accepted in one epoch
    MaxEpoch        \* bound: the epoch never reaches its own wrap-around

ResultCap == QueueCap + 2

ASSUME BudgetAssumption == ActiveBudget \in Nat \ {0}
ASSUME QueueCapAssumption == QueueCap \in Nat \ {0}
ASSUME OrdinalAssumption == MaxOrdinal \in Nat /\ MaxOrdinal >= QueueCap + 2
ASSUME BoundAssumption == MaxCues \in Nat /\ MaxEpoch \in Nat \ {0}

VARIABLES
    owner,          \* where the main loop is with respect to the pool
    threadCount,    \* threads created so far
    stopping,
    epoch,
    nextSubmit,     \* next_submit_ordinal
    nextResult,     \* next_result_ordinal
    jobs,           \* the job ring, oldest first
    inflight,       \* inflight_count
    active,         \* active_translation_count
    results,        \* the completions not yet consumed, in any order
    pc,             \* pc[t]: what thread t is doing
    work,           \* work[t]: the job thread t copied out of the ring
    held,           \* the completion being handed to the delivery callback
    accepted,       \* cues accepted in this epoch
    log             \* the deliveries made, oldest first

vars == <<owner, threadCount, stopping, epoch, nextSubmit, nextResult, jobs,
          inflight, active, results, pc, work, held, accepted, log>>

Threads == 1 .. ActiveBudget
Epochs == 1 .. MaxEpoch
Cues == 1 .. MaxCues
Ordinals == 1 .. MaxOrdinal

Job == [epoch : Epochs, ordinal : Ordinals, cue : Cues, skip : BOOLEAN]
Completion == [epoch : Epochs, ordinal : Ordinals, cue : Cues]
Delivery == [epoch : Epochs, cue : Cues]

\* Placeholders for the local variables of a thread or owner that holds none.
NoJob == [epoch |-> 0, ordinal |-> 0, cue |-> 0, skip |-> FALSE]
NoCompletion == [epoch |-> 0, ordinal |-> 0, cue |-> 0]

NextOrdinal(o) == IF o = MaxOrdinal THEN 1 ELSE o + 1

CompletionOf(j) == [epoch |-> j.epoch, ordinal |-> j.ordinal, cue |-> j.cue]

\* push_result_locked: a full completion array swallows the completion.
Filed(rs, c) == IF Cardinality(rs) >= ResultCap THEN rs ELSE rs \cup {c}

Waiting == {t \in Threads : pc[t] = "waiting"}

\* Everything but the owner's own bookkeeping of create and destroy.
poolVars == <<threadCount, stopping>>
jobVars == <<nextSubmit, jobs, active, accepted>>
resultVars == <<nextResult, results>>

-----------------------------------------------------------------------------
(* Creation, thread by thread: the first ones already run.                 *)

Init ==
    /\ owner = "creating"
    /\ threadCount = 0
    /\ stopping = FALSE
    /\ epoch = 1
    /\ nextSubmit = 1
    /\ nextResult = 1
    /\ jobs = << >>
    /\ inflight = 0
    /\ active = 0
    /\ results = {}
    /\ pc = [t \in Threads |-> "unborn"]
    /\ work = [t \in Threads |-> NoJob]
    /\ held = NoCompletion
    /\ accepted = 0
    /\ log = << >>

CreateThread ==
    /\ owner = "creating"
    /\ threadCount < ActiveBudget
    /\ threadCount' = threadCount + 1
    /\ pc' = [pc EXCEPT ![threadCount + 1] = "ready"]
    /\ owner' = IF threadCount + 1 = ActiveBudget THEN "running" ELSE "creating"
    /\ UNCHANGED <<stopping, epoch, jobVars, resultVars, inflight, work, held, log>>

\* pthread_cond_broadcast
Broadcast == pc' = [t \in Threads |-> IF pc[t] = "waiting" THEN "ready" ELSE pc[t]]

\* pthread_create fails: stop the threads already started, then join them.
CreateFails ==
    /\ owner = "creating"
    /\ stopping' = TRUE
    /\ Broadcast
    /\ owner' = "joining"
    /\ UNCHANGED <<threadCount, epoch, jobVars, resultVars, inflight, work, held, log>>

-----------------------------------------------------------------------------
(* vw_translate_async_thread_main                                          *)

\* The predicate of the wait loop holds: release the mutex and sleep.
ThreadWait(t) ==
    /\ pc[t] = "ready"
    /\ ~stopping /\ jobs = << >>
    /\ pc' = [pc EXCEPT ![t] = "waiting"]
    /\ UNCHANGED <<owner, poolVars, epoch, jobVars, resultVars, inflight, work, held, log>>

ThreadExit(t) ==
    /\ pc[t] = "ready"
    /\ stopping /\ jobs = << >>
    /\ pc' = [pc EXCEPT ![t] = "exited"]
    /\ UNCHANGED <<owner, poolVars, epoch, jobVars, resultVars, inflight, work, held, log>>

ThreadTake(t) ==
    /\ pc[t] = "ready"
    /\ jobs # << >>
    /\ pc' = [pc EXCEPT ![t] = "working"]
    /\ work' = [work EXCEPT ![t] = Head(jobs)]
    /\ jobs' = Tail(jobs)
    /\ inflight' = inflight + 1
    /\ UNCHANGED <<owner, poolVars, epoch, nextSubmit, active, accepted, resultVars, held, log>>

\* Mutant: the completion is filed without comparing epochs.
ThreadFinish_AnyEpoch(t) ==
    LET job == work[t] IN
    /\ pc[t] = "working"
    /\ active' = IF ~job.skip /\ job.epoch = epoch /\ active > 0
                 THEN active - 1 ELSE active
    /\ results' = IF ~stopping THEN Filed(results, CompletionOf(job)) ELSE results
    /\ inflight' = inflight - 1
    /\ pc' = [pc EXCEPT ![t] = "ready"]
    /\ work' = [work EXCEPT ![t] = NoJob]
    /\ UNCHANGED <<owner, poolVars, epoch, nextSubmit, nextResult, jobs, accepted, held, log>>

\* The translation is over, well or badly: give the budget back, file the
\* completion unless its epoch is gone, and look for the next job.
ThreadFinish(t) ==
    LET job == work[t] IN
    /\ pc[t] = "working"
    /\ active' = IF ~job.skip /\ job.epoch = epoch /\ active > 0
                 THEN active - 1 ELSE active
    /\ results' = IF ~stopping /\ job.epoch = epoch
                  THEN Filed(results, CompletionOf(job)) ELSE results
    /\ inflight' = inflight - 1
    /\ pc' = [pc EXCEPT ![t] = "ready"]
    /\ work' = [work EXCEPT ![t] = NoJob]
    /\ UNCHANGED <<owner, poolVars, epoch, nextSubmit, nextResult, jobs, accepted, held, log>>

\* pthread_cond_wait may return without a signal.
SpuriousWakeup(t) ==
    /\ pc[t] = "waiting"
    /\ pc' = [pc EXCEPT ![t] = "ready"]
    /\ UNCHANGED <<owner, poolVars, epoch, jobVars, resultVars, inflight, work, held, log>>

ThreadStep(t) == ThreadWait(t) \/ ThreadExit(t) \/ ThreadTake(t) \/ ThreadFinish(t)

-----------------------------------------------------------------------------
(* The owner's calls                                                       *)

\* Mutant: the work in flight is not counted.
Admits_IgnoresInflight == Len(jobs) + Cardinality(results) < ResultCap

\* Room for one more cue, counting the ones in flight and the completions
\* that nobody has consumed.
Admits == Len(jobs) + inflight + Cardinality(results) < ResultCap

\* Mutant: submit does not signal the condition.
Signal_Forgotten == pc' = pc

\* pthread_cond_signal wakes one of the waiting threads, if there is one.
Signal ==
    IF Waiting = {} THEN pc' = pc
    ELSE \E t \in Waiting : pc' = [pc EXCEPT ![t] = "ready"]

\* The oldest queued job gives way when the ring is full: it is completed as
\* source text, and it returns its share of the budget.
Evicting == Len(jobs) >= QueueCap

ActiveAfterEviction ==
    IF Evicting /\ ~Head(jobs).skip /\ active > 0 THEN active - 1 ELSE active

\* A call that is turned down (stopping, no room, empty or oversized text)
\* changes nothing.  skip is decided before the eviction returns a share.
Submit ==
    LET skip == active >= ActiveBudget
        job == [epoch |-> epoch, ordinal |-> nextSubmit, cue |-> accepted + 1, skip |-> skip]
    IN
    /\ owner = "running"
    /\ ~stopping
    /\ Admits
    /\ accepted < MaxCues
    /\ results' = IF Evicting THEN Filed(results, CompletionOf(Head(jobs))) ELSE results
    /\ jobs' = Append(IF Evicting THEN Tail(jobs) ELSE jobs, job)
    /\ active' = IF skip THEN ActiveAfterEviction ELSE ActiveAfterEviction + 1
    /\ nextSubmit' = NextOrdinal(nextSubmit)
    /\ accepted' = accepted + 1
    /\ Signal
    /\ UNCHANGED <<owner, poolVars, epoch, nextResult, inflight, work, held, log>>

\* Removing a completion always advances the ordinal that is next in line.
Remove(c) ==
    /\ results' = results \ {c}
    /\ nextResult' = NextOrdinal(nextResult)

\* Mutant: completions are delivered in the order they were filed.
TryDeliver_AnyOrder ==
    \E c \in results :
        /\ owner = "running"
        /\ Remove(c)
        /\ IF c.epoch = epoch
           THEN owner' = "delivering" /\ held' = c
           ELSE UNCHANGED <<owner, held>>
        /\ UNCHANGED <<poolVars, epoch, jobVars, inflight, pc, work, log>>

\* try_deliver, with the mutex held: the completion whose turn it is leaves
\* the array; one of another epoch would be removed and not delivered.
TryDeliver ==
    \E c \in results :
        /\ owner = "running"
        /\ c.ordinal = nextResult
        /\ Remove(c)
        /\ IF c.epoch = epoch
           THEN owner' = "delivering" /\ held' = c
           ELSE UNCHANGED <<owner, held>>
        /\ UNCHANGED <<poolVars, epoch, jobVars, inflight, pc, work, log>>

\* The delivery callback runs after the mutex is released.
DeliverHeld ==
    /\ owner = "delivering"
    /\ log' = Append(log, [epoch |-> held.epoch, cue |-> held.cue])
    /\ held' = NoCompletion
    /\ owner' = "running"
    /\ UNCHANGED <<poolVars, epoch, jobVars, resultVars, inflight, pc, work>>

\* inflight is kept: the threads at work still hold the old epoch's jobs.
Invalidate ==
    /\ owner = "running"
    /\ epoch < MaxEpoch
    /\ epoch' = epoch + 1
    /\ nextSubmit' = 1
    /\ nextResult' = 1
    /\ jobs' = << >>
    /\ results' = {}
    /\ active' = 0
    /\ accepted' = 0
    /\ UNCHANGED <<owner, poolVars, inflight, pc, work, held, log>>

\* destroy, first half; the threads are joined one by one, and waiting for
\* all of them is the same as waiting for each in turn.
Destroy ==
    /\ owner = "running"
    /\ stopping' = TRUE
    /\ jobs' = << >>
    /\ results' = {}
    /\ active' = 0
    /\ Broadcast
    /\ owner' = "joining"
    /\ UNCHANGED <<threadCount, epoch, nextSubmit, nextResult, accepted, inflight, work, held, log>>

\* Mutant: destroy does not join.
Free_WithoutJoin ==
    /\ owner = "joining"
    /\ owner' = "freed"
    /\ UNCHANGED <<poolVars, epoch, jobVars, resultVars, inflight, pc, work, held, log>>

\* All threads joined: the mutex, the condition and the pool are released.
Free ==
    /\ owner = "joining"
    /\ \A t \in 1 .. threadCount : pc[t] = "exited"
    /\ owner' = "freed"
    /\ UNCHANGED <<poolVars, epoch, jobVars, resultVars, inflight, pc, work, held, log>>

\* Nothing is left to do once the pool is gone.
Gone == owner = "freed" /\ UNCHANGED vars

OwnerStep == CreateThread \/ CreateFails \/ Submit \/ TryDeliver \/ DeliverHeld
             \/ Invalidate \/ Destroy \/ Free

Next ==
    \/ OwnerStep
    \/ \E t \in Threads : ThreadStep(t) \/ SpuriousWakeup(t)
    \/ Gone

Spec == Init /\ [][Next]_vars

\* The scheduler runs every thread, translations end (each request has its
\* deadline), and the main loop polls try_deliver on every iteration and
\* does not stop half-way through create, a delivery or destroy.
Fairness ==
    /\ \A t \in Threads : WF_vars(ThreadStep(t))
    /\ WF_vars(CreateThread)
    /\ WF_vars(TryDeliver)
    /\ WF_vars(DeliverHeld)
    /\ WF_vars(Free)

FairSpec == Spec /\ Fairness

-----------------------------------------------------------------------------
(* Properties                                                              *)

Stream == INSTANCE CueStream

\* Every field of the pool keeps the range its declaration and the capacity
\* macros give it; the budget counter never passes ACTIVE_BUDGET.
TypeOK ==
    /\ owner \in {"creating", "running", "delivering", "joining", "freed"}
    /\ threadCount \in 0 .. ActiveBudget
    /\ stopping \in BOOLEAN
    /\ epoch \in Epochs
    /\ nextSubmit \in Ordinals
    /\ nextResult \in Ordinals
    /\ jobs \in Seq(Job) /\ Len(jobs) <= QueueCap
    /\ inflight \in Nat
    /\ active \in 0 .. ActiveBudget
    /\ results \subseteq Completion
    /\ pc \in [Threads -> {"unborn", "ready", "waiting", "working", "exited"}]
    /\ work \in [Threads -> Job \cup {NoJob}]
    /\ held \in Completion \cup {NoCompletion}
    /\ accepted \in 0 .. MaxCues
    /\ log \in Seq(Delivery)

Working == {t \in Threads : pc[t] = "working"}
CurrentWork == {t \in Working : work[t].epoch = epoch}

\* The comment in push_result_locked: submission bounds the jobs, the work in
\* flight (of every epoch) and the unconsumed completions together, and
\* inflight_count is exact, so a completion always finds a free place.
RoomForEveryCompletion ==
    /\ inflight = Cardinality(Working)
    /\ Len(jobs) + inflight + Cardinality(results) <= ResultCap

\* The last cue of this epoch that left the completion array, 0 if none did.
Consumed == IF owner = "delivering" THEN held.cue ELSE Stream!DeliveredOf(log, epoch)

Places(c) ==
    Cardinality({i \in DOMAIN jobs : jobs[i].cue = c})
    + Cardinality({t \in CurrentWork : work[t].cue = c})
    + Cardinality({r \in results : r.cue = c})

\* Until the pool is stopped, each accepted cue that was not delivered is in
\* exactly one place (queued, with a thread, completed), whatever was evicted
\* or invalidated, and the pool holds nothing of an older epoch or of a cue
\* already delivered except stale work that threads have yet to drop.
EveryCueInOnePlace ==
    ~stopping =>
        /\ \A c \in 1 .. accepted : Places(c) = IF c <= Consumed THEN 0 ELSE 1
        /\ \A r \in results : r.epoch = epoch
        /\ \A i \in DOMAIN jobs : jobs[i].epoch = epoch

\* active_translation_count is exactly the number of this epoch's cues that
\* were granted a network translation and have not completed: an invalidation
\* or a late stale completion neither leaks nor double-frees budget.
BudgetIsExact ==
    ~stopping =>
        active = Cardinality({i \in DOMAIN jobs : ~jobs[i].skip})
                 + Cardinality({t \in CurrentWork : ~work[t].skip})

\* The pool's books: every cue is in one place and the budget counts those
\* being translated, whatever invalidations and late completions interleave.
PoolAccounted == EveryCueInOnePlace /\ BudgetIsExact

\* destroy (and a failed create) releases the pool only when no thread can
\* touch its mutex any more.
NoThreadOutlivesPool ==
    owner = "freed" => \A t \in Threads : pc[t] \in {"unborn", "exited"}

\* The pool implements CueStream: deliveries are in acceptance order, at most
\* once, of the current epoch only.
StreamSpec == Stream!Spec

\* Each accepted cue of an epoch is delivered, unless the epoch is
\* invalidated or the pool is stopped first: no wake-up is lost, no
\* completion is stuck behind an ordinal that never comes.
EveryCueComesBack ==
    \A e \in Epochs, c \in Cues :
        (epoch = e /\ accepted >= c /\ ~stopping)
            ~> (epoch # e \/ stopping \/ Stream!DeliveredOf(log, e) >= c)

=============================================================================
