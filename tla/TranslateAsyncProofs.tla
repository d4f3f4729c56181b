------------------------ MODULE TranslateAsyncProofs ------------------------
(***************************************************************************)
(* Theorems about the translation pool for every thread count, capacity,   *)
(* ordinal width and bound.                                                *)
(***************************************************************************)
EXTENDS TranslateAsync, FiniteSetTheorems, TLAPS

\* What the locals of a thread at work, and of the owner between removing and
\* delivering a completion, are known to hold.
LocalsTyped ==
    /\ \A t \in Threads : pc[t] = "working" => work[t] \in Job
    /\ owner = "delivering" => held \in Completion

\* Threads are started in index order, and an ended pool has only ended ones.
ThreadsAccounted ==
    /\ \A t \in Threads : t > threadCount => pc[t] = "unborn"
    /\ owner = "freed" => \A t \in 1 .. threadCount : pc[t] = "exited"

\* The inductive invariant of the pool's accounting.
PoolInv ==
    /\ TypeOK
    /\ LocalsTyped
    /\ ThreadsAccounted
    /\ IsFiniteSet(results)
    /\ RoomForEveryCompletion

-----------------------------------------------------------------------------

\* The set of working threads is finite, so inflight_count can be compared
\* with its size.
LEMMA WorkingFinite ==
    /\ IsFiniteSet(Working)
    /\ Cardinality(Working) \in Nat
<1>1. IsFiniteSet(Threads)
  BY FS_Interval, BudgetAssumption DEF Threads
<1>2. Working \in SUBSET Threads
  BY DEF Working
<1>3. QED
  BY <1>1, <1>2, FS_Subset, FS_CardinalityType

\* push_result_locked keeps the completions finite and adds at most one.
LEMMA FiledFacts ==
    ASSUME NEW rs, IsFiniteSet(rs), NEW c
    PROVE  /\ IsFiniteSet(Filed(rs, c))
           /\ Cardinality(rs) \in Nat
           /\ Cardinality(Filed(rs, c)) \in Nat
           /\ Cardinality(Filed(rs, c)) <= Cardinality(rs) + 1
           /\ Filed(rs, c) \subseteq rs \cup {c}
<1>1. IsFiniteSet(rs \cup {c}) /\ Cardinality(rs \cup {c}) =
        IF c \in rs THEN Cardinality(rs) ELSE Cardinality(rs) + 1
  BY FS_AddElement
<1>2. Cardinality(rs) \in Nat
  BY FS_CardinalityType
<1>3. QED
  BY <1>1, <1>2 DEF Filed

\* An ordinal stays in 1 .. UINT64_MAX when it advances.
LEMMA NextOrdinalType ==
    ASSUME NEW o \in Ordinals
    PROVE  NextOrdinal(o) \in Ordinals
  BY OrdinalAssumption, QueueCapAssumption DEF Ordinals, NextOrdinal

\* A job's completion is a completion.
LEMMA CompletionOfType ==
    ASSUME NEW j \in Job
    PROVE  CompletionOf(j) \in Completion
  BY DEF Job, Completion, CompletionOf

-----------------------------------------------------------------------------

\* vw_translate_async_create begins with the accounting right.
LEMMA PoolInvInit == Init => PoolInv
<1> SUFFICES ASSUME Init PROVE PoolInv
  OBVIOUS
<1> USE BudgetAssumption, QueueCapAssumption, OrdinalAssumption, BoundAssumption DEF Init
<1>1. TypeOK
  <2>1. /\ threadCount \in 0 .. ActiveBudget /\ epoch \in Epochs
        /\ nextSubmit \in Ordinals /\ nextResult \in Ordinals
        /\ inflight \in Nat /\ active \in 0 .. ActiveBudget
        /\ accepted \in 0 .. MaxCues
    BY DEF Epochs, Ordinals
  <2>2. /\ jobs \in Seq(Job) /\ Len(jobs) <= QueueCap
        /\ log \in Seq(Delivery) /\ results \subseteq Completion
    OBVIOUS
  <2>3. /\ pc \in [Threads -> {"unborn", "ready", "waiting", "working", "exited"}]
        /\ work \in [Threads -> Job \cup {NoJob}]
        /\ held \in Completion \cup {NoCompletion}
    OBVIOUS
  <2>4. QED
    BY <2>1, <2>2, <2>3 DEF TypeOK
<1>2. LocalsTyped
  BY DEF LocalsTyped
<1>3. ThreadsAccounted
  BY DEF ThreadsAccounted
<1>4. Working = {}
  BY DEF Working
<1>5. RoomForEveryCompletion /\ IsFiniteSet(results)
  BY <1>4, FS_EmptySet DEF RoomForEveryCompletion, ResultCap
<1>6. QED
  BY <1>1, <1>2, <1>3, <1>5 DEF PoolInv
-----------------------------------------------------------------------------

\* A step that leaves every working thread alone, and starts none, leaves the
\* accounting of the work in flight alone.
LEMMA SameWork ==
    ASSUME PoolInv, UNCHANGED <<inflight, jobs, results>>, Working' = Working
    PROVE  IsFiniteSet(results') /\ RoomForEveryCompletion'
  BY DEF PoolInv, RoomForEveryCompletion

\* Starting a thread, or giving up after pthread_create fails, keeps it.
LEMMA PoolInvCreate == PoolInv /\ (CreateThread \/ CreateFails) => PoolInv'
<1> USE BudgetAssumption DEF PoolInv
<1>1. ASSUME PoolInv, CreateThread PROVE PoolInv'
  <2> USE <1>1 DEF CreateThread, jobVars, resultVars
  <2>1. threadCount + 1 \in Threads /\ pc[threadCount + 1] = "unborn"
    BY DEF ThreadsAccounted, TypeOK, Threads
  <2>2. TypeOK'
    BY <2>1 DEF TypeOK
  <2>3. LocalsTyped'
    BY <2>1 DEF LocalsTyped, TypeOK
  <2>4. ThreadsAccounted'
    BY <2>1 DEF ThreadsAccounted, TypeOK, Threads
  <2>5. Working' = Working
    BY <2>1 DEF Working, TypeOK
  <2>6. QED
    BY <2>2, <2>3, <2>4, <2>5, SameWork
<1>2. ASSUME PoolInv, CreateFails PROVE PoolInv'
  <2> USE <1>2 DEF CreateFails, Broadcast, jobVars, resultVars
  <2>1. TypeOK'
    BY DEF TypeOK
  <2>2. LocalsTyped'
    BY DEF LocalsTyped, TypeOK
  <2>3. ThreadsAccounted'
    BY DEF ThreadsAccounted, TypeOK, Threads
  <2>4. Working' = Working
    BY DEF Working, TypeOK
  <2>5. QED
    BY <2>1, <2>2, <2>3, <2>4, SameWork
<1>3. QED
  BY <1>1, <1>2

\* A thread that goes to sleep, wakes up or ends takes and files nothing.
LEMMA PoolInvIdle ==
    ASSUME NEW t \in Threads
    PROVE  PoolInv /\ (ThreadWait(t) \/ ThreadExit(t) \/ SpuriousWakeup(t)) => PoolInv'
<1> SUFFICES ASSUME PoolInv, ThreadWait(t) \/ ThreadExit(t) \/ SpuriousWakeup(t)
             PROVE  PoolInv'
  OBVIOUS
<1> USE DEF PoolInv, poolVars, jobVars, resultVars
<1>1. /\ UNCHANGED <<owner, threadCount, stopping, epoch, nextSubmit, jobs, active,
                     accepted, nextResult, results, inflight, work, held, log>>
      /\ pc[t] \in {"ready", "waiting"}
      /\ \E x \in {"waiting", "exited", "ready"} : pc' = [pc EXCEPT ![t] = x]
  BY DEF ThreadWait, ThreadExit, SpuriousWakeup
<1>2. PICK x \in {"waiting", "exited", "ready"} : pc' = [pc EXCEPT ![t] = x]
  BY <1>1
<1>3. TypeOK'
  BY <1>1, <1>2 DEF TypeOK
<1>4. LocalsTyped'
  BY <1>1, <1>2 DEF LocalsTyped, TypeOK
<1>5. ThreadsAccounted'
  BY <1>1, <1>2, BudgetAssumption DEF ThreadsAccounted, TypeOK, Threads
<1>6. Working' = Working
  BY <1>1, <1>2 DEF Working, TypeOK
<1>7. QED
  BY <1>1, <1>3, <1>4, <1>5, <1>6, SameWork

\* Taking a job moves one unit from the ring to the work in flight.
LEMMA PoolInvTake ==
    ASSUME NEW t \in Threads
    PROVE  PoolInv /\ ThreadTake(t) => PoolInv'
<1> SUFFICES ASSUME PoolInv, ThreadTake(t) PROVE PoolInv'
  OBVIOUS
<1> USE DEF PoolInv, ThreadTake, poolVars, jobVars, resultVars
<1>1. Head(jobs) \in Job /\ Tail(jobs) \in Seq(Job) /\ Len(Tail(jobs)) = Len(jobs) - 1
      /\ Len(jobs) \in Nat
  BY DEF TypeOK
<1>2. TypeOK'
  BY <1>1, QueueCapAssumption DEF TypeOK
<1>3. LocalsTyped'
  BY <1>1 DEF LocalsTyped, TypeOK
<1>4. ThreadsAccounted'
  BY BudgetAssumption DEF ThreadsAccounted, TypeOK, Threads
<1>5. Working' = Working \cup {t} /\ t \notin Working
  BY DEF Working, TypeOK
<1>6. Cardinality(Working') = Cardinality(Working) + 1
  BY <1>5, WorkingFinite, FS_AddElement
<1>7. RoomForEveryCompletion' /\ IsFiniteSet(results')
  BY <1>1, <1>6, FS_CardinalityType, QueueCapAssumption DEF RoomForEveryCompletion, TypeOK, ResultCap
<1>8. QED
  BY <1>2, <1>3, <1>4, <1>7

\* Finishing moves one unit from the work in flight to the completions, or
\* drops it when its epoch is gone.
LEMMA PoolInvFinish ==
    ASSUME NEW t \in Threads
    PROVE  PoolInv /\ ThreadFinish(t) => PoolInv'
<1> SUFFICES ASSUME PoolInv, ThreadFinish(t) PROVE PoolInv'
  OBVIOUS
<1> USE DEF PoolInv, ThreadFinish, poolVars
<1>1. work[t] \in Job /\ CompletionOf(work[t]) \in Completion
  BY CompletionOfType DEF LocalsTyped
<1>2. Working' = Working \ {t} /\ t \in Working
  BY DEF Working, TypeOK
<1>3. Cardinality(Working') = Cardinality(Working) - 1 /\ Cardinality(Working') \in Nat
  <2>1. IsFiniteSet(Working \ {t}) /\ Cardinality(Working \ {t}) = Cardinality(Working) - 1
    BY <1>2, WorkingFinite, FS_RemoveElement
  <2>2. Cardinality(Working \ {t}) \in Nat
    BY <2>1, FS_CardinalityType
  <2>3. QED
    BY <1>2, <2>1, <2>2
<1>4. /\ IsFiniteSet(results') /\ Cardinality(results') \in Nat
      /\ Cardinality(results) \in Nat
      /\ Cardinality(results') <= Cardinality(results) + 1
      /\ results' \subseteq Completion
  BY <1>1, FiledFacts, FS_CardinalityType DEF TypeOK
<1>5. inflight' \in Nat
  BY <1>3 DEF RoomForEveryCompletion
<1>6. active' \in 0 .. ActiveBudget
  BY BudgetAssumption DEF TypeOK
<1>7. TypeOK'
  BY <1>4, <1>5, <1>6 DEF TypeOK
<1>8. LocalsTyped'
  BY DEF LocalsTyped, TypeOK
<1>9. ThreadsAccounted'
  BY BudgetAssumption DEF ThreadsAccounted, TypeOK, Threads
<1>10. Len(jobs) \in Nat /\ jobs' = jobs
  BY DEF TypeOK
<1>11. RoomForEveryCompletion'
  BY SMTT(30), <1>3, <1>4, <1>10, WorkingFinite, QueueCapAssumption DEF RoomForEveryCompletion, ResultCap
<1>12. QED
  BY <1>4, <1>7, <1>8, <1>9, <1>11

\* Waking a waiting thread, or none, is all pthread_cond_signal does.
LEMMA SignalFacts ==
    ASSUME TypeOK, LocalsTyped, ThreadsAccounted, Signal,
           UNCHANGED <<owner, threadCount, work, held>>, owner # "freed"
    PROVE  /\ pc' \in [Threads -> {"unborn", "ready", "waiting", "working", "exited"}]
           /\ Working' = Working
           /\ LocalsTyped'
           /\ ThreadsAccounted'
<1>1. pc' = pc \/ \E t \in Threads : pc[t] = "waiting" /\ pc' = [pc EXCEPT ![t] = "ready"]
  BY DEF Signal, Waiting
<1>2. CASE pc' = pc
  BY <1>2 DEF TypeOK, LocalsTyped, ThreadsAccounted, Working
<1>3. CASE \E t \in Threads : pc[t] = "waiting" /\ pc' = [pc EXCEPT ![t] = "ready"]
  <2>1. PICK t \in Threads : pc[t] = "waiting" /\ pc' = [pc EXCEPT ![t] = "ready"]
    BY <1>3
  <2>2. QED
    BY <2>1 DEF TypeOK, LocalsTyped, ThreadsAccounted, Working
<1>4. QED
  BY <1>1, <1>2, <1>3

\* submit adds at most one unit, and only when there is room for it; an
\* eviction moves one from the ring to the completions.
LEMMA PoolInvSubmit == PoolInv /\ Submit => PoolInv'
<1> SUFFICES ASSUME PoolInv, Submit PROVE PoolInv'
  OBVIOUS
<1> USE DEF PoolInv, poolVars
<1> DEFINE job == [epoch |-> epoch, ordinal |-> nextSubmit, cue |-> accepted + 1,
                   skip |-> active >= ActiveBudget]
           kept == IF Evicting THEN Tail(jobs) ELSE jobs
<1>1. /\ UNCHANGED <<owner, threadCount, stopping, epoch, nextResult, inflight, work, held, log>>
      /\ owner = "running" /\ Admits /\ accepted < MaxCues /\ Signal
      /\ accepted' = accepted + 1 /\ nextSubmit' = NextOrdinal(nextSubmit)
      /\ jobs' = Append(kept, job)
  BY DEF Submit
<1>2. job \in Job
  <2>1. accepted + 1 \in Cues /\ epoch \in Epochs /\ nextSubmit \in Ordinals
    BY <1>1, BoundAssumption DEF TypeOK, Cues
  <2>2. (active >= ActiveBudget) \in BOOLEAN
    OBVIOUS
  <2>3. QED
    BY <2>1, <2>2, Zenon DEF Job
<1>3. Evicting => Head(jobs) \in Job /\ CompletionOf(Head(jobs)) \in Completion /\ Len(jobs) >= 1
  BY CompletionOfType, QueueCapAssumption DEF Evicting, TypeOK
<1>4. /\ kept \in Seq(Job)
      /\ Len(kept) = IF Evicting THEN Len(jobs) - 1 ELSE Len(jobs)
      /\ Len(kept) < QueueCap
  BY <1>3, QueueCapAssumption DEF TypeOK, Evicting
<1>5. jobs' \in Seq(Job) /\ Len(jobs') = Len(kept) + 1
  BY <1>1, <1>2, <1>4
<1>6. /\ IsFiniteSet(results') /\ results' \subseteq Completion
      /\ Cardinality(results) \in Nat /\ Cardinality(results') \in Nat
      /\ Cardinality(results') <= IF Evicting THEN Cardinality(results) + 1
                                  ELSE Cardinality(results)
  <2>1. results' = IF Evicting THEN Filed(results, CompletionOf(Head(jobs))) ELSE results
    BY DEF Submit
  <2>2. CASE Evicting
    BY <1>3, <2>1, <2>2, FiledFacts DEF TypeOK
  <2>3. CASE ~Evicting
    BY <2>1, <2>3, FS_CardinalityType DEF TypeOK
  <2>4. QED
    BY <2>2, <2>3
<1>7. active' \in 0 .. ActiveBudget
  BY BudgetAssumption DEF TypeOK, Submit, ActiveAfterEviction
<1>8. /\ pc' \in [Threads -> {"unborn", "ready", "waiting", "working", "exited"}]
      /\ Working' = Working /\ LocalsTyped' /\ ThreadsAccounted'
  BY <1>1, SignalFacts
<1>9. TypeOK'
  BY <1>1, <1>4, <1>5, <1>6, <1>7, <1>8, NextOrdinalType, QueueCapAssumption, BoundAssumption
  DEF TypeOK
<1>10. RoomForEveryCompletion'
  <2>1. Len(jobs) \in Nat /\ inflight \in Nat /\ QueueCap \in Nat
    BY QueueCapAssumption DEF TypeOK
  <2>2. Len(jobs) + inflight + Cardinality(results) < ResultCap
    BY <1>1 DEF Admits
  <2>3. Len(jobs') + inflight' + Cardinality(results') <= ResultCap
    BY <1>1, <1>4, <1>5, <1>6, <2>1, <2>2 DEF ResultCap
  <2>4. inflight' = Cardinality(Working')
    BY <1>1, <1>8 DEF RoomForEveryCompletion
  <2>5. QED
    BY <2>3, <2>4, Zenon DEF RoomForEveryCompletion, ResultCap
<1>11. QED
  BY <1>6, <1>8, <1>9, <1>10

\* try_deliver removes one completion.
LEMMA PoolInvTryDeliver == PoolInv /\ TryDeliver => PoolInv'
<1> SUFFICES ASSUME PoolInv, NEW c \in results,
                    owner = "running", Remove(c),
                    IF c.epoch = epoch THEN owner' = "delivering" /\ held' = c
                                       ELSE UNCHANGED <<owner, held>>,
                    UNCHANGED <<poolVars, epoch, jobVars, inflight, pc, work, log>>
             PROVE  PoolInv'
  BY DEF TryDeliver
<1> USE DEF PoolInv, poolVars, jobVars, Remove
<1>1. c \in Completion
  BY DEF TypeOK
<1>2. TypeOK'
  BY <1>1, NextOrdinalType DEF TypeOK
<1>3. LocalsTyped' /\ ThreadsAccounted'
  BY <1>1 DEF LocalsTyped, ThreadsAccounted
<1>4. IsFiniteSet(results') /\ Cardinality(results') = Cardinality(results) - 1
      /\ Cardinality(results) \in Nat
  BY FS_RemoveElement, FS_CardinalityType
<1>5. Working' = Working
  BY DEF Working
<1>6. RoomForEveryCompletion'
  <2>1. Len(jobs) \in Nat /\ inflight \in Nat /\ QueueCap \in Nat
    BY QueueCapAssumption DEF TypeOK
  <2>2. jobs' = jobs /\ inflight' = inflight
    OBVIOUS
  <2>3. Len(jobs) + inflight + Cardinality(results) <= ResultCap
        /\ inflight = Cardinality(Working)
    BY DEF RoomForEveryCompletion
  <2>4. Len(jobs') + inflight' + Cardinality(results') <= ResultCap
    BY <1>4, <2>1, <2>2, <2>3 DEF ResultCap
  <2>5. QED
    BY <1>5, <2>2, <2>3, <2>4, Zenon DEF RoomForEveryCompletion, ResultCap
<1>7. QED
  BY <1>2, <1>3, <1>4, <1>6

\* The delivery callback does not touch the pool.
LEMMA PoolInvDeliverHeld == PoolInv /\ DeliverHeld => PoolInv'
<1> SUFFICES ASSUME PoolInv, DeliverHeld PROVE PoolInv'
  OBVIOUS
<1> USE DEF PoolInv, DeliverHeld, poolVars, jobVars, resultVars
<1>1. [epoch |-> held.epoch, cue |-> held.cue] \in Delivery
  BY DEF LocalsTyped, Completion, Delivery
<1>2. TypeOK'
  BY <1>1 DEF TypeOK
<1>3. LocalsTyped' /\ ThreadsAccounted'
  BY DEF LocalsTyped, ThreadsAccounted
<1>4. Working' = Working
  BY DEF Working
<1>5. QED
  BY <1>2, <1>3, <1>4, SameWork

\* Invalidation and destruction empty the ring and the completions.
LEMMA Emptied ==
    ASSUME PoolInv, inflight' = inflight, jobs' = << >>, results' = {}, Working' = Working
    PROVE  IsFiniteSet(results') /\ RoomForEveryCompletion'
<1>1. Cardinality(results) \in Nat /\ Len(jobs) \in Nat /\ inflight \in Nat
  BY FS_CardinalityType DEF PoolInv, TypeOK
<1>2. Len(jobs') = 0 /\ Cardinality(results') = 0 /\ IsFiniteSet(results')
  BY FS_EmptySet
<1>3. QED
  BY <1>1, <1>2, QueueCapAssumption DEF PoolInv, RoomForEveryCompletion, ResultCap

\* invalidate empties the pool except for the work in flight.
LEMMA PoolInvInvalidate == PoolInv /\ Invalidate => PoolInv'
<1> SUFFICES ASSUME PoolInv, Invalidate PROVE PoolInv'
  OBVIOUS
<1> USE DEF PoolInv, Invalidate, poolVars
<1>1. TypeOK'
  BY OrdinalAssumption, QueueCapAssumption, BudgetAssumption, BoundAssumption
  DEF TypeOK, Epochs, Ordinals
<1>2. LocalsTyped' /\ ThreadsAccounted'
  BY DEF LocalsTyped, ThreadsAccounted
<1>3. Working' = Working
  BY DEF Working
<1>4. QED
  BY <1>1, <1>2, <1>3, Emptied

\* destroy keeps the accounting, and releases the pool only when every
\* thread that was started has exited.
LEMMA PoolInvDestroy == PoolInv /\ (Destroy \/ Free \/ Gone) => PoolInv'
<1> USE DEF PoolInv, poolVars, jobVars, resultVars
<1>1. ASSUME PoolInv, Destroy PROVE PoolInv'
  <2> USE <1>1 DEF Destroy, Broadcast
  <2>1. TypeOK'
    BY BudgetAssumption, QueueCapAssumption DEF TypeOK
  <2>2. LocalsTyped' /\ ThreadsAccounted'
    BY DEF LocalsTyped, ThreadsAccounted, TypeOK
  <2>3. Working' = Working
    BY DEF Working, TypeOK
  <2>4. QED
    BY <2>1, <2>2, <2>3, Emptied
<1>2. ASSUME PoolInv, Free PROVE PoolInv'
  <2> USE <1>2 DEF Free
  <2>1. TypeOK'
    BY DEF TypeOK
  <2>2. LocalsTyped' /\ ThreadsAccounted'
    BY DEF LocalsTyped, ThreadsAccounted
  <2>3. Working' = Working
    BY DEF Working
  <2>4. QED
    BY <2>1, <2>2, <2>3, SameWork
<1>3. ASSUME PoolInv, Gone PROVE PoolInv'
  BY <1>3 DEF Gone, vars, TypeOK, LocalsTyped, ThreadsAccounted, RoomForEveryCompletion, Working
<1>4. QED
  BY <1>1, <1>2, <1>3

-----------------------------------------------------------------------------

\* Every step of the owner and of every thread keeps the accounting.
LEMMA PoolInvNext == PoolInv /\ [Next]_vars => PoolInv'
<1> SUFFICES ASSUME PoolInv, [Next]_vars PROVE PoolInv'
  OBVIOUS
<1>1. CASE OwnerStep
  BY <1>1, PoolInvCreate, PoolInvSubmit, PoolInvTryDeliver, PoolInvDeliverHeld,
     PoolInvInvalidate, PoolInvDestroy DEF OwnerStep
<1>2. CASE \E t \in Threads : ThreadStep(t) \/ SpuriousWakeup(t)
  BY <1>2, PoolInvIdle, PoolInvTake, PoolInvFinish DEF ThreadStep
<1>3. CASE Gone
  BY <1>3, PoolInvDestroy
<1>4. CASE UNCHANGED vars
  BY <1>4 DEF vars, PoolInv, TypeOK, LocalsTyped, ThreadsAccounted, RoomForEveryCompletion, Working
<1>5. QED
  BY <1>1, <1>2, <1>3, <1>4 DEF Next

\* The accounting invariant holds in every reachable state of every pool.
THEOREM PoolInvariant == Spec => []PoolInv
<1>1. Init => PoolInv
  BY PoolInvInit
<1>2. PoolInv /\ [Next]_vars => PoolInv'
  BY PoolInvNext
<1>3. QED
  BY <1>1, <1>2, PTL DEF Spec

\* Every field keeps its declared range; in particular inflight_count, a
\* size_t that is decremented without a test, never goes below zero, and the
\* budget counter never passes ACTIVE_BUDGET.
THEOREM TypeCorrect == Spec => []TypeOK
<1>1. PoolInv => TypeOK
  BY DEF PoolInv
<1>2. QED
  BY <1>1, PoolInvariant, PTL

\* push_result_locked never finds the completion array full: what its
\* comment claims, for every thread count and capacity, stale work included.
THEOREM CompletionsFit == Spec => []RoomForEveryCompletion
<1>1. PoolInv => RoomForEveryCompletion
  BY DEF PoolInv
<1>2. QED
  BY <1>1, PoolInvariant, PTL

\* No translation thread can touch the mutex after destroy, or a failed
\* create, has released it.
THEOREM PoolOutlivesThreads == Spec => []NoThreadOutlivesPool
<1>1. PoolInv => NoThreadOutlivesPool
  BY DEF PoolInv, ThreadsAccounted, NoThreadOutlivesPool, TypeOK, Threads
<1>2. QED
  BY <1>1, PoolInvariant, PTL

-----------------------------------------------------------------------------
(* Order: which cue is where, and which ordinal it carries.                *)

\* Ordinal o is the one cue c was given: they agree up to wrap-arounds.
HasOrdinal(c, o) == \E k \in 0 .. c : c = o + k * MaxOrdinal

\* The newest cue that is no longer in the ring.
LastTaken == accepted - Len(jobs)

\* The ring holds the newest cues, in the order they were accepted.
RingInOrder ==
    \A i \in DOMAIN jobs :
        /\ jobs[i].epoch = epoch
        /\ jobs[i].cue = LastTaken + i
        /\ HasOrdinal(jobs[i].cue, jobs[i].ordinal)

\* A thread working for this epoch has a cue of its own, older than the ring
\* and newer than what was consumed.
WorkInOrder ==
    \A t \in CurrentWork :
        /\ Consumed < work[t].cue /\ work[t].cue <= LastTaken
        /\ HasOrdinal(work[t].cue, work[t].ordinal)
        /\ \A u \in CurrentWork : work[u].cue = work[t].cue => u = t

\* The same of a completion.
ResultsInOrder ==
    \A r \in results :
        /\ r.epoch = epoch
        /\ Consumed < r.cue /\ r.cue <= LastTaken
        /\ HasOrdinal(r.cue, r.ordinal)
        /\ \A q \in results : q.cue = r.cue => q = r
        /\ \A t \in CurrentWork : work[t].cue # r.cue

\* No cue that left the ring and was not consumed is lost.
NoneLost ==
    \A c \in Cues : Consumed < c /\ c <= LastTaken =>
        \/ \E t \in CurrentWork : work[t].cue = c
        \/ \E r \in results : r.cue = c

\* The two ordinals that submit and try_deliver use next belong to the next
\* cue to accept and to consume, and the window between them is what the
\* three places hold together.
WindowCounted ==
    /\ HasOrdinal(accepted + 1, nextSubmit)
    /\ HasOrdinal(Consumed + 1, nextResult)
    /\ accepted = Consumed + Len(jobs) + Cardinality(CurrentWork) + Cardinality(results)

\* What is known of the deliveries made and of the one being made.
DeliveriesKnown ==
    /\ log # << >> => log[Len(log)].epoch <= epoch
    /\ owner = "delivering" =>
           held.epoch = epoch /\ held.cue = Stream!DeliveredOf(log, epoch) + 1

\* The inductive invariant of the order.
OrderInv ==
    /\ \A t \in Working : work[t].epoch <= epoch
    /\ DeliveriesKnown
    /\ RingInOrder
    /\ stopping => owner \in {"joining", "freed"}
    /\ ~stopping =>
        /\ owner \in {"creating", "running", "delivering"}
        /\ WorkInOrder /\ ResultsInOrder /\ NoneLost /\ WindowCounted

\* vw_translate_async_next_ordinal gives the next cue its ordinal.
LEMMA OrdinalStep ==
    ASSUME NEW c \in Nat, NEW o \in Ordinals, HasOrdinal(c, o)
    PROVE  HasOrdinal(c + 1, NextOrdinal(o))
<1>1. MaxOrdinal \in Nat /\ o \in 1 .. MaxOrdinal
  BY OrdinalAssumption DEF Ordinals
<1>2. PICK k \in 0 .. c : c = o + k * MaxOrdinal
  BY DEF HasOrdinal
<1>3. CASE o = MaxOrdinal
  <2>1. (k + 1) * MaxOrdinal = k * MaxOrdinal + MaxOrdinal
    BY <1>1
  <2>2. c + 1 = 1 + (k + 1) * MaxOrdinal /\ k + 1 \in 0 .. c + 1
    BY <1>1, <1>2, <1>3, <2>1
  <2>3. QED
    BY <1>3, <2>2 DEF HasOrdinal, NextOrdinal
<1>4. CASE o # MaxOrdinal
  <2>1. c + 1 = (o + 1) + k * MaxOrdinal /\ k \in 0 .. c + 1
    BY <1>1, <1>2
  <2>2. QED
    BY <1>4, <2>1 DEF HasOrdinal, NextOrdinal
<1>5. QED
  BY <1>3, <1>4

\* Two cues less than UINT64_MAX apart never share an ordinal.
LEMMA OrdinalsApart ==
    ASSUME NEW c \in Nat, NEW d \in Nat, NEW o \in Ordinals,
           HasOrdinal(c, o), HasOrdinal(d, o), c <= d, d < c + MaxOrdinal
    PROVE  c = d
<1>1. MaxOrdinal \in Nat /\ o \in 1 .. MaxOrdinal
  BY OrdinalAssumption DEF Ordinals
<1>2. PICK k \in 0 .. c : c = o + k * MaxOrdinal
  BY DEF HasOrdinal
<1>3. PICK m \in 0 .. d : d = o + m * MaxOrdinal
  BY DEF HasOrdinal
<1>4. ~ (m >= k + 1)
  <2>1. SUFFICES ASSUME m >= k + 1 PROVE FALSE
    OBVIOUS
  <2>2. PICK n \in Nat : m = k + 1 + n
    <3>1. m - k - 1 \in Nat /\ m = k + 1 + (m - k - 1)
      BY <2>1
    <3>2. QED
      BY <3>1
  <2>3. m * MaxOrdinal = k * MaxOrdinal + MaxOrdinal + n * MaxOrdinal
    BY <1>1, <2>2
  <2>4. n * MaxOrdinal \in Nat /\ k * MaxOrdinal \in Nat /\ m * MaxOrdinal \in Nat
    BY <1>1, <2>2
  <2>5. QED
    BY <1>1, <1>2, <1>3, <2>3, <2>4
<1>5. ~ (k >= m + 1)
  <2>1. SUFFICES ASSUME k >= m + 1 PROVE FALSE
    OBVIOUS
  <2>2. PICK n \in Nat : k = m + 1 + n
    <3>1. k - m - 1 \in Nat /\ k = m + 1 + (k - m - 1)
      BY <2>1
    <3>2. QED
      BY <3>1
  <2>3. k * MaxOrdinal = m * MaxOrdinal + MaxOrdinal + n * MaxOrdinal
    BY <1>1, <2>2
  <2>4. n * MaxOrdinal \in Nat /\ k * MaxOrdinal \in Nat /\ m * MaxOrdinal \in Nat
    BY <1>1, <2>2
  <2>5. QED
    BY <1>1, <1>2, <1>3, <2>3, <2>4
<1>6. QED
  BY <1>2, <1>3, <1>4, <1>5

\* The types the order is stated with.
LEMMA OrderTypes ==
    ASSUME PoolInv
    PROVE  /\ Consumed \in Nat /\ Len(jobs) \in Nat /\ accepted \in Nat /\ epoch \in Nat
           /\ LastTaken \in Int
           /\ IsFiniteSet(CurrentWork) /\ Cardinality(CurrentWork) \in Nat
           /\ Cardinality(CurrentWork) <= inflight
           /\ Cardinality(results) \in Nat
           /\ \A t \in CurrentWork : t \in Threads /\ pc[t] = "working" /\ work[t] \in Job
           /\ \A t \in Working : work[t].epoch \in Nat /\ work[t].cue \in Nat
           /\ \A r \in results : r \in Completion /\ r.cue \in Nat /\ r.ordinal \in Ordinals
           /\ \A i \in DOMAIN jobs : jobs[i] \in Job
           /\ DOMAIN jobs = 1 .. Len(jobs)
<1> USE BoundAssumption DEF PoolInv
<1>1. Len(jobs) \in Nat /\ accepted \in Nat /\ epoch \in Nat /\ LastTaken \in Int
  BY DEF TypeOK, Epochs, LastTaken
<1>2. Consumed \in Nat
  <2>1. CASE owner = "delivering"
    BY <2>1 DEF LocalsTyped, Consumed, Completion, Cues
  <2>2. CASE owner # "delivering" /\ log # << >>
    <3>1. log[Len(log)] \in Delivery
      BY <2>2 DEF TypeOK
    <3>2. QED
      BY <2>2, <3>1 DEF Consumed, Stream!DeliveredOf, Delivery, Cues
  <2>3. CASE owner # "delivering" /\ log = << >>
    BY <2>3 DEF Consumed, Stream!DeliveredOf
  <2>4. QED
    BY <2>1, <2>2, <2>3
<1>3. /\ IsFiniteSet(CurrentWork) /\ Cardinality(CurrentWork) \in Nat
      /\ Cardinality(CurrentWork) <= inflight
  <2>1. CurrentWork \in SUBSET Working
    BY DEF CurrentWork
  <2>2. QED
    BY <2>1, WorkingFinite, FS_Subset, FS_CardinalityType DEF RoomForEveryCompletion
<1>4. Cardinality(results) \in Nat
  BY FS_CardinalityType
<1>5. \A t \in CurrentWork : t \in Threads /\ pc[t] = "working" /\ work[t] \in Job
  BY DEF CurrentWork, Working, LocalsTyped
<1>6. \A t \in Working : work[t].epoch \in Nat /\ work[t].cue \in Nat
  BY DEF Working, LocalsTyped, Job, Epochs, Cues
<1>7. \A r \in results : r \in Completion /\ r.cue \in Nat /\ r.ordinal \in Ordinals
  BY DEF TypeOK, Completion, Cues
<1>8. (\A i \in DOMAIN jobs : jobs[i] \in Job) /\ DOMAIN jobs = 1 .. Len(jobs)
  BY DEF TypeOK
<1>9. QED
  BY <1>1, <1>2, <1>3, <1>4, <1>5, <1>6, <1>7, <1>8

-----------------------------------------------------------------------------

\* create begins with nothing accepted and nothing anywhere.
LEMMA OrderInit == Init => OrderInv
<1> SUFFICES ASSUME Init PROVE OrderInv
  OBVIOUS
<1> USE DEF Init
<1>1. Working = {} /\ CurrentWork = {}
  BY DEF Working, CurrentWork
<1>2. Consumed = 0 /\ LastTaken = 0
  <2>1. Stream!DeliveredOf(log, epoch) = 0
    BY DEF Stream!DeliveredOf
  <2>2. Consumed = 0
    BY <2>1 DEF Consumed
  <2>3. LastTaken = 0
    <3>1. Len(jobs) = 0 /\ accepted = 0
      OBVIOUS
    <3> HIDE DEF Init
    <3>2. QED
      BY <3>1 DEF LastTaken
  <2>4. QED
    BY <2>2, <2>3
<1>3. HasOrdinal(1, 1)
  <2>1. 0 \in 0 .. 1 /\ 1 = 1 + 0 * MaxOrdinal
    BY OrdinalAssumption
  <2>2. QED
    BY <2>1 DEF HasOrdinal
<1>4. DeliveriesKnown /\ RingInOrder
  BY DEF DeliveriesKnown, RingInOrder
<1>5. WorkInOrder /\ ResultsInOrder /\ NoneLost
  BY <1>1, <1>2 DEF WorkInOrder, ResultsInOrder, NoneLost, Cues
<1>6. WindowCounted
  BY <1>1, <1>2, <1>3, FS_EmptySet DEF WindowCounted
<1>7. QED
  BY <1>1, <1>4, <1>5, <1>6 DEF OrderInv

\* A step that moves no cue and delivers nothing keeps the order.
LEMMA SameOrder ==
    ASSUME OrderInv, Working' = Working,
           UNCHANGED <<stopping, epoch, nextSubmit, nextResult, jobs, results, work, held, accepted, log>>,
           \/ owner' = owner
           \/ owner = "creating" /\ owner' = "running"
           \/ owner = "joining" /\ owner' = "freed"
    PROVE  OrderInv'
<1>1. CurrentWork' = CurrentWork
  BY DEF CurrentWork
<1>2. DeliveriesKnown'
  BY DEF OrderInv, DeliveriesKnown
<1>3. Consumed' = Consumed /\ LastTaken' = LastTaken
  BY DEF Consumed, LastTaken
<1>4. RingInOrder'
  BY <1>3 DEF OrderInv, RingInOrder
<1>5. ~stopping => WorkInOrder' /\ ResultsInOrder' /\ NoneLost' /\ WindowCounted'
  BY <1>1, <1>3 DEF OrderInv, WorkInOrder, ResultsInOrder, NoneLost, WindowCounted
<1>6. QED
  BY <1>1, <1>2, <1>4, <1>5 DEF OrderInv

\* Creating, sleeping, waking, ending and joining threads move no cue; a
\* failed create only stops the pool.
LEMMA OrderIdle ==
    ASSUME PoolInv, OrderInv,
           \/ CreateThread \/ CreateFails \/ Free \/ Gone
           \/ \E t \in Threads : ThreadWait(t) \/ ThreadExit(t) \/ SpuriousWakeup(t)
    PROVE  OrderInv'
<1> USE DEF PoolInv, poolVars, jobVars, resultVars
<1>1. CASE CreateThread
  <2>1. threadCount + 1 \in Threads /\ pc[threadCount + 1] = "unborn"
    BY <1>1, BudgetAssumption DEF CreateThread, ThreadsAccounted, TypeOK, Threads
  <2>2. Working' = Working
    BY <1>1, <2>1 DEF CreateThread, Working, TypeOK
  <2>3. QED
    BY <1>1, <2>2, SameOrder DEF CreateThread
<1>2. CASE CreateFails
  <2>1. Working' = Working
    BY <1>2 DEF CreateFails, Broadcast, Working, TypeOK
  <2>2. DeliveriesKnown' /\ RingInOrder'
    BY <1>2 DEF CreateFails, OrderInv, DeliveriesKnown, RingInOrder, LastTaken
  <2>3. QED
    BY <1>2, <2>1, <2>2 DEF CreateFails, OrderInv
<1>3. CASE Free
  BY <1>3, SameOrder DEF Free, Working
<1>4. CASE Gone
  BY <1>4, SameOrder DEF Gone, vars, Working
<1>5. CASE \E t \in Threads : ThreadWait(t) \/ ThreadExit(t) \/ SpuriousWakeup(t)
  <2>1. PICK t \in Threads : ThreadWait(t) \/ ThreadExit(t) \/ SpuriousWakeup(t)
    BY <1>5
  <2>2. Working' = Working
    BY <2>1 DEF ThreadWait, ThreadExit, SpuriousWakeup, Working, TypeOK
  <2>3. QED
    BY <2>1, <2>2, SameOrder DEF ThreadWait, ThreadExit, SpuriousWakeup
<1>6. QED
  BY <1>1, <1>2, <1>3, <1>4, <1>5

\* Taking the head of the ring moves the oldest queued cue to a thread.
LEMMA OrderTake ==
    ASSUME PoolInv, OrderInv, NEW t \in Threads, ThreadTake(t)
    PROVE  OrderInv'
<1> USE DEF poolVars, resultVars
<1> DEFINE j == Head(jobs)
<1>1. /\ pc[t] = "ready" /\ jobs # << >> /\ jobs' = Tail(jobs)
      /\ pc' = [pc EXCEPT ![t] = "working"] /\ work' = [work EXCEPT ![t] = j]
      /\ UNCHANGED <<owner, stopping, epoch, nextSubmit, nextResult, results, held, accepted, log>>
  BY DEF ThreadTake
<1>2. /\ pc \in [Threads -> {"unborn", "ready", "waiting", "working", "exited"}]
      /\ work \in [Threads -> Job \cup {NoJob}]
      /\ jobs \in Seq(Job)
  BY DEF PoolInv, TypeOK
<1>3. /\ 1 \in DOMAIN jobs /\ j = jobs[1] /\ Len(jobs) \in Nat \ {0}
      /\ Len(jobs') = Len(jobs) - 1 /\ DOMAIN jobs' = 1 .. Len(jobs) - 1
      /\ \A i \in DOMAIN jobs' : i + 1 \in DOMAIN jobs /\ jobs'[i] = jobs[i + 1]
  BY <1>1, <1>2
<1>4. j \in Job /\ j.epoch = epoch /\ j.cue = LastTaken + 1 /\ HasOrdinal(j.cue, j.ordinal)
  BY <1>3, <1>2 DEF OrderInv, RingInOrder
<1>5. Consumed' = Consumed /\ LastTaken' = LastTaken + 1
  BY <1>1, <1>3, OrderTypes DEF Consumed, LastTaken
<1>6. DeliveriesKnown'
  BY <1>1 DEF OrderInv, DeliveriesKnown
<1>7. RingInOrder'
  <2>1. SUFFICES ASSUME NEW i \in DOMAIN jobs'
                 PROVE  /\ jobs'[i].epoch = epoch'
                        /\ jobs'[i].cue = LastTaken' + i
                        /\ HasOrdinal(jobs'[i].cue, jobs'[i].ordinal)
    BY DEF RingInOrder, HasOrdinal
  <2>2. i \in Int /\ i + 1 \in DOMAIN jobs /\ jobs'[i] = jobs[i + 1]
    BY <1>3
  <2>3. /\ jobs[i + 1].epoch = epoch /\ jobs[i + 1].cue = LastTaken + (i + 1)
        /\ HasOrdinal(jobs[i + 1].cue, jobs[i + 1].ordinal)
    BY <2>2 DEF OrderInv, RingInOrder
  <2>4. QED
    BY <1>1, <1>5, <2>2, <2>3, OrderTypes
<1>8. /\ Working' = Working \cup {t} /\ t \notin Working
      /\ \A u \in Working : work'[u] = work[u]
      /\ work'[t] = j
  BY <1>1, <1>2 DEF Working
<1>9. \A u \in Working' : work'[u].epoch <= epoch'
  BY <1>1, <1>4, <1>8, OrderTypes DEF OrderInv
<1>10. CurrentWork' = CurrentWork \cup {t} /\ t \notin CurrentWork
       /\ \A u \in CurrentWork : work'[u] = work[u]
  BY <1>1, <1>4, <1>8 DEF CurrentWork
<1>11. ASSUME ~stopping
       PROVE  WorkInOrder' /\ ResultsInOrder' /\ NoneLost' /\ WindowCounted'
  <2>1. Cardinality(CurrentWork') = Cardinality(CurrentWork) + 1
    BY <1>10, OrderTypes, FS_AddElement
  <2>2. WindowCounted'
    BY <1>1, <1>3, <1>5, <1>11, <2>1, OrderTypes DEF OrderInv, WindowCounted
  <2>3. Consumed <= LastTaken
    BY SMTT(30), <1>11, OrderTypes DEF OrderInv, WindowCounted, LastTaken
  <2>4. WorkInOrder'
    <3>1. /\ \A u \in CurrentWork' : Consumed' < work'[u].cue /\ work'[u].cue <= LastTaken'
          /\ \A u \in CurrentWork : work'[u].cue # work'[t].cue
      <4>1. \A u \in CurrentWork : Consumed < work[u].cue /\ work[u].cue <= LastTaken
            /\ work[u].cue \in Nat
        BY <1>11, OrderTypes DEF OrderInv, WorkInOrder, CurrentWork
      <4>2. QED
        BY <1>4, <1>5, <1>8, <1>10, <2>3, <4>1, OrderTypes
    <3>2. \A u \in CurrentWork' : HasOrdinal(work'[u].cue, work'[u].ordinal)
      BY <1>4, <1>8, <1>10, <1>11 DEF OrderInv, WorkInOrder
    <3>3. \A u, v \in CurrentWork' : work'[v].cue = work'[u].cue => v = u
      BY <1>10, <1>11, <3>1 DEF OrderInv, WorkInOrder
    <3>4. QED
      BY <3>1, <3>2, <3>3 DEF WorkInOrder, HasOrdinal
  <2>5. ResultsInOrder'
    BY <1>1, <1>4, <1>5, <1>8, <1>10, <1>11, <2>3, OrderTypes DEF OrderInv, ResultsInOrder
  <2>6. NoneLost'
    BY <1>1, <1>4, <1>5, <1>8, <1>10, <1>11, <2>3, OrderTypes, BoundAssumption
    DEF OrderInv, NoneLost, Cues
  <2>7. QED
    BY <2>2, <2>4, <2>5, <2>6
<1>12. QED
  BY <1>1, <1>6, <1>7, <1>9, <1>11 DEF OrderInv

\* Finishing files a completion of this epoch under the cue the thread had,
\* and drops work of an older one.
LEMMA OrderFinish ==
    ASSUME PoolInv, OrderInv, NEW t \in Threads, ThreadFinish(t)
    PROVE  OrderInv'
<1> USE DEF poolVars
<1> DEFINE c == CompletionOf(work[t])
<1>1. /\ pc[t] = "working"
      /\ pc' = [pc EXCEPT ![t] = "ready"] /\ work' = [work EXCEPT ![t] = NoJob]
      /\ results' = IF ~stopping /\ work[t].epoch = epoch THEN Filed(results, c) ELSE results
      /\ UNCHANGED <<owner, stopping, epoch, nextSubmit, nextResult, jobs, held, accepted, log>>
  BY DEF ThreadFinish
<1>2. /\ pc \in [Threads -> {"unborn", "ready", "waiting", "working", "exited"}]
      /\ work \in [Threads -> Job \cup {NoJob}]
  BY DEF PoolInv, TypeOK
<1>3. Consumed' = Consumed /\ LastTaken' = LastTaken
  BY <1>1 DEF Consumed, LastTaken
<1>4. DeliveriesKnown' /\ RingInOrder'
  BY <1>1, <1>3 DEF OrderInv, DeliveriesKnown, RingInOrder
<1>5. /\ Working' = Working \ {t} /\ t \in Working
      /\ \A u \in Working \ {t} : work'[u] = work[u]
  BY <1>1, <1>2 DEF Working
<1>6. \A u \in Working' : work'[u].epoch <= epoch'
  BY <1>1, <1>5 DEF OrderInv
<1>7. /\ CurrentWork' = CurrentWork \ {t}
      /\ \A u \in CurrentWork' : u \in CurrentWork /\ work'[u] = work[u]
      /\ t \in CurrentWork <=> work[t].epoch = epoch
  BY <1>1, <1>5 DEF CurrentWork
<1>8. ASSUME ~stopping
      PROVE  WorkInOrder' /\ ResultsInOrder' /\ NoneLost' /\ WindowCounted'
  <2>1. WorkInOrder'
    BY <1>3, <1>7, <1>8 DEF OrderInv, WorkInOrder, HasOrdinal
  <2>2. CASE work[t].epoch # epoch
    <3>1. CurrentWork' = CurrentWork /\ results' = results
      BY <1>1, <1>7, <2>2
    <3>2. ResultsInOrder' /\ NoneLost'
      BY <1>1, <1>3, <1>7, <1>8, <3>1 DEF OrderInv, ResultsInOrder, NoneLost
    <3>3. WindowCounted'
      BY <1>1, <1>3, <1>8, <3>1 DEF OrderInv, WindowCounted
    <3>4. QED
      BY <2>1, <3>2, <3>3
  <2>3. CASE work[t].epoch = epoch
    <3>1. t \in CurrentWork /\ work[t] \in Job
      BY <1>7, <2>3, OrderTypes
    <3>2. /\ c.epoch = epoch /\ c.cue = work[t].cue
          /\ Consumed < c.cue /\ c.cue <= LastTaken
          /\ HasOrdinal(c.cue, c.ordinal)
          /\ \A u \in CurrentWork' : work'[u].cue # c.cue
          /\ \A r \in results : r.cue # c.cue
      BY <1>7, <1>8, <2>3, <3>1 DEF OrderInv, WorkInOrder, ResultsInOrder, CompletionOf
    <3>3. c \notin results
      BY <3>2
    <3>4. Cardinality(results) < ResultCap
      <4>1. inflight >= 1
        <5>1. Cardinality(Working \ {t}) = Cardinality(Working) - 1
              /\ Cardinality(Working \ {t}) \in Nat
          BY <1>5, WorkingFinite, FS_RemoveElement, FS_CardinalityType
        <5>2. QED
          BY <5>1, WorkingFinite DEF PoolInv, RoomForEveryCompletion
      <4>2. inflight \in Nat /\ Len(jobs) + inflight + Cardinality(results) <= ResultCap
        BY DEF PoolInv, TypeOK, RoomForEveryCompletion
      <4>3. QED
        BY <4>1, <4>2, OrderTypes, QueueCapAssumption DEF ResultCap
    <3>5. results' = results \cup {c}
      <4>1. Cardinality(results) \in Nat /\ ResultCap \in Nat
        BY OrderTypes, QueueCapAssumption DEF ResultCap
      <4>2. ~(Cardinality(results) >= ResultCap)
        BY <3>4, <4>1
      <4>3. QED
        BY <1>1, <1>8, <2>3, <4>2 DEF Filed
    <3>6. /\ Cardinality(results') = Cardinality(results) + 1
          /\ Cardinality(CurrentWork') = Cardinality(CurrentWork) - 1
      <4>1. IsFiniteSet(results) /\ IsFiniteSet(CurrentWork)
        BY OrderTypes DEF PoolInv
      <4>2. QED
        BY <1>7, <3>1, <3>3, <3>5, <4>1, FS_AddElement, FS_RemoveElement
    <3>7. ResultsInOrder'
      <4>1. \A r \in results' : r.epoch = epoch' /\ Consumed' < r.cue /\ r.cue <= LastTaken'
            /\ HasOrdinal(r.cue, r.ordinal)
        BY <1>1, <1>3, <1>8, <3>2, <3>5 DEF OrderInv, ResultsInOrder
      <4>2. \A q, r \in results' : q.cue = r.cue => q = r
        BY <1>8, <3>2, <3>5 DEF OrderInv, ResultsInOrder
      <4>3. \A r \in results' : \A u \in CurrentWork' : work'[u].cue # r.cue
        BY <1>7, <1>8, <3>2, <3>5 DEF OrderInv, ResultsInOrder
      <4>4. QED
        BY <4>1, <4>2, <4>3 DEF ResultsInOrder, HasOrdinal
    <3>8. NoneLost'
      BY <1>3, <1>7, <1>8, <3>2, <3>5 DEF OrderInv, NoneLost
    <3>9. WindowCounted'
      BY <1>1, <1>3, <1>8, <3>6, OrderTypes DEF OrderInv, WindowCounted
    <3>10. QED
      BY <2>1, <3>7, <3>8, <3>9
  <2>4. QED
    BY <2>2, <2>3
<1>9. QED
  BY <1>1, <1>4, <1>6, <1>8 DEF OrderInv

\* destroy forgets the cues; what is left is the order of what was delivered.
LEMMA OrderDestroy == PoolInv /\ OrderInv /\ Destroy => OrderInv'
<1> SUFFICES ASSUME PoolInv, OrderInv, Destroy PROVE OrderInv'
  OBVIOUS
<1>1. Working' = Working
  BY DEF Destroy, Broadcast, Working, PoolInv, TypeOK
<1>2. jobs' = << >> /\ stopping' = TRUE /\ owner' = "joining" /\ UNCHANGED <<epoch, work, log>>
  BY DEF Destroy
<1>3. DeliveriesKnown' /\ RingInOrder'
  BY <1>2 DEF OrderInv, DeliveriesKnown, RingInOrder
<1>4. QED
  BY <1>1, <1>2, <1>3 DEF OrderInv

\* invalidate starts an epoch that owns none of the work in flight.
LEMMA OrderInvalidate == PoolInv /\ OrderInv /\ Invalidate => OrderInv'
<1> SUFFICES ASSUME PoolInv, OrderInv, Invalidate PROVE OrderInv'
  OBVIOUS
<1>1. /\ owner = "running" /\ epoch' = epoch + 1 /\ nextSubmit' = 1 /\ nextResult' = 1
      /\ jobs' = << >> /\ results' = {} /\ accepted' = 0
      /\ UNCHANGED <<owner, stopping, pc, work, held, log>>
  BY DEF Invalidate, poolVars
<1>2. Working' = Working
  BY <1>1 DEF Working
<1>3. \A t \in Working' : work'[t].epoch <= epoch' /\ work'[t].epoch # epoch'
  BY <1>1, <1>2, OrderTypes DEF OrderInv
<1>4. CurrentWork' = {}
  BY <1>3 DEF CurrentWork
<1>5. log # << >> => log[Len(log)].epoch <= epoch /\ log[Len(log)].epoch \in Nat
  <2>1. log # << >> => log[Len(log)] \in Delivery
    BY DEF PoolInv, TypeOK
  <2>2. log # << >> => log[Len(log)].epoch \in Nat
    BY <2>1, BoundAssumption DEF Delivery, Epochs
  <2>3. QED
    BY <2>2 DEF OrderInv, DeliveriesKnown
<1>6. Stream!DeliveredOf(log', epoch') = 0 /\ DeliveriesKnown'
  BY <1>1, <1>5, OrderTypes DEF Stream!DeliveredOf, DeliveriesKnown
<1>7. Consumed' = 0
  BY <1>1, <1>6 DEF Consumed
<1>8. Len(jobs') = 0 /\ DOMAIN jobs' = {}
  BY <1>1
<1>9. LastTaken' = 0
  <2>1. accepted' = 0 /\ Len(jobs') = 0
    BY <1>1, <1>8
  <2>2. QED
    BY <2>1 DEF LastTaken
<1>10. RingInOrder' /\ WorkInOrder' /\ ResultsInOrder' /\ NoneLost'
  BY <1>1, <1>4, <1>7, <1>8, <1>9 DEF RingInOrder, WorkInOrder, ResultsInOrder, NoneLost, Cues
<1>11. HasOrdinal(1, 1)
  <2>1. 0 \in 0 .. 1 /\ 1 = 1 + 0 * MaxOrdinal
    BY OrdinalAssumption
  <2>2. QED
    BY <2>1 DEF HasOrdinal
<1>12. WindowCounted'
  <2>1. HasOrdinal(accepted' + 1, nextSubmit') /\ HasOrdinal(Consumed' + 1, nextResult')
    BY <1>1, <1>7, <1>11
  <2>2. Cardinality(CurrentWork') = 0 /\ Cardinality(results') = 0
    BY <1>1, <1>4, FS_EmptySet
  <2>3. accepted' = Consumed' + Len(jobs') + Cardinality(CurrentWork') + Cardinality(results')
    <3>1. accepted' = 0
      BY <1>1
    <3>2. QED
      BY <1>7, <1>8, <2>2, <3>1
  <2>4. QED
    BY <2>1, <2>3 DEF WindowCounted, HasOrdinal
<1>13. QED
  BY <1>1, <1>3, <1>6, <1>10, <1>12 DEF OrderInv

\* submit puts the new cue last in the ring; an eviction files the oldest
\* queued cue, whose turn comes before every other one in the ring.
LEMMA OrderSubmit == PoolInv /\ OrderInv /\ Submit => OrderInv'
<1> SUFFICES ASSUME PoolInv, OrderInv, Submit PROVE OrderInv'
  OBVIOUS
<1> DEFINE job == [epoch |-> epoch, ordinal |-> nextSubmit, cue |-> accepted + 1,
                   skip |-> active >= ActiveBudget]
           kept == IF Evicting THEN Tail(jobs) ELSE jobs
           e == CompletionOf(Head(jobs))
<1>1. /\ UNCHANGED <<owner, threadCount, stopping, epoch, nextResult, inflight, work, held, log>>
      /\ owner = "running" /\ ~stopping /\ Admits /\ Signal
      /\ accepted' = accepted + 1 /\ nextSubmit' = NextOrdinal(nextSubmit)
      /\ jobs' = Append(kept, job)
      /\ results' = IF Evicting THEN Filed(results, e) ELSE results
  BY DEF Submit, poolVars
<1>2. Working' = Working
  BY <1>1, SignalFacts DEF PoolInv
<1>3. CurrentWork' = CurrentWork
  BY <1>1, <1>2 DEF CurrentWork
<1>4. Consumed' = Consumed /\ DeliveriesKnown'
  BY <1>1 DEF Consumed, OrderInv, DeliveriesKnown
<1>5. jobs \in Seq(Job) /\ nextSubmit \in Ordinals
  BY DEF PoolInv, TypeOK
<1>6. Evicting => /\ 1 \in DOMAIN jobs /\ Head(jobs) = jobs[1] /\ Len(jobs) >= 1
                  /\ Head(jobs) \in Job
  BY <1>5, QueueCapAssumption DEF Evicting
<1>7. /\ kept \in Seq(Job) /\ Len(kept) \in Nat
      /\ Len(kept) = IF Evicting THEN Len(jobs) - 1 ELSE Len(jobs)
      /\ \A i \in 1 .. Len(kept) :
            kept[i] = IF Evicting THEN jobs[i + 1] ELSE jobs[i]
  BY <1>5, <1>6
<1>8. /\ job.epoch = epoch /\ job.cue = accepted + 1 /\ HasOrdinal(job.cue, job.ordinal)
  BY <1>1 DEF OrderInv, WindowCounted
<1>9. /\ Len(jobs') = Len(kept) + 1 /\ DOMAIN jobs' = 1 .. Len(kept) + 1
      /\ \A i \in 1 .. Len(kept) : jobs'[i] = kept[i]
      /\ jobs'[Len(kept) + 1] = job
  <2> HIDE DEF job, kept
  <2>1. QED
    BY <1>1, <1>7
<1>10. LastTaken' = accepted - Len(kept) /\ LastTaken' \in Int
       /\ LastTaken' = IF Evicting THEN LastTaken + 1 ELSE LastTaken
  <2> HIDE DEF job, kept
  <2>1. accepted \in Nat /\ Len(jobs) \in Nat /\ accepted' = accepted + 1
    BY <1>1, OrderTypes
  <2>2. /\ Len(kept) \in Nat /\ Len(jobs') = Len(kept) + 1
        /\ Len(kept) = IF Evicting THEN Len(jobs) - 1 ELSE Len(jobs)
    BY <1>7, <1>9
  <2>3. QED
    BY <2>1, <2>2 DEF LastTaken
<1>11. RingInOrder'
  <2> HIDE DEF job, kept
  <2>1. SUFFICES ASSUME NEW i \in DOMAIN jobs'
                 PROVE  /\ jobs'[i].epoch = epoch'
                        /\ jobs'[i].cue = LastTaken' + i
                        /\ HasOrdinal(jobs'[i].cue, jobs'[i].ordinal)
    BY DEF RingInOrder, HasOrdinal
  <2>2. CASE i = Len(kept) + 1
    <3>1. accepted \in Nat /\ Len(kept) \in Nat /\ epoch' = epoch /\ LastTaken' = accepted - Len(kept)
      BY <1>1, <1>7, <1>10, OrderTypes
    <3>2. jobs'[i] = job
      BY <1>9, <2>2
    <3>3. accepted + 1 = LastTaken' + i
      BY <2>2, <3>1
    <3>4. QED
      BY SMTT(30), <1>8, <3>1, <3>2, <3>3
  <2>3. CASE i \in 1 .. Len(kept)
    <3>1. PICK m \in DOMAIN jobs : kept[i] = jobs[m] /\ m = IF Evicting THEN i + 1 ELSE i
      BY <1>5, <1>7, <2>3
    <3>2. jobs[m].epoch = epoch /\ jobs[m].cue = LastTaken + m /\ HasOrdinal(jobs[m].cue, jobs[m].ordinal)
      BY DEF OrderInv, RingInOrder
    <3>3. LastTaken + m = LastTaken' + i
      BY SMTT(30), <1>10, <2>3, <3>1, OrderTypes
    <3>4. jobs'[i] = jobs[m]
      BY <1>9, <2>3, <3>1
    <3>5. QED
      BY <1>1, <3>2, <3>3, <3>4
  <2>4. QED
    BY <1>7, <1>9, <2>2, <2>3
<1>12. /\ Consumed <= LastTaken
       /\ Cardinality(results) < ResultCap
  <2>1. /\ inflight \in Nat /\ ResultCap \in Nat
        /\ Len(jobs) + inflight + Cardinality(results) < ResultCap
    BY <1>1, QueueCapAssumption DEF PoolInv, TypeOK, Admits, ResultCap
  <2>2. /\ accepted \in Nat /\ Len(jobs) \in Nat /\ Consumed \in Nat
        /\ Cardinality(CurrentWork) \in Nat /\ Cardinality(results) \in Nat
    BY OrderTypes
  <2>3. accepted = Consumed + Len(jobs) + Cardinality(CurrentWork) + Cardinality(results)
    BY <1>1 DEF OrderInv, WindowCounted
  <2>4. QED
    BY <2>1, <2>2, <2>3 DEF LastTaken
<1>13. WorkInOrder'
  <2>1. \A t \in CurrentWork : work[t].cue <= LastTaken => work[t].cue <= LastTaken'
    BY <1>10, OrderTypes DEF CurrentWork
  <2>2. QED
    BY <1>1, <1>3, <1>4, <2>1 DEF OrderInv, WorkInOrder, HasOrdinal
<1>14. HasOrdinal(accepted' + 1, nextSubmit') /\ HasOrdinal(Consumed' + 1, nextResult')
  <2> HIDE DEF job, kept, e
  <2>1. HasOrdinal(accepted + 1, nextSubmit) /\ HasOrdinal(Consumed + 1, nextResult)
    BY <1>1 DEF OrderInv, WindowCounted
  <2>2. accepted + 1 \in Nat
    BY OrderTypes
  <2>3. HasOrdinal((accepted + 1) + 1, NextOrdinal(nextSubmit))
    BY <1>5, <2>1, <2>2, OrdinalStep
  <2>4. accepted' = accepted + 1 /\ nextSubmit' = NextOrdinal(nextSubmit)
        /\ Consumed' = Consumed /\ nextResult' = nextResult
    BY <1>1, <1>4
  <2>5. QED
    BY <2>1, <2>3, <2>4
<1>15. CASE ~Evicting
  <2>1. results' = results /\ LastTaken' = LastTaken /\ Len(jobs') = Len(jobs) + 1
    BY <1>1, <1>7, <1>9, <1>10, <1>15
  <2>2. ResultsInOrder' /\ NoneLost'
    BY <1>1, <1>3, <1>4, <2>1 DEF OrderInv, ResultsInOrder, NoneLost
  <2>3. WindowCounted'
    <3>1. accepted' = Consumed' + Len(jobs') + Cardinality(CurrentWork') + Cardinality(results')
      <4>1. /\ accepted \in Nat /\ Len(jobs) \in Nat /\ Consumed \in Nat
            /\ Cardinality(CurrentWork) \in Nat /\ Cardinality(results) \in Nat
        BY OrderTypes
      <4>2. accepted = Consumed + Len(jobs) + Cardinality(CurrentWork) + Cardinality(results)
        BY <1>1 DEF OrderInv, WindowCounted
      <4>3. accepted' = accepted + 1 /\ Consumed' = Consumed /\ Cardinality(CurrentWork') = Cardinality(CurrentWork)
        BY <1>1, <1>3, <1>4
      <4>4. QED
        BY <2>1, <4>1, <4>2, <4>3
    <3>2. QED
      BY <1>14, <3>1 DEF WindowCounted, HasOrdinal
  <2>4. QED
    BY <1>1, <1>2, <1>4, <1>11, <1>13, <2>2, <2>3 DEF OrderInv
<1>16. CASE Evicting
  <2>1. LastTaken' = LastTaken + 1 /\ Len(jobs') = Len(jobs)
    BY <1>7, <1>9, <1>10, <1>16, OrderTypes
  <2>2. /\ e.epoch = epoch /\ e.cue = LastTaken + 1 /\ HasOrdinal(e.cue, e.ordinal)
    BY <1>6, <1>16 DEF OrderInv, RingInOrder, CompletionOf
  <2>3. /\ \A r \in results : r.cue # e.cue
        /\ \A t \in CurrentWork : work[t].cue # e.cue
        /\ e \notin results
    <3>1. \A r \in results : r.cue <= LastTaken /\ r.cue \in Nat
      BY <1>1, OrderTypes DEF OrderInv, ResultsInOrder
    <3>2. \A t \in CurrentWork : work[t].cue <= LastTaken /\ work[t].cue \in Nat
      BY <1>1, OrderTypes DEF OrderInv, WorkInOrder, CurrentWork
    <3>3. QED
      BY <2>2, <3>1, <3>2, OrderTypes
  <2>4. results' = results \cup {e}
    <3>1. ~(Cardinality(results) >= ResultCap)
      BY <1>12, OrderTypes, QueueCapAssumption DEF ResultCap
    <3>2. QED
      BY <1>1, <1>16, <3>1 DEF Filed
  <2>5. Cardinality(results') = Cardinality(results) + 1
    BY <2>3, <2>4, FS_AddElement DEF PoolInv
  <2>6. WindowCounted'
    <3>1. accepted' = Consumed' + Len(jobs') + Cardinality(CurrentWork') + Cardinality(results')
      <4>1. /\ accepted \in Nat /\ Len(jobs) \in Nat /\ Consumed \in Nat
            /\ Cardinality(CurrentWork) \in Nat /\ Cardinality(results) \in Nat
        BY OrderTypes
      <4>2. accepted = Consumed + Len(jobs) + Cardinality(CurrentWork) + Cardinality(results)
        BY <1>1 DEF OrderInv, WindowCounted
      <4>3. accepted' = accepted + 1 /\ Consumed' = Consumed /\ Cardinality(CurrentWork') = Cardinality(CurrentWork)
        BY <1>1, <1>3, <1>4
      <4>4. QED
        BY <2>1, <2>5, <4>1, <4>2, <4>3
    <3>2. QED
      BY <1>14, <3>1 DEF WindowCounted, HasOrdinal
  <2>7. ResultsInOrder'
    <3> HIDE DEF e
    <3>1. \A r \in results' : r.epoch = epoch' /\ Consumed' < r.cue /\ r.cue <= LastTaken'
      <4>1. \A r \in results : r.epoch = epoch /\ Consumed < r.cue /\ r.cue <= LastTaken /\ r.cue \in Nat
        BY <1>1, OrderTypes DEF OrderInv, ResultsInOrder
      <4>2. QED
        <5>1. Consumed \in Nat /\ LastTaken \in Int
          BY OrderTypes
        <5>2. epoch' = epoch /\ Consumed' = Consumed
          BY <1>1, <1>4
        <5>3. QED
          BY <1>12, <2>1, <2>2, <2>4, <4>1, <5>1, <5>2
    <3>2. \A r \in results' : HasOrdinal(r.cue, r.ordinal)
      BY <1>1, <2>2, <2>4 DEF OrderInv, ResultsInOrder
    <3>3. \A q, r \in results' : q.cue = r.cue => q = r
      BY <1>1, <2>3, <2>4 DEF OrderInv, ResultsInOrder
    <3>4. \A r \in results' : \A t \in CurrentWork' : work'[t].cue # r.cue
      BY <1>1, <1>3, <2>3, <2>4 DEF OrderInv, ResultsInOrder
    <3>5. QED
      BY <3>1, <3>2, <3>3, <3>4 DEF ResultsInOrder, HasOrdinal
  <2>8. NoneLost'
    <3> HIDE DEF e
    <3>1. SUFFICES ASSUME NEW c \in Cues, Consumed < c, c <= LastTaken + 1
                   PROVE  \/ \E t \in CurrentWork : work[t].cue = c
                          \/ \E r \in results \cup {e} : r.cue = c
      BY <1>1, <1>3, <1>4, <2>1, <2>4 DEF NoneLost
    <3>2. CASE c = LastTaken + 1
      BY <2>2, <3>2
    <3>3. CASE c # LastTaken + 1
      <4>1. c <= LastTaken
        BY <3>1, <3>3, OrderTypes, BoundAssumption DEF Cues
      <4>2. QED
        BY <1>1, <3>1, <4>1 DEF OrderInv, NoneLost
    <3>4. QED
      BY <3>2, <3>3
  <2>9. QED
    BY <1>1, <1>2, <1>4, <1>11, <1>13, <2>6, <2>7, <2>8 DEF OrderInv
<1>17. QED
  BY <1>15, <1>16

\* try_deliver takes the completion of the oldest cue not consumed: the
\* window is too small for another one to carry the same ordinal.
LEMMA TryDeliverInTurn ==
    ASSUME PoolInv, OrderInv, owner = "running",
           NEW c \in results, c.ordinal = nextResult
    PROVE  /\ ~stopping /\ c.epoch = epoch
           /\ c.cue = Consumed + 1 /\ Consumed = Stream!DeliveredOf(log, epoch)
<1>1. ~stopping /\ Consumed = Stream!DeliveredOf(log, epoch)
  BY DEF OrderInv, Consumed
<1>2. c.epoch = epoch /\ Consumed < c.cue /\ c.cue <= LastTaken /\ HasOrdinal(c.cue, c.ordinal)
  BY <1>1 DEF OrderInv, ResultsInOrder
<1>3. c.cue \in Nat /\ c.ordinal \in Ordinals /\ Consumed \in Nat /\ Consumed + 1 \in Nat
  BY OrderTypes
<1>4. HasOrdinal(Consumed + 1, c.ordinal)
  BY <1>1 DEF OrderInv, WindowCounted
<1>5. c.cue < Consumed + 1 + MaxOrdinal
  <2>1. accepted = Consumed + Len(jobs) + Cardinality(CurrentWork) + Cardinality(results)
    BY <1>1 DEF OrderInv, WindowCounted
  <2>2. /\ inflight \in Nat /\ ResultCap \in Nat
        /\ Len(jobs) + inflight + Cardinality(results) <= ResultCap /\ ResultCap <= MaxOrdinal
        /\ MaxOrdinal \in Nat
    BY QueueCapAssumption, OrdinalAssumption DEF PoolInv, TypeOK, RoomForEveryCompletion, ResultCap
  <2>3. QED
    <3>1. /\ accepted \in Nat /\ Len(jobs) \in Nat
          /\ Cardinality(CurrentWork) \in Nat /\ Cardinality(results) \in Nat
          /\ Cardinality(CurrentWork) <= inflight
      BY OrderTypes
    <3>2. QED
      BY SMTT(30), <1>2, <1>3, <2>1, <2>2, <3>1 DEF LastTaken
<1>6. Consumed + 1 <= c.cue
  BY <1>2, <1>3
<1>7. c.cue = Consumed + 1
  BY <1>2, <1>3, <1>4, <1>5, <1>6, OrdinalsApart
<1>8. QED
  BY <1>1, <1>2, <1>7

\* Consuming the oldest cue moves the window on by one.
LEMMA OrderTryDeliver == PoolInv /\ OrderInv /\ TryDeliver => OrderInv'
<1> SUFFICES ASSUME PoolInv, OrderInv, NEW c \in results,
                    owner = "running", c.ordinal = nextResult, Remove(c),
                    IF c.epoch = epoch THEN owner' = "delivering" /\ held' = c
                                       ELSE UNCHANGED <<owner, held>>,
                    UNCHANGED <<poolVars, epoch, jobVars, inflight, pc, work, log>>
             PROVE  OrderInv'
  BY DEF TryDeliver
<1>1. /\ ~stopping /\ c.epoch = epoch
      /\ c.cue = Consumed + 1 /\ Consumed = Stream!DeliveredOf(log, epoch)
  BY TryDeliverInTurn
<1>2. /\ results' = results \ {c} /\ nextResult' = NextOrdinal(nextResult)
      /\ owner' = "delivering" /\ held' = c
      /\ UNCHANGED <<stopping, epoch, nextSubmit, jobs, accepted, pc, work, log>>
  BY <1>1 DEF Remove, poolVars, jobVars
<1>3. Working' = Working /\ CurrentWork' = CurrentWork
  BY <1>2 DEF Working, CurrentWork
<1>4. Consumed' = Consumed + 1 /\ LastTaken' = LastTaken
  BY <1>1, <1>2 DEF Consumed, LastTaken
<1>5. DeliveriesKnown' /\ RingInOrder'
  BY <1>1, <1>2, <1>4 DEF OrderInv, DeliveriesKnown, RingInOrder
<1>6. WorkInOrder'
  <2>1. \A t \in CurrentWork : work[t].cue # Consumed + 1 /\ Consumed < work[t].cue
                               /\ work[t].cue \in Nat
    BY <1>1, OrderTypes DEF OrderInv, WorkInOrder, ResultsInOrder, CurrentWork
  <2>2. \A t \in CurrentWork : Consumed + 1 < work[t].cue
    BY <2>1, OrderTypes
  <2>3. QED
    BY <1>1, <1>2, <1>3, <1>4, <2>2 DEF OrderInv, WorkInOrder, HasOrdinal
<1>7. ResultsInOrder'
  <2>1. \A r \in results' : r.cue # Consumed + 1 /\ Consumed < r.cue /\ r.cue \in Nat
    BY <1>1, <1>2, OrderTypes DEF OrderInv, ResultsInOrder
  <2>2. \A r \in results' : Consumed + 1 < r.cue
    BY <2>1, OrderTypes
  <2>3. QED
    BY <1>1, <1>2, <1>3, <1>4, <2>2 DEF OrderInv, ResultsInOrder, HasOrdinal
<1>8. NoneLost'
  <2>1. SUFFICES ASSUME NEW d \in Cues, Consumed + 1 < d, d <= LastTaken
                 PROVE  \/ \E t \in CurrentWork : work[t].cue = d
                        \/ \E r \in results \ {c} : r.cue = d
    BY <1>2, <1>3, <1>4 DEF NoneLost
  <2>2. Consumed < d /\ d # c.cue
    BY <1>1, <2>1, OrderTypes, BoundAssumption DEF Cues
  <2>3. QED
    BY <1>1, <2>1, <2>2 DEF OrderInv, NoneLost
<1>9. WindowCounted'
  <2>1. Cardinality(results') = Cardinality(results) - 1
    BY <1>2, FS_RemoveElement DEF PoolInv
  <2>2. accepted' = Consumed' + Len(jobs') + Cardinality(CurrentWork') + Cardinality(results')
    <3>1. /\ accepted \in Nat /\ Len(jobs) \in Nat /\ Consumed \in Nat
          /\ Cardinality(CurrentWork) \in Nat /\ Cardinality(results) \in Nat
      BY OrderTypes
    <3>2. accepted = Consumed + Len(jobs) + Cardinality(CurrentWork) + Cardinality(results)
      BY <1>1 DEF OrderInv, WindowCounted
    <3>3. accepted' = accepted /\ Len(jobs') = Len(jobs) /\ Cardinality(CurrentWork') = Cardinality(CurrentWork)
      BY <1>2, <1>3
    <3>4. QED
      BY <1>4, <2>1, <3>1, <3>2, <3>3
  <2>3. HasOrdinal(Consumed' + 1, nextResult')
    BY <1>1, <1>2, <1>4, OrdinalStep, OrderTypes DEF OrderInv, WindowCounted, PoolInv, TypeOK
  <2>4. HasOrdinal(accepted' + 1, nextSubmit')
    BY <1>1, <1>2 DEF OrderInv, WindowCounted
  <2>5. QED
    BY <2>2, <2>3, <2>4 DEF WindowCounted, HasOrdinal
<1>10. QED
  BY <1>1, <1>2, <1>3, <1>5, <1>6, <1>7, <1>8, <1>9 DEF OrderInv

\* The delivery callback logs the cue consumed.
LEMMA OrderDeliverHeld == PoolInv /\ OrderInv /\ DeliverHeld => OrderInv'
<1> SUFFICES ASSUME PoolInv, OrderInv, DeliverHeld PROVE OrderInv'
  OBVIOUS
<1> DEFINE d == [epoch |-> held.epoch, cue |-> held.cue]
<1>1. /\ owner = "delivering" /\ owner' = "running" /\ log' = Append(log, d)
      /\ UNCHANGED <<stopping, epoch, nextSubmit, nextResult, jobs, results, pc, work, accepted>>
  BY DEF DeliverHeld, poolVars, jobVars, resultVars
<1>2. held.epoch = epoch /\ Consumed = held.cue
  BY <1>1 DEF OrderInv, DeliveriesKnown, Consumed
<1>3. log' # << >> /\ log'[Len(log')] = d
  <2>1. log \in Seq(Delivery) /\ d \in Delivery
    BY <1>1 DEF PoolInv, TypeOK, LocalsTyped, Completion, Delivery
  <2> HIDE DEF d
  <2>2. QED
    BY <1>1, <2>1
<1>4. Consumed' = Consumed /\ LastTaken' = LastTaken
  <2>1. d.epoch = epoch /\ d.cue = Consumed
    BY <1>2
  <2>2. Stream!DeliveredOf(log', epoch) = Consumed
    BY <1>3, <2>1 DEF Stream!DeliveredOf
  <2>3. QED
    BY <1>1, <2>2 DEF Consumed, LastTaken
<1>5. Working' = Working /\ CurrentWork' = CurrentWork
  BY <1>1 DEF Working, CurrentWork
<1>6. DeliveriesKnown'
  <2>1. log'[Len(log')].epoch = epoch' /\ epoch' <= epoch'
    BY <1>1, <1>2, <1>3, OrderTypes
  <2>2. QED
    BY <1>1, <2>1 DEF DeliveriesKnown
<1>7. RingInOrder'
  BY <1>1, <1>4 DEF OrderInv, RingInOrder
<1>8. ~stopping => WorkInOrder' /\ ResultsInOrder' /\ NoneLost' /\ WindowCounted'
  BY <1>1, <1>4, <1>5 DEF OrderInv, WorkInOrder, ResultsInOrder, NoneLost, WindowCounted
<1>9. QED
  BY <1>1, <1>5, <1>6, <1>7, <1>8 DEF OrderInv

\* Every step of the owner and of every thread keeps the order.
LEMMA OrderNext == PoolInv /\ OrderInv /\ [Next]_vars => OrderInv'
<1> SUFFICES ASSUME PoolInv, OrderInv, [Next]_vars PROVE OrderInv'
  OBVIOUS
<1>1. CASE OwnerStep
  BY <1>1, OrderIdle, OrderSubmit, OrderTryDeliver, OrderDeliverHeld, OrderInvalidate,
     OrderDestroy DEF OwnerStep
<1>2. CASE \E t \in Threads : ThreadStep(t) \/ SpuriousWakeup(t)
  BY <1>2, OrderIdle, OrderTake, OrderFinish DEF ThreadStep
<1>3. CASE Gone
  BY <1>3, OrderIdle
<1>4. CASE UNCHANGED vars
  BY <1>4, SameOrder DEF vars, Working
<1>5. QED
  BY <1>1, <1>2, <1>3, <1>4 DEF Next

\* The order holds in every reachable state of every pool.
THEOREM OrderInvariant == Spec => []OrderInv
<1>1. Init => OrderInv
  BY OrderInit
<1>2. PoolInv /\ OrderInv /\ [Next]_vars => OrderInv'
  BY OrderNext
<1>3. QED
  BY <1>1, <1>2, PoolInvariant, PTL DEF Spec

-----------------------------------------------------------------------------
(* The pool implements CueStream.                                          *)

\* A step of the pool is a step of the abstract stream, or does not touch it:
\* submit accepts, the delivery callback delivers the next cue in line and
\* invalidate forgets; nothing the threads do shows.
LEMMA StepsImplementStream ==
    PoolInv /\ OrderInv /\ [Next]_vars => [Stream!Next]_(Stream!vars)
<1> SUFFICES ASSUME PoolInv, OrderInv, [Next]_vars
             PROVE  Stream!Next \/ UNCHANGED <<epoch, accepted, log>>
  BY DEF Stream!vars
<1> USE DEF poolVars, jobVars, resultVars
<1>1. CASE Submit
  BY <1>1 DEF Submit, Stream!Next, Stream!Accept
<1>2. CASE DeliverHeld
  <2>1. /\ owner = "delivering" /\ UNCHANGED <<epoch, accepted>>
        /\ log' = Append(log, [epoch |-> held.epoch, cue |-> held.cue])
    BY <1>2 DEF DeliverHeld
  <2>2. held.epoch = epoch /\ held.cue = Stream!DeliveredOf(log, epoch) + 1
    BY <2>1 DEF OrderInv, DeliveriesKnown
  <2>3. Stream!DeliveredOf(log, epoch) < accepted
    <3>1. Consumed = held.cue
      BY <2>1 DEF Consumed
    <3>2. accepted = Consumed + Len(jobs) + Cardinality(CurrentWork) + Cardinality(results)
      BY <2>1 DEF OrderInv, WindowCounted
    <3>3. /\ accepted \in Nat /\ Len(jobs) \in Nat /\ Consumed \in Nat
          /\ Cardinality(CurrentWork) \in Nat /\ Cardinality(results) \in Nat
      BY OrderTypes
    <3>4. Stream!DeliveredOf(log, epoch) \in Nat
      <4>1. log # << >> => log[Len(log)] \in Delivery
        BY DEF PoolInv, TypeOK
      <4>2. QED
        BY <4>1, BoundAssumption DEF Stream!DeliveredOf, Delivery, Cues
    <3>5. QED
      BY <2>2, <3>1, <3>2, <3>3, <3>4
  <2>4. QED
    BY <2>1, <2>2, <2>3 DEF Stream!Next, Stream!Deliver
<1>3. CASE Invalidate
  BY <1>3 DEF Invalidate, Stream!Next, Stream!Invalidate
<1>4. CASE CreateThread \/ CreateFails \/ TryDeliver \/ Destroy \/ Free
  BY <1>4 DEF CreateThread, CreateFails, TryDeliver, Destroy, Free
<1>5. CASE \E t \in Threads : ThreadStep(t) \/ SpuriousWakeup(t)
  BY <1>5 DEF ThreadStep, ThreadWait, ThreadExit, ThreadTake, ThreadFinish, SpuriousWakeup
<1>6. CASE Gone \/ UNCHANGED vars
  BY <1>6 DEF Gone, vars
<1>7. QED
  BY <1>1, <1>2, <1>3, <1>4, <1>5, <1>6 DEF Next, OwnerStep

\* The pool implements CueStream for every thread count, capacity and ordinal
\* width: through vw_translate_async_try_deliver cues come back one by one in
\* the order vw_translate_async_submit accepted them, each at most once, and
\* never one that vw_translate_async_invalidate has forgotten.
THEOREM PoolImplementsStream == Spec => StreamSpec
<1>1. Init => Stream!Init
  BY DEF Init, Stream!Init
<1>2. PoolInv /\ OrderInv /\ [Next]_vars => [Stream!Next]_(Stream!vars)
  BY StepsImplementStream
<1>3. QED
  BY <1>1, <1>2, PoolInvariant, OrderInvariant, PTL DEF Spec, StreamSpec, Stream!Spec

-----------------------------------------------------------------------------
(* The books: where each cue is, and what the budget counts.               *)

\* The jobs of a queue that were granted a network translation, and the
\* threads of this epoch that were.
GrantedIn(q) == {i \in DOMAIN q : ~q[i].skip}
GrantedWork == {t \in CurrentWork : ~work[t].skip}

\* There are finitely many of each.
LEMMA GrantedFinite ==
    ASSUME NEW q \in Seq(Job)
    PROVE  IsFiniteSet(GrantedIn(q)) /\ Cardinality(GrantedIn(q)) \in Nat
<1>1. GrantedIn(q) \in SUBSET (1 .. Len(q)) /\ Len(q) \in Int
  BY DEF GrantedIn
<1>2. IsFiniteSet(1 .. Len(q))
  BY <1>1, FS_Interval
<1>3. QED
  BY <1>1, <1>2, FS_Subset, FS_CardinalityType

\* Appending a job adds it to the count, unless it is to be skipped.
LEMMA GrantedAppend ==
    ASSUME NEW q \in Seq(Job), NEW j \in Job
    PROVE  Cardinality(GrantedIn(Append(q, j))) =
               IF j.skip THEN Cardinality(GrantedIn(q)) ELSE Cardinality(GrantedIn(q)) + 1
<1>1. /\ DOMAIN Append(q, j) = 1 .. Len(q) + 1 /\ DOMAIN q = 1 .. Len(q) /\ Len(q) \in Nat
      /\ \A i \in 1 .. Len(q) : Append(q, j)[i] = q[i]
      /\ Append(q, j)[Len(q) + 1] = j
  OBVIOUS
<1>2. GrantedIn(Append(q, j)) = IF j.skip THEN GrantedIn(q) ELSE GrantedIn(q) \cup {Len(q) + 1}
  BY <1>1 DEF GrantedIn
<1>3. Len(q) + 1 \notin GrantedIn(q)
  BY <1>1 DEF GrantedIn
<1>4. QED
  BY <1>2, <1>3, GrantedFinite, FS_AddElement

\* Removing the head takes it off the count, unless it was to be skipped.
LEMMA GrantedTail ==
    ASSUME NEW q \in Seq(Job), q # << >>
    PROVE  Cardinality(GrantedIn(Tail(q))) =
               IF Head(q).skip THEN Cardinality(GrantedIn(q)) ELSE Cardinality(GrantedIn(q)) - 1
<1> DEFINE S == GrantedIn(Tail(q))
           T == GrantedIn(q) \ {1}
           f == [i \in S |-> i + 1]
<1>1. /\ DOMAIN Tail(q) = 1 .. Len(q) - 1 /\ DOMAIN q = 1 .. Len(q) /\ Len(q) \in Nat \ {0}
      /\ \A i \in 1 .. Len(q) - 1 : Tail(q)[i] = q[i + 1]
      /\ Tail(q) \in Seq(Job) /\ Head(q) = q[1]
  OBVIOUS
<1>2. \A i \in S : i \in Int /\ i + 1 \in T
  BY <1>1 DEF GrantedIn
<1>3. \A m \in T : m \in Int /\ m - 1 \in S
  BY <1>1 DEF GrantedIn
<1>4. f \in Bijection(S, T)
  <2> HIDE DEF S, T
  <2>1. f \in [S -> T]
    BY <1>2
  <2>2. \A a, b \in S : f[a] = f[b] => a = b
    BY <1>2
  <2>3. \A m \in T : \E a \in S : f[a] = m
    <3>1. SUFFICES ASSUME NEW m \in T PROVE f[m - 1] = m
      BY <1>3
    <3>2. QED
      BY <1>3
  <2> HIDE DEF f
  <2>4. QED
    BY <2>1, <2>2, <2>3 DEF Bijection, Injection, Surjection, IsInjective
<1>5. Cardinality(T) = Cardinality(S)
  <2>1. IsFiniteSet(S)
    BY <1>1, GrantedFinite
  <2>2. ExistsBijection(S, T)
    BY <1>4 DEF ExistsBijection
  <2> HIDE DEF S, T, f
  <2>3. QED
    BY <2>1, <2>2, FS_Bijection
<1>6. 1 \in GrantedIn(q) <=> ~Head(q).skip
  BY <1>1 DEF GrantedIn
<1>7. QED
  BY <1>5, <1>6, GrantedFinite, FS_RemoveElement

\* The budget in terms of the two counts.
LEMMA BudgetCounts ==
    BudgetIsExact <=> (~stopping => active = Cardinality(GrantedIn(jobs)) + Cardinality(GrantedWork))
  BY DEF BudgetIsExact, GrantedIn, GrantedWork

\* What the counts are known to be.
LEMMA BudgetTypes ==
    ASSUME PoolInv
    PROVE  /\ Cardinality(GrantedIn(jobs)) \in Nat
           /\ IsFiniteSet(GrantedWork) /\ Cardinality(GrantedWork) \in Nat
           /\ active \in Nat /\ jobs \in Seq(Job)
<1>1. active \in Nat /\ jobs \in Seq(Job)
  BY BudgetAssumption DEF PoolInv, TypeOK
<1>2. GrantedWork \in SUBSET CurrentWork
  BY DEF GrantedWork
<1>3. IsFiniteSet(GrantedWork) /\ Cardinality(GrantedWork) \in Nat
  BY <1>2, OrderTypes, FS_Subset, FS_CardinalityType
<1>4. QED
  BY <1>1, <1>3, GrantedFinite

\* A step that leaves the jobs, the work and the count alone.
LEMMA SameBudget ==
    ASSUME BudgetIsExact, Working' = Working, UNCHANGED <<epoch, jobs, active, work>>,
           stopping' = stopping \/ stopping' = TRUE
    PROVE  BudgetIsExact'
<1>1. CurrentWork' = CurrentWork
  BY DEF CurrentWork
<1>2. QED
  BY <1>1 DEF BudgetIsExact

\* A taken job keeps its grant.
LEMMA BudgetTake ==
    ASSUME PoolInv, OrderInv, BudgetIsExact, NEW t \in Threads, ThreadTake(t)
    PROVE  BudgetIsExact'
<1> DEFINE j == Head(jobs)
<1>1. /\ pc[t] = "ready" /\ jobs # << >> /\ jobs' = Tail(jobs)
      /\ pc' = [pc EXCEPT ![t] = "working"] /\ work' = [work EXCEPT ![t] = j]
      /\ UNCHANGED <<stopping, epoch, active>>
  BY DEF ThreadTake, poolVars
<1>2. /\ pc \in [Threads -> {"unborn", "ready", "waiting", "working", "exited"}]
      /\ work \in [Threads -> Job \cup {NoJob}]
  BY DEF PoolInv, TypeOK
<1>3. j.epoch = epoch
  <2>1. 1 \in DOMAIN jobs /\ j = jobs[1]
    BY <1>1, BudgetTypes
  <2>2. QED
    BY <2>1 DEF OrderInv, RingInOrder
<1>4. GrantedWork' = IF j.skip THEN GrantedWork ELSE GrantedWork \cup {t}
  <2>1. CurrentWork' = CurrentWork \cup {t} /\ t \notin CurrentWork
    BY <1>1, <1>2, <1>3 DEF CurrentWork, Working
  <2>2. work'[t] = j /\ \A u \in CurrentWork : work'[u] = work[u]
    BY <1>1, <1>2, <2>1 DEF CurrentWork, Working
  <2> HIDE DEF j
  <2>3. QED
    BY <2>1, <2>2 DEF GrantedWork
<1>5. t \notin GrantedWork
  BY <1>1 DEF GrantedWork, CurrentWork, Working
<1>6. Cardinality(GrantedWork') = IF j.skip THEN Cardinality(GrantedWork) ELSE Cardinality(GrantedWork) + 1
  BY <1>4, <1>5, BudgetTypes, FS_AddElement
<1>7. Cardinality(GrantedIn(jobs')) =
        IF j.skip THEN Cardinality(GrantedIn(jobs)) ELSE Cardinality(GrantedIn(jobs)) - 1
  BY <1>1, BudgetTypes, GrantedTail
<1>8. ~stopping' => active' = Cardinality(GrantedIn(jobs')) + Cardinality(GrantedWork')
  <2> HIDE DEF j
  <2>1. ~stopping => active = Cardinality(GrantedIn(jobs)) + Cardinality(GrantedWork)
    BY BudgetCounts
  <2>2. Cardinality(GrantedIn(jobs)) \in Nat /\ Cardinality(GrantedWork) \in Nat
    BY BudgetTypes
  <2>3. stopping' = stopping /\ active' = active
    BY <1>1
  <2>4. QED
    BY <1>6, <1>7, <2>1, <2>2, <2>3
<1>9. QED
  BY <1>8 DEF BudgetIsExact, GrantedIn, GrantedWork

\* A thread that finishes gives back the share its job had in this epoch,
\* and none for an older one.
LEMMA BudgetFinish ==
    ASSUME PoolInv, BudgetIsExact, NEW t \in Threads, ThreadFinish(t)
    PROVE  BudgetIsExact'
<1>1. /\ pc[t] = "working" /\ jobs' = jobs
      /\ pc' = [pc EXCEPT ![t] = "ready"] /\ work' = [work EXCEPT ![t] = NoJob]
      /\ active' = IF ~work[t].skip /\ work[t].epoch = epoch /\ active > 0 THEN active - 1 ELSE active
      /\ UNCHANGED <<stopping, epoch>>
  BY DEF ThreadFinish, poolVars
<1>2. /\ pc \in [Threads -> {"unborn", "ready", "waiting", "working", "exited"}]
      /\ work \in [Threads -> Job \cup {NoJob}]
  BY DEF PoolInv, TypeOK
<1>3. t \in GrantedWork <=> (~work[t].skip /\ work[t].epoch = epoch)
  BY <1>1 DEF GrantedWork, CurrentWork, Working
<1>4. GrantedWork' = GrantedWork \ {t}
  BY <1>1, <1>2 DEF GrantedWork, CurrentWork, Working
<1>5. Cardinality(GrantedWork') =
        IF t \in GrantedWork THEN Cardinality(GrantedWork) - 1 ELSE Cardinality(GrantedWork)
  BY <1>4, BudgetTypes, FS_RemoveElement
<1>6. t \in GrantedWork => Cardinality(GrantedWork) >= 1
  BY <1>5, BudgetTypes, FS_EmptySet
<1>7. ~stopping' => active' = Cardinality(GrantedIn(jobs')) + Cardinality(GrantedWork')
  <2>1. ~stopping => active = Cardinality(GrantedIn(jobs)) + Cardinality(GrantedWork)
    BY BudgetCounts
  <2>2. Cardinality(GrantedIn(jobs)) \in Nat /\ Cardinality(GrantedWork) \in Nat
    BY BudgetTypes
  <2>3. /\ stopping' = stopping /\ jobs' = jobs
        /\ active' = IF t \in GrantedWork /\ active > 0 THEN active - 1 ELSE active
    BY <1>1, <1>3
  <2>4. QED
    BY <1>5, <1>6, <2>1, <2>2, <2>3
<1>8. QED
  BY <1>7 DEF BudgetIsExact, GrantedIn, GrantedWork

\* submit charges the new cue only below the budget, and an eviction gives
\* back the share of the job it completes.
LEMMA BudgetSubmit == PoolInv /\ BudgetIsExact /\ Submit => BudgetIsExact'
<1> SUFFICES ASSUME PoolInv, BudgetIsExact, Submit PROVE BudgetIsExact'
  OBVIOUS
<1> DEFINE job == [epoch |-> epoch, ordinal |-> nextSubmit, cue |-> accepted + 1,
                   skip |-> active >= ActiveBudget]
           kept == IF Evicting THEN Tail(jobs) ELSE jobs
<1>1. /\ UNCHANGED <<owner, threadCount, stopping, epoch, work, held>>
      /\ owner = "running" /\ ~stopping /\ Signal /\ accepted < MaxCues
      /\ jobs' = Append(kept, job)
      /\ active' = IF active >= ActiveBudget THEN ActiveAfterEviction ELSE ActiveAfterEviction + 1
  BY DEF Submit, poolVars
<1>2. GrantedWork' = GrantedWork
  <2>1. Working' = Working
    BY <1>1, SignalFacts DEF PoolInv
  <2>2. QED
    BY <1>1, <2>1 DEF GrantedWork, CurrentWork
<1>3. job \in Job /\ (job.skip <=> active >= ActiveBudget)
  <2>1. accepted + 1 \in Cues /\ epoch \in Epochs /\ nextSubmit \in Ordinals
    BY <1>1, BoundAssumption DEF PoolInv, TypeOK, Cues
  <2>2. (active >= ActiveBudget) \in BOOLEAN
    OBVIOUS
  <2>3. job \in Job
    BY <2>1, <2>2, Zenon DEF Job
  <2>4. job.skip <=> active >= ActiveBudget
    BY Zenon
  <2>5. QED
    BY <2>3, <2>4
<1>4. Evicting => jobs # << >>
  BY BudgetTypes, QueueCapAssumption DEF Evicting
<1>5. kept \in Seq(Job)
  BY <1>4, BudgetTypes
<1>6. /\ Cardinality(GrantedIn(kept)) \in Nat
      /\ ActiveAfterEviction = Cardinality(GrantedIn(kept)) + Cardinality(GrantedWork)
  <2>1. Cardinality(GrantedIn(kept)) \in Nat
    BY <1>5, GrantedFinite
  <2>2. /\ active = Cardinality(GrantedIn(jobs)) + Cardinality(GrantedWork)
        /\ Cardinality(GrantedIn(jobs)) \in Nat /\ Cardinality(GrantedWork) \in Nat
    BY <1>1, BudgetCounts, BudgetTypes
  <2>3. CASE Evicting
    <3>1. Cardinality(GrantedIn(kept)) =
            IF Head(jobs).skip THEN Cardinality(GrantedIn(jobs)) ELSE Cardinality(GrantedIn(jobs)) - 1
      BY <1>4, <2>3, BudgetTypes, GrantedTail
    <3> HIDE DEF kept
    <3>2. QED
      BY <2>1, <2>2, <2>3, <3>1 DEF ActiveAfterEviction
  <2>4. CASE ~Evicting
    BY <2>1, <2>2, <2>4 DEF ActiveAfterEviction
  <2>5. QED
    BY <2>1, <2>3, <2>4
<1>7. Cardinality(GrantedIn(jobs')) =
        IF active >= ActiveBudget THEN Cardinality(GrantedIn(kept)) ELSE Cardinality(GrantedIn(kept)) + 1
  <2> HIDE DEF kept, job
  <2>1. QED
    BY <1>1, <1>3, <1>5, GrantedAppend
<1>8. active' = Cardinality(GrantedIn(jobs')) + Cardinality(GrantedWork')
  <2> HIDE DEF kept, job
  <2>1. Cardinality(GrantedWork) \in Nat
    BY BudgetTypes
  <2>2. QED
    BY <1>1, <1>2, <1>6, <1>7, <2>1
<1>9. QED
  BY <1>8 DEF BudgetIsExact, GrantedIn, GrantedWork

\* invalidate starts with no grant: no work in flight is of the new epoch.
LEMMA BudgetInvalidate == PoolInv /\ OrderInv /\ Invalidate => BudgetIsExact'
<1> SUFFICES ASSUME PoolInv, OrderInv, Invalidate PROVE BudgetIsExact'
  OBVIOUS
<1>1. epoch' = epoch + 1 /\ jobs' = << >> /\ active' = 0 /\ UNCHANGED <<pc, work>>
  BY DEF Invalidate
<1>2. CurrentWork' = {}
  <2>1. \A t \in Working : work[t].epoch # epoch'
    BY <1>1, OrderTypes DEF OrderInv
  <2>2. QED
    BY <1>1, <2>1 DEF CurrentWork, Working
<1>3. {i \in DOMAIN jobs' : ~jobs'[i].skip} = {} /\ {t \in CurrentWork' : ~work'[t].skip} = {}
  BY <1>1, <1>2
<1>4. QED
  BY <1>1, <1>3, FS_EmptySet DEF BudgetIsExact

\* Every step keeps the budget exact.
LEMMA BudgetNext == PoolInv /\ OrderInv /\ BudgetIsExact /\ [Next]_vars => BudgetIsExact'
<1> SUFFICES ASSUME PoolInv, OrderInv, BudgetIsExact, [Next]_vars PROVE BudgetIsExact'
  OBVIOUS
<1> USE DEF poolVars, jobVars, resultVars
<1>1. CASE Submit \/ Invalidate
  BY <1>1, BudgetSubmit, BudgetInvalidate
<1>2. CASE CreateFails \/ Destroy
  BY <1>2 DEF CreateFails, Destroy, BudgetIsExact
<1>3. CASE CreateThread
  <2>1. threadCount + 1 \in Threads /\ pc[threadCount + 1] = "unborn"
    BY <1>3, BudgetAssumption DEF CreateThread, PoolInv, ThreadsAccounted, TypeOK, Threads
  <2>2. Working' = Working
    BY <1>3, <2>1 DEF CreateThread, Working, PoolInv, TypeOK
  <2>3. QED
    BY <1>3, <2>2, SameBudget DEF CreateThread
<1>4. CASE TryDeliver \/ DeliverHeld \/ Free \/ Gone \/ UNCHANGED vars
  <2>1. Working' = Working /\ UNCHANGED <<stopping, epoch, jobs, active, work>>
    BY <1>4 DEF TryDeliver, DeliverHeld, Free, Gone, vars, Working
  <2>2. QED
    BY <2>1, SameBudget
<1>5. ASSUME NEW t \in Threads, ThreadStep(t) \/ SpuriousWakeup(t) PROVE BudgetIsExact'
  <2>1. CASE ThreadWait(t) \/ ThreadExit(t) \/ SpuriousWakeup(t)
    <3>1. Working' = Working
      BY <2>1 DEF ThreadWait, ThreadExit, SpuriousWakeup, Working, PoolInv, TypeOK
    <3>2. QED
      BY <2>1, <3>1, SameBudget DEF ThreadWait, ThreadExit, SpuriousWakeup
  <2>2. QED
    BY <1>5, <2>1, BudgetTake, BudgetFinish DEF ThreadStep
<1>6. QED
  BY <1>1, <1>2, <1>3, <1>4, <1>5 DEF Next, OwnerStep

\* Each accepted cue is where the order says it is, and nowhere else.
LEMMA OrderPlacesCues == PoolInv /\ OrderInv => EveryCueInOnePlace
<1> SUFFICES ASSUME PoolInv, OrderInv, ~stopping PROVE
        /\ \A c \in 1 .. accepted : Places(c) = IF c <= Consumed THEN 0 ELSE 1
        /\ \A r \in results : r.epoch = epoch
        /\ \A i \in DOMAIN jobs : jobs[i].epoch = epoch
  BY DEF EveryCueInOnePlace
<1>1. /\ RingInOrder /\ WorkInOrder /\ ResultsInOrder /\ NoneLost
      /\ accepted = Consumed + Len(jobs) + Cardinality(CurrentWork) + Cardinality(results)
  BY DEF OrderInv, WindowCounted
<1>2. /\ Consumed \in Nat /\ Len(jobs) \in Nat /\ accepted \in Nat
      /\ Cardinality(CurrentWork) \in Nat /\ Cardinality(results) \in Nat
      /\ LastTaken \in Int /\ DOMAIN jobs = 1 .. Len(jobs) /\ accepted <= MaxCues
  BY OrderTypes DEF PoolInv, TypeOK
<1>3. Consumed <= LastTaken /\ LastTaken + Len(jobs) = accepted
  BY <1>1, <1>2 DEF LastTaken
<1>4. ASSUME NEW c \in 1 .. accepted PROVE Places(c) = IF c <= Consumed THEN 0 ELSE 1
  <2> DEFINE J == {i \in DOMAIN jobs : jobs[i].cue = c}
             W == {t \in CurrentWork : work[t].cue = c}
             R == {r \in results : r.cue = c}
  <2>1. Places(c) = Cardinality(J) + Cardinality(W) + Cardinality(R)
    BY DEF Places
  <2>2. \A i \in DOMAIN jobs : jobs[i].cue = c <=> i = c - LastTaken
    BY <1>1, <1>2, <1>4 DEF RingInOrder
  <2>3. \A t \in CurrentWork : Consumed < work[t].cue /\ work[t].cue <= LastTaken /\ work[t].cue \in Nat
    BY <1>1, OrderTypes DEF WorkInOrder, CurrentWork
  <2>4. \A r \in results : Consumed < r.cue /\ r.cue <= LastTaken /\ r.cue \in Nat
    BY <1>1, OrderTypes DEF ResultsInOrder
  <2>5. CASE c <= Consumed
    <3>1. J = {} /\ W = {} /\ R = {}
      BY <1>2, <1>3, <1>4, <2>2, <2>3, <2>4, <2>5
    <3>2. Cardinality(J) = 0 /\ Cardinality(W) = 0 /\ Cardinality(R) = 0
      BY <3>1, FS_EmptySet
    <3> HIDE DEF J, W, R
    <3>3. QED
      BY <2>1, <2>5, <3>2
  <2>6. CASE c > LastTaken
    <3>1. c - LastTaken \in DOMAIN jobs
      BY <1>2, <1>3, <1>4, <2>6
    <3>2. J = {c - LastTaken} /\ W = {} /\ R = {}
      BY <1>2, <1>4, <2>2, <2>3, <2>4, <2>6, <3>1
    <3>3. Cardinality(J) = 1 /\ Cardinality(W) = 0 /\ Cardinality(R) = 0
      BY <3>2, FS_EmptySet, FS_Singleton
    <3>4. ~(c <= Consumed)
      BY <1>2, <1>3, <1>4, <2>6
    <3> HIDE DEF J, W, R
    <3>5. QED
      BY <2>1, <3>3, <3>4
  <2>7. CASE Consumed < c /\ c <= LastTaken
    <3>1. J = {}
      BY <1>2, <1>4, <2>2, <2>7
    <3>2. c \in Cues
      BY <1>2, <1>4, BoundAssumption DEF Cues
    <3>3. (\E t \in CurrentWork : work[t].cue = c) \/ (\E r \in results : r.cue = c)
      BY <1>1, <2>7, <3>2 DEF NoneLost
    <3>4. (R = {} /\ \E t : W = {t}) \/ (W = {} /\ \E r : R = {r})
      <4>1. CASE \E t \in CurrentWork : work[t].cue = c
        <5>1. PICK t \in CurrentWork : work[t].cue = c
          BY <4>1
        <5>2. W = {t} /\ R = {}
          BY <1>1, <5>1 DEF WorkInOrder, ResultsInOrder
        <5>3. QED
          BY <5>2
      <4>2. CASE \E r \in results : r.cue = c
        <5>1. PICK r \in results : r.cue = c
          BY <4>2
        <5>2. W = {} /\ R = {r}
          BY <1>1, <5>1 DEF ResultsInOrder
        <5>3. QED
          BY <5>2
      <4>3. QED
        BY <3>3, <4>1, <4>2
    <3> HIDE DEF J, W, R
    <3>5. Cardinality(J) = 0 /\ \/ Cardinality(W) = 1 /\ Cardinality(R) = 0
                                \/ Cardinality(W) = 0 /\ Cardinality(R) = 1
      BY <3>1, <3>4, FS_EmptySet, FS_Singleton
    <3>6. ~(c <= Consumed)
      BY <1>2, <1>4, <2>7
    <3>7. QED
      BY <2>1, <3>5, <3>6
  <2>8. QED
    BY <1>2, <1>4, <2>5, <2>6, <2>7
<1>5. QED
  BY <1>1, <1>4 DEF ResultsInOrder, RingInOrder

\* The pool's books are right for every thread count and capacity: until it
\* is stopped, each accepted cue is in exactly one place (ring, thread or
\* completion array) or was consumed, and active_translation_count is exactly
\* the number of this epoch's cues that were granted a translation and have
\* not completed, whatever evictions and invalidations interleave.
THEOREM BooksBalance == Spec => []PoolAccounted
<1>1. Init => BudgetIsExact
  <2>1. ASSUME Init PROVE {i \in DOMAIN jobs : ~jobs[i].skip} = {} /\ {t \in CurrentWork : ~work[t].skip} = {}
    BY <2>1 DEF Init, CurrentWork, Working
  <2>2. ASSUME Init
        PROVE  /\ Cardinality({i \in DOMAIN jobs : ~jobs[i].skip}) = 0
               /\ Cardinality({t \in CurrentWork : ~work[t].skip}) = 0
               /\ active = 0
    BY <2>1, <2>2, FS_EmptySet DEF Init
  <2>3. QED
    BY <2>2 DEF BudgetIsExact
<1>2. PoolInv /\ OrderInv /\ BudgetIsExact /\ [Next]_vars => BudgetIsExact'
  BY BudgetNext
<1>3. PoolInv /\ OrderInv /\ BudgetIsExact => PoolAccounted
  BY OrderPlacesCues DEF PoolAccounted
<1>4. QED
  BY <1>1, <1>2, <1>3, PoolInvariant, OrderInvariant, PTL DEF Spec
=============================================================================
