--------------------------- MODULE ModelDownload ---------------------------
(***************************************************************************)
(* worker/src/vw_model_download.c and its use in the worker's main loop:   *)
(* a model is downloaded into <file>.part, verified and renamed to <file>. *)
(* Several workers (one per VLC instance, and the successor of one that    *)
(* crashed) share the model directory; a lock file keeps them apart.       *)
(*                                                                         *)
(* A file path holds an inode or nothing.  A downloader keeps writing to   *)
(* the inode it opened, whatever path the inode has by then.  On Linux the *)
(* downloader is a curl process of its own, on Windows the thread itself.  *)
(***************************************************************************)
EXTENDS Naturals, FiniteSets

CONSTANTS
    Workers,        \* worker processes that may be running
    Models,         \* catalog entries
    Transports,     \* subset of {"curl", "winhttp"}: the builds considered
    Inodes,         \* inodes the directory may use
    MaxStarts,      \* bound: downloads started
    MaxCrashes      \* bound: worker crashes

None == "none"

\* What the constants are.
DownloadConstants ==
    /\ Transports \subseteq {"curl", "winhttp"}
    /\ None \notin Workers \cup Models \cup Inodes
    /\ MaxStarts \in Nat /\ MaxCrashes \in Nat

VARIABLES
    transport,      \* which build this is
    main,           \* main[w]: "idle", "joining", "dead" or "left"
    after,          \* after[w]: what follows the join: a model to start, None or "leave"
    model,          \* model[w]: the model of model_dl, None when it is NULL
    stage,          \* stage[w]: progress.stage
    abort,          \* abort[w]: abort_requested
    thread,         \* thread[w]: where vw_download_thread is
    attempt,        \* attempt[w]: 0 or 1
    child,          \* child[w]: the curl process: its state and its inode
    lastStage,      \* lastStage[w]: last_stage, None for -1
    told,           \* told[w]: the last MODEL_PROGRESS sent, with its model
    flock,          \* flock[m]: holder of <file>.lock
    part,           \* part[m]: inode of <file>.part
    final,          \* final[m]: inode of <file>
    content,        \* content[i]: "partial", "good", "bad" or "large"
    starts, crashes \* bounded counters

loopVars == <<main, after, lastStage, told>>
fileVars == <<flock, part, final, content>>
vars == <<transport, main, after, model, stage, abort, thread, attempt, child,
          lastStage, told, flock, part, final, content, starts, crashes>>

NoChild == [state |-> None, inode |-> None]
Stages == {"idle", "downloading", "verifying", "done", "failed", "aborting"}
Busy == {"downloading", "verifying", "aborting"}

Init ==
    /\ transport \in Transports
    /\ main = [w \in Workers |-> "idle"]
    /\ after = [w \in Workers |-> None]
    /\ model = [w \in Workers |-> None]
    /\ stage = [w \in Workers |-> "idle"]
    /\ abort = [w \in Workers |-> FALSE]
    /\ thread = [w \in Workers |-> None]
    /\ attempt = [w \in Workers |-> 0]
    /\ child = [w \in Workers |-> NoChild]
    /\ lastStage = [w \in Workers |-> None]
    /\ told = [w \in Workers |-> <<None, None>>]
    /\ flock = [m \in Models |-> None]
    /\ part = [m \in Models |-> None]
    /\ final = [m \in Models |-> None]
    /\ content = [i \in Inodes |-> "partial"]
    /\ starts = 0 /\ crashes = 0

-----------------------------------------------------------------------------
(* Files.  Opening the part file for writing truncates the inode that is    *)
(* there or takes a new one.                                                *)

Linked == {part[m] : m \in Models} \cup {final[m] : m \in Models}
OpenFor(m) == IF part[m] # None THEN {part[m]}
              ELSE Inodes \ (Linked \cup {child[w].inode : w \in Workers})
Unlinked(m) == part' = [part EXCEPT ![m] = None]

\* What stat and the SHA-256 of a file tell.
TooLarge(i) == content[i] = "large"
Verified(i) == content[i] = "good"

\* rename: the final name takes the inode.
Renamed(m) == final' = [final EXCEPT ![m] = part[m]] /\ Unlinked(m)

-----------------------------------------------------------------------------
(* The main loop.  vw_model_download_start: the lock is claimed before the  *)
(* thread exists.                                                           *)

Report(w, s, m) == told' = [told EXCEPT ![w] = <<s, m>>]

LockFree(w, m) == flock[m] = None

Started(w, m) ==
    /\ LockFree(w, m)
    /\ flock' = [flock EXCEPT ![m] = w]
    /\ model' = [model EXCEPT ![w] = m]
    /\ stage' = [stage EXCEPT ![w] = "idle"]
    /\ abort' = [abort EXCEPT ![w] = FALSE]
    /\ thread' = [thread EXCEPT ![w] = "begin"]
    /\ attempt' = [attempt EXCEPT ![w] = 0]
    /\ told' = told

\* The lock is taken, or something else in start fails: reported as failed.
StartFailed(w, m) ==
    /\ Report(w, "failed", m)
    /\ model' = [model EXCEPT ![w] = None]
    /\ UNCHANGED <<flock, stage, abort, thread, attempt>>

\* MODEL_CTRL(DOWNLOAD): refused without a catalog entry or a directory, and
\* while another download is busy; one that has ended, or has not begun, is
\* freed first.
RequestDownload(w, m) ==
    /\ main[w] = "idle" /\ starts < MaxStarts
    /\ starts' = starts + 1
    /\ \/ /\ Report(w, "failed", m)
          /\ UNCHANGED <<main, after, model, stage, abort, thread, attempt,
                         flock, lastStage>>
       \/ /\ model[w] # None /\ stage[w] \notin Busy
          /\ main' = [main EXCEPT ![w] = "joining"]
          /\ after' = [after EXCEPT ![w] = m]
          /\ abort' = [abort EXCEPT ![w] = @ \/ stage[w] = "idle"]
          /\ lastStage' = [lastStage EXCEPT ![w] = None]
          /\ UNCHANGED <<model, stage, thread, attempt, flock, told>>
       \/ /\ model[w] = None
          /\ Started(w, m) \/ StartFailed(w, m)
          /\ UNCHANGED <<main, after, lastStage>>
    /\ UNCHANGED <<transport, child, part, final, content, crashes>>

\* vw_model_download_abort.
Cancelled(w) ==
    IF stage[w] \in {"done", "failed"}
    THEN UNCHANGED <<abort, stage>>
    ELSE /\ abort' = [abort EXCEPT ![w] = TRUE]
         /\ stage' = [stage EXCEPT ![w] = IF @ = "idle" THEN @ ELSE "aborting"]

\* MODEL_CTRL(ABORT).
RequestAbort(w) ==
    /\ main[w] = "idle"
    /\ IF model[w] # None
       THEN /\ Cancelled(w) /\ told' = told
       ELSE /\ Report(w, "idle", None) /\ UNCHANGED <<abort, stage>>
    /\ UNCHANGED <<transport, main, after, model, thread, attempt, child, lastStage,
                   fileVars, starts, crashes>>

\* The stages after which the main loop frees the download.
Over(w) ==
    \/ stage[w] \in {"done", "failed"}
    \/ stage[w] = "idle" /\ lastStage[w] \in Busy

\* The poll at the end of each iteration: a new stage is reported (an old busy
\* one again after a second), and a download that is over is freed.
Poll(w) ==
    /\ main[w] = "idle" /\ model[w] # None
    /\ stage[w] # lastStage[w] \/ stage[w] \in Busy
    /\ Report(w, stage[w], model[w])
    /\ lastStage' = [lastStage EXCEPT ![w] = IF Over(w) THEN None ELSE stage[w]]
    /\ main' = [main EXCEPT ![w] = IF Over(w) THEN "joining" ELSE @]
    /\ after' = [after EXCEPT ![w] = None]
    /\ abort' = [abort EXCEPT ![w] = @ \/ (Over(w) /\ stage[w] = "idle")]
    /\ UNCHANGED <<transport, model, stage, thread, attempt, child, fileVars,
                   starts, crashes>>

\* SHUTDOWN, the end of the stream or a report that could not be sent.
Leave(w) ==
    /\ main[w] = "idle"
    /\ IF model[w] = None
       THEN /\ main' = [main EXCEPT ![w] = "left"]
            /\ UNCHANGED <<after, abort, stage>>
       ELSE /\ main' = [main EXCEPT ![w] = "joining"]
            /\ after' = [after EXCEPT ![w] = "leave"]
            /\ Cancelled(w)
    /\ UNCHANGED <<transport, model, thread, attempt, child, lastStage, told,
                   fileVars, starts, crashes>>

Released(m) == flock' = [flock EXCEPT ![m] = None]

\* The rest of vw_model_download_free: the thread has ended, the lock is
\* released; the request that was waiting may start now.
Joined(w) ==
    /\ main[w] = "joining" /\ thread[w] = "ended"
    /\ thread' = [thread EXCEPT ![w] = None]
    /\ Released(model[w])
    /\ model' = [model EXCEPT ![w] = None]
    /\ main' = [main EXCEPT ![w] = IF after[w] \in Models THEN "starting"
                                   ELSE IF after[w] = "leave" THEN "left" ELSE "idle"]
    /\ stage' = [stage EXCEPT ![w] = "idle"]
    /\ abort' = [abort EXCEPT ![w] = FALSE]
    /\ attempt' = [attempt EXCEPT ![w] = 0]
    /\ UNCHANGED <<transport, after, child, lastStage, told,
                   part, final, content, starts, crashes>>

StartNext(w) ==
    /\ main[w] = "starting"
    /\ Started(w, after[w]) \/ StartFailed(w, after[w])
    /\ main' = [main EXCEPT ![w] = "idle"]
    /\ after' = [after EXCEPT ![w] = None]
    /\ UNCHANGED <<transport, child, lastStage, part, final, content, starts, crashes>>

-----------------------------------------------------------------------------
(* vw_download_thread.                                                      *)

Go(w, pc) == thread' = [thread EXCEPT ![w] = pc]
SetStage(w, s) == stage' = [stage EXCEPT ![w] = s]
ThreadKeeps == UNCHANGED <<transport, loopVars, model, abort, starts, crashes>>

Begin(w) ==
    /\ thread[w] = "begin"
    /\ IF abort[w] THEN Go(w, "ended") /\ SetStage(w, "idle")
                   ELSE Go(w, "attempt") /\ SetStage(w, "downloading")
    /\ UNCHANGED <<attempt, child, fileVars>> /\ ThreadKeeps

\* The head of the loop over the two attempts.  vw_download_via_curl forks;
\* vw_download_via_winhttp connects and may fail on the way.
Attempt(w) ==
    /\ thread[w] = "attempt"
    /\ \/ /\ abort[w]
          /\ Go(w, "ended") /\ SetStage(w, "idle") /\ child' = child
       \/ /\ ~abort[w] /\ stage' = stage
          /\ \/ /\ transport = "curl"
                /\ Go(w, "transfer")
                /\ child' = [child EXCEPT ![w] = [state |-> "opening", inode |-> None]]
             \/ /\ transport = "winhttp" /\ Go(w, "open") /\ child' = child
             \/ Go(w, "notReceived") /\ child' = child
    /\ UNCHANGED <<attempt, fileVars>> /\ ThreadKeeps

\* curl opens the part file, writes and ends; it runs by itself.
CurlOpens(w) ==
    /\ child[w].state = "opening" /\ model[w] # None
    /\ \E i \in OpenFor(model[w]) :
          /\ part' = [part EXCEPT ![model[w]] = i]
          /\ content' = [content EXCEPT ![i] = "partial"]
          /\ child' = [child EXCEPT ![w] = [state |-> "writing", inode |-> i]]
    /\ UNCHANGED <<transport, loopVars, model, stage, abort, thread, attempt,
                   flock, final, starts, crashes>>

\* It may write more than the catalog says before the thread notices.
CurlOverruns(w) ==
    /\ child[w].state = "writing"
    /\ content' = [content EXCEPT ![child[w].inode] = "large"]
    /\ UNCHANGED <<transport, loopVars, model, stage, abort, thread, attempt, child,
                   flock, part, final, starts, crashes>>

CurlEnds(w) ==
    /\ \/ /\ child[w].state = "writing"
          /\ \E c \in {"good", "bad"} :
                content' = [content EXCEPT ![child[w].inode] = IF @ = "large" THEN @ ELSE c]
          /\ child' = [child EXCEPT ![w].state = "ok"]
       \/ /\ child[w].state \in {"opening", "writing"}
          /\ content' = content
          /\ child' = [child EXCEPT ![w].state = "failed"]
    /\ UNCHANGED <<transport, loopVars, model, stage, abort, thread, attempt,
                   flock, part, final, starts, crashes>>

\* The polling loop around the child: an abort or a file that is too large
\* kills and reaps it, its end is noticed (an abort still wins).
WatchCurl(w) ==
    /\ thread[w] = "transfer"
    /\ \/ /\ \/ abort[w] \/ child[w].state = "failed"
             \/ child[w].state = "writing" /\ TooLarge(child[w].inode)
          /\ Go(w, "notReceived")
       \/ /\ ~abort[w] /\ child[w].state = "ok"
          /\ Go(w, "received")
    /\ child' = [child EXCEPT ![w] = NoChild]
    /\ UNCHANGED <<stage, attempt, fileVars>> /\ ThreadKeeps

\* WinHTTP: the thread opens the part file once the server has answered; the
\* loop ends at the end of the body or at a read error alike.
WinhttpOpens(w) ==
    /\ thread[w] = "open"
    /\ \/ /\ Go(w, "notReceived") /\ UNCHANGED <<part, content, child>>
       \/ \E i \in OpenFor(model[w]) :
             /\ Go(w, "receiving")
             /\ part' = [part EXCEPT ![model[w]] = i]
             /\ content' = [content EXCEPT ![i] = "partial"]
             /\ child' = [child EXCEPT ![w] = [state |-> "writing", inode |-> i]]
    /\ UNCHANGED <<stage, attempt, flock, final>> /\ ThreadKeeps

WinhttpReceives(w) ==
    /\ thread[w] = "receiving"
    /\ \/ /\ \E c \in {"good", "bad"} :
                content' = [content EXCEPT ![child[w].inode] = c]
          /\ Go(w, "received")
       \/ content' = content /\ Go(w, "notReceived")    \* abort, full disk, too large
    /\ child' = [child EXCEPT ![w] = NoChild]
    /\ UNCHANGED <<stage, attempt, flock, part, final>> /\ ThreadKeeps

\* What follows a failed attempt, once the part file is gone.
RetryOrFail(w) == IF attempt[w] = 0 THEN "retry" ELSE "fail"

\* After the transfer: the abort flag, the result and the size decide.
Judge(w) ==
    /\ thread[w] \in {"received", "notReceived"}
    /\ \/ abort[w] /\ Go(w, "aborting") /\ part' = part
       \/ /\ ~abort[w] /\ thread[w] = "notReceived"
          /\ Unlinked(model[w]) /\ Go(w, RetryOrFail(w))
       \/ /\ ~abort[w] /\ thread[w] = "received"
          /\ IF TooLarge(part[model[w]])
             THEN Unlinked(model[w]) /\ Go(w, "fail")
             ELSE part' = part /\ Go(w, "verifying")
    /\ UNCHANGED <<stage, attempt, child, flock, final, content>> /\ ThreadKeeps

\* The critical sections that publish a stage.
Retry(w) ==
    /\ thread[w] = "retry"
    /\ SetStage(w, "downloading") /\ Go(w, "attempt")
    /\ attempt' = [attempt EXCEPT ![w] = @ + 1]
    /\ UNCHANGED <<child, fileVars>> /\ ThreadKeeps

\* Mutant: the second failure goes around the loop of attempts again.
Settle_Stuck(w) ==
    /\ \/ thread[w] = "fail" /\ SetStage(w, "failed") /\ Go(w, "fail")
       \/ thread[w] = "verifying" /\ SetStage(w, "verifying") /\ Go(w, "verify")
       \/ thread[w] = "aborting" /\ SetStage(w, "aborting") /\ Go(w, "finishAbort")
    /\ UNCHANGED <<attempt, child, fileVars>> /\ ThreadKeeps

Settle(w) ==
    /\ \/ thread[w] = "fail" /\ SetStage(w, "failed") /\ Go(w, "ended")
       \/ thread[w] = "verifying" /\ SetStage(w, "verifying") /\ Go(w, "verify")
       \/ thread[w] = "aborting" /\ SetStage(w, "aborting") /\ Go(w, "finishAbort")
    /\ UNCHANGED <<attempt, child, fileVars>> /\ ThreadKeeps

FinishAbort(w) ==
    /\ thread[w] = "finishAbort"
    /\ Unlinked(model[w])
    /\ SetStage(w, "idle") /\ Go(w, "ended")
    /\ UNCHANGED <<attempt, child, flock, final, content>> /\ ThreadKeeps

\* SHA-256 of the part file against the catalog; reading it may fail.
Verify(w) ==
    /\ thread[w] = "verify"
    /\ \/ /\ Verified(part[model[w]])
          /\ Go(w, "publish") /\ part' = part
       \/ Unlinked(model[w]) /\ Go(w, RetryOrFail(w))
    /\ UNCHANGED <<stage, attempt, child, flock, final, content>> /\ ThreadKeeps

\* Mutant: the abort flag is not looked at again under the lock.
Publish_Unchecked(w) ==
    /\ thread[w] = "publish"
    /\ SetStage(w, "done") /\ Go(w, "ended")
    /\ Renamed(model[w])
    /\ UNCHANGED <<attempt, child, flock, content>> /\ ThreadKeeps

\* Abort or rename, decided under the lock that abort takes as well.
Publish(w) ==
    /\ thread[w] = "publish"
    /\ \/ /\ abort[w]
          /\ SetStage(w, "aborting") /\ Go(w, "finishAbort")
          /\ UNCHANGED <<part, final>>
       \/ /\ ~abort[w]
          /\ SetStage(w, "done") /\ Go(w, "ended")
          /\ Renamed(model[w])
       \/ /\ ~abort[w]                                   \* rename fails
          /\ SetStage(w, "failed") /\ Go(w, "ended")
          /\ Unlinked(model[w]) /\ final' = final
    /\ UNCHANGED <<attempt, child, flock, content>> /\ ThreadKeeps

ThreadStep(w) ==
    \/ Begin(w) \/ Attempt(w) \/ WatchCurl(w) \/ WinhttpOpens(w)
    \/ WinhttpReceives(w) \/ Judge(w) \/ Retry(w) \/ Settle(w) \/ FinishAbort(w)
    \/ Verify(w) \/ Publish(w)
CurlStep(w) == CurlOpens(w) \/ CurlOverruns(w) \/ CurlEnds(w)

-----------------------------------------------------------------------------
(* The operating system.  A worker that dies releases its lock and, by      *)
(* PR_SET_PDEATHSIG, takes its curl along; the part file stays.  The plugin *)
(* launches another.                                                        *)

\* Mutant: curl outlives its worker (no PR_SET_PDEATHSIG).
ChildrenAfterDeath_Orphan(w) == child

ChildrenAfterDeath(w) == [child EXCEPT ![w] = NoChild]

Crash(w) ==
    /\ main[w] \notin {"dead", "left"} /\ crashes < MaxCrashes
    /\ crashes' = crashes + 1
    /\ main' = [main EXCEPT ![w] = "dead"]
    /\ thread' = [thread EXCEPT ![w] = None]
    /\ child' = ChildrenAfterDeath(w)
    /\ flock' = [m \in Models |-> IF flock[m] = w THEN None ELSE flock[m]]
    /\ after' = [after EXCEPT ![w] = None]
    /\ model' = [model EXCEPT ![w] = None]
    /\ abort' = [abort EXCEPT ![w] = FALSE]
    /\ stage' = [stage EXCEPT ![w] = "idle"]
    /\ attempt' = [attempt EXCEPT ![w] = 0]
    /\ lastStage' = [lastStage EXCEPT ![w] = None]
    /\ told' = [told EXCEPT ![w] = <<None, None>>]
    /\ UNCHANGED <<transport, part, final, content, starts>>

Respawn(w) ==
    /\ main[w] = "dead"
    /\ main' = [main EXCEPT ![w] = "idle"]
    /\ UNCHANGED <<transport, after, model, stage, abort, thread, attempt, child,
                   lastStage, told, fileVars, starts, crashes>>

\* Every worker has left.
AllLeft == (\A w \in Workers : main[w] \in {"left"}) /\ UNCHANGED vars

LoopStep(w) == Poll(w) \/ Joined(w) \/ StartNext(w)

Next ==
    \/ \E w \in Workers :
          \/ \E m \in Models : RequestDownload(w, m)
          \/ RequestAbort(w) \/ Leave(w)
          \/ LoopStep(w)
          \/ ThreadStep(w)
          \/ CurlStep(w)
          \/ Crash(w) \/ Respawn(w)
    \/ AllLeft

Spec == Init /\ [][Next]_vars

(* Threads and processes run, curl ends (--max-time 1800; WinHTTP has its   *)
(* time-outs), the main loop polls in every iteration.  Nobody has to ask   *)
(* for anything.                                                            *)
Fairness == \A w \in Workers :
    WF_vars(ThreadStep(w)) /\ WF_vars(CurlOpens(w) \/ CurlEnds(w)) /\ WF_vars(LoopStep(w))

LiveSpec == Spec /\ Fairness

-----------------------------------------------------------------------------
(* Properties                                                               *)

\* Type invariant.
DownloadTypeOK ==
    /\ transport \in Transports
    /\ main \in [Workers -> {"idle", "joining", "starting", "dead", "left"}]
    /\ after \in [Workers -> Models \cup {None, "leave"}]
    /\ model \in [Workers -> Models \cup {None}]
    /\ stage \in [Workers -> Stages]
    /\ abort \in [Workers -> BOOLEAN]
    /\ attempt \in [Workers -> {0, 1}]
    /\ lastStage \in [Workers -> Stages \cup {None}]
    /\ flock \in [Models -> Workers \cup {None}]
    /\ part \in [Models -> Inodes \cup {None}]
    /\ final \in [Models -> Inodes \cup {None}]
    /\ content \in [Inodes -> {"partial", "good", "bad", "large"}]

\* A model file that has its final name holds the verified bytes, at every
\* later moment too: no downloader, not even one whose worker died, still
\* writes to the inode that was renamed (vw_model_download.c:276-279).  So a
\* plugin that activates the model on DONE finds them there.
PublishedStaysVerified ==
    /\ \A m \in Models : final[m] # None => content[final[m]] = "good"
    /\ \A w \in Workers : told[w][1] = "done" => final[told[w][2]] # None

\* The abort and the publication exclude each other: once an abort has been
\* accepted, this download is never published (lock at lines 629-651 and
\* 744-751).
AbortedIsNotPublished ==
    [][\A w \in Workers, m \in Models :
          final'[m] # final[m] /\ thread[w] = "publish" /\ thread'[w] # "publish"
              => ~abort[w]]_vars

\* Joining the thread never blocks the main loop for good: free, START of the
\* next download and the exit of the worker return.
JoinReturns == \A w \in Workers : (main[w] = "joining") ~> (main[w] # "joining")
=============================================================================
