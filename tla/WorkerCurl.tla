----------------------------- MODULE WorkerCurl -----------------------------
(* The worker's two users of curl children: the translation                 *)
(* requests of the pool's threads (TranslateRequest) and the model download *)
(* (ModelDownload).  They run one at a time: part says which.               *)
EXTENDS TranslateRequest

CONSTANTS Workers, Models, Transports, Inodes, MaxStarts, MaxCrashes

VARIABLES part, transport, main, after, model, stage, abort, thread, attempt, curl, lastStage,
          told, flock, partial, final, content, starts, crashes

downloadVars == <<transport, main, after, model, stage, abort, thread, attempt, curl, lastStage,
                  told, flock, partial, final, content, starts, crashes>>

Download == INSTANCE ModelDownload WITH child <- curl, part <- partial

ASSUME DownloadAssumption == Download!DownloadConstants

CurlInit ==
    /\ part \in {"request", "download"} /\ Init /\ Download!Init
    /\ part = "request" => transport = "curl"
    /\ part = "download" => sigpipe = "ign"

CurlNext ==
    \/ part = "request" /\ Next /\ UNCHANGED <<part, downloadVars>>
    \/ part = "download" /\ Download!Next /\ UNCHANGED <<part, vars>>

CurlSpec == CurlInit /\ [][CurlNext]_<<part, vars, downloadVars>>

\* The fairness of both modules, for the one that runs.
CurlLiveSpec ==
    /\ CurlSpec
    /\ WF_vars(part = "request" /\ Tick)
    /\ \A t \in Threads : WF_vars(part = "request" /\ Request(t))
    /\ Download!Fairness

\* ModelDownload.PublishedStaysVerified: no crash, orphan or second worker spoils a published
\* model.
PublishedStaysVerified == Download!PublishedStaysVerified

\* ModelDownload.AbortedIsNotPublished: an accepted abort and the publication exclude each other.
AbortedIsNotPublished == Download!AbortedIsNotPublished

\* ModelDownload.JoinReturns: joining the thread never blocks the main loop for good.
JoinReturns == Download!JoinReturns
=============================================================================
