---------------------------- MODULE MCWorkerCurl ----------------------------
(* The users of curl (WorkerCurl) for TLC: threads, workers and inodes are   *)
(* interchangeable.                                                          *)
EXTENDS WorkerCurl, TLC

Interchangeable == Permutations(Threads) \cup Permutations(Workers) \cup Permutations(Inodes)
=============================================================================
