---- MODULE MCWorkerClient ----
(* WorkerClient for TLC; the values are in the configurations. *)
EXTENDS WorkerClient
====
