-------------------------- MODULE MCWorkerProcess ---------------------------
(* Instances of WorkerProcess for TLC: the requests are numbered in the    *)
(* order of the backlog, which holds all of them but one.                  *)
EXTENDS WorkerProcess

\* The requests are 0..n; request 0 was not sampled and has no job.
MCBacklog == [i \in 1..(Cardinality(Request) - 1) |-> i]
=============================================================================
