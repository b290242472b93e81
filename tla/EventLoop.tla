------------------------------ MODULE EventLoop ------------------------------
(***************************************************************************)
(* The scheduling core.py relies on: the asyncio event loop with its FIFO  *)
(* of ready callbacks, and the thread pool behind run_in_executor.         *)
(*                                                                         *)
(* Both are kept in ONE sequence of jobs, in the order async_add_job       *)
(* scheduled them.  A job with loop = TRUE is a ready callback (call_soon) *)
(* or the next step of a task (create_task): the loop runs those one at a  *)
(* time, in order, each to its next await.  A job with loop = FALSE was    *)
(* given to the executor, whose threads may finish it at any time,         *)
(* whatever precedes it.                                                   *)
(***************************************************************************)
EXTENDS Naturals, Sequences, SequencesExt

(* Job number i may run now: it is in the executor, or it is the first of  *)
(* the loop's ready jobs.                                                  *)
Runnable(jobs, i) ==
  /\ i \in DOMAIN jobs
  /\ jobs[i].loop => \A j \in 1..(i - 1) : ~jobs[j].loop

(* What remains scheduled once job number i has been taken out to run.     *)
Without(jobs, i) == RemoveAt(jobs, i)
=============================================================================
