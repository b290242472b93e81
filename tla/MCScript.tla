------------------------------ MODULE MCScript ------------------------------
(***************************************************************************)
(* Small instances of Script: a sequence with every kind of step, and one  *)
(* that only waits, with a timeout, before its event.                      *)
(***************************************************************************)
EXTENDS Script

MCSteps == <<"delay", "timed_wait", "condition", "delay", "service", "wait", "event">>
MCTimedWait == <<"timed_wait", "event">>
=============================================================================
