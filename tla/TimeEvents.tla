------------------------------ MODULE TimeEvents ------------------------------
(***************************************************************************)
(* Waiting for a point in time (helpers/event.py): time passes, the timer  *)
(* of core.py fires EVENT_TIME_CHANGED, and every registered               *)
(* point_in_time_listener gets a job, which runs later, after whatever was *)
(* ready before it.  A listener may be unsubscribed in between, and may be *)
(* lined up by a second event before it has seen the first.                *)
(*                                                                         *)
(* Everything here runs in the event loop, so jobs is one FIFO.            *)
(***************************************************************************)
EXTENDS Integers, Sequences, SequencesExt, FiniteSets

CONSTANTS
  MaxClock,   \* bound: how far time goes, in seconds
  MaxCalls    \* bound: calls and state changes from outside

ASSUME TimeConstants == MaxClock \in Nat /\ MaxCalls \in Nat

VARIABLES
  clock,   \* utcnow()
  sent,    \* ATTR_NOW of the last time event
  jobs,    \* the loop's ready callbacks
  pits,    \* every point_in_time_listener ever made, in order of registration
  calls    \* calls and state changes from outside so far

timeVars == <<clock, sent, jobs, pits, calls>>

(* Somebody calls a service or a helper, or changes a state.               *)
Called == calls < MaxCalls /\ calls' = calls + 1

(* A listener: who asked for it, for when; is it registered, has it 'run'? *)
Users == {"interval", "same", "timer", "delay", "timeout"}
Pit == [who : Users, at : Int, sub : BOOLEAN, run : BOOLEAN]

async_track_point_in_utc_time(ps, who, at) ==
  Append(ps, [who |-> who, at |-> at, sub |-> TRUE, run |-> FALSE])

(* Removing a listener that is not registered is logged and no more.       *)
Unsub(ps, k) == IF k = 0 THEN ps ELSE [ps EXCEPT ![k].sub = FALSE]

PassTime ==
  /\ clock < MaxClock
  /\ clock' = clock + 1
  /\ UNCHANGED <<sent, jobs, pits, calls>>

(* The one sequence that has the listeners K in order of registration.     *)
InOrderOf(K) ==
  {ks \in [1..Cardinality(K) -> K] : \A m, n \in DOMAIN ks : m < n => ks[m] < ks[n]}

(* The timer fires once a second at the most; it may be late.              *)
fire_time_event ==
  /\ sent < clock
  /\ sent' = clock
  /\ \E ks \in InOrderOf({k \in DOMAIN pits : pits[k].sub}) :
       jobs' = jobs \o [n \in DOMAIN ks |-> [stage |-> "pit", k |-> ks[n], now |-> clock]]
  /\ UNCHANGED <<clock, pits, calls>>

(* (Mutant: without the attribute 'run', unsubscribing is relied upon.)    *)
Due_NoFlag(job) == job.now >= pits[job.k].at

Due(job) == job.now >= pits[job.k].at /\ ~pits[job.k].run

Next_job(stage) == jobs # <<>> /\ Head(jobs).stage = stage

(* Too early, or lined up twice: nothing happens.                          *)
PitLapses ==
  /\ Next_job("pit")
  /\ ~Due(Head(jobs))
  /\ jobs' = Tail(jobs)
  /\ UNCHANGED <<clock, sent, pits, calls>>

(* A listener of who is due: run is set and it is unsubscribed, before its *)
(* action is run.                                                          *)
PitRuns(who) == Next_job("pit") /\ Due(Head(jobs)) /\ pits[Head(jobs).k].who = who

Consumed == [pits EXCEPT ![Head(jobs).k].run = TRUE, ![Head(jobs).k].sub = FALSE]

TimeInit == clock = 0 /\ sent = 0 /\ jobs = <<>> /\ pits = <<>> /\ calls = 0
=============================================================================
