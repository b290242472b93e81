----------------------------- MODULE TimeHelpers -----------------------------
(***************************************************************************)
(* Two users of a point in time in helpers/event.py: an interval, which    *)
(* registers itself again each time, and the tracker that acts when a      *)
(* state has stayed the same for a period.                                 *)
(***************************************************************************)
EXTENDS TimeEvents

CONSTANTS
  Interval,    \* seconds between two calls of the interval's action
  Period       \* seconds the state has to stay the same

ASSUME HelperConstants == Interval \in Nat /\ Period \in Nat

VARIABLES
  interval,  \* async_track_time_interval: remove, and was it called; lined is
             \* history: was the listener queued at that moment?
  same       \* async_track_same_state: its two unsubscribers, has it acted?

helperVars == <<interval, same>>

Queued(who) == \E i \in DOMAIN jobs : jobs[i].stage = "pit" /\ pits[jobs[i].k].who = who

async_track_time_interval ==
  /\ Called
  /\ ~interval.on /\ ~interval.removed
  /\ pits' = async_track_point_in_utc_time(pits, "interval", clock + Interval)
  /\ interval' = [interval EXCEPT !.on = TRUE, !.remove = Len(pits')]
  /\ UNCHANGED <<clock, sent, jobs, same>>

interval_listener ==
  /\ PitRuns("interval")
  /\ pits' = async_track_point_in_utc_time(Consumed, "interval", clock + Interval)
  /\ interval' = [interval EXCEPT !.remove = Len(pits')]
  /\ jobs' = Tail(jobs)
  /\ UNCHANGED <<clock, sent, calls, same>>

remove_listener ==
  /\ Called
  /\ interval.on
  /\ pits' = Unsub(pits, interval.remove)
  /\ interval' = [on |-> FALSE, removed |-> TRUE, remove |-> 0, lined |-> Queued("interval")]
  /\ UNCHANGED <<clock, sent, jobs, same>>

-----------------------------------------------------------------------------
(* listener = 0 and cancel = FALSE stand for None.                         *)
Cleared == [same EXCEPT !.listener = 0, !.cancel = FALSE]

async_track_same_state ==
  /\ Called
  /\ ~same.tracked
  /\ pits' = async_track_point_in_utc_time(pits, "same", clock + Period)
  /\ same' = [tracked |-> TRUE, listener |-> Len(pits'), cancel |-> TRUE, acted |-> FALSE]
  /\ UNCHANGED <<clock, sent, jobs, interval>>

(* What async_track_same_state returns, called by whoever asked for it.    *)
clear_listener ==
  /\ Called
  /\ same.tracked /\ (same.cancel \/ same.listener # 0)
  /\ pits' = Unsub(pits, same.listener)
  /\ same' = Cleared
  /\ UNCHANGED <<clock, sent, jobs, interval>>

(* (Mutant: only the variable of the listener that ran is forgotten.)      *)
state_for_listener_Leak ==
  /\ PitRuns("same")
  /\ pits' = Consumed
  /\ same' = [same EXCEPT !.listener = 0, !.acted = TRUE]
  /\ jobs' = Tail(jobs)
  /\ UNCHANGED <<clock, sent, calls, interval>>

state_for_listener ==
  /\ PitRuns("same")
  /\ pits' = Consumed
  /\ same' = [Cleared EXCEPT !.acted = TRUE]
  /\ jobs' = Tail(jobs)
  /\ UNCHANGED <<clock, sent, calls, interval>>

(* The state changes to one that counts as the same, or not; the tracker's *)
(* listener for it is scheduled if it is registered.                       *)
StateChange(isSame) ==
  /\ Called
  /\ jobs' = IF same.cancel THEN Append(jobs, [stage |-> "state", same |-> isSame]) ELSE jobs
  /\ UNCHANGED <<clock, sent, pits, interval, same>>

state_for_cancel_listener ==
  /\ Next_job("state")
  /\ IF Head(jobs).same
       THEN UNCHANGED <<pits, same>>
       ELSE pits' = Unsub(pits, same.listener) /\ same' = Cleared
  /\ jobs' = Tail(jobs)
  /\ UNCHANGED <<clock, sent, calls, interval>>

HelperInit ==
  /\ interval = [on |-> FALSE, removed |-> FALSE, remove |-> 0, lined |-> FALSE]
  /\ same = [tracked |-> FALSE, listener |-> 0, cancel |-> FALSE, acted |-> FALSE]

HelperJob == interval_listener \/ state_for_listener \/ state_for_cancel_listener

HelperCall ==
  \/ async_track_time_interval \/ remove_listener
  \/ async_track_same_state \/ clear_listener
  \/ \E isSame \in BOOLEAN : StateChange(isSame)

-----------------------------------------------------------------------------
Registered(who) == {k \in DOMAIN pits : pits[k].who = who /\ pits[k].sub}

(* The promise of the function async_track_time_interval returns.          *)
IntervalRemoved == interval.removed => Registered("interval") = {}

(* However many time events are lined up for it, an interval never becomes *)
(* two: one listener is registered, the one that remove would remove; and  *)
(* removal is final unless a time event had been fired and its job for the *)
(* interval was still queued at that moment.                               *)
OneChain ==
  /\ Cardinality(Registered("interval")) <= 1
  /\ interval.on => Registered("interval") = {interval.remove}
  /\ ~interval.lined => IntervalRemoved

(* Once the tracker has acted or has been cancelled, whichever way and     *)
(* whatever is still queued for it, it has left no listener behind.        *)
SameNoLeak ==
  same.acted \/ same.listener = 0 => ~same.cancel /\ Registered("same") = {}
=============================================================================
