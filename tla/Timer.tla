-------------------------------- MODULE Timer --------------------------------
(***************************************************************************)
(* components/timer/__init__.py, class Timer, one entity: the services     *)
(* start, pause, cancel and finish against the point in time at which it   *)
(* finishes by itself.  async_finished is a coroutine, so the listener     *)
(* only schedules it: between the time event and the end of the run there  *)
(* are two jobs, and a service call may come before either of them.        *)
(***************************************************************************)
EXTENDS TimeEvents

CONSTANTS
  Duration,   \* the configured duration; seconds
  Durations   \* durations a caller may give to the service start

ASSUME TimerConstants == Duration \in Nat /\ Durations \subseteq Nat \ {0}

VARIABLES
  timer,   \* the entity's attributes; listener = 0 stands for None
  served,  \* history: seconds this run was active before its last resumption
  begun,   \* history: when it was last started or resumed
  tidy     \* history: no call has left an older listener in play

timerVars == <<timer, served, begun, tidy>>

(* The listener or the coroutine it schedules is still to run.             *)
Pending ==
  \E i \in DOMAIN jobs : \/ jobs[i].stage = "finished"
                         \/ jobs[i].stage = "pit" /\ pits[jobs[i].k].who = "timer"

Active == timer.state = "active"

(* Every service call, and what it may leave behind for a later run.       *)
Call ==
  /\ Called
  /\ tidy' = (tidy /\ ~Pending)
  /\ UNCHANGED <<clock, sent, jobs>>

(* (Mutant: the new listener is stored before the old one is removed.)     *)
async_start_Swapped(d) ==
  LET dur == IF d # 0 THEN d ELSE timer.dur
      rem == IF d = 0 /\ timer.rem # 0 THEN timer.rem ELSE dur
      new == async_track_point_in_utc_time(pits, "timer", clock + rem)
  IN /\ Call
     /\ pits' = IF timer.listener # 0 THEN Unsub(new, Len(new)) ELSE new
     /\ timer' = [state |-> "active", listener |-> Len(new), dur |-> dur, rem |-> rem]
     /\ begun' = clock
     /\ served' = IF d = 0 /\ timer.state # "idle" THEN served + clock - begun ELSE 0

(* d = 0: no duration given.  What remains is kept, unless it is zero.     *)
async_start(d) ==
  LET dur == IF d # 0 THEN d ELSE timer.dur
      rem == IF d = 0 /\ timer.rem # 0 THEN timer.rem ELSE dur
  IN /\ Call
     /\ pits' = async_track_point_in_utc_time(Unsub(pits, timer.listener),
                                              "timer", clock + rem)
     /\ timer' = [state |-> "active", listener |-> Len(pits'), dur |-> dur, rem |-> rem]
     /\ begun' = clock
     /\ served' = CASE d # 0 \/ timer.state = "idle" -> 0
                    [] timer.state = "paused"        -> served
                    [] OTHER                         -> served + clock - begun

(* (Mutant: the listener is forgotten, not removed.)                       *)
async_pause_Forgets ==
  /\ timer.listener # 0
  /\ Call
  /\ timer' = [timer EXCEPT !.state = "paused", !.listener = 0,
                            !.rem = pits[timer.listener].at - clock]
  /\ served' = served + clock - begun
  /\ UNCHANGED <<begun, pits>>

(* _end is the time the listener was registered for.                       *)
async_pause ==
  /\ timer.listener # 0
  /\ Call
  /\ pits' = Unsub(pits, timer.listener)
  /\ timer' = [timer EXCEPT !.state = "paused", !.listener = 0,
                            !.rem = pits[timer.listener].at - clock]
  /\ served' = served + clock - begun
  /\ UNCHANGED begun

async_cancel ==
  /\ Call
  /\ pits' = Unsub(pits, timer.listener)
  /\ timer' = [timer EXCEPT !.state = "idle", !.listener = 0, !.rem = 0]
  /\ UNCHANGED <<served, begun>>

Finished == [timer EXCEPT !.state = "idle", !.listener = 0, !.rem = 0]

(* The service forgets the listener without removing it.                   *)
async_finish ==
  /\ Active
  /\ Called
  /\ timer' = Finished
  /\ tidy' = FALSE
  /\ UNCHANGED <<clock, sent, jobs, pits, served, begun>>

(* (Mutant: the coroutine is created and never scheduled.)                 *)
PointInTime_Lost ==
  /\ PitRuns("timer")
  /\ pits' = Consumed
  /\ jobs' = Tail(jobs)
  /\ UNCHANGED <<clock, sent, calls, timerVars>>

(* The point in time: the coroutine is scheduled.                          *)
PointInTime ==
  /\ PitRuns("timer")
  /\ pits' = Consumed
  /\ jobs' = Append(Tail(jobs), [stage |-> "finished"])
  /\ UNCHANGED <<clock, sent, calls, timerVars>>

async_finished ==
  /\ Next_job("finished")
  /\ timer' = IF Active THEN Finished ELSE timer
  /\ jobs' = Tail(jobs)
  /\ UNCHANGED <<clock, sent, pits, calls, served, begun, tidy>>

TimerInit ==
  /\ timer = [state |-> "idle", listener |-> 0, dur |-> Duration, rem |-> Duration]
  /\ served = 0 /\ begun = 0 /\ tidy = TRUE

TimerJob == PointInTime \/ async_finished

TimerCall ==
  \/ \E d \in Durations \cup {0} : async_start(d)
  \/ async_pause \/ async_cancel \/ async_finish

-----------------------------------------------------------------------------
(* An active timer has something that will end it: a registered listener   *)
(* for it, or the coroutine already scheduled.  A call that removes one    *)
(* listener always leaves another or stops the timer.                      *)
ActiveWillEnd ==
  Active => \/ timer.listener # 0 /\ pits[timer.listener].sub
            \/ \E i \in DOMAIN jobs : jobs[i].stage = "finished"

(* A run that ends by itself has been active for its full duration, over   *)
(* any number of pauses, resumptions and restarts -- as long as no service *)
(* call came while its listener was queued and none finished it early: a   *)
(* listener that is left over from an earlier run ends the present one.    *)
FullTime ==
  [][Next_job("finished") /\ Active /\ timer'.state = "idle" /\ jobs' # jobs /\ tidy
       => served + clock - begun >= timer.dur]_<<timer, jobs>>

(* An active timer does end, or is moved, if its end and another time      *)
(* event are within the bound.                                             *)
TimerEnds ==
  Active /\ pits[timer.listener].at <= MaxClock /\ sent < MaxClock
    ~> ~Active \/ pits[timer.listener].at > MaxClock
=============================================================================
