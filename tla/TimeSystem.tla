----------------------------- MODULE TimeSystem -----------------------------
(***************************************************************************)
(* An interval, a same-state tracker and a timer entity in one event loop: *)
(* they share the clock, the time events and the loop's FIFO, so the jobs  *)
(* of one come between the jobs and the calls of the others.               *)
(***************************************************************************)
EXTENDS TimeHelpers, Timer

vars == <<timeVars, helperVars, timerVars>>

Init == TimeInit /\ HelperInit /\ TimerInit

Time == PassTime \/ fire_time_event

RunJob ==
  \/ PitLapses /\ UNCHANGED <<helperVars, timerVars>>
  \/ HelperJob /\ UNCHANGED timerVars
  \/ TimerJob /\ UNCHANGED helperVars

Next ==
  \/ Time /\ UNCHANGED <<helperVars, timerVars>>
  \/ RunJob
  \/ HelperCall /\ UNCHANGED timerVars
  \/ TimerCall /\ UNCHANGED helperVars

(* Time passes, the timer of core.py fires, the loop runs what is ready;   *)
(* nobody is obliged to call a service, track or remove anything.          *)
Spec ==
  Init /\ [][Next]_vars
       /\ WF_vars(PassTime /\ UNCHANGED <<helperVars, timerVars>>)
       /\ WF_vars(fire_time_event /\ UNCHANGED <<helperVars, timerVars>>)
       /\ WF_vars(RunJob)

Job ==
  [stage : {"pit"}, k : DOMAIN pits, now : 0..sent]
    \cup [stage : {"finished"}] \cup [stage : {"state"}, same : BOOLEAN]

(* Types; and a listener that has run is no longer registered.             *)
TypeOK ==
  /\ clock \in 0..MaxClock /\ sent \in 0..clock
  /\ pits \in Seq(Pit) /\ \A k \in DOMAIN pits : ~(pits[k].sub /\ pits[k].run)
  /\ jobs \in Seq(Job)
  /\ timer \in [state : {"idle", "active", "paused"},
                listener : {0} \cup DOMAIN pits, dur : Nat, rem : Int]
  /\ interval \in [on : BOOLEAN, removed : BOOLEAN, lined : BOOLEAN,
                   remove : {0} \cup DOMAIN pits]
  /\ same \in [tracked : BOOLEAN, cancel : BOOLEAN, acted : BOOLEAN,
               listener : {0} \cup DOMAIN pits]
  /\ calls \in 0..MaxCalls
  /\ served \in Nat /\ begun \in 0..clock /\ tidy \in BOOLEAN
=============================================================================
