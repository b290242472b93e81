------------------------------- MODULE Script -------------------------------
(***************************************************************************)
(* helpers/script.py, class Script: a sequence of steps with delays, waits *)
(* for a template with an optional timeout, conditions, events and service *)
(* calls.  async_run goes on from _cur until it has to wait, and leaves    *)
(* callbacks behind that will call it again.  Each of them may be queued   *)
(* already when somebody turns the script on again, or stops it; and a     *)
(* step may raise, which ends async_run where it is.                       *)
(***************************************************************************)
EXTENDS TimeEvents

CONSTANTS
  Steps,    \* the sequence: kinds of step, the first has number 0
  Delay,    \* seconds of a delay
  Timeout   \* seconds after which a "timed_wait" is given up

ASSUME ScriptConstants ==
  /\ Steps \in Seq({"delay", "wait", "timed_wait", "condition", "event", "service"})
  /\ Delay \in Nat /\ Timeout \in Nat

VARIABLES
  cur,        \* _cur: the step to continue with, -1 when not running
  listeners,  \* _async_listener: what to call to unsubscribe
  trackers,   \* every async_track_template listener made
  template,   \* the present value of the template waited for
  at,         \* the step async_run is at, while it has the loop; or Off
  awaiting,   \* steps whose service call some async_run awaits
  done,       \* history: the last step executed, of those not to be repeated
  until,      \* history: the end of the last delay, or timeout of a wait
  stopped,    \* history: stopped since it was last turned on from outside
  raised,     \* history: the async_run that last had the loop was ended by a step
  alone       \* history: no other one awaited a service when the last one began

scriptVars == <<cur, listeners, trackers, template, at, awaiting>>
history == <<done, until, stopped, raised, alone>>
vars == <<timeVars, scriptVars, history>>

Off == -2
Idle == at = Off
PitUnsub(k) == [pit |-> TRUE, k |-> k]
TrackerUnsub(k) == [pit |-> FALSE, k |-> k]

(* Calling every unsub of the list, as it was; they are the only copies.   *)
WithoutPits(ps) ==
  [k \in DOMAIN ps |-> IF PitUnsub(k) \in listeners THEN [ps[k] EXCEPT !.sub = FALSE] ELSE ps[k]]

WithoutTrackers(ts) ==
  [k \in DOMAIN ts |-> IF TrackerUnsub(k) \in listeners THEN [ts[k] EXCEPT !.sub = FALSE] ELSE ts[k]]

(* (Mutant: the list is cleared and nothing unsubscribed.)                 *)
_async_remove_listener_Clear == listeners' = {} /\ UNCHANGED <<pits, trackers>>

_async_remove_listener ==
  pits' = WithoutPits(pits) /\ trackers' = WithoutTrackers(trackers) /\ listeners' = {}

Queued(stage) == \E i \in DOMAIN jobs : jobs[i].stage = stage

(* (Mutant: turning on a script that runs has no effect but on its list.)  *)
async_run_Ignores(outside) ==
  /\ IF cur = -1 THEN cur' = 0 /\ at' = 0 /\ done' = -1 ELSE UNCHANGED <<cur, at, done>>
  /\ _async_remove_listener
  /\ stopped' = (stopped /\ ~outside)
  /\ raised' = FALSE /\ alone' = (awaiting = <<>>)
  /\ UNCHANGED <<template, awaiting, until>>

(* The code up to the loop over the steps; outside: not its own callback.  *)
(* When two have overlapped, the history begins anew with the next one.    *)
async_run(outside) ==
  /\ cur' = IF cur = -1 THEN 0 ELSE cur
  /\ at' = cur'
  /\ _async_remove_listener
  /\ done' = IF cur # -1 /\ alone THEN done ELSE cur' - 1
  /\ stopped' = (stopped /\ ~outside)
  /\ raised' = FALSE /\ alone' = (awaiting = <<>>)
  /\ UNCHANGED <<template, awaiting, until>>

TurnOn ==
  /\ Idle /\ Called
  /\ async_run(TRUE)
  /\ UNCHANGED <<clock, sent, jobs>>

Continue ==
  /\ Idle /\ Next_job("run")
  /\ async_run(FALSE)
  /\ jobs' = Tail(jobs)
  /\ UNCHANGED <<clock, sent, calls>>

async_stop ==
  IF cur = -1 THEN UNCHANGED <<cur, listeners, trackers, pits, stopped>>
  ELSE cur' = -1 /\ stopped' = TRUE /\ _async_remove_listener

TurnOff ==
  /\ Idle /\ Called
  /\ async_stop
  /\ UNCHANGED <<clock, sent, jobs, template, at, awaiting, done, until, raised, alone>>

-----------------------------------------------------------------------------
(* The steps, while async_run has the loop.                                *)

At(kind) == ~Idle /\ at < Len(Steps) /\ Steps[at + 1] = kind

NextStep == at' = at + 1 /\ done' = at

(* (Mutant: the script waits at the delay again.)                          *)
Leave_Same == at' = Off /\ cur' = at /\ done' = at

(* Leave the coroutine, to be called again for the next step.              *)
Leave == at' = Off /\ cur' = at + 1 /\ done' = at

DelayStep ==
  /\ At("delay") /\ Leave
  /\ pits' = async_track_point_in_utc_time(pits, "delay", clock + Delay)
  /\ listeners' = listeners \cup {PitUnsub(Len(pits'))}
  /\ until' = clock + Delay
  /\ UNCHANGED <<clock, sent, jobs, calls, trackers, template, awaiting, stopped, raised, alone>>

WaitStep ==
  /\ At("wait") \/ At("timed_wait")
  /\ ~template /\ Leave
  /\ trackers' = Append(trackers, [sub |-> TRUE, triggered |-> FALSE])
  /\ IF Steps[at + 1] = "wait"
       THEN /\ listeners' = listeners \cup {TrackerUnsub(Len(trackers'))}
            /\ UNCHANGED <<pits, until>>
       ELSE /\ pits' = async_track_point_in_utc_time(pits, "timeout", clock + Timeout)
            /\ until' = clock + Timeout
            /\ listeners' = listeners \cup {TrackerUnsub(Len(trackers')), PitUnsub(Len(pits'))}
  /\ UNCHANGED <<clock, sent, jobs, calls, template, awaiting, stopped, raised, alone>>

(* A wait whose template is true already, an event, a condition that holds.*)
PassStep ==
  /\ (template /\ (At("wait") \/ At("timed_wait"))) \/ At("event") \/ At("condition")
  /\ NextStep
  /\ UNCHANGED <<timeVars, cur, listeners, trackers, template, awaiting, until, stopped, raised, alone>>

ServiceStep ==
  /\ At("service")
  /\ at' = Off /\ awaiting' = Append(awaiting, at) /\ done' = at
  /\ UNCHANGED <<timeVars, cur, listeners, trackers, template, until, stopped, raised, alone>>

(* The call returns, and the async_run that awaits it goes on.             *)
ServiceReturns(i) ==
  /\ Idle
  /\ at' = awaiting[i] + 1
  /\ awaiting' = RemoveAt(awaiting, i)
  /\ raised' = FALSE
  /\ UNCHANGED <<timeVars, cur, listeners, trackers, template, done, until, stopped, alone>>

(* The last step is behind, or a condition does not hold.                  *)
EndRun ==
  /\ At("condition") \/ at = Len(Steps)
  /\ at' = Off /\ cur' = -1
  /\ UNCHANGED <<timeVars, listeners, trackers, template, awaiting, history>>

(* A step raises: the template of a delay (TemplateError, vol.Invalid), of *)
(* a condition, or anything else that is rendered and not caught.  Nothing *)
(* is undone: _cur is what it was when this async_run began, or what a     *)
(* stop made of it, so the next one begins with the same step again.       *)
Raises ==
  /\ ~Idle /\ at < Len(Steps)
  /\ at' = Off /\ raised' = TRUE
  /\ done' = IF cur = -1 THEN done ELSE cur - 1
  /\ UNCHANGED <<timeVars, cur, listeners, trackers, template, awaiting, until, stopped, alone>>

-----------------------------------------------------------------------------
(* What waits leave behind.                                                *)

(* (Mutant: the unsub of a delay is dropped from the list, if it is there.)*)
async_script_delay_Discard ==
  /\ Idle /\ PitRuns("delay")
  /\ pits' = Consumed
  /\ listeners' = listeners \ {PitUnsub(Head(jobs).k)}
  /\ jobs' = Append(Tail(jobs), [stage |-> "run"])
  /\ UNCHANGED <<clock, sent, calls, cur, trackers, template, at, awaiting, history>>

(* list.remove raises if unsub is no longer in the list: end of callback.  *)
async_script_delay ==
  /\ Idle /\ PitRuns("delay")
  /\ pits' = Consumed
  /\ IF PitUnsub(Head(jobs).k) \in listeners
       THEN /\ listeners' = listeners \ {PitUnsub(Head(jobs).k)}
            /\ jobs' = Append(Tail(jobs), [stage |-> "run"])
       ELSE jobs' = Tail(jobs) /\ UNCHANGED listeners
  /\ UNCHANGED <<clock, sent, calls, cur, trackers, template, at, awaiting, history>>

(* async_stop, inline: every listener that is left is removed.             *)
async_script_timeout ==
  /\ Idle /\ PitRuns("timeout")
  /\ LET own == PitUnsub(Head(jobs).k)
     IN IF own \in listeners /\ cur # -1
        THEN /\ pits' = WithoutPits(Consumed) /\ trackers' = WithoutTrackers(trackers)
             /\ listeners' = {} /\ cur' = -1 /\ stopped' = TRUE
        ELSE /\ pits' = Consumed /\ listeners' = listeners \ {own}
             /\ UNCHANGED <<trackers, cur, stopped>>
  /\ jobs' = Tail(jobs)
  /\ UNCHANGED <<clock, sent, calls, template, at, awaiting, done, until, raised, alone>>

(* A state changes, and with it the template's value.                      *)
TemplateChanges ==
  /\ Idle /\ Called
  /\ template' = ~template
  /\ \E ks \in InOrderOf({k \in DOMAIN trackers : trackers[k].sub}) :
       jobs' = jobs \o [n \in DOMAIN ks |-> [stage |-> "state", k |-> ks[n]]]
  /\ UNCHANGED <<clock, sent, pits, cur, listeners, trackers, at, awaiting, history>>

(* template_condition_listener looks at the template's value now; if it    *)
(* triggers, async_script_wait is called inline, even if the listener was  *)
(* removed since: by a call, a timeout, or by having triggered before.     *)
async_script_wait ==
  /\ Idle /\ Next_job("state")
  /\ LET k == Head(jobs).k
         seen == [trackers EXCEPT ![k].triggered = template]
     IN IF template /\ ~trackers[k].triggered
        THEN /\ pits' = WithoutPits(pits) /\ trackers' = WithoutTrackers(seen)
             /\ listeners' = {}
             /\ jobs' = Append(Tail(jobs), [stage |-> "run"])
        ELSE trackers' = seen /\ jobs' = Tail(jobs) /\ UNCHANGED <<pits, listeners>>
  /\ UNCHANGED <<clock, sent, calls, cur, template, at, awaiting, history>>

-----------------------------------------------------------------------------
Init ==
  /\ TimeInit
  /\ cur = -1 /\ listeners = {} /\ trackers = <<>> /\ template = FALSE
  /\ at = Off /\ awaiting = <<>>
  /\ done = -1 /\ until = 0 /\ stopped = FALSE /\ raised = FALSE /\ alone = TRUE

Time == PassTime \/ (Idle /\ (fire_time_event \/ PitLapses))

Step == DelayStep \/ WaitStep \/ PassStep \/ ServiceStep \/ EndRun \/ Raises

Callback == async_script_delay \/ async_script_timeout \/ async_script_wait \/ Continue

Next ==
  \/ Time /\ UNCHANGED <<scriptVars, history>>
  \/ Step \/ Callback \/ TurnOn \/ TurnOff \/ TemplateChanges
  \/ \E i \in DOMAIN awaiting : ServiceReturns(i)

Spec == Init /\ [][Next]_vars

-----------------------------------------------------------------------------
Job == [stage : {"run"}] \cup [stage : {"state"}, k : DOMAIN trackers]
         \cup [stage : {"pit"}, k : DOMAIN pits, now : 0..sent]

(* Types; and the list has exactly what is registered, so that nothing is  *)
(* left behind and nothing is lost.                                        *)
TypeOK ==
  /\ clock \in 0..MaxClock /\ sent \in 0..clock /\ calls \in 0..MaxCalls
  /\ pits \in Seq(Pit) /\ jobs \in Seq(Job)
  /\ trackers \in Seq([sub : BOOLEAN, triggered : BOOLEAN])
  /\ cur \in -1..Len(Steps) /\ at \in {Off} \cup 0..Len(Steps)
  /\ listeners = {PitUnsub(k) : k \in {j \in DOMAIN pits : pits[j].sub}}
       \cup {TrackerUnsub(k) : k \in {j \in DOMAIN trackers : trackers[j].sub}}
  /\ awaiting \in Seq(0..(Len(Steps) - 1))
  /\ template \in BOOLEAN /\ stopped \in BOOLEAN /\ raised \in BOOLEAN /\ alone \in BOOLEAN
  /\ done \in -1..(Len(Steps) - 1) /\ until \in Nat

(* A script that says it is running has something that will carry it on: a *)
(* listener that is registered or queued, a continuation, a service call.  *)
(* Whatever calls and callbacks overlap, only a step that raised leaves it *)
(* stuck, until somebody turns it on or off.                               *)
HasWake ==
  cur # -1 =>
    ~Idle \/ awaiting # <<>> \/ Queued("run") \/ listeners # {} \/ raised

(* A script that says it is running always has something to carry it on.   *)
NeverStuck ==
  cur # -1 => ~Idle \/ awaiting # <<>> \/ Queued("run") \/ listeners # {}

(* The steps are executed one after another, none twice and none left out, *)
(* although calls, delays, triggers and timeouts overlap and each of them  *)
(* may already be queued.  The exceptions: while an async_run awaits a     *)
(* service a second one may begin; and if a step raises, all steps since   *)
(* the last wait are executed again.                                       *)
InOrder == alone /\ ~Idle => at = done + 1

(* What waits at a step acts for that step alone, whatever is queued: a    *)
(* delay's listener carries the script on, and a timeout stops it, only if *)
(* the script waits there and the time has come; and a template's listener *)
(* that is still registered only if the script waits for it.  (One that    *)
(* has been removed may trigger anywhere, see StopStops.)                  *)
WaitsAt(kinds) == cur >= 1 /\ Steps[cur] \in kinds

OwnWaits ==
  [][alone /\ jobs # <<>> =>
       /\ async_script_delay /\ jobs' # Tail(jobs) => WaitsAt({"delay"}) /\ clock >= until
       /\ async_script_timeout /\ cur' # cur => WaitsAt({"timed_wait"}) /\ clock >= until
       /\ async_script_wait /\ jobs' # Tail(jobs) /\ trackers[Head(jobs).k].sub =>
            WaitsAt({"wait", "timed_wait"})]_vars

(* "Stop running script.", "Timeout reached, abort script.": a script that *)
(* was stopped executes nothing until somebody turns it on.                *)
StopStops == stopped => Idle
=============================================================================
