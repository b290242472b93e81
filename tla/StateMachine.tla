---------------------------- MODULE StateMachine ----------------------------
(***************************************************************************)
(* homeassistant/core.py, class StateMachine: the states of the entities,  *)
(* and the STATE_CHANGED events that tell everybody else about them.       *)
(*                                                                         *)
(* Whoever needs the states elsewhere (recorder, groups, templates, remote *)
(* front ends) rebuilds them from the events, each with the new state; by  *)
(* the time an event is handled the state machine may be several changes   *)
(* further.  A mirror here is such a listener.                             *)
(***************************************************************************)
EXTENDS EventLoop, FiniteSets

CONSTANTS
  Entities,    \* entity ids, lower case
  Values,      \* state strings
  Attributes,  \* attribute dictionaries, compared with ==
  Mirrors,     \* listeners of STATE_CHANGED that run in the event loop
  Threads,     \* threads that call set and remove, and wait for the result
  MaxEvents,   \* bound: events fired
  MaxTime      \* bound: ticks of dt_util.utcnow()

ASSUME StateConstants ==
  IsFiniteSet(Mirrors) /\ MaxEvents \in Nat /\ MaxTime \in Nat

VARIABLES
  states,      \* StateMachine._states
  jobs,        \* listener calls and thread calls the loop has to run
  blocked,     \* threads waiting in run_callback_threadsafe(...).result()
  now,         \* the clock
  events,      \* history: the STATE_CHANGED events fired; force is not sent
  mirror       \* the states each mirror has rebuilt

vars == <<states, jobs, blocked, now, events, mirror>>

NoState == [state |-> "no state"]
State == [state : Values, attributes : Attributes,
          last_changed : 0..MaxTime, last_updated : 0..MaxTime]

Sets == [op : {"set"}, e : Entities, state : Values, attributes : Attributes,
         force : BOOLEAN]
Removes == [op : {"remove"}, e : Entities]
Ops == Sets \cup Removes

-----------------------------------------------------------------------------
(* Both operations fire behind what is scheduled already: one job per      *)
(* mirror, carrying the event.                                             *)

Notify(ev, rest) ==
  rest \o [i \in 1..Cardinality(Mirrors) |->
             [stage |-> "listener", m |-> SetToSeq(Mirrors)[i], ev |-> ev, loop |-> TRUE]]

Change(e, new, force, rest) ==
  LET ev == [e |-> e, old_state |-> states[e], new_state |-> new, force |-> force]
  IN /\ states' = [states EXCEPT ![e] = new]
     /\ events' = Append(events, ev)
     /\ jobs' = Notify(ev, rest)

(* (Mutant: last_changed is taken over whenever the entity exists.)        *)
NewState_KeepChanged(old, op) ==
  LET is_existing == old # NoState
  IN [state |-> op.state, attributes |-> op.attributes, last_updated |-> now,
      last_changed |-> IF is_existing /\ ~op.force THEN old.last_changed ELSE now]

same_state(old, op) == old # NoState /\ old.state = op.state /\ ~op.force
same_attr(old, op) == old # NoState /\ old.attributes = op.attributes

(* The State object: last_changed survives while the state string does.    *)
NewState(old, op) ==
  [state |-> op.state, attributes |-> op.attributes, last_updated |-> now,
   last_changed |-> IF same_state(old, op) THEN old.last_changed ELSE now]

(* (Mutant: new attributes under the same state string are stored without  *)
(* an event.)                                                              *)
async_set_Quiet(op, rest) ==
  LET old == states[op.e]
  IN \/ /\ same_state(old, op)
        /\ states' = [states EXCEPT ![op.e] = NewState(old, op)]
        /\ jobs' = rest
        /\ UNCHANGED events
     \/ /\ ~same_state(old, op)
        /\ Change(op.e, NewState(old, op), op.force, rest)

async_set(op, rest) ==
  LET old == states[op.e]
  IN \/ /\ same_state(old, op) /\ same_attr(old, op)
        /\ jobs' = rest
        /\ UNCHANGED <<states, events>>
     \/ /\ ~(same_state(old, op) /\ same_attr(old, op))
        /\ Change(op.e, NewState(old, op), op.force, rest)

async_remove(op, rest) ==
  \/ /\ states[op.e] = NoState
     /\ jobs' = rest
     /\ UNCHANGED <<states, events>>
  \/ /\ states[op.e] # NoState
     /\ Change(op.e, NoState, FALSE, rest)

Perform(op, rest) ==
  \/ op.op = "set" /\ async_set(op, rest)
  \/ op.op = "remove" /\ async_remove(op, rest)

-----------------------------------------------------------------------------
Calls == {i \in DOMAIN jobs : jobs[i].stage = "call"}

(* The bound counts the calls still on their way.                          *)
MayIssue == Len(events) + Cardinality(Calls) < MaxEvents

(* A callback or coroutine in the loop changes a state.                    *)
LoopOp(op) ==
  /\ MayIssue
  /\ Perform(op, jobs)
  /\ UNCHANGED <<blocked, now, mirror>>

(* A thread asks the loop to, and waits.                                   *)
ThreadCall(th, op) ==
  /\ th \notin blocked /\ MayIssue
  /\ jobs' = Append(jobs, [stage |-> "call", th |-> th, op |-> op, loop |-> TRUE])
  /\ blocked' = blocked \cup {th}
  /\ UNCHANGED <<states, now, events, mirror>>

RunCall(i) ==
  /\ jobs[i].stage = "call"
  /\ Perform(jobs[i].op, Without(jobs, i))
  /\ blocked' = blocked \ {jobs[i].th}
  /\ UNCHANGED <<now, mirror>>

(* A mirror handles an event: it takes over new_state, or drops the entity.*)
RunListener(i) ==
  LET m == jobs[i].m
      ev == jobs[i].ev
  IN /\ jobs[i].stage = "listener"
     /\ jobs' = Without(jobs, i)
     /\ mirror' = [mirror EXCEPT ![m][ev.e] = ev.new_state]
     /\ UNCHANGED <<states, blocked, now, events>>

RunJob ==
  \E i \in DOMAIN jobs : Runnable(jobs, i) /\ (RunCall(i) \/ RunListener(i))

Tick ==
  /\ now < MaxTime
  /\ now' = now + 1
  /\ UNCHANGED <<states, jobs, blocked, events, mirror>>

-----------------------------------------------------------------------------
Init ==
  /\ states = [e \in Entities |-> NoState]
  /\ jobs = <<>>
  /\ blocked = {}
  /\ now = 0
  /\ events = <<>>
  /\ mirror = [m \in Mirrors |-> states]

Next ==
  \/ \E op \in Ops : LoopOp(op) \/ \E th \in Threads : ThreadCall(th, op)
  \/ RunJob
  \/ Tick

Spec == Init /\ [][Next]_vars /\ WF_vars(RunJob)

-----------------------------------------------------------------------------
Event ==
  {ev \in [e : Entities, old_state : State \cup {NoState},
           new_state : State \cup {NoState}, force : BOOLEAN] :
     ev.old_state # NoState \/ ev.new_state # NoState}

Job ==
  [stage : {"call"}, th : Threads, op : Ops, loop : {TRUE}] \cup
  [stage : {"listener"}, m : Mirrors, ev : Event, loop : {TRUE}]

(* Types; an event never tells that nothing became nothing.                *)
TypeOK ==
  /\ states \in [Entities -> State \cup {NoState}]
  /\ blocked \subseteq Threads
  /\ now \in 0..MaxTime
  /\ events \in Seq(Event)
  /\ jobs \in Seq(Job)
  /\ mirror \in [Mirrors -> [Entities -> State \cup {NoState}]]

(* The jobs of s in which mirror m has still to hear about entity e.       *)
Hears(s, m, e) ==
  {i \in DOMAIN s : s[i].stage = "listener" /\ s[i].m = m /\ s[i].ev.e = e}

(* They lead from one state of e to another, each event taking up where    *)
(* the one before it left off.                                             *)
Leads(s, m, e, from, to) ==
  /\ Hears(s, m, e) = {} => from = to
  /\ \A i \in Hears(s, m, e) :
       /\ (\A j \in Hears(s, m, e) : i <= j) => s[i].ev.old_state = from
       /\ (\A j \in Hears(s, m, e) : j <= i) => s[i].ev.new_state = to
       /\ \A j \in Hears(s, m, e) :
            i < j /\ (\A k \in Hears(s, m, e) : k <= i \/ j <= k) =>
              s[j].ev.old_state = s[i].ev.new_state

(* However far behind, a mirror never misses a change: the events on their *)
(* way lead from what it has rebuilt to what the state machine holds.      *)
MirrorTracks ==
  \A m \in Mirrors, e \in Entities : Leads(jobs, m, e, mirror[m][e], states[e])

(* The events that gave e a new state string, or were forced to.           *)
Changes(e) ==
  {k \in DOMAIN events :
     /\ events[k].e = e /\ events[k].new_state # NoState
     /\ \/ events[k].old_state = NoState \/ events[k].force
        \/ events[k].old_state.state # events[k].new_state.state}

(* last_changed is when the entity took on its present state string; what  *)
(* only updates the attributes does not affect it, and listeners are told  *)
(* of an update only if one of the two changed or the caller insisted.     *)
LastChanged ==
  /\ \A e \in Entities : states[e] # NoState =>
       \E k \in Changes(e) :
         /\ \A j \in Changes(e) : j <= k
         /\ states[e].last_changed = events[k].new_state.last_updated
         /\ states[e].state = events[k].new_state.state
  /\ \A k \in DOMAIN events :
       LET old == events[k].old_state
           new == events[k].new_state
       IN \/ events[k].force \/ (old = NoState) # (new = NoState)
          \/ old # NoState /\ new # NoState
               /\ <<old.state, old.attributes>> # <<new.state, new.attributes>>
=============================================================================
