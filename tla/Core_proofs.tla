------------------------------ MODULE Core_proofs ------------------------------
(***************************************************************************)
(* Proofs about two parts of homeassistant/core.py.                        *)
(*                                                                         *)
(* StateMachine, for any entities, states, mirrors and threads: no         *)
(* listener misses a change, however far behind it is, and last_changed is *)
(* what its name says.                                                     *)
(*                                                                         *)
(* Lifecycle, for any jobs, listeners and stoppers: Home Assistant does    *)
(* not run again once it is stopping, and async_stop waits for the work it *)
(* should wait for.                                                        *)
(***************************************************************************)
EXTENDS StateMachine, Lifecycle, SequenceTheorems, FiniteSetTheorems, TLAPS

-----------------------------------------------------------------------------
(* Taking job i out, as the loop and the executor do when they run it,     *)
(* leaves every other job, in the order they had.                          *)
LEMMA RemoveAtProperties ==
  ASSUME NEW S, NEW s \in Seq(S), NEW i \in 1..Len(s)
  PROVE  /\ RemoveAt(s, i) \in Seq(S)
         /\ Len(RemoveAt(s, i)) = Len(s) - 1
         /\ \A k \in 1..(Len(s) - 1) :
              RemoveAt(s, i)[k] = IF k < i THEN s[k] ELSE s[k + 1]
<1> DEFINE a == SubSeq(s, 1, i - 1)
           b == SubSeq(s, i + 1, Len(s))
<1>1. /\ a \in Seq(S)
      /\ Len(a) = i - 1
      /\ \A k \in 1..(i - 1) : a[k] = s[k]
  OBVIOUS
<1>2. /\ b \in Seq(S)
      /\ Len(b) = Len(s) - i
      /\ \A k \in 1..(Len(s) - i) : b[k] = s[i + k]
  OBVIOUS
<1>3. RemoveAt(s, i) = a \o b
  BY DEF RemoveAt
<1> HIDE DEF a, b
<1>4. /\ a \o b \in Seq(S)
      /\ Len(a \o b) = Len(a) + Len(b)
      /\ \A k \in 1..(Len(a) + Len(b)) :
           (a \o b)[k] = IF k <= Len(a) THEN a[k] ELSE b[k - Len(a)]
  BY <1>1, <1>2, ConcatProperties, Zenon
<1>5. ASSUME NEW k \in 1..(Len(s) - 1)
      PROVE  (a \o b)[k] = IF k < i THEN s[k] ELSE s[k + 1]
  <2>1. (a \o b)[k] = IF k <= i - 1 THEN a[k] ELSE b[k - (i - 1)]
    BY <1>1, <1>2, <1>4, SMTT(30)
  <2>2. CASE k < i
    BY <1>1, <2>1, <2>2
  <2>3. CASE ~(k < i)
    BY <1>2, <2>1, <2>3, SMTT(30)
  <2> QED BY <2>2, <2>3
<1> QED BY <1>1, <1>2, <1>3, <1>4, <1>5

-----------------------------------------------------------------------------
(* One job for each mirror.                                                *)

Order == SetToSeq(Mirrors)
N == Cardinality(Mirrors)

LEMMA OrderIs ==
  /\ N \in Nat /\ Order \in [1..N -> Mirrors]
  /\ \A a, b \in 1..N : Order[a] = Order[b] => a = b
  /\ \A m \in Mirrors : \E i \in 1..N : Order[i] = m
<1>1. IsFiniteSet(Mirrors)
  BY StateConstants
<1>2. N \in Nat /\ ExistsBijection(1..N, Mirrors)
  BY <1>1, FS_CardinalityType DEF N
<1>3. \E f \in [1..N -> Mirrors] : IsInjective(f)
  BY <1>2 DEF ExistsBijection, Bijection, Injection
<1>4. Order \in [1..N -> Mirrors] /\ IsInjective(Order)
  BY <1>3, Zenon DEF Order, SetToSeq, N
<1>5. Order \in Injection(1..N, Mirrors)
  BY <1>4, Zenon DEF Injection
<1>6. Cardinality(1..N) = N
  BY <1>2, FS_Interval
<1>7. Order \in Surjection(1..N, Mirrors)
  BY <1>1, <1>5, <1>6, FS_Injection DEF N
<1> HIDE DEF Order, N
<1>8. \A m \in Mirrors : \E i \in 1..N : Order[i] = m
  BY <1>7 DEF Surjection
<1>9. \A a, b \in 1..N : Order[a] = Order[b] => a = b
  BY <1>4 DEF IsInjective
<1> QED BY <1>2, <1>4, <1>8, <1>9

(* What an event puts behind.                                              *)
Note(ev) == [i \in 1..N |-> [stage |-> "listener", m |-> Order[i], ev |-> ev, loop |-> TRUE]]

LEMMA NotifyIs ==
  ASSUME NEW ev \in Event, NEW rest \in Seq(Job)
  PROVE  /\ Note(ev) \in Seq(Job) /\ Len(Note(ev)) = N
         /\ \A i \in 1..N : Note(ev)[i]
              = [stage |-> "listener", m |-> Order[i], ev |-> ev, loop |-> TRUE]
         /\ Notify(ev, rest) = rest \o Note(ev)
         /\ Notify(ev, rest) \in Seq(Job)
<1>1. \A i \in 1..N :
        [stage |-> "listener", m |-> Order[i], ev |-> ev, loop |-> TRUE] \in Job
  BY OrderIs DEF Job
<1>2. Note(ev) \in [1..N -> Job]
  BY <1>1, Zenon DEF Note
<1>3. \A i \in 1..N : Note(ev)[i]
              = [stage |-> "listener", m |-> Order[i], ev |-> ev, loop |-> TRUE]
  BY Zenon DEF Note
<1>4. Notify(ev, rest) = rest \o Note(ev)
  BY Zenon DEF Notify, Note, N, Order
<1> HIDE DEF Note
<1>5. Note(ev) \in Seq(Job) /\ Len(Note(ev)) = N
  BY <1>2, OrderIs
<1>6. rest \o Note(ev) \in Seq(Job)
  BY <1>5
<1> QED BY <1>3, <1>4, <1>5, <1>6

-----------------------------------------------------------------------------
(* Types, which also make the queue a FIFO: all its jobs are the loop's.   *)

LEMMA SetIs ==
  ASSUME TypeOK, NEW op \in Sets
  PROVE  /\ NewState(states[op.e], op) \in State
         /\ NewState(states[op.e], op) # NoState
         /\ op.e \in Entities /\ op.force \in BOOLEAN
         /\ [e |-> op.e, old_state |-> states[op.e],
             new_state |-> NewState(states[op.e], op), force |-> op.force] \in Event
<1>1. op.e \in Entities /\ op.force \in BOOLEAN /\ op.state \in Values /\ op.attributes \in Attributes
  BY DEF Sets
<1>2. states[op.e] \in State \cup {NoState} /\ now \in 0..MaxTime
  BY <1>1 DEF TypeOK
<1>3. same_state(states[op.e], op) => states[op.e] \in State
  BY <1>2 DEF same_state
<1> DEFINE n == NewState(states[op.e], op)
<1>4. n \in State
  <2>1. states[op.e] \in State => states[op.e].last_changed \in 0..MaxTime
    BY DEF State
  <2> QED BY <1>1, <1>2, <1>3, <2>1 DEF NewState, State
<1>5. \A s \in State : s # NoState
  <2>1. SUFFICES ASSUME NEW s \in State, s = NoState PROVE FALSE
    OBVIOUS
  <2>2. DOMAIN s = {"state", "attributes", "last_changed", "last_updated"}
    BY DEF State
  <2>3. DOMAIN NoState = {"state"}
    BY DEF NoState
  <2> QED BY <2>1, <2>2, <2>3
<1> HIDE DEF n
<1>6. [e |-> op.e, old_state |-> states[op.e], new_state |-> n, force |-> op.force] \in Event
  BY <1>1, <1>2, <1>4, <1>5 DEF Event
<1> QED BY <1>1, <1>4, <1>5, <1>6 DEF n

(* What an event tells: a new state string, or the insistence on one; and  *)
(* if neither, then new attributes.                                        *)
Renews(ev) ==
  ev.old_state = NoState \/ ev.force \/ ev.old_state.state # ev.new_state.state

Worth(ev) ==
  \/ ev.force \/ (ev.old_state = NoState) # (ev.new_state = NoState)
  \/ /\ ev.old_state # NoState /\ ev.new_state # NoState
     /\ <<ev.old_state.state, ev.old_state.attributes>>
          # <<ev.new_state.state, ev.new_state.attributes>>

Dated(ev) ==
  ev.new_state # NoState =>
    IF Renews(ev)
      THEN ev.new_state.last_changed = ev.new_state.last_updated
      ELSE /\ ev.new_state.last_changed = ev.old_state.last_changed
           /\ ev.new_state.state = ev.old_state.state

(* An operation leaves everything alone, or changes one entity's state.    *)
Changed(rest, ev) ==
  /\ ev \in Event /\ Worth(ev) /\ Dated(ev)
  /\ ev.e \in Entities /\ ev.old_state = states[ev.e]
  /\ ev.new_state \in State \cup {NoState}
  /\ states' = [states EXCEPT ![ev.e] = ev.new_state]
  /\ events' = Append(events, ev)
  /\ jobs' = rest \o Note(ev)

LEMMA SetChanges ==
  ASSUME TypeOK, NEW op \in Sets, NEW rest \in Seq(Job), async_set(op, rest)
  PROVE  \/ jobs' = rest /\ UNCHANGED <<states, events>>
         \/ \E ev \in Event : Changed(rest, ev)
<1> DEFINE old == states[op.e]
           new == NewState(old, op)
           ev == [e |-> op.e, old_state |-> old, new_state |-> new, force |-> op.force]
<1>1. CASE same_state(old, op) /\ same_attr(old, op)
  BY <1>1 DEF async_set
<1>2. CASE ~(same_state(old, op) /\ same_attr(old, op))
  <2>1. Change(op.e, new, op.force, rest)
    BY <1>2, Zenon DEF async_set
  <2>2. ev \in Event /\ new \in State /\ new # NoState /\ op.e \in Entities
    BY SetIs, Zenon
  <2>3. /\ states' = [states EXCEPT ![op.e] = new]
        /\ events' = Append(events, ev)
        /\ jobs' = Notify(ev, rest)
    BY <2>1, Zenon DEF Change
  <2>4. jobs' = rest \o Note(ev)
    BY <2>2, <2>3, NotifyIs, Zenon
  <2>5. /\ new.state = op.state /\ new.attributes = op.attributes
        /\ new.last_changed = IF same_state(old, op) THEN old.last_changed ELSE new.last_updated
    BY DEF NewState
  <2>6. ev.e = op.e /\ ev.old_state = old /\ ev.new_state = new /\ ev.force = op.force
    OBVIOUS
  <2> HIDE DEF ev, new, old
  <2>7. Worth(ev)
    BY <1>2, <2>2, <2>5, <2>6 DEF Worth, same_state, same_attr
  <2>8. Dated(ev)
    BY <2>5, <2>6 DEF Dated, Renews, same_state
  <2>9. ev.old_state = states[ev.e] /\ ev.e \in Entities
    BY <2>2, <2>6 DEF old
  <2>10. states' = [states EXCEPT ![ev.e] = ev.new_state]
    BY <2>3, <2>6
  <2>11. ev.new_state \in State \cup {NoState}
    BY <2>2, <2>6
  <2> QED BY <2>2, <2>3, <2>4, <2>7, <2>8, <2>9, <2>10, <2>11, Zenon DEF Changed
<1> QED BY <1>1, <1>2

LEMMA RemoveChanges ==
  ASSUME TypeOK, NEW op \in Removes, NEW rest \in Seq(Job), async_remove(op, rest)
  PROVE  \/ jobs' = rest /\ UNCHANGED <<states, events>>
         \/ \E ev \in Event : Changed(rest, ev)
<1> DEFINE old == states[op.e]
           ev == [e |-> op.e, old_state |-> old, new_state |-> NoState, force |-> FALSE]
<1>1. CASE old = NoState
  BY <1>1 DEF async_remove
<1>2. CASE old # NoState
  <2>1. op.e \in Entities
    BY DEF Removes
  <2>2. ev \in Event
    BY <1>2, <2>1 DEF TypeOK, Event
  <2>3. Change(op.e, NoState, FALSE, rest)
    BY <1>2, Zenon DEF async_remove
  <2>4. /\ states' = [states EXCEPT ![op.e] = NoState]
        /\ events' = Append(events, ev)
        /\ jobs' = Notify(ev, rest)
    BY <2>3, Zenon DEF Change
  <2>5. jobs' = rest \o Note(ev)
    BY <2>2, <2>4, NotifyIs, Zenon
  <2>6. ev.e = op.e /\ ev.old_state = old /\ ev.new_state = NoState
    OBVIOUS
  <2> HIDE DEF ev
  <2>7. Worth(ev) /\ Dated(ev)
    BY <1>2, <2>6 DEF Worth, Dated
  <2> QED BY <2>1, <2>2, <2>4, <2>5, <2>6, <2>7, Zenon DEF Changed
<1> QED BY <1>1, <1>2

LEMMA PerformIs ==
  ASSUME TypeOK, NEW op \in Ops, NEW rest \in Seq(Job), Perform(op, rest)
  PROVE  \/ jobs' = rest /\ UNCHANGED <<states, events>>
         \/ \E ev \in Event : Changed(rest, ev)
<1>1. op.op = "set" => op \in Sets
  BY DEF Ops, Sets, Removes
<1>2. op.op = "remove" => op \in Removes
  BY DEF Ops, Sets, Removes
<1> QED BY <1>1, <1>2, SetChanges, RemoveChanges, Zenon DEF Perform

(* What a step does, one by one.                                           *)
Asks == \E th \in Threads, op \in Ops :
  /\ jobs' = Append(jobs, [stage |-> "call", th |-> th, op |-> op, loop |-> TRUE])
  /\ blocked' \subseteq Threads
  /\ UNCHANGED <<states, now, events, mirror>>

Takes(rest) ==
  /\ rest \in Seq(Job)
  /\ jobs # <<>> /\ Len(rest) = Len(jobs) - 1
  /\ \A k \in 1..(Len(jobs) - 1) : rest[k] = jobs[k + 1]

Performs == \E rest \in Seq(Job) :
  /\ \/ rest = jobs
     \/ Takes(rest) /\ jobs[1].stage = "call"
  /\ \/ jobs' = rest /\ UNCHANGED <<states, events>>
     \/ \E ev \in Event : Changed(rest, ev)
  /\ blocked' \subseteq Threads /\ UNCHANGED <<now, mirror>>

HearsOne ==
  /\ Takes(jobs') /\ jobs[1].stage = "listener"
  /\ mirror' = [mirror EXCEPT ![jobs[1].m][jobs[1].ev.e] = jobs[1].ev.new_state]
  /\ UNCHANGED <<states, blocked, now, events>>

LEMMA FirstJob ==
  ASSUME TypeOK, NEW i \in DOMAIN jobs, Runnable(jobs, i)
  PROVE  i = 1 /\ jobs[1] \in Job /\ Takes(Without(jobs, i))
<1>1. jobs \in Seq(Job) /\ DOMAIN jobs = 1..Len(jobs) /\ jobs # <<>> /\ Len(jobs) \in Nat \ {0}
  BY DEF TypeOK
<1>2. \A k \in 1..Len(jobs) : jobs[k].loop
  <2>1. \A j \in Job : j.loop
    BY DEF Job
  <2>2. \A k \in 1..Len(jobs) : jobs[k] \in Job
    BY <1>1
  <2> QED BY <2>1, <2>2, Zenon
<1>3. i = 1
  BY <1>1, <1>2 DEF Runnable
<1>4. /\ Without(jobs, 1) \in Seq(Job) /\ Len(Without(jobs, 1)) = Len(jobs) - 1
      /\ \A k \in 1..(Len(jobs) - 1) :
           Without(jobs, 1)[k] = IF k < 1 THEN jobs[k] ELSE jobs[k + 1]
  <2>1. 1 \in 1..Len(jobs)
    BY <1>1
  <2> QED BY <1>1, <2>1, RemoveAtProperties, Zenon DEF Without
<1>5. jobs[1] \in Job
  BY <1>1
<1>6. \A k \in 1..(Len(jobs) - 1) : Without(jobs, 1)[k] = jobs[k + 1]
  BY <1>1, <1>4
<1>7. Takes(Without(jobs, 1))
  BY <1>1, <1>4, <1>6, Zenon DEF Takes
<1> QED BY <1>3, <1>5, <1>7, Zenon

LEMMA StepIs ==
  ASSUME TypeOK, [Next]_vars
  PROVE  \/ /\ UNCHANGED <<states, jobs, events, mirror>>
            /\ now' \in 0..MaxTime /\ blocked' \subseteq Threads
         \/ Asks \/ Performs \/ HearsOne
<1>0. jobs \in Seq(Job) /\ blocked \subseteq Threads /\ now \in 0..MaxTime
  BY DEF TypeOK
<1>1. ASSUME NEW op \in Ops, LoopOp(op) PROVE Performs
  <2>1. Perform(op, jobs) /\ UNCHANGED <<blocked, now, mirror>>
    BY <1>1 DEF LoopOp
  <2>2. \/ jobs' = jobs /\ UNCHANGED <<states, events>>
        \/ \E ev \in Event : Changed(jobs, ev)
    BY <1>0, <2>1, PerformIs, Zenon
  <2>3. blocked' \subseteq Threads /\ UNCHANGED <<now, mirror>>
    BY <1>0, <2>1
  <2> QED BY <1>0, <2>2, <2>3, Zenon DEF Performs
<1>2. ASSUME NEW op \in Ops, NEW th \in Threads, ThreadCall(th, op) PROVE Asks
  <2>1. blocked' \subseteq Threads
    BY <1>0, <1>2 DEF ThreadCall
  <2> QED BY <1>2, <2>1, Zenon DEF ThreadCall, Asks
<1>3. ASSUME NEW i \in DOMAIN jobs, Runnable(jobs, i), RunCall(i) PROVE Performs
  <2>1. i = 1 /\ jobs[1] \in Job /\ Takes(Without(jobs, i))
    BY <1>3, FirstJob, Zenon
  <2>2. /\ jobs[1].stage = "call" /\ Perform(jobs[1].op, Without(jobs, 1))
        /\ blocked' \subseteq Threads /\ UNCHANGED <<now, mirror>>
    BY <1>0, <1>3, <2>1 DEF RunCall
  <2>3. jobs[1].op \in Ops
    BY <2>1, <2>2 DEF Job
  <2>4. Without(jobs, 1) \in Seq(Job) /\ Takes(Without(jobs, 1))
    BY <2>1 DEF Takes
  <2>5. \/ jobs' = Without(jobs, 1) /\ UNCHANGED <<states, events>>
        \/ \E ev \in Event : Changed(Without(jobs, 1), ev)
    BY <2>2, <2>3, <2>4, PerformIs, Zenon
  <2> QED BY <2>2, <2>4, <2>5, Zenon DEF Performs
<1>4. ASSUME NEW i \in DOMAIN jobs, Runnable(jobs, i), RunListener(i) PROVE HearsOne
  <2>1. i = 1 /\ jobs[1] \in Job /\ Takes(Without(jobs, i))
    BY <1>4, FirstJob, Zenon
  <2> QED BY <1>4, <2>1, Zenon DEF RunListener, HearsOne
<1>5. CASE Tick
  BY <1>0, <1>5, StateConstants DEF Tick
<1>6. CASE UNCHANGED vars
  BY <1>0, <1>6 DEF vars
<1> QED BY <1>1, <1>2, <1>3, <1>4, <1>5, <1>6 DEF Next, RunJob

(* The types, preserved by every step.                                     *)
LEMMA TypeInit == Init => TypeOK
BY StateConstants DEF Init, TypeOK

LEMMA TypeStep == TypeOK /\ [Next]_vars => TypeOK'
<1> SUFFICES ASSUME TypeOK, [Next]_vars PROVE TypeOK'
  OBVIOUS
<1>0. /\ jobs \in Seq(Job) /\ events \in Seq(Event) /\ now \in 0..MaxTime
      /\ states \in [Entities -> State \cup {NoState}]
      /\ mirror \in [Mirrors -> [Entities -> State \cup {NoState}]]
  BY DEF TypeOK
<1>1. CASE /\ UNCHANGED <<states, jobs, events, mirror>>
           /\ now' \in 0..MaxTime /\ blocked' \subseteq Threads
  BY <1>0, <1>1 DEF TypeOK
<1>2. CASE Asks
  <2>1. PICK th \in Threads, op \in Ops :
          /\ jobs' = Append(jobs, [stage |-> "call", th |-> th, op |-> op, loop |-> TRUE])
          /\ blocked' \subseteq Threads
          /\ UNCHANGED <<states, now, events, mirror>>
    BY <1>2, Zenon DEF Asks
  <2>2. [stage |-> "call", th |-> th, op |-> op, loop |-> TRUE] \in Job
    BY DEF Job
  <2>3. jobs' \in Seq(Job)
    BY <1>0, <2>1, <2>2
  <2> QED BY <1>0, <2>1, <2>3 DEF TypeOK
<1>3. CASE Performs
  <2>1. PICK rest \in Seq(Job) :
          /\ \/ jobs' = rest /\ UNCHANGED <<states, events>>
             \/ \E ev \in Event : Changed(rest, ev)
          /\ blocked' \subseteq Threads /\ UNCHANGED <<now, mirror>>
    BY <1>3, Zenon DEF Performs
  <2>2. CASE jobs' = rest /\ UNCHANGED <<states, events>>
    BY <1>0, <2>1, <2>2 DEF TypeOK
  <2>3. ASSUME NEW ev \in Event, Changed(rest, ev) PROVE TypeOK'
    <3>1. jobs' \in Seq(Job)
      <4>1. rest \o Note(ev) \in Seq(Job)
        BY NotifyIs, Zenon
      <4> QED BY <2>3, <4>1 DEF Changed
    <3>2. states' \in [Entities -> State \cup {NoState}] /\ events' \in Seq(Event)
      BY <1>0, <2>3 DEF Changed
    <3> QED BY <1>0, <2>1, <3>1, <3>2 DEF TypeOK
  <2> QED BY <2>1, <2>2, <2>3
<1>4. CASE HearsOne
  <2>1. jobs' \in Seq(Job) /\ UNCHANGED <<states, blocked, now, events>>
    BY <1>4 DEF HearsOne, Takes
  <2>2. jobs[1] \in Job /\ jobs[1].stage = "listener"
    BY <1>0, <1>4 DEF HearsOne, Takes
  <2>3. /\ jobs[1].m \in Mirrors /\ jobs[1].ev.e \in Entities
        /\ jobs[1].ev.new_state \in State \cup {NoState}
    BY <2>2 DEF Job, Event
  <2>4. mirror' \in [Mirrors -> [Entities -> State \cup {NoState}]]
    BY <1>0, <1>4, <2>3 DEF HearsOne
  <2> QED BY <2>1, <2>4 DEF TypeOK
<1> QED BY <1>1, <1>2, <1>3, <1>4, StepIs

(* Every variable holds what core.py keeps in it, and no event tells that  *)
(* nothing became nothing.                                                 *)
THEOREM TypeCorrect == Spec => []TypeOK
BY TypeInit, TypeStep, PTL DEF Spec

-----------------------------------------------------------------------------
(* What is on its way to a mirror.                                         *)

For(j, m, e) == j.stage = "listener" /\ j.m = m /\ j.ev.e = e

LEMMA HearsAre ==
  ASSUME NEW s \in Seq(Job), NEW m, NEW e
  PROVE  \A i : i \in Hears(s, m, e) <=> i \in 1..Len(s) /\ For(s[i], m, e)
BY DEF Hears, For

(* The first job was handled: by another, or by the mirror itself.         *)
LEMMA LeadsFromNext ==
  ASSUME NEW s \in Seq(Job), s # <<>>, NEW w \in Seq(Job), Len(w) = Len(s) - 1,
         \A k \in 1..(Len(s) - 1) : w[k] = s[k + 1],
         NEW m, NEW e, NEW from, NEW to, Leads(s, m, e, from, to)
  PROVE  Leads(w, m, e, IF For(s[1], m, e) THEN s[1].ev.new_state ELSE from, to)
<1> DEFINE H == Hears(s, m, e)
           G == Hears(w, m, e)
           next == IF For(s[1], m, e) THEN s[1].ev.new_state ELSE from
<1>0. Len(s) \in Nat \ {0}
  OBVIOUS
<1>1. \A i : i \in H <=> i \in 1..Len(s) /\ For(s[i], m, e)
  BY HearsAre
<1>2. \A i : i \in G <=> i \in 1..(Len(s) - 1) /\ For(s[i + 1], m, e)
  BY HearsAre
<1>3. /\ H = {} => from = to
      /\ \A i \in H : /\ (\A j \in H : i <= j) => s[i].ev.old_state = from
                      /\ (\A j \in H : j <= i) => s[i].ev.new_state = to
                      /\ \A j \in H : i < j /\ (\A k \in H : k <= i \/ j <= k) =>
                                        s[j].ev.old_state = s[i].ev.new_state
  BY Zenon DEF Leads
<1> HIDE DEF H, G, next
<1>4. \A i : i \in G => i + 1 \in H /\ i \in 1..(Len(s) - 1) /\ w[i] = s[i + 1]
  BY <1>0, <1>1, <1>2
<1>5. ASSUME NEW j \in H PROVE j = 1 \/ (j - 1 \in G /\ (j - 1) + 1 = j)
  <2>1. j \in 1..Len(s) /\ For(s[j], m, e)
    BY <1>1
  <2>2. CASE j # 1
    <3>1. j - 1 \in 1..(Len(s) - 1) /\ (j - 1) + 1 = j
      BY <1>0, <2>1, <2>2
    <3>2. For(s[(j - 1) + 1], m, e)
      BY <2>1, <3>1
    <3> QED BY <1>2, <3>1, <3>2
  <2> QED BY <2>2
<1>6. H \subseteq Nat /\ G \subseteq Nat
  BY <1>1, <1>2
<1>7. 1 \in H <=> For(s[1], m, e)
  BY <1>0, <1>1
<1>8. G = {} => next = to
  <2> SUFFICES ASSUME G = {} PROVE next = to
    OBVIOUS
  <2>1. \A j \in H : j = 1
    BY <1>5
  <2>2. CASE For(s[1], m, e)
    <3>1. 1 \in H /\ \A j \in H : j <= 1
      BY <1>7, <2>1, <2>2
    <3> QED BY <1>3, <2>2, <3>1 DEF next
  <2>3. CASE ~For(s[1], m, e)
    BY <1>3, <1>7, <2>1, <2>3 DEF next
  <2> QED BY <2>2, <2>3
<1>9. ASSUME NEW i \in G, \A j \in G : i <= j PROVE w[i].ev.old_state = next
  <2>1. \A j \in H : j = 1 \/ i + 1 <= j
    BY <1>5, <1>6, <1>9
  <2>2. CASE For(s[1], m, e)
    <3>1. 1 \in H /\ i + 1 \in H /\ 1 < i + 1
      BY <1>4, <1>6, <1>7, <2>2
    <3>2. \A k \in H : k <= 1 \/ i + 1 <= k
      BY <2>1
    <3>3. s[i + 1].ev.old_state = s[1].ev.new_state
      BY <1>3, <3>1, <3>2, Zenon
    <3> QED BY <1>4, <2>2, <3>3 DEF next
  <2>3. CASE ~For(s[1], m, e)
    <3>1. i + 1 \in H /\ \A j \in H : i + 1 <= j
      BY <1>4, <1>7, <2>1, <2>3
    <3>2. s[i + 1].ev.old_state = from
      BY <1>3, <3>1, Zenon
    <3> QED BY <1>4, <2>3, <3>2 DEF next
  <2> QED BY <2>2, <2>3
<1>10. ASSUME NEW i \in G, \A j \in G : j <= i PROVE w[i].ev.new_state = to
  <2>1. i + 1 \in H /\ \A j \in H : j <= i + 1
    BY <1>4, <1>5, <1>6, <1>10
  <2>2. s[i + 1].ev.new_state = to
    BY <1>3, <2>1, Zenon
  <2> QED BY <1>4, <2>2
<1>11. ASSUME NEW i \in G, NEW j \in G, i < j, \A k \in G : k <= i \/ j <= k
       PROVE  w[j].ev.old_state = w[i].ev.new_state
  <2>1. i + 1 \in H /\ j + 1 \in H /\ i + 1 < j + 1
    BY <1>4, <1>6, <1>11
  <2>2. \A k \in H : k <= i + 1 \/ j + 1 <= k
    BY <1>5, <1>6, <1>11
  <2>3. s[j + 1].ev.old_state = s[i + 1].ev.new_state
    BY <1>3, <2>1, <2>2, Zenon
  <2> QED BY <1>4, <2>3
<1> QED BY <1>8, <1>9, <1>10, <1>11, Zenon DEF Leads, G, next

(* Jobs put behind that are not for this mirror and entity.                *)
LEMMA LeadsStill ==
  ASSUME NEW s \in Seq(Job), NEW t \in Seq(Job), NEW m, NEW e, NEW from, NEW to,
         \A n \in 1..Len(t) : ~For(t[n], m, e), Leads(s, m, e, from, to)
  PROVE  Leads(s \o t, m, e, from, to)
<1> DEFINE u == s \o t
<1>1. /\ u \in Seq(Job) /\ Len(u) = Len(s) + Len(t)
      /\ \A k \in 1..(Len(s) + Len(t)) :
           u[k] = IF k <= Len(s) THEN s[k] ELSE t[k - Len(s)]
  BY ConcatProperties, Zenon
<1>2. Len(s) \in Nat /\ Len(t) \in Nat
  OBVIOUS
<1> HIDE DEF u
<1>3. \A k \in 1..Len(u) : \/ k \in 1..Len(s) /\ u[k] = s[k]
                           \/ k - Len(s) \in 1..Len(t) /\ u[k] = t[k - Len(s)]
  BY <1>1, <1>2
<1>4. \A k \in 1..Len(s) : k \in 1..Len(u) /\ u[k] = s[k]
  BY <1>1, <1>2
<1>5. Hears(u, m, e) = Hears(s, m, e) /\ \A k \in Hears(s, m, e) : u[k] = s[k]
  <2>1. \A k : k \in Hears(u, m, e) <=> k \in 1..Len(u) /\ For(u[k], m, e)
    BY <1>1, HearsAre
  <2>2. \A k : k \in Hears(s, m, e) <=> k \in 1..Len(s) /\ For(s[k], m, e)
    BY HearsAre
  <2>3. \A k : k \in Hears(u, m, e) <=> k \in Hears(s, m, e)
    BY <1>3, <1>4, <2>1, <2>2
  <2> QED BY <1>4, <2>2, <2>3
<1>6. Leads(u, m, e, from, to)
  BY <1>5 DEF Leads
<1> QED BY <1>6 DEF u

(* One of them is, and takes up where the others left off.                 *)
LEMMA LeadsOn ==
  ASSUME NEW s \in Seq(Job), NEW t \in Seq(Job), NEW m, NEW e, NEW from, NEW to,
         NEW p \in 1..Len(t), For(t[p], m, e), \A n \in 1..Len(t) : For(t[n], m, e) => n = p,
         t[p].ev.old_state = to, Leads(s, m, e, from, to)
  PROVE  Leads(s \o t, m, e, from, t[p].ev.new_state)
<1> DEFINE u == s \o t
           z == Len(s) + p
           H == Hears(s, m, e)
           G == Hears(u, m, e)
<1>1. /\ u \in Seq(Job) /\ Len(u) = Len(s) + Len(t)
      /\ \A k \in 1..(Len(s) + Len(t)) :
           u[k] = IF k <= Len(s) THEN s[k] ELSE t[k - Len(s)]
  BY ConcatProperties, Zenon
<1>2. Len(s) \in Nat /\ Len(t) \in Nat
  OBVIOUS
<1>a. \A k : k \in H <=> k \in 1..Len(s) /\ For(s[k], m, e)
  BY HearsAre
<1> HIDE DEF u
<1>b. \A k : k \in G <=> k \in 1..Len(u) /\ For(u[k], m, e)
  BY <1>1, HearsAre
<1>c. /\ H = {} => from = to
      /\ \A i \in H : /\ (\A j \in H : i <= j) => s[i].ev.old_state = from
                      /\ (\A j \in H : j <= i) => s[i].ev.new_state = to
                      /\ \A j \in H : i < j /\ (\A k \in H : k <= i \/ j <= k) =>
                                        s[j].ev.old_state = s[i].ev.new_state
  BY Zenon DEF Leads
<1> HIDE DEF H, G
<1>3. \A k \in 1..Len(u) : \/ k \in 1..Len(s) /\ u[k] = s[k]
                           \/ k - Len(s) \in 1..Len(t) /\ u[k] = t[k - Len(s)]
  BY <1>1, <1>2
<1>4. \A k \in H : k \in G /\ u[k] = s[k] /\ k \in Nat /\ k < z
  BY <1>1, <1>2, <1>a, <1>b
<1>5. z \in G /\ u[z] = t[p] /\ z \in Nat
  <2>1. z \in 1..Len(u) /\ u[z] = t[p]
    <3>1. z \in 1..(Len(s) + Len(t)) /\ ~(z <= Len(s)) /\ z - Len(s) = p
      BY <1>2
    <3>2. u[z] = t[z - Len(s)]
      BY <1>1, <3>1
    <3> QED BY <1>1, <3>1, <3>2
  <2> QED BY <1>b, <2>1
<1>6. \A k \in G : k = z \/ k \in H
  <2>1. ASSUME NEW k \in G, k - Len(s) \in 1..Len(t), u[k] = t[k - Len(s)] PROVE k = z
    <3>1. k - Len(s) = p /\ k \in 1..Len(u)
      BY <1>b, <2>1
    <3> QED BY <1>1, <1>2, <3>1
  <2> QED BY <1>3, <1>a, <1>b, <2>1
<1> HIDE DEF z
<1>7. ASSUME NEW i \in G, \A j \in G : i <= j PROVE u[i].ev.old_state = from
  <2>1. CASE i \in H
    <3>1. \A j \in H : i <= j
      BY <1>4, <1>7
    <3>2. s[i].ev.old_state = from
      BY <1>c, <2>1, <3>1, Zenon
    <3> QED BY <1>4, <2>1, <3>2
  <2>2. CASE i = z
    <3>1. H = {}
      <4>1. SUFFICES ASSUME NEW j \in H PROVE FALSE
        OBVIOUS
      <4>2. i <= j /\ j < z /\ j \in Nat
        BY <1>4, <1>7
      <4> QED BY <1>5, <2>2, <4>2
    <3> QED BY <1>5, <1>c, <2>2, <3>1
  <2> QED BY <1>6, <2>1, <2>2
<1>8. ASSUME NEW i \in G, \A j \in G : j <= i PROVE u[i].ev.new_state = t[p].ev.new_state
  <2>1. i = z
    <3>1. i \notin H
      <4>1. SUFFICES ASSUME i \in H PROVE FALSE
        OBVIOUS
      <4>2. i < z /\ i \in Nat /\ z <= i
        BY <1>4, <1>5, <1>8, <4>1
      <4> QED BY <1>5, <4>2
    <3> QED BY <1>6, <3>1
  <2> QED BY <1>5, <2>1
<1>9. ASSUME NEW i \in G, NEW j \in G, i < j, \A k \in G : k <= i \/ j <= k
      PROVE  u[j].ev.old_state = u[i].ev.new_state
  <2>1. i \in H
    <3>1. SUFFICES ASSUME i = z PROVE FALSE
      BY <1>6
    <3>2. j <= z /\ j \in Nat
      BY <1>4, <1>5, <1>6
    <3> QED BY <1>5, <1>9, <3>1, <3>2
  <2>2. CASE j \in H
    <3>1. \A k \in H : k <= i \/ j <= k
      BY <1>4, <1>9
    <3>2. s[j].ev.old_state = s[i].ev.new_state
      BY <1>c, <1>9, <2>1, <2>2, <3>1, Zenon
    <3> QED BY <1>4, <2>1, <2>2, <3>2
  <2>3. CASE j = z
    <3>1. \A k \in H : k <= i
      <4>1. SUFFICES ASSUME NEW k \in H PROVE k <= i
        OBVIOUS
      <4>2. k < z /\ k \in Nat /\ (k <= i \/ z <= k)
        BY <1>4, <1>9, <2>3
      <4> QED BY <1>5, <4>2
    <3>2. s[i].ev.new_state = to
      BY <1>c, <2>1, <3>1, Zenon
    <3> QED BY <1>4, <1>5, <2>1, <2>3, <3>2
  <2> QED BY <1>6, <2>2, <2>3
<1>10. G # {}
  BY <1>5
<1>11. Leads(u, m, e, from, t[p].ev.new_state)
  BY <1>7, <1>8, <1>9, <1>10, Zenon DEF Leads, G
<1> QED BY <1>11 DEF u

-----------------------------------------------------------------------------
(* A mirror misses nothing.                                                *)

LEMMA TracksInit == Init => MirrorTracks
<1> SUFFICES ASSUME Init, NEW m \in Mirrors, NEW e \in Entities
             PROVE  Leads(jobs, m, e, mirror[m][e], states[e])
  BY DEF MirrorTracks
<1>1. Hears(jobs, m, e) = {}
  BY DEF Init, Hears
<1>2. mirror[m][e] = states[e]
  BY DEF Init
<1> QED BY <1>1, <1>2 DEF Leads

(* An operation, behind what is there.                                     *)
LEMMA TracksChange ==
  ASSUME TypeOK, NEW rest \in Seq(Job), NEW ev \in Event, Changed(rest, ev),
         UNCHANGED mirror, NEW m \in Mirrors, NEW e \in Entities,
         Leads(rest, m, e, mirror[m][e], states[e])
  PROVE  Leads(jobs', m, e, mirror'[m][e], states'[e])
<1> DEFINE t == Note(ev)
<1>1. /\ t \in Seq(Job) /\ Len(t) = N
      /\ \A i \in 1..N : t[i] = [stage |-> "listener", m |-> Order[i], ev |-> ev, loop |-> TRUE]
  BY NotifyIs, Zenon
<1>2. \A i \in 1..N : t[i].stage = "listener" /\ t[i].m = Order[i] /\ t[i].ev = ev
  BY <1>1
<1>3. jobs' = rest \o t /\ states' = [states EXCEPT ![ev.e] = ev.new_state]
      /\ ev.old_state = states[ev.e] /\ ev.e \in Entities
  BY Zenon DEF Changed
<1> HIDE DEF t
<1>4. CASE ev.e # e
  <2>1. \A n \in 1..Len(t) : ~For(t[n], m, e)
    BY <1>1, <1>2, <1>4 DEF For
  <2>2. states'[e] = states[e]
    BY <1>3, <1>4 DEF TypeOK
  <2>3. Leads(rest \o t, m, e, mirror[m][e], states[e])
    BY <1>1, <2>1, LeadsStill, Zenon
  <2> QED BY <1>3, <2>2, <2>3
<1>5. CASE ev.e = e
  <2>1. PICK p \in 1..N : Order[p] = m
    BY OrderIs
  <2>2. p \in 1..Len(t) /\ For(t[p], m, e) /\ t[p].ev.old_state = states[e]
    BY <1>1, <1>2, <1>3, <1>5, <2>1 DEF For
  <2>3. \A n \in 1..Len(t) : For(t[n], m, e) => n = p
    BY <1>1, <1>2, <2>1, OrderIs DEF For
  <2>4. Leads(rest \o t, m, e, mirror[m][e], t[p].ev.new_state)
    BY <1>1, <2>2, <2>3, LeadsOn, Zenon
  <2>5. states'[e] = t[p].ev.new_state
    BY <1>1, <1>2, <1>3, <1>5, <2>2 DEF TypeOK
  <2> QED BY <1>3, <2>4, <2>5
<1> QED BY <1>4, <1>5

LEMMA TracksStep == TypeOK /\ MirrorTracks /\ [Next]_vars => MirrorTracks'
<1> SUFFICES ASSUME TypeOK, MirrorTracks, [Next]_vars, NEW m \in Mirrors, NEW e \in Entities
             PROVE  Leads(jobs', m, e, mirror'[m][e], states'[e])
  BY DEF MirrorTracks
<1>0. jobs \in Seq(Job) /\ Leads(jobs, m, e, mirror[m][e], states[e])
  BY DEF TypeOK, MirrorTracks
<1>1. CASE UNCHANGED <<states, jobs, events, mirror>>
  BY <1>0, <1>1
<1>2. CASE Asks
  <2>1. PICK th \in Threads, op \in Ops :
          /\ jobs' = Append(jobs, [stage |-> "call", th |-> th, op |-> op, loop |-> TRUE])
          /\ UNCHANGED <<states, mirror>>
    BY <1>2, Zenon DEF Asks
  <2> DEFINE j == [stage |-> "call", th |-> th, op |-> op, loop |-> TRUE]
             t == <<j>>
  <2>2. j \in Job /\ ~For(j, m, e)
    BY DEF Job, For
  <2>3. jobs' = Append(jobs, j)
    BY <2>1
  <2> HIDE DEF j
  <2>4. t \in Seq(Job) /\ \A n \in 1..Len(t) : ~For(t[n], m, e)
    BY <2>2
  <2>5. jobs' = jobs \o t
    BY <1>0, <2>2, <2>3
  <2> HIDE DEF t
  <2>6. Leads(jobs \o t, m, e, mirror[m][e], states[e])
    BY <1>0, <2>4, LeadsStill, Zenon
  <2> QED BY <2>1, <2>5, <2>6
<1>3. CASE Performs
  <2>1. PICK rest \in Seq(Job) :
          /\ \/ rest = jobs
             \/ Takes(rest) /\ jobs[1].stage = "call"
          /\ \/ jobs' = rest /\ UNCHANGED <<states, events>>
             \/ \E ev \in Event : Changed(rest, ev)
          /\ UNCHANGED mirror
    BY <1>3, Zenon DEF Performs
  <2>2. Leads(rest, m, e, mirror[m][e], states[e])
    <3>1. CASE Takes(rest) /\ jobs[1].stage = "call"
      <4>1. ~For(jobs[1], m, e)
        BY <3>1 DEF For
      <4>2. /\ jobs # <<>> /\ Len(rest) = Len(jobs) - 1
            /\ \A k \in 1..(Len(jobs) - 1) : rest[k] = jobs[k + 1]
        BY <3>1 DEF Takes
      <4>3. Leads(rest, m, e, IF For(jobs[1], m, e) THEN jobs[1].ev.new_state
                              ELSE mirror[m][e], states[e])
        BY <1>0, <4>2, LeadsFromNext, Zenon
      <4> QED BY <4>1, <4>3
    <3> QED BY <1>0, <2>1, <3>1
  <2>3. CASE jobs' = rest /\ UNCHANGED <<states, events>>
    BY <2>1, <2>2, <2>3
  <2>4. ASSUME NEW ev \in Event, Changed(rest, ev)
        PROVE  Leads(jobs', m, e, mirror'[m][e], states'[e])
    BY <2>1, <2>2, <2>4, TracksChange, Zenon
  <2> QED BY <2>1, <2>3, <2>4
<1>4. CASE HearsOne
  <2>1. /\ jobs' \in Seq(Job) /\ jobs # <<>> /\ Len(jobs') = Len(jobs) - 1
        /\ \A k \in 1..(Len(jobs) - 1) : jobs'[k] = jobs[k + 1]
        /\ jobs[1].stage = "listener" /\ states' = states
        /\ mirror' = [mirror EXCEPT ![jobs[1].m][jobs[1].ev.e] = jobs[1].ev.new_state]
    BY <1>4 DEF HearsOne, Takes
  <2>2. Leads(jobs', m, e, IF For(jobs[1], m, e) THEN jobs[1].ev.new_state
                           ELSE mirror[m][e], states[e])
    BY <1>0, <2>1, LeadsFromNext, Zenon
  <2>3. mirror'[m][e] = IF For(jobs[1], m, e) THEN jobs[1].ev.new_state ELSE mirror[m][e]
    <3>1. mirror \in [Mirrors -> [Entities -> State \cup {NoState}]]
      BY DEF TypeOK
    <3> QED BY <2>1, <3>1 DEF For
  <2> QED BY <2>1, <2>2, <2>3
<1> QED BY <1>1, <1>2, <1>3, <1>4, StepIs

(* However far behind, a mirror never misses a change.                     *)
THEOREM MirrorCorrect == Spec => []MirrorTracks
BY TypeInit, TypeStep, TracksInit, TracksStep, PTL DEF Spec

-----------------------------------------------------------------------------
(* last_changed.                                                           *)

LEMMA ChangesAre ==
  ASSUME NEW e
  PROVE  Changes(e) = {k \in DOMAIN events : /\ events[k].e = e
                                             /\ events[k].new_state # NoState
                                             /\ Renews(events[k])}
BY DEF Changes, Renews

DatedBy(e, k) ==
  /\ k \in Changes(e)
  /\ \A j \in Changes(e) : j <= k
  /\ states[e].last_changed = events[k].new_state.last_updated
  /\ states[e].state = events[k].new_state.state

LEMMA LastChangedIs ==
  LastChanged <=> /\ \A e \in Entities : states[e] # NoState => \E k : DatedBy(e, k)
                  /\ \A k \in DOMAIN events : Worth(events[k])
BY DEF LastChanged, DatedBy, Worth

LEMMA LastInit == Init => LastChanged
BY LastChangedIs DEF Init

LEMMA LastChange ==
  ASSUME TypeOK, LastChanged, NEW rest, NEW ev \in Event, Changed(rest, ev)
  PROVE  LastChanged'
<1> DEFINE z == Len(events) + 1
<1>1. /\ events \in Seq(Event) /\ Len(events) \in Nat
      /\ states \in [Entities -> State \cup {NoState}]
  BY DEF TypeOK
<1>2. /\ Worth(ev) /\ Dated(ev) /\ ev.e \in Entities /\ ev.old_state = states[ev.e]
      /\ states' = [states EXCEPT ![ev.e] = ev.new_state] /\ events' = Append(events, ev)
  BY DEF Changed
<1>3. /\ DOMAIN events' = 1..z /\ DOMAIN events = 1..Len(events)
      /\ events'[z] = ev /\ z \in 1..z /\ z \in Nat
      /\ \A k \in 1..Len(events) : events'[k] = events[k] /\ k \in 1..z /\ k < z /\ k \in Nat
      /\ \A k \in 1..z : k = z \/ k \in 1..Len(events)
  BY <1>1, <1>2
<1> HIDE DEF z
<1>4. \A k \in DOMAIN events' : Worth(events'[k])
  BY <1>2, <1>3, LastChangedIs
<1>5. ASSUME NEW e
      PROVE  \A k : k \in Changes(e)' <=> k \in DOMAIN events' /\ events'[k].e = e
                                          /\ events'[k].new_state # NoState /\ Renews(events'[k])
  BY DEF Changes, Renews
<1>6. ASSUME NEW e PROVE /\ Changes(e) \subseteq 1..Len(events)
                         /\ \A k \in Changes(e) : k < z /\ k \in Nat
                         /\ Changes(e)' \subseteq Changes(e) \cup {z}
                         /\ Changes(e) \subseteq Changes(e)'
                         /\ z \in Changes(e)' <=> ev.e = e /\ ev.new_state # NoState /\ Renews(ev)
  <2>1. \A k : k \in Changes(e) <=> k \in 1..Len(events) /\ events[k].e = e
                                    /\ events[k].new_state # NoState /\ Renews(events[k])
    BY <1>3, ChangesAre
  <2> QED BY <1>3, <1>5, <2>1
<1>7. ASSUME NEW e \in Entities, states'[e] # NoState PROVE \E k : DatedBy(e, k)'
  <2>1. CASE ev.e = e /\ Renews(ev)
    <3>1. states'[e] = ev.new_state
      BY <1>1, <1>2, <2>1
    <3>2. z \in Changes(e)' /\ \A j \in Changes(e)' : j <= z
      BY <1>3, <1>6, <1>7, <2>1, <3>1
    <3>3. ev.new_state.last_changed = ev.new_state.last_updated
      BY <1>2, <1>7, <2>1, <3>1 DEF Dated
    <3>4. PICK d : d = z
      OBVIOUS
    <3>5. d \in Changes(e)' /\ \A j \in Changes(e)' : j <= d
      BY <3>2, <3>4, Zenon
    <3>6. /\ states'[e].last_changed = events'[d].new_state.last_updated
          /\ states'[e].state = events'[d].new_state.state
      BY <1>3, <3>1, <3>3, <3>4
    <3>7. DatedBy(e, d)'
      BY <3>5, <3>6, Zenon DEF DatedBy
    <3> QED BY <3>7
  <2>2. CASE ~(ev.e = e /\ Renews(ev))
    <3>1. Changes(e)' = Changes(e)
      <4>1. z \notin Changes(e)'
        BY <1>6, <2>2
      <4>2. \A j : j \in Changes(e)' <=> j \in Changes(e)
        BY <1>6, <4>1
      <4> QED BY <4>2, Zenon
    <3>2. /\ states[e] # NoState
          /\ states'[e].last_changed = states[e].last_changed
          /\ states'[e].state = states[e].state
      <4>1. CASE ev.e = e
        <5>1. states'[e] = ev.new_state /\ ~Renews(ev) /\ ev.old_state = states[e]
          BY <1>1, <1>2, <2>2, <4>1
        <5> QED BY <1>2, <1>7, <5>1 DEF Dated, Renews
      <4>2. CASE ev.e # e
        BY <1>1, <1>2, <1>7, <4>2
      <4> QED BY <4>1, <4>2
    <3>3. PICK k : DatedBy(e, k)
      BY <3>2, LastChangedIs
    <3>4. events'[k] = events[k]
      BY <1>3, <1>6, <3>3 DEF DatedBy
    <3>5. DatedBy(e, k)'
      BY <3>1, <3>2, <3>3, <3>4 DEF DatedBy
    <3> QED BY <3>5
  <2> QED BY <2>1, <2>2
<1>8. (\A e \in Entities : states[e] # NoState => \E k : DatedBy(e, k))'
  BY <1>7
<1> QED BY <1>4, <1>8 DEF LastChanged, DatedBy, Worth

LEMMA LastStep == TypeOK /\ LastChanged /\ [Next]_vars => LastChanged'
<1> SUFFICES ASSUME TypeOK, LastChanged, [Next]_vars PROVE LastChanged'
  OBVIOUS
<1>1. CASE UNCHANGED <<states, events>>
  BY <1>1 DEF LastChanged, Changes
<1>2. ASSUME NEW rest, NEW ev \in Event, Changed(rest, ev) PROVE LastChanged'
  BY <1>2, LastChange
<1>3. UNCHANGED <<states, events>> \/ \E rest, ev : ev \in Event /\ Changed(rest, ev)
  BY StepIs, Zenon DEF Asks, Performs, HearsOne
<1> QED BY <1>1, <1>2, <1>3

(* last_changed is when the entity took on its present state string, and   *)
(* an event that nobody insisted on tells of a change.                     *)
THEOREM LastChangedCorrect == Spec => []LastChanged
BY TypeInit, TypeStep, LastInit, LastStep, PTL DEF Spec
-----------------------------------------------------------------------------
(* Lifecycle.  Elems, Only, SetToSeq and the queue of the loop: what is in *)
(* a sequence, and that it is there once.                                  *)

LEMMA OnlyIs ==
  ASSUME NEW T, NEW js \in Seq(T), NEW S
  PROVE  /\ Only(js, S) \in Seq(T)
         /\ Elems(Only(js, S)) = Elems(js) \cap S
         /\ IsInjective(js) => IsInjective(Only(js, S))
<1> DEFINE keep == {i \in DOMAIN js : js[i] \in S}
           n == Cardinality(keep)
           Upto(i) == {k \in keep : k <= i}
           Rank(i) == Cardinality({k \in keep : k <= i})
           f == [i \in keep |-> Rank(i)]
           At(r) == CHOOSE i \in keep : Rank(i) = r
           o == Only(js, S)
<1>1. DOMAIN js = 1..Len(js) /\ Len(js) \in Nat /\ keep \subseteq 1..Len(js)
  OBVIOUS
<1>2. IsFiniteSet(keep) /\ n \in Nat
  <2>1. IsFiniteSet(1..Len(js))
    BY <1>1, FS_Interval
  <2>2. IsFiniteSet(keep)
    BY <2>1, <1>1, FS_Subset, Zenon
  <2> QED BY <2>2, FS_CardinalityType
<1>3. ASSUME NEW i \in keep
      PROVE  /\ IsFiniteSet(Upto(i)) /\ Rank(i) \in 1..n
  <2>1. Upto(i) \subseteq keep /\ i \in Upto(i)
    BY <1>1
  <2>2. IsFiniteSet(Upto(i)) /\ Rank(i) \in Nat /\ Rank(i) <= n
    BY <2>1, <1>2, FS_Subset, FS_CardinalityType
  <2>3. Rank(i) # 0
    BY <2>1, <2>2, FS_EmptySet
  <2> QED BY <2>2, <2>3, <1>2
<1>13. \A i \in keep : Rank(i) \in Int
  <2> TAKE i \in keep
  <2>1. Rank(i) \in 1..n
    BY <1>3
  <2> HIDE DEF Rank, keep, n
  <2> QED BY <1>2, <2>1
<1>4. ASSUME NEW i \in keep, NEW k \in keep, i < k
      PROVE  Rank(i) < Rank(k)
  <2>1. Upto(i) \subseteq Upto(k) /\ Upto(i) # Upto(k)
    <3>1. i \in Int /\ k \in Int /\ \A l \in keep : l \in Int
      BY <1>1
    <3>2. k \in Upto(k) /\ k \notin Upto(i)
      BY <3>1, <1>4
    <3> QED BY <3>1, <3>2, <1>4
  <2>2. Rank(i) <= Rank(k) /\ Rank(i) # Rank(k)
    BY <2>1, <1>3, FS_Subset
  <2>3. Rank(i) \in Int /\ Rank(k) \in Int
    BY <1>13
  <2> HIDE DEF Rank, keep
  <2> QED BY <2>2, <2>3
<1>5. f \in Surjection(keep, 1..n)
  <2>1. f \in [keep -> 1..n]
    BY <1>3
  <2>2. ASSUME NEW i \in keep, NEW k \in keep, f[i] = f[k]
        PROVE  i = k
    <3>1. i \in Int /\ k \in Int /\ f[i] = Rank(i) /\ f[k] = Rank(k)
      BY <1>1
    <3>2. Rank(i) \in Int /\ Rank(i) = Rank(k)
      BY <3>1, <2>2, <1>13
    <3>3. ~(i < k) /\ ~(k < i)
      <4> HIDE DEF Rank, f, keep
      <4> QED BY <3>2, <1>4
    <3> HIDE DEF Rank, f, keep
    <3> QED BY <3>1, <3>3
  <2>3. f \in Injection(keep, 1..n)
    BY <2>1, <2>2 DEF Injection, IsInjective
  <2>4. IsFiniteSet(1..n) /\ Cardinality(1..n) = n
    BY <1>2, FS_Interval
  <2> HIDE DEF f, keep
  <2> QED BY <2>3, <2>4, <1>2, FS_Injection
<1>6. ASSUME NEW r \in 1..n PROVE At(r) \in keep /\ Rank(At(r)) = r
  <2>1. \E i \in keep : Rank(i) = r
    BY <1>5 DEF Surjection
  <2> HIDE DEF keep
  <2> QED BY <2>1
<1>7. DOMAIN o = 1..n /\ \A r \in 1..n : o[r] = js[At(r)]
  BY DEF Only
<1>8. o \in Seq(T)
  <2>1. \A r \in 1..n : js[At(r)] \in T
    <3> TAKE r \in 1..n
    <3>1. At(r) \in DOMAIN js
      BY <1>6
    <3> QED BY <3>1
  <2>2. o = [r \in 1..n |-> js[At(r)]]
    BY DEF Only
  <2> HIDE DEF o, At, n
  <2> QED BY <1>2, <2>1, <2>2, SeqDef
<1>9. ASSUME NEW i \in keep PROVE Rank(i) \in 1..n /\ At(Rank(i)) = i
  <2>1. Rank(i) \in 1..n
    BY <1>3
  <2>2. At(Rank(i)) \in keep /\ Rank(At(Rank(i))) = Rank(i)
    BY <2>1, <1>6
  <2>3. i \in Int /\ At(Rank(i)) \in Int
    BY <2>2, <1>1
  <2> HIDE DEF keep, At, Rank
  <2>4. CASE At(Rank(i)) < i
    BY <2>4, <2>1, <2>2, <1>4
  <2>5. CASE i < At(Rank(i))
    BY <2>5, <2>1, <2>2, <1>4
  <2> QED BY <2>1, <2>3, <2>4, <2>5
<1>10. Elems(o) = Elems(js) \cap S
  <2>1. ASSUME NEW r \in 1..n PROVE o[r] \in Elems(js) \cap S
    BY <1>6, <1>7 DEF Elems
  <2>2. ASSUME NEW i \in keep PROVE js[i] \in Elems(o)
    <3>1. o[Rank(i)] = js[i]
      BY <1>9, <1>7
    <3> HIDE DEF o, keep
    <3> QED BY <3>1, <1>9, <1>7 DEF Elems
  <2> HIDE DEF o
  <2> QED BY <1>7, <2>1, <2>2 DEF Elems
<1>11. ASSUME IsInjective(js), NEW r \in 1..n, NEW s \in 1..n, o[r] = o[s]
       PROVE  r = s
  <2>1. js[At(r)] = js[At(s)] /\ At(r) \in keep /\ At(s) \in keep
    BY <1>11, <1>7, <1>6
  <2>2. At(r) = At(s)
    BY <2>1, <1>11 DEF IsInjective
  <2> HIDE DEF At
  <2> QED BY <2>2, <1>6
<1>12. IsInjective(js) => IsInjective(o)
  <2> HIDE DEF o, n
  <2> QED BY <1>7, <1>11 DEF IsInjective
<1> HIDE DEF o
<1> QED BY <1>8, <1>10, <1>12 DEF o

LEMMA SetSeqIs ==
  ASSUME NEW S, IsFiniteSet(S)
  PROVE  SetToSeq(S) \in Seq(S) /\ Elems(SetToSeq(S)) = S /\ IsInjective(SetToSeq(S))
<1> DEFINE n == Cardinality(S)
           f == SetToSeq(S)
<1>1. n \in Nat /\ ExistsBijection(1..n, S)
  BY FS_CardinalityType
<1>2. \E g : g \in [1..n -> S] /\ IsInjective(g)
  BY <1>1 DEF ExistsBijection, Bijection, Injection
<1>3. f \in [1..n -> S] /\ IsInjective(f)
  BY <1>2 DEF SetToSeq
<1>4. f \in Seq(S)
  BY <1>1, <1>3, SeqDef
<1>5. f \in Injection(1..n, S) /\ IsFiniteSet(1..n) /\ Cardinality(1..n) = n
  BY <1>1, <1>3, FS_Interval DEF Injection
<1>6. f \in Surjection(1..n, S)
  BY <1>5, FS_Injection
<1>7. Elems(f) = S
  <2> HIDE DEF f, n
  <2> QED BY <1>3, <1>6 DEF Surjection, Elems
<1> QED BY <1>3, <1>4, <1>7

(* Nothing but a stop_timer is in the queue q twice.                       *)
Unique(q) ==
  \A i, k \in DOMAIN q :
    /\ q[i].what # "stop_timer" /\ q[k].what # "stop_timer"
    /\ q[i].id = q[k].id
    => i = k

NoItem(q, z) == \A x \in Elems(q) : x.what # "stop_timer" => x.id # z

LEMMA QueueGrows ==
  ASSUME NEW q \in Seq(Item0), NEW m \in Seq(Item0)
  PROVE  /\ q \o m \in Seq(Item0)
         /\ Elems(q \o m) = Elems(q) \cup Elems(m)
         /\ /\ Unique(q) /\ Unique(m)
            /\ \A y \in Elems(m) : y.what # "stop_timer" => NoItem(q, y.id)
            => Unique(q \o m)
<1> DEFINE s == q \o m
<1>1. /\ Len(q) \in Nat /\ Len(m) \in Nat
      /\ DOMAIN q = 1..Len(q) /\ DOMAIN m = 1..Len(m)
  OBVIOUS
<1>2. /\ s \in Seq(Item0) /\ DOMAIN s = 1..(Len(q) + Len(m))
      /\ \A i \in 1..(Len(q) + Len(m)) : s[i] = IF i <= Len(q) THEN q[i] ELSE m[i - Len(q)]
  BY ConcatProperties
<1> HIDE DEF s
<1>3. \A i \in DOMAIN q : i \in DOMAIN s /\ s[i] = q[i]
  BY <1>1, <1>2
<1>4. \A i \in DOMAIN m : i + Len(q) \in DOMAIN s /\ s[i + Len(q)] = m[i]
  <2> TAKE i \in DOMAIN m
  <2>1. i \in 1..Len(m) /\ i + Len(q) \in 1..(Len(q) + Len(m))
    BY <1>1
  <2>2. ~(i + Len(q) <= Len(q)) /\ (i + Len(q)) - Len(q) = i
    BY <2>1, <1>1
  <2> QED BY <2>1, <2>2, <1>2
<1>5. \A i \in DOMAIN s : \/ i \in DOMAIN q /\ s[i] = q[i]
                          \/ i - Len(q) \in DOMAIN m /\ s[i] = m[i - Len(q)] /\ i > Len(q)
  <2> TAKE i \in DOMAIN s
  <2>1. CASE i <= Len(q)
    BY <2>1, <1>1, <1>2
  <2>2. CASE ~(i <= Len(q))
    <3>1. i - Len(q) \in 1..Len(m) /\ i > Len(q)
      BY <2>2, <1>1, <1>2
    <3> QED BY <3>1, <2>2, <1>1, <1>2
  <2> QED BY <2>1, <2>2
<1>6. Elems(s) = Elems(q) \cup Elems(m)
  <2>1. Elems(s) \subseteq Elems(q) \cup Elems(m)
    BY <1>5, Zenon DEF Elems
  <2>2. Elems(q) \subseteq Elems(s) /\ Elems(m) \subseteq Elems(s)
    BY <1>3, <1>4 DEF Elems
  <2> QED BY <2>1, <2>2
<1>7. ASSUME Unique(q), Unique(m),
             \A y \in Elems(m) : y.what # "stop_timer" => NoItem(q, y.id),
             NEW i \in DOMAIN s, NEW k \in DOMAIN s,
             s[i].what # "stop_timer", s[k].what # "stop_timer", s[i].id = s[k].id
      PROVE  i = k
  <2>1. \A a \in DOMAIN q, b \in DOMAIN m :
          q[a].what # "stop_timer" /\ m[b].what # "stop_timer" => q[a].id # m[b].id
    BY <1>7 DEF NoItem, Elems
  <2>2. CASE i \in DOMAIN q /\ s[i] = q[i] /\ k \in DOMAIN q /\ s[k] = q[k]
    BY <2>2, <1>7 DEF Unique
  <2>3. CASE /\ i - Len(q) \in DOMAIN m /\ s[i] = m[i - Len(q)] /\ i > Len(q)
             /\ k - Len(q) \in DOMAIN m /\ s[k] = m[k - Len(q)] /\ k > Len(q)
    <3>1. i - Len(q) = k - Len(q)
      BY <2>3, <1>7, Zenon DEF Unique
    <3> QED BY <3>1, <2>3, <1>1, <1>2
  <2> QED BY <2>1, <2>2, <2>3, <1>5, <1>7, Zenon
<1>8. (/\ Unique(q) /\ Unique(m)
       /\ \A y \in Elems(m) : y.what # "stop_timer" => NoItem(q, y.id)) => Unique(s)
  BY <1>7 DEF Unique
<1> QED BY <1>2, <1>6, <1>8 DEF s

LEMMA OneMore ==
  ASSUME NEW q \in Seq(Item0), NEW x \in Item0
  PROVE  /\ Append(q, x) = q \o <<x>>
         /\ Append(q, x) \in Seq(Item0)
         /\ Elems(Append(q, x)) = Elems(q) \cup {x}
         /\ Unique(q) /\ NoItem(q, x.id) => Unique(Append(q, x))
<1>1. Append(q, x) = q \o <<x>> /\ <<x>> \in Seq(Item0)
  OBVIOUS
<1>2. Elems(<<x>>) = {x} /\ Unique(<<x>>)
  BY DEF Elems, Unique
<1>3. /\ q \o <<x>> \in Seq(Item0)
      /\ Elems(q \o <<x>>) = Elems(q) \cup Elems(<<x>>)
      /\ /\ Unique(q) /\ Unique(<<x>>)
         /\ \A y \in Elems(<<x>>) : y.what # "stop_timer" => NoItem(q, y.id)
         => Unique(q \o <<x>>)
  BY <1>1, QueueGrows, Zenon
<1> QED BY <1>1, <1>2, <1>3

LEMMA HeadOff ==
  ASSUME NEW q \in Seq(Item0), q # <<>>
  PROVE  /\ Tail(q) \in Seq(Item0) /\ Head(q) \in Item0
         /\ Elems(q) = {Head(q)} \cup Elems(Tail(q))
         /\ Unique(q) => /\ Unique(Tail(q))
                         /\ Head(q).what # "stop_timer" => NoItem(Tail(q), Head(q).id)
<1> DEFINE t == Tail(q)
<1>1. /\ Len(q) \in Nat \ {0} /\ DOMAIN q = 1..Len(q) /\ Head(q) = q[1]
      /\ t \in Seq(Item0) /\ DOMAIN t = 1..(Len(q) - 1) /\ \A i \in DOMAIN t : t[i] = q[i + 1]
      /\ Head(q) \in Item0
  OBVIOUS
<1> HIDE DEF t
<1>2. \A i \in DOMAIN t : i + 1 \in DOMAIN q /\ i + 1 # 1
  BY <1>1
<1>3. \A i \in DOMAIN q : i = 1 \/ (i - 1 \in DOMAIN t /\ t[i - 1] = q[i])
  BY <1>1
<1>4. Elems(q) = {Head(q)} \cup Elems(t)
  <2>1. Elems(q) \subseteq {Head(q)} \cup Elems(t)
    BY <1>1, <1>3 DEF Elems
  <2>2. Elems(t) \subseteq Elems(q) /\ Head(q) \in Elems(q)
    BY <1>1, <1>2 DEF Elems
  <2> QED BY <2>1, <2>2
<1>5. ASSUME Unique(q) PROVE Unique(t)
  <2> SUFFICES ASSUME NEW i \in DOMAIN t, NEW k \in DOMAIN t,
                      t[i].what # "stop_timer", t[k].what # "stop_timer", t[i].id = t[k].id
               PROVE  i = k
    BY DEF Unique
  <2>1. i + 1 = k + 1
    BY <1>1, <1>2, <1>5 DEF Unique
  <2> QED BY <2>1, <1>1
<1>6. ASSUME Unique(q), Head(q).what # "stop_timer" PROVE NoItem(t, Head(q).id)
  <2> SUFFICES ASSUME NEW i \in DOMAIN t, t[i].what # "stop_timer", t[i].id = Head(q).id
               PROVE  FALSE
    BY DEF NoItem, Elems
  <2>1. i + 1 = 1
    BY <1>1, <1>2, <1>6 DEF Unique
  <2> QED BY <2>1, <1>2
<1> QED BY <1>1, <1>4, <1>5, <1>6 DEF t

(* What the loop makes of added jobs: one callback for each that runs in   *)
(* the loop.                                                               *)
LEMMA QueuedIs ==
  ASSUME NEW js \in Seq(Jobs), IsInjective(js)
  PROVE  /\ Queued(js) \in Seq(Item0) /\ Unique(Queued(js))
         /\ \A x \in Elems(Queued(js)) :
              x.what = "run" /\ x.id \in Elems(js) /\ Kind[x.id] # "function"
<1> DEFINE S == {j \in Jobs : Kind[j] # "function"}
           o == Only(js, S)
           q == Queued(js)
<1>1. o \in Seq(Jobs) /\ Elems(o) = Elems(js) \cap S /\ IsInjective(o)
  BY OnlyIs, Zenon
<1>2. q = [i \in DOMAIN o |-> [what |-> "run", id |-> o[i]]]
  BY Zenon DEF Queued, Item
<1> HIDE DEF o, q
<1>3. DOMAIN o = 1..Len(o) /\ Len(o) \in Nat /\ \A i \in DOMAIN o : o[i] \in Jobs
  BY <1>1
<1>4. \A i \in DOMAIN o : [what |-> "run", id |-> o[i]] \in Item0
  BY <1>3 DEF Item0
<1>5. q \in Seq(Item0)
  BY <1>2, <1>3, <1>4, SeqDef
<1>6. DOMAIN q = DOMAIN o /\ \A i \in DOMAIN o : q[i].what = "run" /\ q[i].id = o[i]
  BY <1>2
<1>7. Unique(q)
  BY <1>1, <1>6, Zenon DEF Unique, IsInjective
<1>8. \A i \in DOMAIN o : o[i] \in Elems(js) \cap S
  BY <1>1, Zenon DEF Elems
<1>9. \A x \in Elems(q) : x.what = "run" /\ x.id \in Elems(js) \cap S
  BY <1>6, <1>8 DEF Elems
<1> QED BY <1>5, <1>7, <1>9 DEF q

LEMMA ItemIs ==
  ASSUME NEW x \in Item0
  PROVE  /\ x.what \in {"begin", "resume", "run", "add", "answer", "result", "stop_timer"}
         /\ x.what \in {"begin", "resume"} => x.id \in Procs
         /\ x.what \in {"run", "add", "answer", "result"} => x.id \in Jobs
BY DEF Item0

(* The callbacks behind the jobs of an event: perhaps the timer's, and the *)
(* resumption of who fired it.                                             *)
LEMMA MoreIs ==
  ASSUME NEW p \in Procs, NEW e
  PROVE  LET m == StopTimer(e) \o Resumption(p)
         IN /\ m \in Seq(Item0) /\ Unique(m)
            /\ \A x \in Elems(m) : x.what = "stop_timer" \/ x = Item("resume", p)
<1> DEFINE r == Resumption(p)
           s == StopTimer(e)
<1>1. Item("resume", p) \in Item0 /\ Item("stop_timer", "timer") \in Item0
  BY DEF Item, Item0
<1>2. r \in Seq(Item0) /\ Elems(r) = {Item("resume", p)} /\ Unique(r)
  BY <1>1 DEF Resumption, Elems, Unique
<1>3. s \in Seq(Item0) /\ Unique(s) /\ \A x \in Elems(s) : x.what = "stop_timer"
  BY <1>1 DEF StopTimer, Elems, Unique, Item
<1> HIDE DEF r, s
<1>4. Item("resume", p).what = "resume" /\ NoItem(s, Item("resume", p).id)
  BY <1>3 DEF NoItem, Item
<1>5. \A y \in Elems(r) : NoItem(s, y.id)
  BY <1>2, <1>4
<1>6. /\ s \o r \in Seq(Item0)
      /\ Elems(s \o r) = Elems(s) \cup Elems(r)
      /\ /\ Unique(s) /\ Unique(r)
         /\ \A y \in Elems(r) : y.what # "stop_timer" => NoItem(s, y.id)
         => Unique(s \o r)
  BY <1>2, <1>3, QueueGrows, Zenon
<1>7. Unique(s \o r)
  BY <1>2, <1>3, <1>5, <1>6
<1>8. \A x \in Elems(s \o r) : x.what = "stop_timer" \/ x = Item("resume", p)
  BY <1>2, <1>3, <1>6
<1> QED BY <1>6, <1>7, <1>8 DEF r, s

-----------------------------------------------------------------------------
(* What async_block_till_done relies on.                                   *)

(* What is queued is what its coroutine or its job waits for.              *)
Fits(x) ==
  /\ x.what = "begin" => at[x.id] = "begun"
  /\ x.what = "resume" => /\ at[x.id] \in {"block1", "block2", "cancelled", "settle"}
                          /\ waiting[x.id] = {}
  /\ x.what = "run" => job[x.id] \in {"ready", "resumed"}
  /\ x.what = "add" => job[x.id] = "asked"
  /\ x.what = "answer" => job[x.id] = "calling"
  /\ x.what = "result" => job[x.id] = "returned"

Queue == Unique(ready) /\ \A x \in Elems(ready) : Fits(x)

(* Home Assistant starts when bootstrap is through, and only async_start   *)
(* has a timeout.                                                          *)
BootFirst ==
  /\ at["boot"] # "done" => at["start"] = "idle"
  /\ \A p \in Procs : at[p] \in {"cancelled", "settle"} => p = "start"

WaitersBlocked == \A p \in Procs : waiting[p] # {} => Blocked(p)

Known == pending \subseteq tracked /\ \A p \in Procs : waiting[p] \subseteq tracked

(* A tracked task that is not done is still to be waited for, or is being  *)
(* waited for.                                                             *)
Covered ==
  \A t \in (tracked \ abandoned) \cap Jobs :
    Done(t) \/ t \in pending \/ \E p \in Procs : t \in waiting[p]

LifeInv ==
  LifeTypeOK /\ Queue /\ BootFirst /\ WaitersBlocked /\ Known /\ Covered

(* What no queued item is about: a coroutine that is not to be resumed, a  *)
(* job that does not wait for the loop.                                    *)
LEMMA NoItemOfProc ==
  ASSUME LifeTypeOK, Queue, NEW p \in Procs,
         \/ at[p] \notin {"begun", "block1", "block2", "cancelled", "settle"}
         \/ at[p] # "begun" /\ waiting[p] # {}
  PROVE  NoItem(ready, p)
<1> SUFFICES ASSUME NEW x \in Elems(ready), x.what # "stop_timer", x.id = p
             PROVE  FALSE
  BY DEF NoItem
<1>1. x \in Item0
  BY DEF LifeTypeOK, Elems
<1>2. p \notin Jobs
  BY LifecycleConstants DEF Procs
<1>3. x.what \in {"begin", "resume"}
  BY <1>1, <1>2, ItemIs
<1>4. Fits(x)
  BY DEF Queue
<1> QED BY <1>3, <1>4 DEF Fits

LEMMA NoItemOfJob ==
  ASSUME LifeTypeOK, Queue, NEW j \in Jobs,
         job[j] \notin {"ready", "resumed", "asked", "calling", "returned"}
  PROVE  NoItem(ready, j)
<1> SUFFICES ASSUME NEW x \in Elems(ready), x.what # "stop_timer", x.id = j
             PROVE  FALSE
  BY DEF NoItem
<1>1. x \in Item0
  BY DEF LifeTypeOK, Elems
<1>2. j \notin Procs
  BY LifecycleConstants DEF Procs
<1>3. x.what \in {"run", "add", "answer", "result"}
  BY <1>1, <1>2, ItemIs
<1>4. Fits(x)
  BY DEF Queue
<1> QED BY <1>3, <1>4 DEF Fits

(* A queue that keeps what still fits and gets what fits.                  *)
LEMMA QueueAfter ==
  ASSUME NEW rest \in Seq(Item0), NEW more \in Seq(Item0),
         Unique(rest), Unique(more),
         \A y \in Elems(more) : y.what # "stop_timer" => NoItem(rest, y.id),
         \A x \in Elems(rest) : Fits(x)',
         \A x \in Elems(more) : Fits(x)',
         ready' = rest \o more
  PROVE  Queue' /\ ready' \in Seq(Item0)
<1>1. /\ rest \o more \in Seq(Item0)
      /\ Elems(rest \o more) = Elems(rest) \cup Elems(more)
      /\ Unique(rest \o more)
  BY QueueGrows, Zenon
<1>2. \A x \in Elems(ready') : Fits(x)'
  BY <1>1
<1>3. Unique(ready')
  BY <1>1
<1> QED BY <1>1, <1>2, <1>3 DEF Queue

LEMMA QueueLess ==
  ASSUME NEW rest \in Seq(Item0), Unique(rest),
         \A x \in Elems(rest) : Fits(x)', ready' = rest
  PROVE  Queue' /\ ready' \in Seq(Item0)
BY DEF Queue

(* What fits goes on fitting while its coroutine and its job stay as they  *)
(* are.                                                                    *)
LEMMA StillFits ==
  ASSUME NEW x \in Item0, Fits(x),
         x.id \in Procs => at'[x.id] = at[x.id] /\ waiting'[x.id] = waiting[x.id],
         x.id \in Jobs => job'[x.id] = job[x.id]
  PROVE  Fits(x)'
<1>1. /\ x.what \in {"begin", "resume"} => x.id \in Procs
      /\ x.what \in {"run", "add", "answer", "result"} => x.id \in Jobs
  BY ItemIs
<1> QED BY <1>1 DEF Fits

LEMMA CoveredAfter ==
  ASSUME Covered,
         abandoned \subseteq abandoned',
         \A t \in tracked' \ tracked : t \in pending',
         \A t \in Jobs : job[t] = "done" => job'[t] = "done",
         \A t \in pending \cap Jobs :
           \/ job'[t] = "done" \/ t \in pending' \/ t \in abandoned'
           \/ \E p \in Procs : t \in waiting'[p],
         \A p \in Procs : \A t \in waiting[p] \cap Jobs :
           \/ job'[t] = "done" \/ t \in abandoned'
           \/ \E s \in Procs : t \in waiting'[s]
  PROVE  Covered'
<1> SUFFICES ASSUME NEW t \in Jobs, t \in tracked', t \notin abandoned', job'[t] # "done",
                    t \notin pending'
             PROVE  \E p \in Procs : t \in waiting'[p]
  BY DEF Covered, Done
<1>1. t \in tracked /\ t \notin abandoned /\ job[t] # "done"
  OBVIOUS
<1>2. t \in pending \/ \E p \in Procs : t \in waiting[p]
  BY <1>1 DEF Covered, Done
<1> QED BY <1>2

(* The tasks that are remembered.                                          *)
LEMMA TrackIs ==
  ASSUME NEW js \in Seq(Jobs), NEW tr, Track(js, tr)
  PROVE  \E W \in SUBSET {j \in Jobs : Task(j)} :
           pending' = pending \cup W /\ tracked' = tracked \cup W
<1>1. {j \in Elems(js) : tr /\ Task(j)} \subseteq {j \in Jobs : Task(j)}
  BY DEF Elems
<1> QED BY <1>1, Zenon DEF Track

(* The jobs js are added behind the rest of the queue, and W of them are   *)
(* remembered; more follows, and some other job may go on.                 *)
Adds(js, rest, more, W) ==
  /\ js \in Seq(Jobs) /\ IsInjective(js)
  /\ rest \in Seq(Item0) /\ Elems(rest) \subseteq Elems(ready) /\ Unique(rest)
  /\ more \in Seq(Item0) /\ Unique(more)
  /\ \A y \in Elems(more) :
       \/ y.what = "stop_timer"
       \/ y.what = "resume" /\ NoItem(rest, y.id) /\ Fits(y)'
  /\ ready' = rest \o Queued(js) \o more
  /\ W \subseteq {j \in Jobs : Task(j)}
  /\ pending' = pending \cup W /\ tracked' = tracked \cup W
  /\ \A j \in Elems(js) : /\ NoItem(rest, j) /\ job[j] # "done"
                          /\ Kind[j] # "function" => job'[j] = "ready"
  /\ \A j \in Jobs \ Elems(js) :
       job'[j] = job[j] \/ (NoItem(rest, j) /\ job[j] # "done")
  /\ \A p \in Procs : NoItem(rest, p) \/ at'[p] = at[p]
  /\ waiting' = waiting /\ abandoned' = abandoned

LEMMA WorkIs ==
  ASSUME LifeTypeOK, Queue, Known, Covered,
         NEW js, NEW rest, NEW more, NEW W, Adds(js, rest, more, W)
  PROVE  /\ Queue' /\ ready' \in Seq(Item0)
         /\ Known' /\ Covered'
         /\ pending' \subseteq {j \in Jobs : Task(j)} \cup Stoppers
         /\ tracked' \subseteq Jobs \cup Stoppers /\ abandoned' \subseteq tracked'
<1> USE DEF Adds
<1> DEFINE q == Queued(js)
           r == rest \o q
<1>1. /\ q \in Seq(Item0) /\ Unique(q)
      /\ \A x \in Elems(q) : x.what = "run" /\ x.id \in Elems(js) /\ Kind[x.id] # "function"
  BY QueuedIs, Zenon
<1> HIDE DEF q
<1>2. \A j \in Elems(js) : j \in Jobs /\ j \notin Procs
  BY LifecycleConstants DEF Elems, Procs
<1>3. \A x \in Elems(rest) : x \in Item0 /\ Fits(x)
  <2> TAKE x \in Elems(rest)
  <2>1. x \in Item0
    BY DEF Elems
  <2> QED BY <2>1 DEF Queue
<1>4. ASSUME NEW x \in Elems(rest) PROVE Fits(x)'
  <2>1. x \in Item0 /\ Fits(x)
    BY <1>3
  <2>2. CASE x.what = "stop_timer"
    BY <2>2 DEF Fits
  <2>3. CASE x.what # "stop_timer"
    <3>1. \A z : NoItem(rest, z) => x.id # z
      BY <2>3 DEF NoItem
    <3>2. x.id \in Procs => at'[x.id] = at[x.id] /\ waiting'[x.id] = waiting[x.id]
      BY <3>1
    <3>3. x.id \in Jobs => job'[x.id] = job[x.id]
      BY <3>1
    <3> QED BY <2>1, <3>2, <3>3, StillFits
  <2> QED BY <2>2, <2>3
<1>5. ASSUME NEW x \in Elems(q) PROVE Fits(x)' /\ NoItem(rest, x.id)
  BY <1>1, <1>2 DEF Fits
<1>6. /\ r \in Seq(Item0) /\ Elems(r) = Elems(rest) \cup Elems(q)
      /\ /\ Unique(rest) /\ Unique(q)
         /\ \A y \in Elems(q) : y.what # "stop_timer" => NoItem(rest, y.id)
         => Unique(r)
  BY <1>1, QueueGrows, SMTT(30)
<1>7. Unique(r) /\ \A x \in Elems(r) : Fits(x)'
  BY <1>1, <1>4, <1>5, <1>6
<1>8. ASSUME NEW y \in Elems(more) PROVE Fits(y)' /\ (y.what # "stop_timer" => NoItem(r, y.id))
  <2>1. CASE y.what = "stop_timer"
    BY <2>1 DEF Fits
  <2>2. CASE y.what = "resume" /\ NoItem(rest, y.id) /\ Fits(y)'
    <3>1. y \in Item0
      BY DEF Elems
    <3>2. y.id \in Procs
      BY <2>2, <3>1, ItemIs
    <3>3. NoItem(q, y.id)
      BY <1>1, <1>2, <3>2 DEF NoItem
    <3>4. NoItem(r, y.id)
      BY <2>2, <3>3, <1>6 DEF NoItem
    <3> QED BY <2>2, <3>4
  <2> QED BY <2>1, <2>2
<1>9. ready' = r \o more
  BY DEF q
<1> HIDE DEF r
<1>10. Queue' /\ ready' \in Seq(Item0)
  BY <1>6, <1>7, <1>8, <1>9, QueueAfter, Zenon
<1>12. \A t \in Jobs : job[t] = "done" => job'[t] = "done"
  OBVIOUS
<1>13. Known'
  BY DEF Known
<1>14. Covered'
  <2>1. /\ \A t \in tracked' \ tracked : t \in pending'
        /\ pending \subseteq pending'
    OBVIOUS
  <2> QED BY <2>1, <1>12, CoveredAfter
<1>15. /\ pending' \subseteq {j \in Jobs : Task(j)} \cup Stoppers
       /\ tracked' \subseteq Jobs \cup Stoppers /\ abandoned' \subseteq tracked'
  BY DEF LifeTypeOK
<1> QED BY <1>10, <1>13, <1>14, <1>15

(* The jobs of a stage or an event that are still new.                     *)
LEMMA FreshIs ==
  ASSUME NEW e \in Stages
  PROVE  LET js == Fresh(Listeners[e])
         IN /\ js \in Seq(Jobs) /\ IsInjective(js)
            /\ \A j \in Elems(js) : job[j] = "new"
<1> DEFINE S == {j \in Jobs : job[j] = "new"}
<1>1. Listeners[e] \in Seq(Jobs) /\ IsInjective(Listeners[e])
  BY LifecycleConstants
<1>2. /\ Only(Listeners[e], S) \in Seq(Jobs)
      /\ Elems(Only(Listeners[e], S)) = Elems(Listeners[e]) \cap S
      /\ IsInjective(Only(Listeners[e], S))
  BY <1>1, OnlyIs, Zenon
<1> QED BY <1>2 DEF Fresh

LEMMA BegunIs ==
  ASSUME LifeTypeOK, NEW js
  PROVE  /\ Begun(js) \in [Jobs -> JobStates]
         /\ \A j \in Jobs : j \notin Elems(js) => Begun(js)[j] = job[j]
         /\ \A j \in Jobs : /\ j \in Elems(js) => Begun(js)[j] \in {"live", "ready"}
                            /\ j \in Elems(js) /\ Kind[j] # "function" => Begun(js)[j] = "ready"
<1>1. job \in [Jobs -> JobStates]
  BY DEF LifeTypeOK
<1>2. {"live", "ready"} \subseteq JobStates
  BY DEF JobStates
<1> QED BY <1>1, <1>2 DEF Begun

(* Whoever fires an event, or adds a stage of components, and blocks.      *)
LEMMA FireIs ==
  ASSUME LifeInv, NEW p \in Procs, NEW e \in Stages,
         NEW rest \in Seq(Item0), Elems(rest) \subseteq Elems(ready), Unique(rest),
         NoItem(rest, p), waiting[p] = {}, at[p] \in {"begun", "block1"},
         NEW tr \in BOOLEAN, NEW where \in {"block1", "block2"},
         FireAndBlock(p, e, rest, tr, where),
         waiting' = waiting, abandoned' = abandoned,
         state' \in {"not_running", "starting", "running", "stopping"},
         track' \in BOOLEAN, timer' = timer, loop' = loop
  PROVE  LifeInv'
<1> DEFINE js == Fresh(Listeners[e])
           more == StopTimer(e) \o Resumption(p)
<1>1. /\ js \in Seq(Jobs) /\ IsInjective(js)
      /\ \A j \in Elems(js) : job[j] = "new"
  BY FreshIs, Zenon
<1>2. /\ more \in Seq(Item0) /\ Unique(more)
      /\ \A x \in Elems(more) : x.what = "stop_timer" \/ x = Item("resume", p)
  BY MoreIs, Zenon
<1>3. /\ ready' = rest \o Queued(js) \o more /\ job' = Begun(js) /\ Track(js, tr)
      /\ at' = [at EXCEPT ![p] = where] /\ fired' = Append(fired, e)
  BY Zenon DEF FireAndBlock, async_add_job
<1> HIDE DEF js, more
<1>4. LifeTypeOK /\ Queue /\ Known /\ Covered
  BY DEF LifeInv
<1>5. \A j \in Elems(js) : j \in Jobs
  BY <1>1 DEF Elems
<1>6. \A z : NoItem(ready, z) => NoItem(rest, z)
  BY DEF NoItem
<1>7. /\ job' \in [Jobs -> JobStates]
      /\ \A j \in Jobs : j \notin Elems(js) => job'[j] = job[j]
      /\ \A j \in Elems(js) : Kind[j] # "function" => job'[j] = "ready"
  BY <1>3, <1>4, <1>5, BegunIs
<1>8. \A j \in Elems(js) : NoItem(rest, j) /\ job[j] # "done"
  BY <1>1, <1>4, <1>5, <1>6, NoItemOfJob
<1>9. at \in [Procs -> Places] /\ where \in Places
  BY <1>4 DEF LifeTypeOK, Places
<1>10. at'[p] = where /\ \A s \in Procs : s # p => at'[s] = at[s]
  BY <1>3, <1>9
<1>11. \A y \in Elems(more) :
         \/ y.what = "stop_timer"
         \/ y.what = "resume" /\ NoItem(rest, y.id) /\ Fits(y)'
  BY <1>2, <1>10 DEF Item, Fits
<1>12. \A s \in Procs : NoItem(rest, s) \/ at'[s] = at[s]
  BY <1>10
<1>13. /\ Queue' /\ ready' \in Seq(Item0)
       /\ Known' /\ Covered'
       /\ pending' \subseteq {j \in Jobs : Task(j)} \cup Stoppers
       /\ tracked' \subseteq Jobs \cup Stoppers /\ abandoned' \subseteq tracked'
  <2>1. PICK W \in SUBSET {j \in Jobs : Task(j)} :
          pending' = pending \cup W /\ tracked' = tracked \cup W
    BY <1>1, <1>3, TrackIs, Zenon
  <2>2. Adds(js, rest, more, W)
    BY <1>1, <1>2, <1>3, <1>7, <1>8, <1>11, <1>12, <2>1 DEF Adds
  <2> QED BY <1>4, <2>2, WorkIs
<1>14. BootFirst'
  <2>1. "boot" \in Procs /\ "start" \in Procs
    BY DEF Procs
  <2>2. BootFirst
    BY DEF LifeInv
  <2> QED BY <2>1, <2>2, <1>10 DEF BootFirst
<1>15. WaitersBlocked'
  <2>1. WaitersBlocked
    BY DEF LifeInv
  <2> QED BY <2>1, <1>10 DEF WaitersBlocked, Blocked
<1>16. at' \in [Procs -> Places] /\ fired' \in Seq(Stages)
  BY <1>3, <1>4, <1>9 DEF LifeTypeOK
<1>17. LifeTypeOK'
  BY <1>4, <1>7, <1>13, <1>16 DEF LifeTypeOK
<1> QED BY <1>13, <1>14, <1>15, <1>17 DEF LifeInv

-----------------------------------------------------------------------------
(* The steps beside the loop.                                              *)

(* Something is queued behind what is ready, for a coroutine or a job that *)
(* has nothing in the queue.                                               *)
LEMMA AppendIs ==
  ASSUME LifeTypeOK, Queue, NEW x \in Item0, NoItem(ready, x.id),
         ready' = Append(ready, x), Fits(x)',
         \A p \in Procs : p # x.id => at'[p] = at[p] /\ waiting'[p] = waiting[p],
         \A j \in Jobs : j # x.id => job'[j] = job[j]
  PROVE  Queue' /\ ready' \in Seq(Item0)
<1>1. ready \in Seq(Item0)
  BY DEF LifeTypeOK
<1>2. /\ ready' \in Seq(Item0)
      /\ Elems(ready') = Elems(ready) \cup {x}
      /\ Unique(ready) /\ NoItem(ready, x.id) => Unique(ready')
  <2>1. /\ Append(ready, x) \in Seq(Item0)
        /\ Elems(Append(ready, x)) = Elems(ready) \cup {x}
        /\ Unique(ready) /\ NoItem(ready, x.id) => Unique(Append(ready, x))
    BY <1>1, OneMore
  <2> QED BY <2>1
<1>3. ASSUME NEW y \in Elems(ready) PROVE Fits(y)'
  <2>1. y \in Item0 /\ Fits(y)
    BY <1>1 DEF Queue, Elems
  <2>2. CASE y.what = "stop_timer"
    BY <2>2 DEF Fits
  <2>3. CASE y.what # "stop_timer"
    <3>1. y.id # x.id
      BY <2>3 DEF NoItem
    <3> QED BY <2>1, <3>1, StillFits
  <2> QED BY <2>2, <2>3
<1> QED BY <1>2, <1>3 DEF Queue

LEMMA WakeStep ==
  ASSUME LifeInv, NEW p \in Procs, Wake(p)
  PROVE  LifeInv'
<1> DEFINE x == Item("resume", p)
<1>1. LifeTypeOK /\ Queue /\ BootFirst /\ WaitersBlocked /\ Known /\ Covered
  BY DEF LifeInv
<1>2. /\ waiting[p] # {} /\ Blocked(p) /\ \A t \in waiting[p] : Done(t)
      /\ waiting' = [waiting EXCEPT ![p] = {}]
      /\ ready' = ready \o <<x>>
      /\ UNCHANGED <<state, track, pending, job, at, timer, loop, fired, tracked, abandoned>>
  BY DEF Wake, Resumption
<1>3. x \in Item0 /\ x.id = p /\ x.what = "resume"
  BY DEF Item, Item0
<1>4. waiting'[p] = {} /\ \A s \in Procs : s # p => waiting'[s] = waiting[s]
  BY <1>1, <1>2 DEF LifeTypeOK
<1>5. ready' = Append(ready, x)
  BY <1>1, <1>2, <1>3 DEF LifeTypeOK
<1> HIDE DEF x
<1>6. NoItem(ready, p)
  BY <1>1, <1>2, NoItemOfProc DEF Blocked
<1>7. Fits(x)'
  BY <1>2, <1>3, <1>4 DEF Fits, Blocked
<1>8. Queue' /\ ready' \in Seq(Item0)
  BY <1>1, <1>2, <1>3, <1>4, <1>5, <1>6, <1>7, AppendIs
<1>9. LifeTypeOK'
  BY <1>1, <1>2, <1>8 DEF LifeTypeOK
<1>10. BootFirst' /\ WaitersBlocked' /\ Known'
  BY <1>1, <1>2, <1>4 DEF BootFirst, WaitersBlocked, Known, Blocked
<1>11. Covered'
  <2>1. \A s \in Procs : \A t \in waiting[s] \cap Jobs : job'[t] = "done" \/ t \in waiting'[s]
    BY <1>2, <1>4 DEF Done
  <2> QED BY <1>1, <1>2, <2>1, CoveredAfter
<1> QED BY <1>8, <1>9, <1>10, <1>11 DEF LifeInv

LEMMA StartTimeoutStep ==
  ASSUME LifeInv, StartTimeout
  PROVE  LifeInv'
<1> DEFINE x == Item("resume", "start")
           lost == {t \in waiting["start"] : ~Done(t)}
<1>1. LifeTypeOK /\ Queue /\ BootFirst /\ WaitersBlocked /\ Known /\ Covered
  BY DEF LifeInv
<1>2. /\ Blocked("start")
      /\ at' = [at EXCEPT !["start"] = "cancelled"]
      /\ abandoned' = abandoned \cup lost
      /\ waiting' = [waiting EXCEPT !["start"] = {}]
      /\ ready' = IF waiting["start"] = {} THEN ready ELSE ready \o <<x>>
      /\ UNCHANGED <<state, track, pending, job, timer, loop, fired, tracked>>
  BY DEF StartTimeout, Resumption
<1>3. x \in Item0 /\ x.id = "start" /\ x.what = "resume" /\ "start" \in Procs /\ "boot" \in Procs
  BY DEF Item, Item0, Procs
<1>4. /\ waiting'["start"] = {} /\ \A s \in Procs : s # "start" => waiting'[s] = waiting[s]
      /\ at'["start"] = "cancelled" /\ \A s \in Procs : s # "start" => at'[s] = at[s]
      /\ at' \in [Procs -> Places]
  BY <1>1, <1>2, <1>3 DEF LifeTypeOK, Places
<1>5. ready # <<>> => ready \in Seq(Item0)
  BY <1>1 DEF LifeTypeOK
<1>6. Queue' /\ ready' \in Seq(Item0)
  <2>1. CASE waiting["start"] = {}
    <3>1. ready' = ready /\ ready \in Seq(Item0) /\ Unique(ready)
      BY <2>1, <1>1, <1>2 DEF LifeTypeOK, Queue
    <3>2. ASSUME NEW y \in Elems(ready) PROVE Fits(y)'
      <4>1. y \in Item0 /\ Fits(y)
        BY <1>1, <3>1 DEF Queue, Elems
      <4>2. CASE y.id # "start"
        BY <4>1, <4>2, <1>2, <1>4, StillFits
      <4>3. CASE y.id = "start"
        <5>1. "start" \notin Jobs
          BY LifecycleConstants
        <5>2. y.what \in {"begin", "resume", "stop_timer"}
          BY <4>1, <4>3, <5>1, ItemIs
        <5>3. y.what # "begin"
          BY <4>1, <4>3, <1>2 DEF Fits, Blocked
        <5> QED BY <5>2, <5>3, <4>3, <1>4 DEF Fits
      <4> QED BY <4>2, <4>3
    <3> QED BY <3>1, <3>2, QueueLess
  <2>2. CASE waiting["start"] # {}
    <3>1. ready' = Append(ready, x)
      BY <2>2, <1>1, <1>2, <1>3 DEF LifeTypeOK
    <3>2. NoItem(ready, "start")
      BY <2>2, <1>1, <1>2, <1>3, NoItemOfProc DEF Blocked
    <3>3. Fits(x)'
      BY <1>3, <1>4 DEF Fits
    <3> HIDE DEF x
    <3> QED BY <3>1, <3>2, <3>3, <1>1, <1>2, <1>3, <1>4, AppendIs
  <2> QED BY <2>1, <2>2
<1>7. LifeTypeOK'
  <2>1. abandoned' \subseteq tracked'
    BY <1>1, <1>2, <1>3 DEF LifeTypeOK, Known
  <2> QED BY <1>1, <1>2, <1>4, <1>6, <2>1 DEF LifeTypeOK
<1>8. BootFirst' /\ WaitersBlocked' /\ Known'
  <2>1. BootFirst'
    BY <1>1, <1>2, <1>3, <1>4 DEF BootFirst, Blocked
  <2>2. WaitersBlocked' /\ Known'
    BY <1>1, <1>2, <1>4 DEF WaitersBlocked, Known, Blocked
  <2> QED BY <2>1, <2>2
<1>9. Covered'
  <2>1. \A s \in Procs : \A t \in waiting[s] \cap Jobs :
          job'[t] = "done" \/ t \in abandoned' \/ t \in waiting'[s]
    BY <1>2, <1>4 DEF Done
  <2> QED BY <1>1, <1>2, <2>1, CoveredAfter
<1> QED BY <1>6, <1>7, <1>8, <1>9 DEF LifeInv

(* A step of job j that leaves something in the queue for a job that has   *)
(* nothing there.                                                          *)
LEMMA JobStep ==
  ASSUME LifeInv, NEW k \in Jobs, NEW what \in {"run", "add", "answer", "result"},
         NEW to \in JobStates, to # "done",
         job[k] \notin {"ready", "resumed", "asked", "calling", "returned", "done"},
         /\ what = "run" => to = "resumed"
         /\ what = "add" => to = "asked"
         /\ what = "answer" => to = "calling"
         /\ what = "result" => to = "returned",
         job' = [job EXCEPT ![k] = to],
         ready' = Append(ready, Item(what, k)),
         UNCHANGED <<state, track, pending, at, waiting, timer, loop, fired, tracked, abandoned>>
  PROVE  LifeInv'
<1> DEFINE x == Item(what, k)
<1>1. LifeTypeOK /\ Queue /\ BootFirst /\ WaitersBlocked /\ Known /\ Covered
  BY DEF LifeInv
<1>2. x \in Item0 /\ x.id = k /\ x.what = what
  BY DEF Item, Item0
<1>3. /\ job' \in [Jobs -> JobStates] /\ job'[k] = to
      /\ \A j \in Jobs : j # k => job'[j] = job[j]
  BY <1>1 DEF LifeTypeOK
<1>4. NoItem(ready, k)
  BY <1>1, NoItemOfJob
<1>5. Fits(x)'
  BY <1>2, <1>3 DEF Fits
<1>6. ready' = Append(ready, x)
  OBVIOUS
<1> HIDE DEF x
<1>7. Queue' /\ ready' \in Seq(Item0)
  BY <1>1, <1>2, <1>3, <1>4, <1>5, <1>6, AppendIs
<1>8. LifeTypeOK'
  BY <1>1, <1>3, <1>7 DEF LifeTypeOK
<1>9. BootFirst' /\ WaitersBlocked' /\ Known'
  BY <1>1 DEF BootFirst, WaitersBlocked, Known, Blocked
<1>10. Covered'
  <2>1. \A t \in Jobs : job[t] = "done" => job'[t] = "done"
    BY <1>3
  <2> QED BY <1>1, <2>1, CoveredAfter
<1> QED BY <1>7, <1>8, <1>9, <1>10 DEF LifeInv

LEMMA BesideStep ==
  ASSUME LifeInv, NEW j \in Jobs, Resumes(j) \/ Worker(j)
  PROVE  LifeInv'
<1>1. {"resumed", "asked", "calling", "returned"} \subseteq JobStates
  BY DEF JobStates
<1>2. CASE Resumes(j)
  BY <1>1, <1>2, JobStep DEF Resumes
<1>3. CASE WorkerCalls(j)
  BY <1>1, <1>3, JobStep DEF WorkerCalls
<1>4. CASE WorkerReturns(j)
  BY <1>1, <1>4, JobStep DEF WorkerReturns
<1>5. CASE \E k \in Jobs : WorkerAdds(j, k)
  BY <1>1, <1>5, JobStep DEF WorkerAdds
<1> QED BY <1>2, <1>3, <1>4, <1>5 DEF Worker

LEMMA ShutdownStep ==
  ASSUME LifeInv, ShutdownReturns
  PROVE  LifeInv'
BY DEF LifeInv, ShutdownReturns, LifeTypeOK, Queue, Fits, BootFirst, WaitersBlocked, Known,
       Covered, Blocked, Done

LEMMA CallStopStep ==
  ASSUME LifeInv, NEW p \in Stoppers, NEW how \in {"thread", "job"}, CallStop(p, how)
  PROVE  LifeInv'
<1> DEFINE x == Item("begin", p)
<1>1. LifeTypeOK /\ Queue /\ BootFirst /\ WaitersBlocked /\ Known /\ Covered
  BY DEF LifeInv
<1>2. /\ at[p] = "idle"
      /\ at' = [at EXCEPT ![p] = "begun"]
      /\ ready' = Append(ready, x)
      /\ pending' = IF how = "job" /\ track THEN pending \cup {p} ELSE pending
      /\ tracked' = IF how = "job" /\ track THEN tracked \cup {p} ELSE tracked
      /\ UNCHANGED <<state, track, job, waiting, timer, loop, fired, abandoned>>
  BY DEF CallStop
<1>3. p \in Procs /\ p \notin Jobs /\ p # "boot" /\ p # "start"
  BY LifecycleConstants DEF Procs
<1>4. x \in Item0 /\ x.id = p /\ x.what = "begin"
  BY <1>3 DEF Item, Item0
<1>5. /\ at' \in [Procs -> Places] /\ at'[p] = "begun"
      /\ \A s \in Procs : s # p => at'[s] = at[s]
  BY <1>1, <1>2, <1>3 DEF LifeTypeOK, Places
<1>6. NoItem(ready, p)
  BY <1>1, <1>2, <1>3, NoItemOfProc
<1>7. Fits(x)'
  BY <1>4, <1>5 DEF Fits
<1> HIDE DEF x
<1>8. Queue' /\ ready' \in Seq(Item0)
  BY <1>1, <1>2, <1>3, <1>4, <1>5, <1>6, <1>7, AppendIs
<1>9. LifeTypeOK'
  BY <1>1, <1>2, <1>3, <1>5, <1>8 DEF LifeTypeOK
<1>10. BootFirst' /\ WaitersBlocked'
  <2>1. "boot" \in Procs /\ "start" \in Procs
    BY DEF Procs
  <2> QED BY <1>1, <1>2, <1>3, <1>5, <2>1 DEF BootFirst, WaitersBlocked, Blocked
<1>11. Known'
  BY <1>1, <1>2 DEF Known
<1>12. Covered'
  <2>1. pending \subseteq pending' /\ \A t \in tracked' \ tracked : t \in pending'
    BY <1>2
  <2> QED BY <1>1, <1>2, <2>1, CoveredAfter
<1> QED BY <1>8, <1>9, <1>10, <1>11, <1>12 DEF LifeInv

-----------------------------------------------------------------------------
(* The steps of the loop.                                                  *)

(* The loop has taken item from its queue, and rest is left.               *)
Popped(item, rest) ==
  /\ item \in Item0 /\ Fits(item)
  /\ rest \in Seq(Item0) /\ Elems(rest) \subseteq Elems(ready) /\ Unique(rest)
  /\ item.what # "stop_timer" => NoItem(rest, item.id)

LEMMA PoppedIs ==
  ASSUME LifeTypeOK, Queue, ready # <<>>
  PROVE  Popped(Head(ready), Tail(ready))
<1>1. ready \in Seq(Item0) /\ Unique(ready)
  BY DEF LifeTypeOK, Queue
<1>2. /\ Tail(ready) \in Seq(Item0) /\ Head(ready) \in Item0
      /\ Elems(ready) = {Head(ready)} \cup Elems(Tail(ready))
      /\ Unique(ready) => /\ Unique(Tail(ready))
                          /\ Head(ready).what # "stop_timer" => NoItem(Tail(ready), Head(ready).id)
  BY <1>1, HeadOff
<1>3. Head(ready) \in Elems(ready) /\ Elems(Tail(ready)) \subseteq Elems(ready)
  BY <1>2
<1>4. Fits(Head(ready))
  BY <1>3 DEF Queue
<1> QED BY <1>1, <1>2, <1>3, <1>4 DEF Popped

LEMMA RestFits ==
  ASSUME Queue, NEW item, NEW rest, Popped(item, rest),
         \A s \in Procs : NoItem(rest, s) \/ (at'[s] = at[s] /\ waiting'[s] = waiting[s]),
         \A j \in Jobs : NoItem(rest, j) \/ job'[j] = job[j]
  PROVE  \A x \in Elems(rest) : Fits(x)'
<1> TAKE x \in Elems(rest)
<1>1. x \in Item0
  BY DEF Popped, Elems
<1>2. Fits(x)
  BY DEF Popped, Queue
<1>3. CASE x.what = "stop_timer"
  BY <1>3 DEF Fits
<1>4. CASE x.what # "stop_timer"
  <2>1. ~NoItem(rest, x.id)
    BY <1>4 DEF NoItem
  <2> QED BY <2>1, <1>1, <1>2, StillFits
<1> QED BY <1>3, <1>4

LEMMA RestQueue ==
  ASSUME NEW item, NEW rest, Popped(item, rest),
         \A x \in Elems(rest) : Fits(x)', ready' = rest
  PROVE  Queue' /\ ready' \in Seq(Item0)
BY QueueLess DEF Popped

LEMMA RestAndOne ==
  ASSUME NEW item, NEW rest, Popped(item, rest),
         \A x \in Elems(rest) : Fits(x)',
         NEW x \in Item0, NoItem(rest, x.id), Fits(x)',
         ready' = Append(rest, x) \/ ready' = rest \o <<x>>
  PROVE  Queue' /\ ready' \in Seq(Item0)
<1>1. rest \in Seq(Item0) /\ Unique(rest)
  BY DEF Popped
<1>2. /\ Append(rest, x) = rest \o <<x>>
      /\ Append(rest, x) \in Seq(Item0)
      /\ Elems(Append(rest, x)) = Elems(rest) \cup {x}
      /\ Unique(rest) /\ NoItem(rest, x.id) => Unique(Append(rest, x))
  BY <1>1, OneMore
<1>3. ready' = Append(rest, x)
  BY <1>2
<1> HIDE DEF Popped
<1> QED BY <1>1, <1>2, <1>3 DEF Queue

LEMMA BeginStep ==
  ASSUME LifeInv, NEW item, NEW rest, Popped(item, rest),
         item.what = "begin",
         \/ item.id = "start" /\ BeginStart(rest)
         \/ item.id \in Stoppers /\ BeginStop(item.id, rest),
         abandoned' = abandoned
  PROVE  LifeInv'
<1>1. /\ rest \in Seq(Item0) /\ Elems(rest) \subseteq Elems(ready) /\ Unique(rest)
      /\ NoItem(rest, item.id) /\ item.id \in Procs /\ at[item.id] = "begun"
  BY ItemIs DEF Popped, Fits
<1>2. waiting[item.id] = {} /\ track \in BOOLEAN
  BY <1>1 DEF LifeInv, LifeTypeOK, WaitersBlocked, Blocked
<1>3. CASE item.id = "start" /\ BeginStart(rest)
  <2>1. /\ state' = "starting" /\ FireAndBlock("start", "START", rest, track, "block1")
        /\ track' = FALSE /\ waiting' = waiting /\ timer' = timer /\ loop' = loop
    BY <1>3 DEF BeginStart
  <2>2. "START" \in Stages
    BY DEF Stages
  <2> QED BY <1>1, <1>2, <1>3, <2>1, <2>2, FireIs
<1>4. CASE item.id \in Stoppers /\ BeginStop(item.id, rest)
  <2>1. /\ state' = "stopping" /\ FireAndBlock(item.id, "STOP", rest, TRUE, "block1")
        /\ track' = TRUE /\ waiting' = waiting /\ timer' = timer /\ loop' = loop
    BY <1>4 DEF BeginStop
  <2>2. "STOP" \in Stages
    BY DEF Stages
  <2> QED BY <1>1, <1>2, <2>1, <2>2, FireIs
<1> QED BY <1>3, <1>4

(* Where a coroutine is changes, perhaps what it waits for, and whether    *)
(* it, or the next one, is queued.                                         *)
LEMMA MoveStep ==
  ASSUME LifeInv, NEW p \in Procs,
         Queue', ready' \in Seq(Item0),
         at' \in [Procs -> Places], waiting' = waiting, waiting[p] = {},
         \A s \in Procs \ {p} : at'[s] = at[s] \/ waiting[s] = {},
         BootFirst',
         state' \in {"not_running", "starting", "running", "stopping"},
         timer' \in {"none", "on", "off"}, loop' \in {"running", "joining", "stopped"},
         UNCHANGED <<track, pending, job, fired, tracked, abandoned>>
  PROVE  LifeInv'
<1>1. LifeTypeOK /\ Queue /\ BootFirst /\ WaitersBlocked /\ Known /\ Covered
  BY DEF LifeInv
<1>2. LifeTypeOK'
  BY <1>1 DEF LifeTypeOK
<1>3. WaitersBlocked' /\ Known' /\ Covered'
  BY <1>1 DEF WaitersBlocked, Known, Covered, Blocked, Done
<1> QED BY <1>2, <1>3 DEF LifeInv

LEMMA ContinueStep ==
  ASSUME LifeInv, NEW item, NEW rest, Popped(item, rest),
         item.what = "resume", Blocked(item.id), Continue(item.id, rest),
         UNCHANGED <<waiting, track, timer, abandoned>>
  PROVE  LifeInv'
<1> DEFINE p == item.id
<1>1. LifeTypeOK /\ Queue /\ BootFirst /\ WaitersBlocked /\ Known /\ Covered
  BY DEF LifeInv
<1>2. /\ rest \in Seq(Item0) /\ Elems(rest) \subseteq Elems(ready) /\ Unique(rest)
      /\ NoItem(rest, p) /\ p \in Procs /\ waiting[p] = {}
  BY ItemIs DEF Popped, Fits
<1>3. /\ "boot" \in Procs /\ "start" \in Procs
      /\ \A s \in Stoppers : s # "boot" /\ s # "start"
      /\ \A s \in Procs : s \notin Jobs
  BY LifecycleConstants DEF Procs
<1>4. /\ state \in {"not_running", "starting", "running", "stopping"} /\ track \in BOOLEAN
      /\ at \in [Procs -> Places] /\ timer \in {"none", "on", "off"}
      /\ loop \in {"running", "joining", "stopped"}
  BY <1>1 DEF LifeTypeOK
<1>5. "setup2" \in Stages /\ "CLOSE" \in Stages
  BY DEF Stages
<1>6. \A z : NoItem(ready, z) => NoItem(rest, z)
  BY <1>2 DEF NoItem
<1>7. {"begun", "settle", "shutdown", "done"} \subseteq Places
  BY DEF Places
<1>8. CASE /\ p = "boot" /\ at[p] = "block1"
           /\ FireAndBlock(p, "setup2", rest, track, "block2") /\ UNCHANGED <<state, loop>>
  BY <1>2, <1>4, <1>5, <1>8, FireIs
<1>9. CASE /\ p = "boot" /\ at[p] = "block2"
           /\ at' = [at EXCEPT ![p] = "done", !["start"] = "begun"]
           /\ ready' = Append(rest, Item("begin", "start"))
           /\ UNCHANGED <<state, loop, pending, job, fired, tracked>>
  <2> DEFINE x == Item("begin", "start")
  <2>1. at["start"] = "idle"
    BY <1>1, <1>9 DEF BootFirst
  <2>2. NoItem(rest, "start") /\ waiting["start"] = {}
    BY <2>1, <1>1, <1>3, <1>6, NoItemOfProc DEF WaitersBlocked, Blocked
  <2>3. /\ at' \in [Procs -> Places] /\ at'["boot"] = "done" /\ at'["start"] = "begun"
        /\ \A s \in Procs : s \notin {"boot", "start"} => at'[s] = at[s]
    BY <1>3, <1>4, <1>7, <1>9
  <2>4. x \in Item0 /\ x.id = "start" /\ x.what = "begin" /\ ready' = Append(rest, x)
    BY <1>3, <1>9 DEF Item, Item0
  <2> HIDE DEF x
  <2>5. Fits(x)'
    BY <2>3, <2>4 DEF Fits
  <2>6. \A y \in Elems(rest) : Fits(y)'
    BY <1>1, <1>2, <1>9, <2>2, <2>3, RestFits
  <2>7. Queue' /\ ready' \in Seq(Item0)
    BY <2>2, <2>4, <2>5, <2>6, RestAndOne
  <2>8. BootFirst'
    BY <1>1, <2>3 DEF BootFirst
  <2> QED BY <1>2, <1>3, <1>4, <1>9, <2>2, <2>3, <2>7, <2>8, MoveStep
<1>10. CASE /\ p = "start"
            /\ at' = [at EXCEPT ![p] = "settle"]
            /\ ready' = rest \o Resumption(p)
            /\ UNCHANGED <<state, loop, pending, job, fired, tracked>>
  <2> DEFINE x == Item("resume", p)
  <2>1. /\ at' \in [Procs -> Places] /\ at'[p] = "settle"
        /\ \A s \in Procs : s # p => at'[s] = at[s]
    BY <1>2, <1>4, <1>7, <1>10
  <2>2. x \in Item0 /\ x.id = p /\ x.what = "resume" /\ ready' = rest \o <<x>>
    BY <1>2, <1>10 DEF Item, Item0, Resumption
  <2> HIDE DEF x
  <2>3. Fits(x)'
    BY <1>2, <2>1, <2>2 DEF Fits
  <2>4. \A y \in Elems(rest) : Fits(y)'
    BY <1>1, <1>2, <1>10, <2>1, RestFits
  <2>5. Queue' /\ ready' \in Seq(Item0)
    BY <1>2, <2>2, <2>3, <2>4, RestAndOne
  <2>6. BootFirst'
    BY <1>1, <1>3, <1>10, <2>1 DEF BootFirst, Blocked
  <2> QED BY <1>2, <1>4, <1>10, <2>1, <2>5, <2>6, MoveStep
<1>11. CASE /\ p \in Stoppers /\ at[p] = "block1"
            /\ state' = "not_running"
            /\ FireAndBlock(p, "CLOSE", rest, track, "block2") /\ UNCHANGED loop
  BY <1>2, <1>4, <1>5, <1>11, FireIs
<1>12. CASE /\ p \in Stoppers /\ at[p] = "block2"
            /\ loop' = "joining"
            /\ at' = [at EXCEPT ![p] = "shutdown"]
            /\ ready' = rest
            /\ UNCHANGED <<state, pending, job, fired, tracked>>
  <2>1. /\ at' \in [Procs -> Places] /\ \A s \in Procs : s # p => at'[s] = at[s]
    BY <1>2, <1>4, <1>7, <1>12
  <2>2. \A y \in Elems(rest) : Fits(y)'
    BY <1>1, <1>2, <1>12, <2>1, RestFits
  <2>3. Queue' /\ ready' \in Seq(Item0)
    BY <1>12, <2>2, RestQueue
  <2>4. BootFirst'
    BY <1>1, <1>3, <1>12, <2>1 DEF BootFirst
  <2> QED BY <1>2, <1>4, <1>12, <2>1, <2>3, <2>4, MoveStep
<1> QED BY <1>8, <1>9, <1>10, <1>11, <1>12 DEF Continue

LEMMA WaitStep ==
  ASSUME LifeInv, NEW item, NEW rest, Popped(item, rest),
         item.what = "resume", Blocked(item.id),
         BlockTillDone(item.id, rest),
         UNCHANGED <<track, timer, abandoned>>
  PROVE  LifeInv'
<1> DEFINE p == item.id
           left == {t \in pending : ~Done(t)}
           x == Item("resume", p)
<1>1. LifeTypeOK /\ Queue /\ BootFirst /\ WaitersBlocked /\ Known /\ Covered
  BY DEF LifeInv
<1>2. /\ rest \in Seq(Item0) /\ Elems(rest) \subseteq Elems(ready) /\ Unique(rest)
      /\ NoItem(rest, p) /\ p \in Procs /\ waiting[p] = {}
  BY ItemIs DEF Popped, Fits
<1>3. CASE pending = {} /\ Continue(p, rest) /\ UNCHANGED waiting
  BY <1>3, ContinueStep
<1>4. CASE /\ pending' = {}
           /\ waiting' = [waiting EXCEPT ![p] = left]
           /\ ready' = IF left = {} THEN rest \o Resumption(p) ELSE rest
           /\ UNCHANGED <<state, loop, job, at, fired, tracked>>
  <2>1. waiting \in [Procs -> SUBSET (Jobs \cup Stoppers)] /\ pending \subseteq Jobs \cup Stoppers
    BY <1>1 DEF LifeTypeOK
  <2>2. /\ waiting' \in [Procs -> SUBSET (Jobs \cup Stoppers)] /\ waiting'[p] = left
        /\ \A s \in Procs : s # p => waiting'[s] = waiting[s]
    BY <1>2, <1>4, <2>1
  <2>3. \A y \in Elems(rest) : Fits(y)'
    BY <1>1, <1>2, <1>4, <2>2, RestFits
  <2>4. Queue' /\ ready' \in Seq(Item0)
    <3>1. CASE left = {}
      <4>1. x \in Item0 /\ x.id = p /\ x.what = "resume" /\ ready' = rest \o <<x>>
        BY <1>2, <1>4, <3>1 DEF Item, Item0, Resumption
      <4> HIDE DEF x
      <4>2. Fits(x)'
        BY <1>4, <2>2, <3>1, <4>1 DEF Fits, Blocked
      <4> QED BY <1>2, <2>3, <4>1, <4>2, RestAndOne
    <3>2. CASE left # {}
      <4>1. ready' = rest
        BY <1>4, <3>2
      <4> QED BY <2>3, <4>1, RestQueue
    <3> QED BY <3>1, <3>2
  <2>5. LifeTypeOK'
    BY <1>1, <1>4, <2>2, <2>4 DEF LifeTypeOK
  <2>6. BootFirst' /\ WaitersBlocked'
    BY <1>1, <1>4, <2>2 DEF BootFirst, WaitersBlocked, Blocked
  <2>7. Known'
    BY <1>1, <1>4, <2>2 DEF Known
  <2>8. Covered'
    <3>1. \A t \in pending \cap Jobs : job'[t] = "done" \/ t \in waiting'[p]
      BY <1>4, <2>2 DEF Done
    <3>2. \A s \in Procs : \A t \in waiting[s] \cap Jobs : t \in waiting'[s]
      BY <1>2, <2>2
    <3> QED BY <1>1, <1>2, <1>4, <3>1, <3>2, CoveredAfter
  <2> QED BY <2>4, <2>5, <2>6, <2>7, <2>8 DEF LifeInv
<1> QED BY <1>3, <1>4 DEF BlockTillDone

LEMMA ResumeStep ==
  ASSUME LifeInv, NEW item, NEW rest, Popped(item, rest),
         item.what = "resume", Resume(item.id, rest), abandoned' = abandoned
  PROVE  LifeInv'
<1> DEFINE p == item.id
           x == Item("resume", p)
<1>1. LifeTypeOK /\ Queue /\ BootFirst
  BY DEF LifeInv
<1>2. /\ rest \in Seq(Item0) /\ NoItem(rest, p) /\ p \in Procs /\ waiting[p] = {}
  BY ItemIs DEF Popped, Fits
<1>3. /\ state \in {"not_running", "starting", "running", "stopping"}
      /\ at \in [Procs -> Places] /\ timer \in {"none", "on", "off"}
      /\ loop \in {"running", "joining", "stopped"} /\ "start" \in Procs
      /\ {"settle", "done"} \subseteq Places
  BY <1>1 DEF LifeTypeOK, Procs, Places
<1>4. CASE Blocked(p) /\ BlockTillDone(p, rest) /\ UNCHANGED <<track, timer>>
  BY <1>4, WaitStep
<1>5. CASE /\ at[p] = "cancelled"
           /\ at' = [at EXCEPT ![p] = "settle"]
           /\ ready' = rest \o Resumption(p)
           /\ UNCHANGED <<state, track, pending, job, waiting, timer, loop, fired, tracked>>
  <2>1. /\ at' \in [Procs -> Places] /\ at'[p] = "settle"
        /\ \A s \in Procs : s # p => at'[s] = at[s]
    BY <1>2, <1>3, <1>5
  <2>2. x \in Item0 /\ x.id = p /\ x.what = "resume" /\ ready' = rest \o <<x>>
    BY <1>2, <1>5 DEF Item, Item0, Resumption
  <2> HIDE DEF x
  <2>3. Fits(x)'
    BY <1>2, <1>5, <2>1, <2>2 DEF Fits
  <2>4. \A y \in Elems(rest) : Fits(y)'
    BY <1>1, <1>2, <1>5, <2>1, RestFits
  <2>5. Queue' /\ ready' \in Seq(Item0)
    BY <1>2, <2>2, <2>3, <2>4, RestAndOne
  <2>6. BootFirst'
    BY <1>1, <1>3, <1>5, <2>1 DEF BootFirst, Procs
  <2> QED BY <1>2, <1>3, <1>5, <2>1, <2>5, <2>6, MoveStep
<1>6. CASE at[p] = "settle" /\ FinishStart(rest)
  <2>1. /\ state' = "running" /\ timer' = "on"
        /\ at' = [at EXCEPT !["start"] = "done"] /\ ready' = rest
        /\ UNCHANGED <<track, pending, job, waiting, loop, fired, tracked>>
    BY <1>6 DEF FinishStart
  <2>2. p = "start"
    BY <1>1, <1>2, <1>6 DEF BootFirst
  <2>3. /\ at' \in [Procs -> Places] /\ at'[p] = "done"
        /\ \A s \in Procs : s # p => at'[s] = at[s]
    BY <1>2, <1>3, <2>1, <2>2
  <2>4. \A y \in Elems(rest) : Fits(y)'
    BY <1>1, <1>2, <2>1, <2>3, RestFits
  <2>5. Queue' /\ ready' \in Seq(Item0)
    BY <2>1, <2>4, RestQueue
  <2>6. BootFirst'
    BY <1>1, <1>3, <1>6, <2>2, <2>3 DEF BootFirst, Procs
  <2> QED BY <1>2, <1>3, <2>1, <2>3, <2>5, <2>6, MoveStep
<1> QED BY <1>4, <1>5, <1>6 DEF Resume

(* A job takes its next step in the loop, and adds others.                 *)
LEMMA RunStep ==
  ASSUME LifeInv, NEW item, NEW rest, Popped(item, rest),
         item.what = "run", RunInLoop(item.id, rest), abandoned' = abandoned
  PROVE  LifeInv'
<1> DEFINE j == item.id
<1>1. LifeTypeOK /\ Queue /\ BootFirst /\ WaitersBlocked /\ Known /\ Covered
  BY DEF LifeInv
<1>2. /\ rest \in Seq(Item0) /\ Elems(rest) \subseteq Elems(ready) /\ Unique(rest)
      /\ NoItem(rest, j) /\ j \in Jobs /\ job[j] \in {"ready", "resumed"}
  BY ItemIs DEF Popped, Fits
<1>3. PICK more \in SUBSET {k \in Spawns[j] : job[k] = "new"},
           end \in {"done"} \cup IF Kind[j] = "coroutine" /\ job[j] = "ready"
                                 THEN {"suspended"} ELSE {} :
        LET js == SetToSeq(more)
        IN /\ ready' = rest \o Queued(js)
           /\ job' = [Begun(js) EXCEPT ![j] = end]
           /\ Track(js, track)
           /\ UNCHANGED <<state, track, at, waiting, timer, loop, fired>>
  BY <1>2, Zenon DEF RunInLoop
<1> DEFINE js == SetToSeq(more)
<1>4. /\ ready' = rest \o Queued(js)
      /\ job' = [Begun(js) EXCEPT ![j] = end]
      /\ Track(js, track)
      /\ UNCHANGED <<state, track, at, waiting, timer, loop, fired>>
  BY <1>3
<1>5. end \in {"done", "suspended"} /\ end \in JobStates
  BY DEF JobStates
<1>6. /\ js \in Seq(Jobs) /\ IsInjective(js)
      /\ \A k \in Elems(js) : k \in Jobs /\ job[k] = "new"
  <2>1. more \subseteq Spawns[j] /\ IsFiniteSet(Spawns[j]) /\ Spawns[j] \subseteq Jobs
    BY <1>2, LifecycleConstants
  <2>2. IsFiniteSet(more)
    BY <2>1, FS_Subset
  <2>3. SetToSeq(more) \in Seq(more) /\ Elems(SetToSeq(more)) = more /\ IsInjective(SetToSeq(more))
    BY <2>2, SetSeqIs
  <2>4. \A k \in more : k \in Jobs /\ job[k] = "new"
    BY <2>1
  <2>5. \A q \in Seq(more) : q \in Seq(Jobs)
    BY <2>4
  <2> QED BY <2>3, <2>4, <2>5
<1> HIDE DEF js
<1>7. /\ Begun(js) \in [Jobs -> JobStates]
      /\ \A k \in Jobs : k \notin Elems(js) => Begun(js)[k] = job[k]
      /\ \A k \in Jobs : k \in Elems(js) /\ Kind[k] # "function" => Begun(js)[k] = "ready"
  BY <1>1, BegunIs
<1>8. /\ job' \in [Jobs -> JobStates]
      /\ \A k \in Jobs : k # j => job'[k] = Begun(js)[k]
  BY <1>2, <1>4, <1>5, <1>7
<1>9. j \notin Elems(js) /\ \A k \in Elems(js) : k # j
  BY <1>2, <1>6
<1>10. \A k \in Elems(js) : NoItem(rest, k) /\ job[k] # "done"
  <2>1. \A k \in Elems(js) : NoItem(ready, k)
    BY <1>1, <1>6, NoItemOfJob
  <2> QED BY <1>2, <1>6, <2>1 DEF NoItem
<1>11. PICK W \in SUBSET {k \in Jobs : Task(k)} :
          pending' = pending \cup W /\ tracked' = tracked \cup W
  BY <1>4, <1>6, TrackIs, Zenon
<1>12. ready' = rest \o Queued(js) \o <<>>
  <2>1. Queued(js) \in Seq(Item0)
    BY <1>6, QueuedIs
  <2> QED BY <1>2, <1>4, <2>1
<1>13. Adds(js, rest, <<>>, W)
  <2>1. <<>> \in Seq(Item0) /\ Unique(<<>>) /\ Elems(<<>>) = {}
    BY DEF Unique, Elems
  <2>2. \A k \in Elems(js) : Kind[k] # "function" => job'[k] = "ready"
    BY <1>6, <1>7, <1>8, <1>9
  <2>3. \A k \in Jobs \ Elems(js) :
          job'[k] = job[k] \/ (NoItem(rest, k) /\ job[k] # "done")
    BY <1>2, <1>7, <1>8
  <2> QED BY <1>2, <1>4, <1>6, <1>10, <1>11, <1>12, <2>1, <2>2, <2>3 DEF Adds
<1>14. /\ Queue' /\ ready' \in Seq(Item0) /\ Known' /\ Covered'
       /\ pending' \subseteq {k \in Jobs : Task(k)} \cup Stoppers
       /\ tracked' \subseteq Jobs \cup Stoppers /\ abandoned' \subseteq tracked'
  BY <1>1, <1>13, WorkIs
<1>15. LifeTypeOK'
  BY <1>1, <1>4, <1>8, <1>14 DEF LifeTypeOK
<1>16. BootFirst' /\ WaitersBlocked'
  BY <1>1, <1>4 DEF BootFirst, WaitersBlocked, Blocked
<1> QED BY <1>14, <1>15, <1>16 DEF LifeInv

(* async_add_job on behalf of a thread.                                    *)
LEMMA AddStep ==
  ASSUME LifeInv, NEW item, NEW rest, Popped(item, rest),
         item.what = "add", RunAdd(item.id, rest), abandoned' = abandoned
  PROVE  LifeInv'
<1> DEFINE j == item.id
           js == <<item.id>>
<1>1. LifeTypeOK /\ Queue /\ BootFirst /\ WaitersBlocked /\ Known /\ Covered
  BY DEF LifeInv
<1>2. /\ rest \in Seq(Item0) /\ Elems(rest) \subseteq Elems(ready) /\ Unique(rest)
      /\ NoItem(rest, j) /\ j \in Jobs /\ job[j] = "asked"
  BY ItemIs DEF Popped, Fits
<1>3. /\ ready' = rest \o Queued(js) \o <<>> /\ job' = Begun(js) /\ Track(js, track)
      /\ UNCHANGED <<state, track, at, waiting, timer, loop, fired>>
  BY DEF RunAdd, async_add_job
<1>4. js \in Seq(Jobs) /\ IsInjective(js) /\ Elems(js) = {j}
  BY <1>2 DEF IsInjective, Elems
<1> HIDE DEF js
<1>5. /\ job' \in [Jobs -> JobStates]
      /\ \A k \in Jobs : k \notin Elems(js) => job'[k] = job[k]
      /\ \A k \in Jobs : k \in Elems(js) /\ Kind[k] # "function" => job'[k] = "ready"
  BY <1>1, <1>3, BegunIs
<1>6. PICK W \in SUBSET {k \in Jobs : Task(k)} :
          pending' = pending \cup W /\ tracked' = tracked \cup W
  BY <1>3, <1>4, TrackIs, Zenon
<1>7. Adds(js, rest, <<>>, W)
  <2>1. <<>> \in Seq(Item0) /\ Unique(<<>>) /\ Elems(<<>>) = {}
    BY DEF Unique, Elems
  <2> QED BY <1>2, <1>3, <1>4, <1>5, <1>6, <2>1 DEF Adds
<1>8. /\ Queue' /\ ready' \in Seq(Item0) /\ Known' /\ Covered'
      /\ pending' \subseteq {k \in Jobs : Task(k)} \cup Stoppers
      /\ tracked' \subseteq Jobs \cup Stoppers /\ abandoned' \subseteq tracked'
  BY <1>1, <1>7, WorkIs
<1>9. LifeTypeOK'
  BY <1>1, <1>3, <1>5, <1>8 DEF LifeTypeOK
<1>10. BootFirst' /\ WaitersBlocked'
  BY <1>1, <1>3 DEF BootFirst, WaitersBlocked, Blocked
<1> QED BY <1>8, <1>9, <1>10 DEF LifeInv

(* A thread gets its answer, or the loop the result of a function.         *)
LEMMA AnswerStep ==
  ASSUME LifeInv, NEW item, NEW rest, Popped(item, rest),
         item.what \in {"answer", "result"},
         NEW to \in {"answered", "done"},
         ready' = rest, job' = [job EXCEPT ![item.id] = to],
         UNCHANGED <<state, track, pending, at, waiting, timer, loop, fired, tracked, abandoned>>
  PROVE  LifeInv'
<1> DEFINE j == item.id
<1>1. LifeTypeOK /\ Queue /\ BootFirst /\ WaitersBlocked /\ Known /\ Covered
  BY DEF LifeInv
<1>2. NoItem(rest, j) /\ j \in Jobs /\ job[j] # "done"
  BY ItemIs DEF Popped, Fits
<1>3. /\ job' \in [Jobs -> JobStates]
      /\ \A k \in Jobs : k # j => job'[k] = job[k]
  BY <1>1, <1>2 DEF LifeTypeOK, JobStates
<1>4. \A x \in Elems(rest) : Fits(x)'
  BY <1>1, <1>2, <1>3, RestFits
<1>5. Queue' /\ ready' \in Seq(Item0)
  BY <1>4, RestQueue
<1>6. LifeTypeOK'
  BY <1>1, <1>3, <1>5 DEF LifeTypeOK
<1>7. BootFirst' /\ WaitersBlocked' /\ Known'
  BY <1>1 DEF BootFirst, WaitersBlocked, Known, Blocked
<1>8. Covered'
  <2>1. \A t \in Jobs : job[t] = "done" => job'[t] = "done"
    BY <1>2, <1>3
  <2> QED BY <1>1, <2>1, CoveredAfter
<1> QED BY <1>5, <1>6, <1>7, <1>8 DEF LifeInv

LEMMA StopTimerStep ==
  ASSUME LifeInv, NEW item, NEW rest, Popped(item, rest),
         ready' = rest, timer' = "off",
         UNCHANGED <<state, track, pending, job, at, waiting, loop, fired, tracked, abandoned>>
  PROVE  LifeInv'
<1>1. LifeTypeOK /\ Queue /\ BootFirst /\ WaitersBlocked /\ Known /\ Covered
  BY DEF LifeInv
<1>2. \A x \in Elems(rest) : Fits(x)'
  BY <1>1, RestFits
<1>3. Queue' /\ ready' \in Seq(Item0)
  BY <1>2, RestQueue
<1>4. LifeTypeOK'
  BY <1>1, <1>3 DEF LifeTypeOK
<1>5. BootFirst' /\ WaitersBlocked' /\ Known' /\ Covered'
  BY <1>1 DEF BootFirst, WaitersBlocked, Known, Covered, Blocked, Done
<1> QED BY <1>3, <1>4, <1>5 DEF LifeInv

LEMMA RunReadyStep ==
  ASSUME LifeInv, RunReady
  PROVE  LifeInv'
<1> DEFINE item == Head(ready)
           rest == Tail(ready)
<1>1. Popped(item, rest) /\ abandoned' = abandoned
  BY PoppedIs DEF RunReady, LifeInv
<1>2. \/ item.what = "begin" /\ item.id = "start" /\ BeginStart(rest)
      \/ item.what = "begin" /\ item.id \in Stoppers /\ BeginStop(item.id, rest)
      \/ item.what = "resume" /\ Resume(item.id, rest)
      \/ item.what = "run" /\ RunInLoop(item.id, rest)
      \/ item.what = "add" /\ RunAdd(item.id, rest)
      \/ /\ item.what = "answer"
         /\ ready' = rest
         /\ job' = [job EXCEPT ![item.id] = "answered"]
         /\ UNCHANGED <<state, track, pending, at, waiting, timer, loop, fired, tracked>>
      \/ /\ item.what = "result"
         /\ ready' = rest
         /\ job' = [job EXCEPT ![item.id] = "done"]
         /\ UNCHANGED <<state, track, pending, at, waiting, timer, loop, fired, tracked>>
      \/ /\ item.what = "stop_timer"
         /\ ready' = rest
         /\ timer' = "off"
         /\ UNCHANGED <<state, track, pending, job, at, waiting, loop, fired, tracked>>
  BY Zenon DEF RunReady
<1> HIDE DEF item, rest
<1>3. CASE \/ item.what = "begin" /\ item.id = "start" /\ BeginStart(rest)
           \/ item.what = "begin" /\ item.id \in Stoppers /\ BeginStop(item.id, rest)
  BY <1>1, <1>3, BeginStep
<1>4. CASE item.what = "resume" /\ Resume(item.id, rest)
  BY <1>1, <1>4, ResumeStep
<1>5. CASE item.what = "run" /\ RunInLoop(item.id, rest)
  BY <1>1, <1>5, RunStep
<1>6. CASE item.what = "add" /\ RunAdd(item.id, rest)
  BY <1>1, <1>6, AddStep
<1>7. CASE /\ item.what = "answer"
           /\ ready' = rest
           /\ job' = [job EXCEPT ![item.id] = "answered"]
           /\ UNCHANGED <<state, track, pending, at, waiting, timer, loop, fired, tracked>>
  BY <1>1, <1>7, AnswerStep
<1>8. CASE /\ item.what = "result"
           /\ ready' = rest
           /\ job' = [job EXCEPT ![item.id] = "done"]
           /\ UNCHANGED <<state, track, pending, at, waiting, timer, loop, fired, tracked>>
  BY <1>1, <1>8, AnswerStep
<1>9. CASE /\ item.what = "stop_timer"
           /\ ready' = rest
           /\ timer' = "off"
           /\ UNCHANGED <<state, track, pending, job, at, waiting, loop, fired, tracked>>
  BY <1>1, <1>9, StopTimerStep
<1> QED BY <1>2, <1>3, <1>4, <1>5, <1>6, <1>7, <1>8, <1>9

LEMMA LifeStep == LifeInv /\ [LifeNext]_lifeVars => LifeInv'
<1> SUFFICES ASSUME LifeInv, [LifeNext]_lifeVars PROVE LifeInv'
  OBVIOUS
<1>1. CASE RunReady
  BY <1>1, RunReadyStep
<1>2. CASE \E p \in Procs : Wake(p)
  BY <1>2, WakeStep
<1>3. CASE StartTimeout
  BY <1>3, StartTimeoutStep
<1>4. CASE \E j \in Jobs : Resumes(j) \/ Worker(j)
  BY <1>4, BesideStep
<1>5. CASE ShutdownReturns
  BY <1>5, ShutdownStep
<1>6. CASE \E p \in Stoppers : \E how \in {"thread", "job"} : CallStop(p, how)
  BY <1>6, CallStopStep
<1>7. CASE UNCHANGED lifeVars
  BY <1>7 DEF lifeVars, LifeInv, LifeTypeOK, Queue, Fits, BootFirst, WaitersBlocked, Known,
              Covered, Blocked, Done
<1> QED BY <1>1, <1>2, <1>3, <1>4, <1>5, <1>6, <1>7 DEF LifeNext

LEMMA LifeInitInv == LifeInit => LifeInv
<1> SUFFICES ASSUME LifeInit PROVE LifeInv
  OBVIOUS
<1> DEFINE js == Listeners["setup1"]
           x == Item("resume", "boot")
<1>1. js \in Seq(Jobs) /\ IsInjective(js) /\ \A j \in Elems(js) : j \in Jobs
  BY LifecycleConstants DEF Stages, Elems
<1>2. "boot" \in Procs /\ "start" \in Procs /\ "boot" \notin Jobs
  BY LifecycleConstants DEF Procs
<1>3. /\ state = "not_running" /\ track = TRUE /\ loop = "running" /\ timer = "none"
      /\ waiting = [p \in Procs |-> {}]
      /\ at = [p \in Procs |-> IF p = "boot" THEN "block1" ELSE "idle"]
      /\ job = [j \in Jobs |-> IF j \notin Elems(js) THEN "new"
                               ELSE IF Kind[j] = "function" THEN "live" ELSE "ready"]
      /\ ready = Queued(js) \o <<x>>
      /\ tracked = {j \in Elems(js) : Task(j)} /\ pending = tracked
      /\ fired = <<"setup1">> /\ abandoned = {}
  BY DEF LifeInit, Resumption
<1>4. x \in Item0 /\ x.id = "boot" /\ x.what = "resume"
  BY <1>2 DEF Item, Item0
<1>5. /\ Queued(js) \in Seq(Item0) /\ Unique(Queued(js))
      /\ \A y \in Elems(Queued(js)) :
           y.what = "run" /\ y.id \in Elems(js) /\ Kind[y.id] # "function"
  BY <1>1, QueuedIs, Zenon
<1> HIDE DEF js, x
<1>6. NoItem(Queued(js), x.id)
  BY <1>1, <1>2, <1>4, <1>5 DEF NoItem
<1>7. /\ Append(Queued(js), x) = ready
      /\ ready \in Seq(Item0)
      /\ Elems(ready) = Elems(Queued(js)) \cup {x}
      /\ Unique(ready)
  BY <1>3, <1>4, <1>5, <1>6, OneMore
<1>8. Fits(x)
  BY <1>2, <1>3, <1>4 DEF Fits
<1>9. ASSUME NEW y \in Elems(Queued(js)) PROVE Fits(y)
  BY <1>1, <1>3, <1>5 DEF Fits
<1>10. Queue
  BY <1>7, <1>8, <1>9 DEF Queue
<1>11. LifeTypeOK
  <2>1. fired \in Seq(Stages)
    BY <1>3 DEF Stages
  <2>2. job \in [Jobs -> JobStates] /\ at \in [Procs -> Places]
    BY <1>3 DEF JobStates, Places
  <2>3. tracked \subseteq {j \in Jobs : Task(j)}
    BY <1>1, <1>3
  <2> QED BY <1>3, <1>7, <2>1, <2>2, <2>3 DEF LifeTypeOK
<1>12. BootFirst /\ WaitersBlocked /\ Known /\ Covered
  BY <1>2, <1>3 DEF BootFirst, WaitersBlocked, Known, Covered
<1> QED BY <1>10, <1>11, <1>12 DEF LifeInv

(* Type correctness, and with it all that async_block_till_done relies on, *)
(* whenever and however often Home Assistant is stopped.                   *)
THEOREM LifeCorrect == LifeSpec => []LifeInv
<1>1. LifeInit => LifeInv
  BY LifeInitInv
<1>2. LifeInv /\ [LifeNext]_lifeVars => LifeInv'
  BY LifeStep
<1> QED BY <1>1, <1>2, PTL DEF LifeSpec

(* The variables of the root object and of its queue have their types.     *)
THEOREM LifeTypeCorrect == LifeSpec => []LifeTypeOK
<1>1. LifeInv => LifeTypeOK
  BY DEF LifeInv
<1> QED BY <1>1, LifeCorrect, PTL

-----------------------------------------------------------------------------
(* Home Assistant is stopped once it runs, by however many calls.  The     *)
(* timer's listener for STOP is in the queue, ahead of every async_stop    *)
(* that is resumed, unless it has run: no async_stop comes to CLOSE with   *)
(* the timer on.                                                           *)

StopResumption(x) == x.what = "resume" /\ x.id \in Stoppers

TimerAhead(q) ==
  \E k \in DOMAIN q : q[k].what = "stop_timer" /\ \A i \in 1..k : ~StopResumption(q[i])

StopInv ==
  /\ \A p \in Stoppers : at[p] # "idle" => at["start"] = "done"
  /\ at["start"] = "done" => timer \in {"on", "off"}
  /\ "STOP" \notin Elems(fired) => \A p \in Stoppers : at[p] \in {"idle", "begun"}
  /\ "STOP" \in Elems(fired) =>
       /\ at["start"] = "done" /\ state \in {"stopping", "not_running"}
       /\ timer = "on" => TimerAhead(ready)
  /\ "CLOSE" \in Elems(fired) => "STOP" \in Elems(fired) /\ timer = "off"

LEMMA TimerStays ==
  ASSUME NEW q \in Seq(Item0), NEW m \in Seq(Item0)
  PROVE  /\ TimerAhead(q) => TimerAhead(q \o m)
         /\ (\A x \in Elems(q) : ~StopResumption(x)) /\ m # <<>> /\ m[1].what = "stop_timer"
            => TimerAhead(q \o m)
<1> DEFINE s == q \o m
<1>1. /\ Len(q) \in Nat /\ Len(m) \in Nat /\ DOMAIN q = 1..Len(q)
      /\ m # <<>> => Len(m) # 0
  OBVIOUS
<1>2. /\ DOMAIN s = 1..(Len(q) + Len(m))
      /\ \A i \in 1..(Len(q) + Len(m)) : s[i] = IF i <= Len(q) THEN q[i] ELSE m[i - Len(q)]
  BY ConcatProperties
<1> HIDE DEF s
<1>3. ASSUME NEW k \in DOMAIN q, q[k].what = "stop_timer", \A i \in 1..k : ~StopResumption(q[i])
      PROVE  TimerAhead(s)
  <2>1. k \in DOMAIN s /\ s[k] = q[k]
    BY <1>1, <1>2
  <2>2. \A i \in 1..k : s[i] = q[i]
    BY <1>1, <1>2
  <2>3. \A i \in 1..k : ~StopResumption(s[i])
    BY <1>3, <2>2
  <2> QED BY <1>3, <2>1, <2>3 DEF TimerAhead
<1>4. ASSUME \A x \in Elems(q) : ~StopResumption(x), m # <<>>, m[1].what = "stop_timer"
      PROVE  TimerAhead(s)
  <2> DEFINE k == Len(q) + 1
  <2>1. k \in 1..(Len(q) + Len(m)) /\ ~(k <= Len(q)) /\ k - Len(q) = 1
    BY <1>1, <1>4
  <2>2. k \in DOMAIN s /\ s[k] = m[1]
    BY <1>2, <2>1
  <2>3. ASSUME NEW i \in 1..k PROVE ~StopResumption(s[i])
    <3>1. CASE i \in DOMAIN q
      <4>1. s[i] = q[i]
        BY <3>1, <1>1, <1>2
      <4>2. q[i] \in Elems(q)
        BY <3>1 DEF Elems
      <4> QED BY <4>1, <4>2, <1>4
    <3>2. CASE i = k
      BY <3>2, <2>2, <1>4 DEF StopResumption
    <3> QED BY <3>1, <3>2, <1>1
  <2> HIDE DEF k
  <2> QED BY <1>4, <2>2, <2>3 DEF TimerAhead
<1>5. TimerAhead(q) => TimerAhead(s)
  BY <1>3 DEF TimerAhead
<1> QED BY <1>4, <1>5 DEF s

LEMMA TimerMovesUp ==
  ASSUME NEW q \in Seq(Item0), q # <<>>, TimerAhead(q)
  PROVE  /\ ~StopResumption(Head(q))
         /\ Head(q).what # "stop_timer" => TimerAhead(Tail(q))
<1> DEFINE t == Tail(q)
<1>1. /\ Len(q) \in Nat /\ DOMAIN q = 1..Len(q) /\ Head(q) = q[1]
      /\ DOMAIN t = 1..(Len(q) - 1) /\ \A i \in DOMAIN t : t[i] = q[i + 1]
  OBVIOUS
<1> HIDE DEF t
<1>2. PICK k \in DOMAIN q : q[k].what = "stop_timer" /\ \A i \in 1..k : ~StopResumption(q[i])
  BY DEF TimerAhead
<1>3. ~StopResumption(Head(q))
  BY <1>1, <1>2
<1>4. ASSUME Head(q).what # "stop_timer" PROVE TimerAhead(t)
  <2>1. k - 1 \in DOMAIN t /\ t[k - 1] = q[k]
    <3>1. k # 1
      BY <1>1, <1>2, <1>4
    <3>2. k - 1 \in DOMAIN t /\ (k - 1) + 1 = k
      BY <3>1, <1>1
    <3> QED BY <3>2, <1>1
  <2>2. ASSUME NEW i \in 1..(k - 1) PROVE ~StopResumption(t[i])
    <3>1. i \in DOMAIN t /\ i + 1 \in 1..k
      BY <1>1
    <3>2. t[i] = q[i + 1]
      BY <3>1, <1>1
    <3> QED BY <3>1, <3>2, <1>2
  <2> QED BY <1>2, <2>1, <2>2 DEF TimerAhead
<1> QED BY <1>3, <1>4 DEF t

LEMMA FiredMore ==
  ASSUME NEW q \in Seq(Stages), NEW e \in Stages
  PROVE  Elems(Append(q, e)) = Elems(q) \cup {e} /\ Append(q, e) # q
         /\ Append(q, e)[Len(Append(q, e))] = e
<1>1. /\ Len(q) \in Nat /\ DOMAIN q = 1..Len(q) /\ Len(Append(q, e)) = Len(q) + 1
      /\ DOMAIN Append(q, e) = 1..(Len(q) + 1)
      /\ \A i \in 1..(Len(q) + 1) : Append(q, e)[i] = IF i <= Len(q) THEN q[i] ELSE e
  OBVIOUS
<1>2. Append(q, e)[Len(q) + 1] = e
  BY <1>1
<1>3. Elems(Append(q, e)) = Elems(q) \cup {e}
  <2>1. \A i \in 1..Len(q) : i \in 1..(Len(q) + 1) /\ Append(q, e)[i] = q[i]
    BY <1>1
  <2>2. \A i \in 1..(Len(q) + 1) : i \in 1..Len(q) \/ i = Len(q) + 1
    BY <1>1
  <2>3. Len(q) + 1 \in 1..(Len(q) + 1)
    BY <1>1
  <2> QED BY <1>1, <1>2, <2>1, <2>2, <2>3 DEF Elems
<1>4. Append(q, e) # q
  <2> SUFFICES ASSUME Append(q, e) = q PROVE FALSE
    OBVIOUS
  <2>1. Len(q) = Len(q) + 1
    BY <1>1, Zenon
  <2> QED BY <1>1, <2>1
<1>5. Append(q, e)[Len(Append(q, e))] = e
  BY <1>1, <1>2
<1> QED BY <1>3, <1>4, <1>5

Extends(q, r) == \E more \in Seq(Item0) : r = q \o more

LEMMA ExtendsIs ==
  ASSUME NEW q, NEW m \in Seq(Item0), NEW r, r = q \o m
  PROVE  Extends(q, r)
BY Zenon DEF Extends

LEMMA FireExtends ==
  ASSUME NEW p \in Procs, NEW e \in Stages, NEW tr, NEW where, NEW rest \in Seq(Item0),
         FireAndBlock(p, e, rest, tr, where)
  PROVE  Extends(rest, ready')
<1> DEFINE a == Queued(Fresh(Listeners[e]))
           m == StopTimer(e) \o Resumption(p)
<1>1. ready' = (rest \o a) \o m
  BY DEF FireAndBlock, async_add_job
<1>2. a \in Seq(Item0) /\ m \in Seq(Item0)
  BY FreshIs, QueuedIs, MoreIs, Zenon
<1> HIDE DEF a, m
<1>3. (rest \o a) \o m = rest \o (a \o m)
  BY <1>2, ConcatAssociative
<1>4. a \o m \in Seq(Item0)
  BY <1>2
<1> QED BY <1>1, <1>3, <1>4, ExtendsIs

LEMMA ResumeExtends ==
  ASSUME NEW p \in Procs, NEW rest \in Seq(Item0), Resume(p, rest)
  PROVE  Extends(rest, ready')
<1>1. /\ {"setup2", "START", "STOP", "CLOSE"} \subseteq Stages
      /\ Item("begin", "start") \in Item0 /\ Item("resume", p) \in Item0
  BY DEF Stages, Procs, Item, Item0
<1>2. \/ \E e \in Stages, where \in {"block1", "block2"} : FireAndBlock(p, e, rest, track, where)
      \/ ready' = Append(rest, Item("begin", "start"))
      \/ ready' = rest \o <<Item("resume", p)>>
      \/ ready' = rest
  BY <1>1 DEF Resume, BlockTillDone, Continue, FinishStart, Resumption
<1>3. CASE \E e \in Stages, where \in {"block1", "block2"} : FireAndBlock(p, e, rest, track, where)
  BY <1>3, FireExtends
<1>4. ASSUME NEW x \in Item0, ready' = Append(rest, x) \/ ready' = rest \o <<x>>
      PROVE  Extends(rest, ready')
  <2>1. ready' = rest \o <<x>> /\ <<x>> \in Seq(Item0)
    BY <1>4
  <2> QED BY <2>1, ExtendsIs
<1>5. CASE ready' = rest
  <2>1. ready' = rest \o <<>> /\ <<>> \in Seq(Item0)
    BY <1>5
  <2> QED BY <2>1, ExtendsIs
<1> QED BY <1>1, <1>2, <1>3, <1>4, <1>5

LEMMA RunExtends ==
  ASSUME LifeInv, RunReady
  PROVE  /\ ready \in Seq(Item0) /\ ready # <<>> /\ Tail(ready) \in Seq(Item0)
         /\ Extends(Tail(ready), ready')
<1> DEFINE item == Head(ready)
           rest == Tail(ready)
<1>1. Popped(item, rest) /\ ready \in Seq(Item0) /\ ready # <<>>
  BY PoppedIs DEF RunReady, LifeInv, LifeTypeOK
<1>2. \/ item.what = "begin" /\ item.id = "start" /\ BeginStart(rest)
      \/ item.what = "begin" /\ item.id \in Stoppers /\ BeginStop(item.id, rest)
      \/ item.what = "resume" /\ Resume(item.id, rest)
      \/ item.what = "run" /\ RunInLoop(item.id, rest)
      \/ item.what = "add" /\ RunAdd(item.id, rest)
      \/ ready' = rest
  BY Zenon DEF RunReady
<1> HIDE DEF item, rest
<1>3. /\ rest \in Seq(Item0)
      /\ item.what \in {"begin", "resume"} => item.id \in Procs
      /\ item.what \in {"run", "add", "answer", "result"} => item.id \in Jobs
  BY <1>1, ItemIs DEF Popped
<1>4. "START" \in Stages /\ "STOP" \in Stages
  BY DEF Stages
<1> SUFFICES Extends(rest, ready')
  BY <1>1, <1>3 DEF rest
<1>5. CASE item.what = "begin" /\ item.id = "start" /\ BeginStart(rest)
  <2>1. FireAndBlock("start", "START", rest, track, "block1") /\ "start" \in Procs
    BY <1>3, <1>5 DEF BeginStart
  <2> QED BY <1>3, <1>4, <2>1, FireExtends
<1>6. CASE item.what = "begin" /\ item.id \in Stoppers /\ BeginStop(item.id, rest)
  <2>1. FireAndBlock(item.id, "STOP", rest, TRUE, "block1")
    BY <1>6 DEF BeginStop
  <2> QED BY <1>3, <1>4, <1>6, <2>1, FireExtends
<1>7. CASE item.what = "resume" /\ Resume(item.id, rest)
  BY <1>3, <1>7, ResumeExtends
<1>8. CASE item.what = "run" /\ RunInLoop(item.id, rest)
  <2>1. PICK more \in SUBSET {k \in Spawns[item.id] : job[k] = "new"} :
          ready' = rest \o Queued(SetToSeq(more))
    BY <1>8, Zenon DEF RunInLoop
  <2>2. more \subseteq Spawns[item.id] /\ IsFiniteSet(Spawns[item.id]) /\ more \subseteq Jobs
    BY <1>3, <1>8, LifecycleConstants
  <2>3. IsFiniteSet(more)
    BY <2>2, FS_Subset
  <2>4. SetToSeq(more) \in Seq(more) /\ IsInjective(SetToSeq(more))
    BY <2>3, SetSeqIs
  <2>5. SetToSeq(more) \in Seq(Jobs)
    BY <2>2, <2>4
  <2>6. Queued(SetToSeq(more)) \in Seq(Item0)
    BY <2>4, <2>5, QueuedIs
  <2> QED BY <2>1, <2>6, ExtendsIs
<1>9. CASE item.what = "add" /\ RunAdd(item.id, rest)
  <2> DEFINE js == <<item.id>>
             a == Queued(js)
  <2>1. ready' = (rest \o a) \o <<>>
    BY <1>9 DEF RunAdd, async_add_job
  <2>2. js \in Seq(Jobs) /\ IsInjective(js)
    BY <1>3, <1>9 DEF IsInjective
  <2> HIDE DEF js
  <2>3. a \in Seq(Item0)
    BY <2>2, QueuedIs
  <2> HIDE DEF a
  <2>4. ready' = rest \o a
    BY <1>3, <2>1, <2>3
  <2> QED BY <2>3, <2>4, ExtendsIs
<1>10. CASE ready' = rest
  <2>1. ready' = rest \o <<>> /\ <<>> \in Seq(Item0)
    BY <1>3, <1>10
  <2> QED BY <2>1, ExtendsIs
<1> QED BY <1>2, <1>5, <1>6, <1>7, <1>8, <1>9, <1>10

(* A step that only moves the queue on.                                    *)
LEMMA QuietStep ==
  ASSUME StopInv, NEW q \in Seq(Item0), TimerAhead(ready) /\ timer = "on" => TimerAhead(q),
         Extends(q, ready'),
         UNCHANGED <<state, at, timer, fired>>
  PROVE  StopInv'
<1>1. PICK m \in Seq(Item0) : ready' = q \o m
  BY Zenon DEF Extends
<1>2. TimerAhead(q) => TimerAhead(q \o m)
  BY TimerStays
<1>3. timer = "on" /\ TimerAhead(ready) => TimerAhead(ready')
  BY <1>1, <1>2
<1> QED BY <1>3 DEF StopInv

(* Before Home Assistant runs nobody stops it.                             *)
LEMMA EarlyStep ==
  ASSUME StopInv, "start" \in Procs, fired \in Seq(Stages), at["start"] # "done",
         \A p \in Stoppers : at'[p] = at[p],
         at'["start"] = "done" => timer' \in {"on", "off"},
         fired' = fired \/ \E e \in Stages \ {"STOP", "CLOSE"} : fired' = Append(fired, e)
  PROVE  StopInv'
<1>1. /\ \A p \in Stoppers : at[p] = "idle"
      /\ "STOP" \notin Elems(fired) /\ "CLOSE" \notin Elems(fired)
  BY DEF StopInv
<1>2. "STOP" \notin Elems(fired') /\ "CLOSE" \notin Elems(fired')
  <2>1. CASE fired' = fired
    BY <1>1, <2>1
  <2>2. ASSUME NEW e \in Stages \ {"STOP", "CLOSE"}, fired' = Append(fired, e)
        PROVE  "STOP" \notin Elems(fired') /\ "CLOSE" \notin Elems(fired')
    <3>1. Elems(Append(fired, e)) = Elems(fired) \cup {e}
      BY FiredMore
    <3> QED BY <1>1, <2>2, <3>1
  <2> QED BY <2>1, <2>2
<1> QED BY <1>1, <1>2 DEF StopInv

LEMMA BeginStopInv ==
  ASSUME LifeInv, StopInv, NEW p \in Stoppers, RunReady,
         Head(ready) = Item("begin", p), BeginStop(p, Tail(ready))
  PROVE  StopInv'
<1> DEFINE rest == Tail(ready)
           js == Fresh(Listeners["STOP"])
           m == StopTimer("STOP") \o Resumption(p)
<1>1. /\ ready \in Seq(Item0) /\ ready # <<>> /\ rest \in Seq(Item0)
      /\ Extends(rest, ready')
  BY RunExtends
<1>2. /\ at \in [Procs -> Places] /\ p \in Procs /\ p # "start" /\ fired \in Seq(Stages)
      /\ "STOP" \in Stages
  BY LifecycleConstants DEF LifeInv, LifeTypeOK, Procs, Stages
<1>3. /\ state' = "stopping" /\ timer' = timer
      /\ at' = [at EXCEPT ![p] = "block1"] /\ fired' = Append(fired, "STOP")
      /\ ready' = (rest \o Queued(js)) \o m
  BY DEF BeginStop, FireAndBlock, async_add_job
<1>4. /\ \A x \in Elems(ready) : Fits(x) /\ x \in Item0
      /\ Elems(rest) \subseteq Elems(ready) /\ Head(ready) \in Elems(ready)
  <2>1. Elems(ready) = {Head(ready)} \cup Elems(Tail(ready))
    BY <1>1, HeadOff
  <2>2. \A x \in Elems(ready) : x \in Item0
    BY <1>1 DEF Elems
  <2> QED BY <2>1, <2>2 DEF LifeInv, Queue
<1>5. at[p] = "begun"
  <2>1. Fits(Head(ready)) /\ Head(ready).what = "begin" /\ Head(ready).id = p
    BY <1>4 DEF Item
  <2> QED BY <2>1 DEF Fits
<1>6. at["start"] = "done" /\ timer \in {"on", "off"}
  BY <1>5 DEF StopInv
<1>7. /\ at'["start"] = "done" /\ \A s \in Stoppers : s # p => at'[s] = at[s]
  BY <1>2, <1>3, <1>6 DEF Procs
<1>8. Elems(fired') = Elems(fired) \cup {"STOP"}
  BY <1>2, <1>3, FiredMore
<1>9. ASSUME timer = "on" PROVE TimerAhead(ready')
  <2>1. CASE "STOP" \in Elems(fired)
    <3>1. TimerAhead(ready)
      BY <1>9, <2>1 DEF StopInv
    <3>2. TimerAhead(rest)
      BY <1>1, <3>1, TimerMovesUp DEF Item
    <3>3. PICK l \in Seq(Item0) : ready' = rest \o l
      BY <1>1, Zenon DEF Extends
    <3>4. TimerAhead(rest \o l)
      BY <1>1, <3>2, TimerStays
    <3> QED BY <3>3, <3>4
  <2>2. CASE "STOP" \notin Elems(fired)
    <3>1. \A s \in Stoppers : at[s] \in {"idle", "begun"}
      BY <2>2 DEF StopInv
    <3>2. \A x \in Elems(rest) : ~StopResumption(x)
      BY <1>4, <3>1 DEF Fits, StopResumption
    <3>3. /\ Queued(js) \in Seq(Item0)
          /\ \A x \in Elems(Queued(js)) : x.what = "run"
      BY <1>2, FreshIs, QueuedIs, Zenon
    <3>4. m \in Seq(Item0)
      BY <1>2, MoreIs, Zenon
    <3>5. m # <<>> /\ m[1].what = "stop_timer"
      <4> DEFINE x == Item("stop_timer", "timer")
                 y == Item("resume", p)
      <4>1. m = <<x>> \o <<y>> /\ x.what = "stop_timer" /\ x \in Item0 /\ y \in Item0
        BY <1>2, <1>9 DEF StopTimer, Resumption, Item, Item0
      <4> HIDE DEF x, y, m
      <4>2. <<x>> \in Seq(Item0) /\ <<y>> \in Seq(Item0) /\ Len(<<x>>) = 1 /\ Len(<<y>>) = 1
        BY <4>1
      <4>3. /\ Len(<<x>> \o <<y>>) = 2
            /\ (<<x>> \o <<y>>)[1] = <<x>>[1]
        BY <4>2, ConcatProperties
      <4> QED BY <4>1, <4>3
    <3> HIDE DEF m, js, rest
    <3>6. /\ rest \o Queued(js) \in Seq(Item0)
          /\ Elems(rest \o Queued(js)) = Elems(rest) \cup Elems(Queued(js))
      BY <1>1, <3>3, QueueGrows
    <3>7. \A x \in Elems(rest \o Queued(js)) : ~StopResumption(x)
      BY <3>2, <3>3, <3>6 DEF StopResumption
    <3>8. TimerAhead((rest \o Queued(js)) \o m)
      BY <3>4, <3>5, <3>6, <3>7, TimerStays
    <3> QED BY <1>3, <3>8
  <2> QED BY <2>1, <2>2
<1> HIDE DEF m, js, rest
<1> QED BY <1>3, <1>6, <1>7, <1>8, <1>9 DEF StopInv

(* A call of async_stop goes on to CLOSE or to the executor's shutdown.    *)
LEMMA StopGoesOn ==
  ASSUME LifeInv, StopInv, NEW p \in Stoppers, RunReady,
         Head(ready) = Item("resume", p), Continue(p, Tail(ready)), timer' = timer
  PROVE  StopInv'
<1>1. ready \in Seq(Item0) /\ ready # <<>>
  BY RunExtends
<1>2. /\ at \in [Procs -> Places] /\ p \in Procs /\ p # "start" /\ p # "boot"
      /\ fired \in Seq(Stages) /\ "CLOSE" \in Stages
  BY LifecycleConstants DEF LifeInv, LifeTypeOK, Procs, Stages
<1>3. \/ /\ at[p] = "block1"
         /\ state' = "not_running" /\ at' = [at EXCEPT ![p] = "block2"]
         /\ fired' = Append(fired, "CLOSE")
      \/ /\ at[p] = "block2"
         /\ state' = state /\ at' = [at EXCEPT ![p] = "shutdown"]
         /\ fired' = fired
  BY <1>2 DEF Continue, FireAndBlock
<1>4. "STOP" \in Elems(fired)
  BY <1>3 DEF StopInv
<1>5. at["start"] = "done" /\ timer \in {"on", "off"} /\ state \in {"stopping", "not_running"}
  BY <1>4 DEF StopInv
<1>6. timer = "off"
  <2> SUFFICES ASSUME timer = "on" PROVE FALSE
    BY <1>5
  <2>1. TimerAhead(ready)
    BY <1>4 DEF StopInv
  <2> QED BY <1>1, <2>1, TimerMovesUp DEF StopResumption, Item
<1>7. at'["start"] = "done"
  BY <1>2, <1>3, <1>5 DEF Procs
<1>8. "STOP" \in Elems(fired')
  <2>1. Elems(Append(fired, "CLOSE")) = Elems(fired) \cup {"CLOSE"}
    BY <1>2, FiredMore
  <2> QED BY <1>3, <1>4, <2>1
<1> QED BY <1>3, <1>5, <1>6, <1>7, <1>8 DEF StopInv

LEMMA ResumeStopInv ==
  ASSUME LifeInv, StopInv, RunReady, NEW p \in Procs,
         Head(ready) = Item("resume", p), Resume(p, Tail(ready))
  PROVE  StopInv'
<1>1. /\ ready \in Seq(Item0) /\ ready # <<>> /\ Tail(ready) \in Seq(Item0)
      /\ Extends(Tail(ready), ready')
  BY RunExtends
<1>2. /\ at \in [Procs -> Places] /\ "start" \in Procs /\ fired \in Seq(Stages)
      /\ {"boot", "start"} \cap Stoppers = {} /\ Stoppers \subseteq Procs
      /\ "setup2" \in Stages
      /\ at["boot"] # "done" => at["start"] = "idle"
      /\ at[p] \in {"cancelled", "settle"} => p = "start"
  BY LifecycleConstants DEF LifeInv, LifeTypeOK, BootFirst, Procs, Stages
<1>3. TimerAhead(ready) => TimerAhead(Tail(ready))
  BY <1>1, TimerMovesUp DEF Item
<1>4. CASE Blocked(p) /\ Continue(p, Tail(ready)) /\ timer' = timer
  <2>1. CASE p \in Stoppers
    BY <1>4, <2>1, StopGoesOn
  <2>2. CASE p = "start"
    BY <1>2, <1>4, <2>2, EarlyStep DEF Continue, Blocked
  <2>3. CASE p = "boot"
    <3>1. at["start"] = "idle"
      BY <1>2, <1>4, <2>3 DEF Blocked
    <3>2. \/ at' = [at EXCEPT !["boot"] = "block2"] /\ fired' = Append(fired, "setup2")
          \/ at' = [at EXCEPT !["boot"] = "done", !["start"] = "begun"] /\ fired' = fired
      BY <1>2, <1>4, <2>3 DEF Continue, FireAndBlock
    <3>3. at'["start"] # "done" /\ \A s \in Stoppers : at'[s] = at[s]
      BY <1>2, <3>1, <3>2
    <3> QED BY <1>2, <3>1, <3>2, <3>3, EarlyStep
  <2> QED BY <2>1, <2>2, <2>3 DEF Procs
<1>5. CASE UNCHANGED <<state, at, timer, fired>>
  BY <1>1, <1>3, <1>5, QuietStep
<1>6. CASE at[p] = "cancelled" /\ at' = [at EXCEPT ![p] = "settle"] /\ fired' = fired
  BY <1>2, <1>6, EarlyStep
<1>7. CASE at[p] = "settle" /\ FinishStart(Tail(ready))
  BY <1>2, <1>7, EarlyStep DEF FinishStart
<1> QED BY <1>4, <1>5, <1>6, <1>7 DEF Resume, BlockTillDone

LEMMA StopInvStep ==
  ASSUME StopAt \subseteq {"running"}, LifeInv, StopInv, [LifeNext]_lifeVars
  PROVE  StopInv'
<1>1. /\ at \in [Procs -> Places] /\ "start" \in Procs /\ fired \in Seq(Stages)
      /\ {"boot", "start"} \cap Stoppers = {} /\ Stoppers \subseteq Procs
      /\ ready \in Seq(Item0) /\ "START" \in Stages
  BY LifecycleConstants DEF LifeInv, LifeTypeOK, Procs, Stages
<1>2. ASSUME Extends(ready, ready'), UNCHANGED <<state, at, timer, fired>> PROVE StopInv'
  BY <1>1, <1>2, QuietStep
<1>3. ASSUME NEW x \in Item0, ready' = Append(ready, x) PROVE Extends(ready, ready')
  <2>1. <<x>> \in Seq(Item0) /\ ready' = ready \o <<x>>
    BY <1>1, <1>3
  <2> QED BY <2>1, ExtendsIs
<1>4. ASSUME NEW p \in Procs, Wake(p) PROVE StopInv'
  <2>1. Item("resume", p) \in Item0
    BY DEF Item, Item0
  <2>2. ready' = Append(ready, Item("resume", p))
    BY <1>1, <1>4, <2>1 DEF Wake, Resumption
  <2> QED BY <1>2, <1>3, <1>4, <2>1, <2>2 DEF Wake
<1>5. CASE StartTimeout
  BY <1>1, <1>5, EarlyStep DEF StartTimeout, Blocked
<1>6. ASSUME NEW j \in Jobs, Resumes(j) \/ Worker(j) PROVE StopInv'
  <2>1. \A k \in Jobs, what \in {"run", "add", "answer", "result"} : Item(what, k) \in Item0
    BY DEF Item, Item0
  <2>2. /\ \E k \in Jobs, what \in {"run", "add", "answer", "result"} :
             ready' = Append(ready, Item(what, k))
        /\ UNCHANGED <<state, at, timer, fired>>
    BY <1>6 DEF Resumes, Worker, WorkerCalls, WorkerReturns, WorkerAdds
  <2> QED BY <1>2, <1>3, <2>1, <2>2
<1>7. CASE ShutdownReturns
  BY <1>7 DEF ShutdownReturns, StopInv
<1>8. ASSUME NEW p \in Stoppers, NEW how \in {"thread", "job"}, CallStop(p, how) PROVE StopInv'
  <2>1. at["start"] = "done"
    BY <1>8 DEF CallStop, Phase
  <2>2. at' = [at EXCEPT ![p] = "begun"] /\ at[p] = "idle"
    BY <1>8 DEF CallStop
  <2>3. /\ at'[p] = "begun" /\ at'["start"] = "done"
        /\ \A s \in Stoppers : s # p => at'[s] = at[s]
    BY <1>1, <2>1, <2>2
  <2>4. Item("begin", p) \in Item0
    BY <1>1 DEF Item, Item0
  <2>5. PICK m \in Seq(Item0) : ready' = ready \o m
    BY <1>3, <1>8, <2>4, Zenon DEF CallStop, Extends
  <2>6. TimerAhead(ready) => TimerAhead(ready')
    BY <1>1, <2>5, TimerStays
  <2>7. UNCHANGED <<state, timer, fired>>
    BY <1>8 DEF CallStop
  <2> QED BY <2>1, <2>3, <2>6, <2>7 DEF StopInv
<1>9. CASE RunReady
  <2> DEFINE item == Head(ready)
  <2>1. /\ ready # <<>> /\ Tail(ready) \in Seq(Item0) /\ Extends(Tail(ready), ready')
    BY <1>9, RunExtends
  <2>2. item \in Item0 /\ Fits(item) /\ item = Item(item.what, item.id)
    <3>1. Popped(item, Tail(ready))
      BY <2>1, PoppedIs DEF LifeInv
    <3> QED BY <3>1 DEF Popped, Item0, Item
  <2>3. ASSUME item.what # "stop_timer", UNCHANGED <<state, at, timer, fired>> PROVE StopInv'
    <3>1. TimerAhead(ready) => TimerAhead(Tail(ready))
      BY <1>1, <2>1, <2>3, TimerMovesUp
    <3> QED BY <2>1, <2>3, <3>1, QuietStep
  <2>4. CASE item.what = "begin" /\ item.id = "start" /\ BeginStart(Tail(ready))
    <3>1. at["start"] = "begun"
      BY <2>2, <2>4 DEF Fits
    <3>2. at' = [at EXCEPT !["start"] = "block1"] /\ fired' = Append(fired, "START")
      BY <2>4 DEF BeginStart, FireAndBlock
    <3>3. at'["start"] = "block1" /\ \A s \in Stoppers : at'[s] = at[s]
      BY <1>1, <3>2
    <3> QED BY <1>1, <3>1, <3>2, <3>3, EarlyStep
  <2>5. CASE item.what = "begin" /\ item.id \in Stoppers /\ BeginStop(item.id, Tail(ready))
    <3>1. Head(ready) = Item("begin", item.id)
      BY <2>2, <2>5
    <3> QED BY <1>9, <2>5, <3>1, BeginStopInv
  <2>6. CASE item.what = "resume" /\ Resume(item.id, Tail(ready))
    <3>1. Head(ready) = Item("resume", item.id) /\ item.id \in Procs
      BY <2>2, <2>6, ItemIs
    <3> QED BY <1>9, <2>6, <3>1, ResumeStopInv
  <2>7. CASE item.what = "run" /\ RunInLoop(item.id, Tail(ready))
    <3>1. UNCHANGED <<state, at, timer, fired>>
      BY <2>7 DEF RunInLoop
    <3> QED BY <2>3, <2>7, <3>1
  <2>8. CASE item.what = "add" /\ RunAdd(item.id, Tail(ready))
    <3>1. UNCHANGED <<state, at, timer, fired>>
      BY <2>8 DEF RunAdd
    <3> QED BY <2>3, <2>8, <3>1
  <2>9. CASE item.what \in {"answer", "result"} /\ UNCHANGED <<state, at, timer, fired>>
    BY <2>3, <2>9
  <2>10. CASE timer' = "off" /\ UNCHANGED <<state, at, fired>>
    BY <2>10 DEF StopInv
  <2> HIDE DEF item
  <2> QED BY <1>9, <2>4, <2>5, <2>6, <2>7, <2>8, <2>9, <2>10 DEF RunReady, item
<1>10. CASE UNCHANGED lifeVars
  BY <1>10 DEF lifeVars, StopInv
<1> QED BY <1>4, <1>5, <1>6, <1>7, <1>8, <1>9, <1>10 DEF LifeNext

LEMMA StopInvInit == LifeInit => StopInv
<1> SUFFICES ASSUME LifeInit PROVE StopInv
  OBVIOUS
<1>1. Elems(fired) = {"setup1"}
  BY DEF LifeInit, Elems
<1>2. "start" \in Procs /\ "boot" \notin Stoppers /\ Stoppers \subseteq Procs
  BY LifecycleConstants DEF Procs
<1>3. \A p \in Stoppers \cup {"start"} : at[p] = "idle"
  BY <1>2 DEF LifeInit
<1> QED BY <1>1, <1>3 DEF StopInv

LEMMA StopInvCorrect ==
  ASSUME StopAt \subseteq {"running"}
  PROVE  LifeSpec => [](LifeInv /\ StopInv)
<1>1. LifeInit => LifeInv /\ StopInv
  BY LifeInitInv, StopInvInit
<1>2. (LifeInv /\ StopInv) /\ [LifeNext]_lifeVars => (LifeInv /\ StopInv)'
  BY LifeStep, StopInvStep
<1> QED BY <1>1, <1>2, PTL DEF LifeSpec

(* Home Assistant, stopped once it runs, never runs again, and has no      *)
(* timer when CLOSE is fired, however many calls of async_stop there are.  *)
THEOREM NotRunningAfterStopCorrect ==
  ASSUME StopAt \subseteq {"running"}
  PROVE  LifeSpec => []NotRunningAfterStop
<1>1. StopInv => NotRunningAfterStop
  BY DEF StopInv, NotRunningAfterStop
<1>2. LifeSpec => [](LifeInv /\ StopInv)
  BY StopInvCorrect
<1> QED BY <1>1, <1>2, PTL

-----------------------------------------------------------------------------
(* async_stop waits.                                                       *)

(* Only an async_stop with nothing left in _pending_tasks fires CLOSE or   *)
(* shuts the executor down.                                                *)
LEMMA WhoCloses ==
  ASSUME LifeInv, [LifeNext]_lifeVars,
         \/ fired' # fired /\ fired'[Len(fired')] = "CLOSE"
         \/ loop = "running" /\ loop' = "joining"
  PROVE  pending = {} /\ \E p \in Stoppers : Blocked(p) /\ waiting[p] = {}
<1>1. fired \in Seq(Stages) /\ {"START", "STOP", "setup2"} \subseteq Stages
  BY DEF LifeInv, LifeTypeOK, Stages
<1>2. \A e \in {"START", "STOP", "setup2"} : fired' # Append(fired, e) \/ loop' # loop
  BY <1>1, FiredMore
<1>3. fired' # fired \/ loop' # loop
  OBVIOUS
<1>4. CASE RunReady
  <2> DEFINE item == Head(ready)
  <2>1. item \in Item0 /\ Fits(item)
    BY <1>4, PoppedIs DEF LifeInv, RunReady, Popped
  <2>2. item.what = "resume" /\ Resume(item.id, Tail(ready))
    <3>1. ~(item.what = "begin" /\ item.id = "start" /\ BeginStart(Tail(ready)))
      BY <1>2 DEF BeginStart, FireAndBlock
    <3>2. ~(item.what = "begin" /\ item.id \in Stoppers /\ BeginStop(item.id, Tail(ready)))
      BY <1>2 DEF BeginStop, FireAndBlock
    <3>3. ~RunInLoop(item.id, Tail(ready)) /\ ~RunAdd(item.id, Tail(ready))
      BY <1>3 DEF RunInLoop, RunAdd
    <3> HIDE DEF item
    <3> QED BY <1>3, <1>4, <3>1, <3>2, <3>3 DEF RunReady, item
  <2>3. pending = {} /\ Blocked(item.id) /\ Continue(item.id, Tail(ready))
    BY <1>3, <2>2 DEF Resume, BlockTillDone, FinishStart
  <2>4. item.id \in Stoppers
    BY <1>2, <1>3, <2>3 DEF Continue, FireAndBlock
  <2>5. waiting[item.id] = {}
    BY <2>1, <2>2 DEF Fits
  <2> QED BY <2>3, <2>4, <2>5
<1>5. CASE \E p \in Procs : Wake(p)
  BY <1>3, <1>5 DEF Wake
<1>6. CASE StartTimeout
  BY <1>3, <1>6 DEF StartTimeout
<1>7. CASE \E j \in Jobs : Resumes(j) \/ Worker(j)
  BY <1>3, <1>7 DEF Resumes, Worker, WorkerCalls, WorkerReturns, WorkerAdds
<1>8. CASE ShutdownReturns
  BY <1>8 DEF ShutdownReturns
<1>9. CASE \E p \in Stoppers : \E how \in {"thread", "job"} : CallStop(p, how)
  BY <1>3, <1>9 DEF CallStop
<1>10. CASE UNCHANGED lifeVars
  BY <1>3, <1>10 DEF lifeVars
<1> QED BY <1>4, <1>5, <1>6, <1>7, <1>8, <1>9, <1>10 DEF LifeNext

(* The one async_stop, called when Home Assistant runs, goes on only when  *)
(* all tracked work is done but what async_start gave up: nobody else is   *)
(* waiting for a part of it then.                                          *)
THEOREM StopWaitsCorrect ==
  ASSUME StopAt \subseteq {"running"}, \A s, u \in Stoppers : s = u
  PROVE  LifeSpec => StopWaits
<1>1. ASSUME LifeInv, StopInv, [LifeNext]_lifeVars,
             \/ fired' # fired /\ fired'[Len(fired')] = "CLOSE"
             \/ loop = "running" /\ loop' = "joining",
             NEW t \in (tracked \ abandoned) \cap Jobs
      PROVE  Done(t)
  <2>1. PICK p \in Stoppers : Blocked(p) /\ waiting[p] = {}
    BY <1>1, WhoCloses
  <2>2. pending = {}
    BY <1>1, WhoCloses
  <2>3. at["start"] = "done" /\ at["boot"] = "done"
    BY <1>1, <2>1 DEF StopInv, Blocked, LifeInv, BootFirst
  <2>4. \A s \in Procs : waiting[s] = {}
    BY <1>1, <2>1, <2>3 DEF LifeInv, WaitersBlocked, Blocked, Procs
  <2> QED BY <1>1, <2>2, <2>4 DEF LifeInv, Covered
<1>2. LifeInv /\ StopInv /\ [LifeNext]_lifeVars =>
        [(fired' # fired /\ fired'[Len(fired')] = "CLOSE") \/ (loop = "running" /\ loop' = "joining")
           => \A t \in (tracked \ abandoned) \cap Jobs : Done(t)]_lifeVars
  BY <1>1
<1>3. LifeSpec => [](LifeInv /\ StopInv)
  BY StopInvCorrect
<1> QED BY <1>2, <1>3, PTL DEF LifeSpec, StopWaits
=============================================================================
