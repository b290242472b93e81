------------------------------ MODULE EventBus ------------------------------
(***************************************************************************)
(* homeassistant/core.py, class EventBus: who listens to what, how a fired *)
(* event becomes jobs of the event loop and the executor, and what the     *)
(* one-time listeners and the thread-safe wrappers add to that.            *)
(*                                                                         *)
(* async_fire never calls a listener: it schedules one job per listener.   *)
(* So between an event being fired and a listener seeing it, any number of *)
(* other callbacks, registrations, removals and events may come.           *)
(***************************************************************************)
EXTENDS EventLoop, FiniteSets

CONSTANTS
  EventTypes,  \* the event types that are fired and listened for
  CLOSE,       \* the type EVENT_HOMEASSISTANT_CLOSE
  MATCH_ALL,   \* the wildcard type of async_listen; it is never fired
  Funcs,       \* listener functions; list.remove compares their identity
  Once,        \* the onetime_listener closures, one per async_listen_once
  Kind,        \* [Funcs -> {"callback", "coroutine", "function"}]
  Target,      \* [Once -> Funcs], the listener a onetime_listener wraps
  Threads,     \* threads other than the event loop's that use the bus
  MaxFired,    \* bound: events fired
  MaxListeners \* bound: registrations under one event type

ASSUME BusConstants ==
  /\ MATCH_ALL \notin EventTypes
  /\ Funcs \cap Once = {}
  /\ Kind \in [Funcs -> {"callback", "coroutine", "function"}]
  /\ Target \in [Once -> Funcs]
  /\ MaxFired \in Nat
  /\ MaxListeners \in Nat

VARIABLES
  listeners,   \* EventBus._listeners; <<>> stands for a missing key
  jobs,        \* what async_add_job and call_soon_threadsafe scheduled
  run,         \* the onetime_listeners whose attribute 'run' is set
  onceType,    \* the event type each onetime_listener was made for
  blocked,     \* threads waiting in run_callback_threadsafe(...).result()
  fired,       \* history: every event, with the listeners at that moment
  handled      \* history: the events each listener was called with

vars == <<listeners, jobs, run, onceType, blocked, fired, handled>>

Keys == EventTypes \cup {MATCH_ALL}
Handles == Funcs \cup Once
NoType == "not registered"

(***************************************************************************)
(* Jobs.  stage "listener": call the registered listener with event ev;    *)
(* stage "target": call the function a onetime_listener wraps; stage       *)
(* "call": perform the operation a thread handed to the loop.              *)
(***************************************************************************)
Op ==
  [op : {"fire"}, type : EventTypes]
    \cup [op : {"listen", "remove"}, type : Keys, h : Handles]

(* (Mutant: the is_callback branch of async_add_job is lost, so a plain    *)
(* listener goes to the executor whatever it is.)                          *)
ListenerJob_NoCallback(h, n) ==
  [stage |-> "listener", h |-> h, ev |-> n, loop |-> h \in Once]

ListenerJob(h, n) ==
  [stage |-> "listener", h |-> h, ev |-> n,
   loop |-> h \in Once \/ (h \in Funcs /\ Kind[h] # "function")]

TargetJob(w, n) ==
  [stage |-> "target", h |-> w, ev |-> n, loop |-> Kind[Target[w]] # "function"]

CallJob(th, op) == [stage |-> "call", th |-> th, op |-> op, loop |-> TRUE]

-----------------------------------------------------------------------------
(* The operations of the bus, as they run inside the event loop.  Each is  *)
(* given the jobs that remain when the caller itself has been taken out.   *)

(* (Mutant: CLOSE is sent to the wildcard listeners too.)                  *)
Recipients_All(t) == listeners[MATCH_ALL] \o listeners[t]

(* Wildcard listeners come first; CLOSE goes only to its own listeners.    *)
Recipients(t) ==
  IF t = CLOSE THEN listeners[t] ELSE listeners[MATCH_ALL] \o listeners[t]

(* (Mutant: the jobs carry the event before the one just fired.)           *)
async_fire_Stale(t, rest) ==
  LET to == Recipients(t)
  IN /\ jobs' = rest \o [i \in 1..Len(to) |-> ListenerJob(to[i], Len(fired))]
     /\ fired' = Append(fired, [type |-> t, heard |-> listeners])
     /\ UNCHANGED <<listeners, onceType>>

async_fire(t, rest) ==
  LET to == Recipients(t)
      n  == Len(fired) + 1
  IN /\ jobs' = rest \o [i \in 1..Len(to) |-> ListenerJob(to[i], n)]
     /\ fired' = Append(fired, [type |-> t, heard |-> listeners])
     /\ UNCHANGED <<listeners, onceType>>

async_listen(t, f, rest) ==
  /\ listeners' = [listeners EXCEPT ![t] = Append(@, f)]
  /\ jobs' = rest
  /\ UNCHANGED <<onceType, fired>>

(* A onetime_listener is a fresh closure that remembers its event type.    *)
async_listen_once(t, w, rest) ==
  /\ onceType' = [onceType EXCEPT ![w] = t]
  /\ listeners' = [listeners EXCEPT ![t] = Append(@, w)]
  /\ jobs' = rest
  /\ UNCHANGED fired

(* list.remove drops the first equal listener; an unknown one is logged.   *)
_async_remove_listener(t, h) ==
  listeners' = [listeners EXCEPT ![t] = RemoveFirst(@, h)]

Perform(op, rest) ==
  \/ op.op = "fire" /\ async_fire(op.type, rest)
  \/ op.op = "listen" /\ op.h \in Funcs /\ async_listen(op.type, op.h, rest)
  \/ op.op = "listen" /\ op.h \in Once /\ async_listen_once(op.type, op.h, rest)
  \/ /\ op.op = "remove"
     /\ _async_remove_listener(op.type, op.h)
     /\ jobs' = rest
     /\ UNCHANGED <<onceType, fired>>

-----------------------------------------------------------------------------
(* Who performs them: a callback of the loop, directly, or a thread, by    *)
(* call_soon_threadsafe; run_callback_threadsafe also waits for the result.*)

Calls == {i \in DOMAIN jobs : jobs[i].stage = "call"}

(* The bounds, which count the calls still on their way, and what a caller *)
(* can name: a fresh onetime_listener, or a listener it registered.        *)
MayIssue(op) ==
  LET waiting == {i \in Calls : jobs[i].op.op = op.op}
  IN CASE op.op = "fire" ->
            Len(fired) + Cardinality(waiting) < MaxFired
       [] op.op = "listen" ->
            /\ Len(listeners[op.type]) + Cardinality(waiting) < MaxListeners
            /\ op.h \in Once =>
                 /\ onceType[op.h] = NoType
                 /\ \A i \in waiting : jobs[i].op.h # op.h
       [] op.op = "remove" ->
            \/ op.h \in Funcs
            \/ op.h \in Once /\ onceType[op.h] = op.type

LoopOp(op) ==
  /\ MayIssue(op)
  /\ Perform(op, jobs)
  /\ UNCHANGED <<run, blocked, handled>>

ThreadCall(th, op) ==
  /\ th \notin blocked
  /\ MayIssue(op)
  /\ jobs' = Append(jobs, CallJob(th, op))
  /\ blocked' = IF op.op = "fire" THEN blocked ELSE blocked \cup {th}
  /\ UNCHANGED <<listeners, run, onceType, fired, handled>>

-----------------------------------------------------------------------------
(* The scheduled jobs.                                                     *)

RunListener(i) ==
  LET h == jobs[i].h
  IN /\ jobs[i].stage = "listener" /\ h \in Funcs
     /\ jobs' = Without(jobs, i)
     /\ handled' = [handled EXCEPT ![h] = Append(@, jobs[i].ev)]
     /\ UNCHANGED <<listeners, run, onceType, blocked, fired>>

(* (Mutant: onetime_listener relies on removing itself alone.)             *)
RunOnce_NoFlag(i) ==
  LET w == jobs[i].h
  IN /\ jobs[i].stage = "listener" /\ w \in Once
     /\ _async_remove_listener(onceType[w], w)
     /\ jobs' = Append(Without(jobs, i), TargetJob(w, jobs[i].ev))
     /\ UNCHANGED <<run, onceType, blocked, fired, handled>>

(* (Mutant: the closure passes on the event fired last, not its argument.) *)
RunOnce_LastEvent(i) ==
  LET w == jobs[i].h
  IN /\ jobs[i].stage = "listener" /\ w \in Once
     /\ run' = run \cup {w}
     /\ _async_remove_listener(onceType[w], w)
     /\ jobs' = IF w \in run THEN Without(jobs, i)
                ELSE Append(Without(jobs, i), TargetJob(w, Len(fired)))
     /\ UNCHANGED <<onceType, blocked, fired, handled>>

(* onetime_listener: the attribute 'run' makes every later call a no-op.   *)
(* async_run_job calls a callback inline and schedules anything else.      *)
RunOnce(i) ==
  LET w == jobs[i].h
      rest == Without(jobs, i)
  IN /\ jobs[i].stage = "listener" /\ w \in Once
     /\ \/ /\ w \in run
           /\ jobs' = rest
           /\ UNCHANGED <<listeners, run, handled>>
        \/ /\ w \notin run
           /\ run' = run \cup {w}
           /\ _async_remove_listener(onceType[w], w)
           /\ IF Kind[Target[w]] = "callback"
                THEN /\ handled' = [handled EXCEPT ![w] = Append(@, jobs[i].ev)]
                     /\ jobs' = rest
                ELSE /\ jobs' = Append(rest, TargetJob(w, jobs[i].ev))
                     /\ UNCHANGED handled
     /\ UNCHANGED <<onceType, blocked, fired>>

RunTarget(i) ==
  /\ jobs[i].stage = "target"
  /\ jobs' = Without(jobs, i)
  /\ handled' = [handled EXCEPT ![jobs[i].h] = Append(@, jobs[i].ev)]
  /\ UNCHANGED <<listeners, run, onceType, blocked, fired>>

(* (Mutant: run_callback never sets the result of the future.)             *)
RunCall_NoResult(i) ==
  /\ jobs[i].stage = "call"
  /\ Perform(jobs[i].op, Without(jobs, i))
  /\ UNCHANGED <<run, blocked, handled>>

RunCall(i) ==
  /\ jobs[i].stage = "call"
  /\ Perform(jobs[i].op, Without(jobs, i))
  /\ blocked' = blocked \ {jobs[i].th}
  /\ UNCHANGED <<run, handled>>

RunJob(i) ==
  /\ Runnable(jobs, i)
  /\ RunListener(i) \/ RunOnce(i) \/ RunTarget(i) \/ RunCall(i)

RunLoopJob == \E i \in DOMAIN jobs : jobs[i].loop /\ RunJob(i)
RunExecutorJob == \E i \in DOMAIN jobs : ~jobs[i].loop /\ RunJob(i)

-----------------------------------------------------------------------------
Init ==
  /\ listeners = [t \in Keys |-> <<>>]
  /\ jobs = <<>>
  /\ run = {}
  /\ onceType = [w \in Once |-> NoType]
  /\ blocked = {}
  /\ fired = <<>>
  /\ handled = [h \in Handles |-> <<>>]

Next ==
  \/ \E op \in Op : LoopOp(op) \/ \E th \in Threads : ThreadCall(th, op)
  \/ RunLoopJob
  \/ RunExecutorJob

(* The loop keeps running its ready callbacks and the executor's threads   *)
(* keep finishing jobs; nobody is obliged to fire, listen or remove.       *)
Spec == Init /\ [][Next]_vars /\ WF_vars(RunLoopJob) /\ WF_vars(RunExecutorJob)

-----------------------------------------------------------------------------
Job ==
  [stage : {"listener", "target"}, h : Handles, ev : 1..Len(fired), loop : BOOLEAN]
    \cup [stage : {"call"}, th : Threads, op : Op, loop : {TRUE}]

(* Types; a job refers only to an event that has been fired.               *)
TypeOK ==
  /\ listeners \in [Keys -> Seq(Handles)]
  /\ jobs \in Seq(Job)
  /\ run \subseteq Once
  /\ onceType \in [Once -> Keys \cup {NoType}]
  /\ blocked \subseteq Threads
  /\ fired \in Seq([type : EventTypes, heard : [Keys -> Seq(Handles)]])
  /\ handled \in [Handles -> Seq(1..Len(fired))]

(* How often h is in s.                                                    *)
Count(s, h) == Cardinality({i \in DOMAIN s : s[i] = h})

(* How many calls event n owes to h: its registrations for the type and,   *)
(* unless the event is CLOSE, its wildcard registrations, when it fired.   *)
Owed(n, h) ==
  Count(fired[n].heard[fired[n].type], h)
    + IF fired[n].type = CLOSE THEN 0 ELSE Count(fired[n].heard[MATCH_ALL], h)

(* Every registration present when an event fires gets that event exactly  *)
(* once, whatever is registered or removed afterwards: what has been       *)
(* handled and what is still scheduled add up to what async_fire owed.     *)
ExactDelivery ==
  \A n \in DOMAIN fired : \A f \in Funcs :
    Count(handled[f], n)
      + Cardinality({i \in DOMAIN jobs : /\ jobs[i].stage = "listener"
                                         /\ jobs[i].h = f /\ jobs[i].ev = n})
      = Owed(n, f)

TargetJobs(w) == {i \in DOMAIN jobs : jobs[i].stage = "target" /\ jobs[i].h = w}

(* async_listen_once's promise: however many events were lined up before   *)
(* the first of them was handled, and whether or not somebody also removes *)
(* the listener, what it wraps is called at most once.                     *)
OnceAtMostOnce ==
  \A w \in Once :
    /\ Len(handled[w]) <= 1
    /\ TargetJobs(w) # {} => handled[w] = <<>>
    /\ \A i, j \in TargetJobs(w) : i = j

(* ... and the event it is called with is the first one fired while it was *)
(* registered, never a later one that overtook it.                         *)
OnceFirstEvent ==
  \A w \in Once : \A n \in DOMAIN fired :
    handled[w] # <<>> /\ Owed(n, w) > 0 => handled[w][1] <= n

(* What a listener, or the listener a closure wraps, runs in.              *)
InLoop(h) == Kind[IF h \in Once THEN Target[h] ELSE h] # "function"

LoopJobs(stage) == {i \in DOMAIN jobs : jobs[i].stage = stage /\ jobs[i].loop}

(* What the loop runs sees events in the order they were fired, but for    *)
(* one case.  No listener, one-time or not, has been called with an event  *)
(* newer than one some listener of the loop is still to be called with;    *)
(* and none is called with an event before one it had already.  The        *)
(* exception is the coroutine a one-time listener wraps: async_run_job     *)
(* puts it behind what is ready by then, so others may have handled newer  *)
(* events before it sees its own.  But these coroutines keep their order   *)
(* among themselves.                                                       *)
LoopOrder ==
  /\ \A h \in Handles : InLoop(h) =>
       /\ \A j, k \in DOMAIN handled[h] : j < k => handled[h][j] <= handled[h][k]
       /\ \A i \in LoopJobs("listener") : \A k \in DOMAIN handled[h] :
            handled[h][k] <= jobs[i].ev
  /\ \A i, j \in LoopJobs("target") : i < j => jobs[i].ev <= jobs[j].ev
  /\ \A w \in Once : Kind[Target[w]] = "coroutine" =>
       \A i \in LoopJobs("target") : \A k \in DOMAIN handled[w] :
         handled[w][k] <= jobs[i].ev

(* A thread that waits for the loop to register or remove a listener is    *)
(* eventually released.                                                    *)
ThreadsReleased == \A th \in Threads : th \in blocked ~> th \notin blocked
=============================================================================
