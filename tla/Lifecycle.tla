------------------------------ MODULE Lifecycle ------------------------------
(***************************************************************************)
(* homeassistant/core.py, class HomeAssistant: bootstrap, start and stop   *)
(* of the root object, the tasks it tracks so that these can wait for      *)
(* them, and the executor it shuts down in the end.                        *)
(*                                                                         *)
(* bootstrap, async_start and every async_stop are coroutines of the one   *)
(* event loop; each of them waits in async_block_till_done, and they share *)
(* _pending_tasks and _track_task.                                         *)
(***************************************************************************)
EXTENDS Naturals, Sequences, FiniteSets, SequencesExt

CONSTANTS
  Jobs,        \* units of work given to async_add_job, each at most once
  Kind,        \* [Jobs -> {"callback", "coroutine", "function"}]
  Spawns,      \* [Jobs -> SUBSET Jobs], what a job may add while it runs
  Listeners,   \* the jobs bootstrap adds and those START, STOP, CLOSE cause
  CallsLoop,   \* functions that call run_callback_threadsafe(...).result()
  Hangs,       \* coroutines that may await something that never comes
  Stoppers,    \* calls of async_stop
  StopAt       \* the phases in which async_stop is called

Stages == {"setup1", "setup2", "START", "STOP", "CLOSE"}
Phases == {"boot", "starting", "running"}

ASSUME LifecycleConstants ==
  /\ Kind \in [Jobs -> {"callback", "coroutine", "function"}]
  /\ Spawns \in [Jobs -> SUBSET Jobs] /\ \A j \in Jobs : IsFiniteSet(Spawns[j])
  /\ Listeners \in [Stages -> Seq(Jobs)] /\ \A s \in Stages : IsInjective(Listeners[s])
  /\ CallsLoop \subseteq Jobs
  /\ Hangs \subseteq Jobs
  /\ StopAt \subseteq Phases
  /\ Stoppers \cap (Jobs \cup {"boot", "start"}) = {}
  /\ {"boot", "start"} \cap Jobs = {}

Procs == {"boot", "start"} \cup Stoppers

VARIABLES
  state,      \* HomeAssistant.state
  track,      \* HomeAssistant._track_task
  pending,    \* HomeAssistant._pending_tasks
  job,        \* how far each job is
  ready,      \* the event loop's FIFO of ready callbacks
  at,         \* where each coroutine of Procs is
  waiting,    \* what a coroutine in async_block_till_done waits for
  timer,      \* the time event timer: "none", "on" or "off"
  loop,       \* "running"; "joining" the executor's threads; "stopped"
  fired,      \* history: the life cycle events, in order
  tracked,    \* history: the tasks that entered _pending_tasks
  abandoned   \* history: the tasks async_start gave up waiting for

lifeVars == <<state, track, pending, job, ready, at, waiting, timer, loop,
          fired, tracked, abandoned>>

Item(what, id) == [what |-> what, id |-> id]

-----------------------------------------------------------------------------
(* async_add_job.  A callback and the first step of a coroutine queue up   *)
(* in the loop, a function starts in the executor; the last two are tasks, *)
(* remembered in _pending_tasks while tracking is on.                      *)

Task(j) == Kind[j] # "callback"

Elems(js) == {js[i] : i \in DOMAIN js}

(* The elements of js that are in S, in the order they have in js.         *)
Only(js, S) ==
  LET keep == {i \in DOMAIN js : js[i] \in S}
      Rank(i) == Cardinality({k \in keep : k <= i})
  IN [n \in 1..Cardinality(keep) |-> js[CHOOSE i \in keep : Rank(i) = n]]

(* The jobs of js that have not been used yet (the bound of the model).    *)
Fresh(js) == Only(js, {j \in Jobs : job[j] = "new"})

Queued(js) ==
  LET inLoop == Only(js, {j \in Jobs : Kind[j] # "function"})
  IN [i \in DOMAIN inLoop |-> Item("run", inLoop[i])]

Begun(js) ==
  [j \in Jobs |-> IF j \notin Elems(js) THEN job[j]
                  ELSE IF Kind[j] = "function" THEN "live" ELSE "ready"]

(* (Mutant: the executor's futures are not remembered.)                    *)
Track_LoopOnly(js, tr) ==
  /\ pending' = pending \cup {j \in Elems(js) : tr /\ Kind[j] = "coroutine"}
  /\ tracked' = tracked \cup {j \in Elems(js) : tr /\ Task(j)}

Track(js, tr) ==
  LET new == {j \in Elems(js) : tr /\ Task(j)}
  IN pending' = pending \cup new /\ tracked' = tracked \cup new

(* Adds js behind rest while _track_task is tr; more is queued after them. *)
async_add_job(js, rest, tr, more) ==
  /\ ready' = rest \o Queued(js) \o more
  /\ job' = Begun(js)
  /\ Track(js, tr)

-----------------------------------------------------------------------------
(* async_block_till_done.  A coroutine p blocked in it either waits for a  *)
(* set of tasks, waiting[p], or has its own resumption queued: by sleep(0) *)
(* or because that set is done.                                            *)

Resumption(p) == <<Item("resume", p)>>
Blocked(p) == at[p] \in {"block1", "block2"}

(* A stop task that is itself tracked never counts: it is done only after  *)
(* the loop has stopped.                                                   *)
Done(t) == t \in Jobs /\ job[t] = "done"

(* The timer's own listener for STOP, a callback.                          *)
StopTimer(e) == IF e = "STOP" /\ timer = "on" THEN <<Item("stop_timer", "timer")>> ELSE <<>>

(* Fire a life cycle event, or add a stage of components, and block.       *)
FireAndBlock(p, e, rest, tr, where) ==
  /\ async_add_job(Fresh(Listeners[e]), rest, tr, StopTimer(e) \o Resumption(p))
  /\ at' = [at EXCEPT ![p] = where]
  /\ fired' = Append(fired, e)

(* What follows the await of async_block_till_done in each coroutine.      *)
Continue(p, rest) ==
  \/ /\ p = "boot" /\ at[p] = "block1"
     /\ FireAndBlock(p, "setup2", rest, track, "block2")
     /\ UNCHANGED <<state, loop>>
  \/ /\ p = "boot" /\ at[p] = "block2"
     /\ at' = [at EXCEPT ![p] = "done", !["start"] = "begun"]
     /\ ready' = Append(rest, Item("begin", "start"))
     /\ UNCHANGED <<state, loop, pending, job, fired, tracked>>
  \/ /\ p = "start"
     /\ at' = [at EXCEPT ![p] = "settle"]
     /\ ready' = rest \o Resumption(p)
     /\ UNCHANGED <<state, loop, pending, job, fired, tracked>>
  \/ /\ p \in Stoppers /\ at[p] = "block1"
     /\ state' = "not_running"
     /\ FireAndBlock(p, "CLOSE", rest, track, "block2")
     /\ UNCHANGED loop
  \/ /\ p \in Stoppers /\ at[p] = "block2"
     /\ loop' = "joining"
     /\ at' = [at EXCEPT ![p] = "shutdown"]
     /\ ready' = rest
     /\ UNCHANGED <<state, pending, job, fired, tracked>>

(* (Mutant: with nothing left to wait for, nothing wakes p up either.)     *)
BlockTillDone_WaitNone(p, rest) ==
  \/ /\ pending = {}
     /\ Continue(p, rest)
     /\ UNCHANGED waiting
  \/ /\ pending # {}
     /\ pending' = {}
     /\ waiting' = [waiting EXCEPT ![p] = {t \in pending : ~Done(t)}]
     /\ ready' = rest
     /\ UNCHANGED <<state, loop, job, at, fired, tracked>>

(* The while loop, from p's resumption to its next await.                  *)
BlockTillDone(p, rest) ==
  LET left == {t \in pending : ~Done(t)}
  IN \/ /\ pending = {}
        /\ Continue(p, rest)
        /\ UNCHANGED waiting
     \/ /\ pending # {}
        /\ pending' = {}
        /\ waiting' = [waiting EXCEPT ![p] = left]
        /\ ready' = IF left = {} THEN rest \o Resumption(p) ELSE rest
        /\ UNCHANGED <<state, loop, job, at, fired, tracked>>

(* Every task p waits for is done: its resumption is queued.               *)
Wake(p) ==
  /\ Blocked(p) /\ waiting[p] # {} /\ \A t \in waiting[p] : Done(t)
  /\ waiting' = [waiting EXCEPT ![p] = {}]
  /\ ready' = ready \o Resumption(p)
  /\ UNCHANGED <<state, track, pending, job, at, timer, loop, fired, tracked, abandoned>>

(* TIMEOUT_EVENT_START: async_start is cancelled where it waits and goes   *)
(* on; what it had taken from _pending_tasks is waited for by nobody.      *)
StartTimeout ==
  /\ Blocked("start")
  /\ at' = [at EXCEPT !["start"] = "cancelled"]
  /\ abandoned' = abandoned \cup {t \in waiting["start"] : ~Done(t)}
  /\ waiting' = [waiting EXCEPT !["start"] = {}]
  /\ ready' = IF waiting["start"] = {} THEN ready ELSE ready \o Resumption("start")
  /\ UNCHANGED <<state, track, pending, job, timer, loop, fired, tracked>>

-----------------------------------------------------------------------------
(* What the loop does with the head of its queue.                          *)

(* async_start up to its first await.                                      *)
BeginStart(rest) ==
  /\ state' = "starting"
  /\ FireAndBlock("start", "START", rest, track, "block1")
  /\ track' = FALSE
  /\ UNCHANGED <<waiting, timer, loop>>

(* ... and from the second to the end: running, with the time event timer. *)
FinishStart(rest) ==
  /\ state' = "running"
  /\ timer' = "on"
  /\ at' = [at EXCEPT !["start"] = "done"]
  /\ ready' = rest
  /\ UNCHANGED <<track, pending, job, waiting, loop, fired, tracked>>

(* (Mutant: the state is left as it was until stage 2.)                    *)
BeginStop_KeepState(p, rest) ==
  /\ track' = TRUE
  /\ FireAndBlock(p, "STOP", rest, TRUE, "block1")
  /\ UNCHANGED <<state, waiting, timer, loop>>

(* async_stop up to its first await.                                       *)
BeginStop(p, rest) ==
  /\ state' = "stopping"
  /\ track' = TRUE
  /\ FireAndBlock(p, "STOP", rest, TRUE, "block1")
  /\ UNCHANGED <<waiting, timer, loop>>

Resume(p, rest) ==
  \/ /\ Blocked(p)
     /\ BlockTillDone(p, rest)
     /\ UNCHANGED <<track, timer>>
  \/ /\ at[p] = "cancelled"
     /\ at' = [at EXCEPT ![p] = "settle"]
     /\ ready' = rest \o Resumption(p)
     /\ UNCHANGED <<state, track, pending, job, waiting, timer, loop, fired, tracked>>
  \/ /\ at[p] = "settle"
     /\ FinishStart(rest)

(* A job that runs in the loop adds some of what it spawns, and is then    *)
(* finished or, if a coroutine, at its next await.                         *)
RunInLoop(j, rest) ==
  \E more \in SUBSET {k \in Spawns[j] : job[k] = "new"} :
  \E end \in {"done"} \cup IF Kind[j] = "coroutine" /\ job[j] = "ready"
                           THEN {"suspended"} ELSE {} :
    LET js == SetToSeq(more)
    IN /\ ready' = rest \o Queued(js)
       /\ job' = [Begun(js) EXCEPT ![j] = end]
       /\ Track(js, track)
       /\ UNCHANGED <<state, track, at, waiting, timer, loop, fired>>

(* async_add_job, called by the loop on behalf of a thread.                *)
RunAdd(j, rest) ==
  /\ async_add_job(<<j>>, rest, track, <<>>)
  /\ UNCHANGED <<state, track, at, waiting, timer, loop, fired>>

RunReady ==
  /\ loop = "running" /\ ready # <<>>
  /\ LET item == Head(ready)
         rest == Tail(ready)
     IN \/ item.what = "begin" /\ item.id = "start" /\ BeginStart(rest)
        \/ item.what = "begin" /\ item.id \in Stoppers /\ BeginStop(item.id, rest)
        \/ item.what = "resume" /\ Resume(item.id, rest)
        \/ item.what = "run" /\ RunInLoop(item.id, rest)
        \/ item.what = "add" /\ RunAdd(item.id, rest)
        \/ /\ item.what = "answer"
           /\ ready' = rest
           /\ job' = [job EXCEPT ![item.id] = "answered"]
           /\ UNCHANGED <<state, track, pending, at, waiting, timer, loop, fired, tracked>>
        \/ /\ item.what = "result"
           /\ ready' = rest
           /\ job' = [job EXCEPT ![item.id] = "done"]
           /\ UNCHANGED <<state, track, pending, at, waiting, timer, loop, fired, tracked>>
        \/ /\ item.what = "stop_timer"
           /\ ready' = rest
           /\ timer' = "off"
           /\ UNCHANGED <<state, track, pending, job, at, waiting, loop, fired, tracked>>
  /\ UNCHANGED abandoned

-----------------------------------------------------------------------------
(* What goes on beside the loop.                                           *)

(* What a suspended coroutine awaits has come.                             *)
Resumes(j) ==
  /\ job[j] = "suspended"
  /\ job' = [job EXCEPT ![j] = "resumed"]
  /\ ready' = Append(ready, Item("run", j))
  /\ UNCHANGED <<state, track, pending, at, waiting, timer, loop, fired, tracked, abandoned>>

(* A function in the executor waits for the loop to run a callback ...     *)
WorkerCalls(j) ==
  /\ j \in CallsLoop /\ job[j] = "live"
  /\ job' = [job EXCEPT ![j] = "calling"]
  /\ ready' = Append(ready, Item("answer", j))
  /\ UNCHANGED <<state, track, pending, at, waiting, timer, loop, fired, tracked, abandoned>>

(* ... calls add_job, which does not wait ...                              *)
WorkerAdds(j, k) ==
  /\ job[j] \in {"live", "answered"}
  /\ k \in Spawns[j] /\ job[k] = "new"
  /\ job' = [job EXCEPT ![k] = "asked"]
  /\ ready' = Append(ready, Item("add", k))
  /\ UNCHANGED <<state, track, pending, at, waiting, timer, loop, fired, tracked, abandoned>>

(* ... and returns; the loop then sets the result of its future.           *)
WorkerReturns(j) ==
  /\ job[j] \in {"live", "answered"}
  /\ job' = [job EXCEPT ![j] = "returned"]
  /\ ready' = Append(ready, Item("result", j))
  /\ UNCHANGED <<state, track, pending, at, waiting, timer, loop, fired, tracked, abandoned>>

(* executor.shutdown(), inside the loop: it returns when no thread is left *)
(* working, and then the loop stops.                                       *)
ShutdownReturns ==
  /\ loop = "joining"
  /\ \A j \in Jobs : job[j] \notin {"live", "calling", "answered"}
  /\ loop' = "stopped"
  /\ UNCHANGED <<state, track, pending, job, ready, at, waiting, timer, fired, tracked, abandoned>>

Phase ==
  IF at["start"] = "done" THEN "running"
  ELSE IF at["boot"] = "done" THEN "starting" ELSE "boot"

(* Somebody stops Home Assistant: a thread, by fire_coroutine_threadsafe,  *)
(* or a signal or service handler, by async_add_job(async_stop()).         *)
CallStop(p, how) ==
  /\ at[p] = "idle" /\ Phase \in StopAt
  /\ how = "job" => loop = "running"
  /\ at' = [at EXCEPT ![p] = "begun"]
  /\ ready' = Append(ready, Item("begin", p))
  /\ pending' = IF how = "job" /\ track THEN pending \cup {p} ELSE pending
  /\ tracked' = IF how = "job" /\ track THEN tracked \cup {p} ELSE tracked
  /\ UNCHANGED <<state, track, job, waiting, timer, loop, fired, abandoned>>

-----------------------------------------------------------------------------
(* bootstrap has added its first components and blocks.                    *)
LifeInit ==
  /\ state = "not_running"
  /\ track = TRUE
  /\ loop = "running"
  /\ timer = "none"
  /\ waiting = [p \in Procs |-> {}]
  /\ at = [p \in Procs |-> IF p = "boot" THEN "block1" ELSE "idle"]
  /\ job = [j \in Jobs |-> IF j \notin Elems(Listeners["setup1"]) THEN "new"
                           ELSE IF Kind[j] = "function" THEN "live" ELSE "ready"]
  /\ ready = Queued(Listeners["setup1"]) \o Resumption("boot")
  /\ tracked = {j \in Elems(Listeners["setup1"]) : Task(j)}
  /\ pending = tracked
  /\ fired = <<"setup1">>
  /\ abandoned = {}

Worker(j) == WorkerCalls(j) \/ WorkerReturns(j) \/ \E k \in Jobs : WorkerAdds(j, k)

LifeNext ==
  \/ RunReady
  \/ \E p \in Procs : Wake(p)
  \/ StartTimeout
  \/ \E j \in Jobs : Resumes(j) \/ Worker(j)
  \/ ShutdownReturns
  \/ \E p \in Stoppers : \E how \in {"thread", "job"} : CallStop(p, how)

(* The loop runs what is ready, what is awaited comes (except for Hangs),  *)
(* functions return, and a timeout fires.                                  *)
LifeSpec ==
  /\ LifeInit /\ [][LifeNext]_lifeVars
  /\ WF_lifeVars(RunReady) /\ WF_lifeVars(StartTimeout) /\ WF_lifeVars(ShutdownReturns)
  /\ \A p \in Procs : WF_lifeVars(Wake(p))
  /\ \A j \in Jobs : WF_lifeVars(WorkerReturns(j))
  /\ \A j \in Jobs \ Hangs : WF_lifeVars(Resumes(j))

-----------------------------------------------------------------------------
Item0 ==
  [what : {"begin"}, id : Procs] \cup [what : {"resume"}, id : Procs]
    \cup [what : {"run", "add", "answer", "result"}, id : Jobs]
    \cup [what : {"stop_timer"}, id : {"timer"}]

JobStates == {"new", "asked", "ready", "suspended", "resumed", "live",
              "calling", "answered", "returned", "done"}

Places == {"idle", "begun", "block1", "block2", "cancelled", "settle",
           "shutdown", "done"}

LifeTypeOK ==
  /\ state \in {"not_running", "starting", "running", "stopping"}
  /\ track \in BOOLEAN
  /\ pending \subseteq {j \in Jobs : Task(j)} \cup Stoppers
  /\ job \in [Jobs -> JobStates]
  /\ ready \in Seq(Item0)
  /\ at \in [Procs -> Places]
  /\ waiting \in [Procs -> SUBSET (Jobs \cup Stoppers)]
  /\ timer \in {"none", "on", "off"}
  /\ loop \in {"running", "joining", "stopped"}
  /\ fired \in Seq(Stages)
  /\ tracked \subseteq Jobs \cup Stoppers
  /\ abandoned \subseteq tracked

(* "Block till all pending work is done": when async_stop goes on to CLOSE *)
(* and when it goes on to shut the executor down, every task that was ever *)
(* tracked is done, except those async_start gave up on.                   *)
StopWaits ==
  [][(fired' # fired /\ fired'[Len(fired')] = "CLOSE") \/ (loop = "running" /\ loop' = "joining")
       => \A t \in (tracked \ abandoned) \cap Jobs : Done(t)]_lifeVars

(* Once STOP has been fired, Home Assistant is never running again, and no *)
(* time event reaches the listeners of CLOSE: the timer is off by then.    *)
NotRunningAfterStop ==
  /\ "STOP" \in Elems(fired) => state \notin {"starting", "running"}
  /\ "CLOSE" \in Elems(fired) => timer = "off"

(* "Stop Home Assistant and shuts down all threads."  Only a component     *)
(* that hangs for good may stand in the way.                               *)
StopCompletes ==
  \A p \in Stoppers :
    at[p] = "begun" ~> \/ loop = "stopped"
                      \/ [](\E j \in Hangs : job[j] = "suspended")

(* Starting ends, although a component may hang: the timeout sees to that; *)
(* and so does stopping, unless a component hangs for good.                *)
BothComplete == <>(at["start"] = "done") /\ StopCompletes
=============================================================================
