# pylint-corpus in TLA+

The repository is a corpus of Python projects. Most of its own logic that is
hard to get right is in one of them, **Home Assistant 0.65.6**: an asyncio
event loop, a thread pool, an event bus, a service registry and a state machine
built on that bus, and the helpers, component set-up, config entries and entity
platforms built on those. A second one, the **spider of grab 0.6.38**, is a
scheduler with threads, queues and a termination test. This project specifies
both. Paths below are relative to `src/home-assistant-0.65.6/homeassistant/`,
or, for the spider, to `src/grab-0.6.38/grab/spider/`.

## Inventory

| component | state | operations | talks to | what is hard | what makes it correct |
|---|---|---|---|---|---|
| event loop, executor (`core.py`, `util/async.py`) | FIFO of ready callbacks; jobs in threads | `async_add_job`, `async_run_job`, `add_job`, `run_callback_threadsafe` | everything | three ways a job can be scheduled, each with its own order | jobs run once; a waiting thread is released |
| event bus (`core.py`) | listeners per event type | fire, listen, listen once, remove, from the loop or a thread | loop, executor | listeners come and go between firing and handling; one-time listeners lined up twice | exact delivery, at most once, firing order |
| root object (`core.py`, `bootstrap.py`, `helpers/signal.py`) | `state`, `_pending_tasks`, `_track_task`, timer, executor | the two bootstrap stages, start, stop, block till done | bus, executor, signals, services | coroutines that wait on one shared list, a timeout, a blocking shutdown | stop waits for the work and ends; never running after STOP |
| service registry (`core.py`) | services, call ids, waiting callers | register, remove, call (blocking or not), dispatch | bus, executor | the answer against the time limit; services replaced in flight; failing handlers | an answer reaches its own caller once; a call ends; no listener is leaked |
| state machine (`core.py`) | one `State` per entity | set, remove | bus | events are handled later than they happen | who follows the events misses nothing; `last_changed` is right |
| event helpers (`helpers/event.py`) | one-time and repeating time, state and sun listeners | track, unsubscribe | bus, timer | unsubscribing when the listener is queued already | no call after unsubscribing; an interval ends |
| script helper (`helpers/script.py`) | position, pending listeners | run, stop, resume | event helpers, services | delay, wait and timeout racing each other | one resumption per wait |
| timer (`components/timer`) | status, end, remaining time, listener | start, pause, cancel, finish | event helpers, services | a listener of an earlier run | a run ends at its own time |
| component set-up (`setup.py`) | futures per component | set up with dependencies | root object | shared results, waiting in cycles | set up once, dependencies first |
| config entries (`config_entries.py`) | entries and their states, flows | add, set up, unload, flow steps, delayed save | set-up, disk | overlapping steps, a stop before the save | state matches what is set up |
| entities (`helpers/entity*.py`) | entities and ids in use, polling, registry | add, update, remove, retry a platform | state machine, event helpers, disk | concurrent adds on one snapshot, retries, update limits | one entity per id; an update ends |
| recorder (`components/recorder`) | queue, connection | record, purge, shut down | bus, database thread | retries with a growing queue, shutdown | every event recorded at most once |
| automation, conditions, templates | triggers | trigger, turn on and off | event helpers, scripts | as above | as above |
| grab spider scheduler (`src/grab-0.6.38/grab/spider/base.py`) | task queue, counters, shutdown countdown | main loop, retries, results | transports, pipelines | the termination test looks at one queue after another | no task lost; it stops when all is done |
| grab pipelines, transports, queue | queues, free lists, idle flags | load, save, parse, fetch | scheduler | a task between two queues, idle flags | slots are given back, no task vanishes |

Not candidates: configuration parsing and unit conversion (no state), the
integrations (device drivers, I/O), grab's HTTP client, requests, pgcli, lektor,
the editors, formatters and numeric libraries. `PROJECT.json` lists them all
with the reason.

## Plan, and where it stands

1. `EventLoop`, `EventBus`: everything else is made of events. *(done, proved)*
2. `Lifecycle`: start, stop and the tasks they wait for. *(done, proved)*
3. `ServiceRegistry`, against the abstract `ServiceCall`. *(done, proved)*
4. `StateMachine`. *(done, proved)*
5. `TimeEvents`, and on it `TimeHelpers` and `Timer`, composed in `TimeSystem`
   *(done, proved)*, and `Script` *(done, proved)*.
6. `Spider`, against the abstract `SpiderJob`. *(done, proved)*
7. `Setup`, and on it `ConfigEntries`; `EntityPlatform`. *(done, proved)*
8. Not done: the recorder, the platform set-up retries, the redirect loop of
   requests, pgcli's refresher.

So that they can be proved about, no module declares a RECURSIVE operator.

## Modules and code

`EventLoop` has the only scheduling rule of the models of the bus, the
registry and the state machine. What is scheduled is ONE sequence `jobs`. An
element with `loop = TRUE` is a ready callback or the next step of a task: only
the first of these may run, which is asyncio's FIFO. An element with `loop =
FALSE` is with the executor (or with the world, when a coroutine awaits
something): it may run whenever it likes. An action that runs job `i` makes all
the changes the code makes until its next `await`, and appends what it schedules
to `Without(jobs, i)`. `Lifecycle` and `TimeEvents`, where nothing runs in the
executor or it is modelled apart, have a plain FIFO.

**`EventBus`** (`core.py` 206-254, 356-508, `util/async.py` 153-176).
`listeners` is `_listeners`, with `<<>>` for a missing key. A one-time listener
is a closure of its own (`Once`), remembers its type (`onceType`) and has the
attribute `run`. `Recipients`, `async_fire`, `async_listen`, `async_listen_once`
and `_async_remove_listener` are the methods of those names. `LoopOp` is any
code in the loop that calls one of them, `ThreadCall` and `RunCall` a thread that
does so through `call_soon_threadsafe` or `run_callback_threadsafe`.
`RunListener`, `RunOnce` and `RunTarget` are the scheduled calls. `fired`
and `handled` are history variables. Not represented: the event's data and
origin, filters, and removing something never registered beyond its being
without effect (the code logs a warning).

**`Lifecycle`** (`core.py` 110-297, 1103-1133, `bootstrap.py` 145-166,
`helpers/signal.py`). The coroutines bootstrap, `async_start` and
each `async_stop` have a program counter `at`; the loop's FIFO `ready` holds
their resumptions among the jobs. `BlockTillDone` is one turn of the while loop
of `async_block_till_done`: it takes over the shared `pending` and either waits
for what is left of it (`waiting`, `Wake`) or sleeps once. `Track` is the end of
`async_add_job`. Jobs are callbacks, coroutines that may suspend and functions
that may ask the loop to run a callback and wait for the answer. Each job adds
others from a fixed set. Joining the executor (`loop = "joining"`) stops the
loop until no thread works. A signal or the stop service calls `async_stop`
through `async_add_job`, `hass.stop()` through `fire_coroutine_threadsafe`;
`CallStop` has both. What bootstrap does before its first stage (reading the
configuration) is not modelled. The specification is `LifeSpec` (`LifeInit`,
`LifeNext`), so that its proofs can be in one module with those of `StateMachine`.

**`ServiceRegistry`** (`core.py` 751-1016) keeps the part of the bus it
uses: one listener for CALL_SERVICE (`subs`) and the waiting calls' listeners
for SERVICE_EXECUTED (`waiters`). `async_call` runs to its await, `CallTimeout`
is SERVICE_CALL_LIMIT, `Cancel` the cancellation of the task that awaits it,
`RunResume` what follows the await. `RunDispatch`, `RunHandler`, `RunFire` are
`_event_to_service_call`: unknown service, refused data, and the three kinds of
handler, which return or raise. The events SERVICE_REGISTERED and SERVICE_REMOVED,
which the registry does not listen to, are left out. **`ServiceCall`** is the abstract specification:
phases of a call, one run of a handler at most, success only after one's own
answer. `Remote` is the refinement mapping.

**`StateMachine`** (`core.py` 511-543, 618-748): `states`, the operations
`async_set` and `async_remove` with their early returns, the `State` object's
`last_changed` and `last_updated` against a clock that ticks at any time, and
`mirror`, listeners that rebuild the states from `new_state`.

**`TimeEvents`** (`helpers/event.py` 190-216, `core.py` 1103-1133): points in
time. `pits` has every `point_in_time_listener` ever made, in order of
registration; `sub` says whether it is registered, `run` is its attribute of that
name. `fire_time_event` is the timer's EVENT_TIME_CHANGED, at most once a second
and late at will; it queues a job for each registered listener. `PitLapses` and
`PitRuns` are the two ways such a job ends; who asked for the listener (`who`)
says what it does. Time is counted in seconds, and nobody needs the bus's other
listeners here.

**`TimeHelpers`** (`helpers/event.py` 63-256) has two users of points
in time: `async_track_time_interval` with its `interval_listener` and
`remove_listener`, and `async_track_same_state` with its two listeners that
remove each other. `same.cancel` stands for the registration for state changes,
`StateChange` for a state that changes. **`Timer`** (`components/timer`,
145-315) is one timer entity, its four services and the coroutine
`async_finished`, which the listener only schedules. `_end` is the time the
listener is registered for; `served` and `begun` are histories that measure a
run. **`TimeSystem`** composes all of them in one loop.

**`Script`** (`helpers/script.py` 44-234, `helpers/event.py` 95-113): `cur` is
`_cur`, `listeners` is `_async_listener`, `at` the step at which `async_run` is
while it has the loop. A step is an action; the callbacks of a delay, a timeout
and a template, and the continuation they schedule, come out of the same FIFO as
time events. `awaiting` are the coroutines that wait for a service they called.
`_async_remove_listener` calls every unsubscriber in one go. A template listener
may be queued several times, and `async_track_template` looks neither at whether
it was removed nor, once the template has been false in between, at whether it
triggered before; so it may act after a timeout or a stop, or a second time.
`Raises` is a step that raises: the template of a delay is rendered where nothing
catches what it raises, and elsewhere TemplateError is caught but no other error of a
template, a condition or a service call. `async_run` ends, and `_cur` stays what it
was when it began. Four of the histories tell such cases apart: `done` is the last step executed that is
not to be repeated, `until` the time the last wait is for, `raised` says that the
last `async_run` was ended by a step, and `alone` that no other one was awaiting a
service when the last one began. Once two have overlapped `InOrder` and `OwnWaits`
say nothing, until one begins when no other is left; `HasWake` is always checked.

**`Setup`** (`setup.py`, the loader's circularity check, `requirements.py` as an
outcome): `jobs` are the runs of `_async_setup_component` and, with a `flow`, of
a flow's `async_process_deps_reqs`; `calls` the coroutines that wait for one.
`setup_tasks` and `processed` are the two dictionaries in `hass.data`. An
outcome that depends on a component's code (its `setup` fails, its requirements
cannot be installed) is a choice. **`ConfigEntries`** (`config_entries.py`,
`util/json.py`) adds flows whose steps overlap, the list of entries, its delayed
save, the writes in the executor, and restarts, which keep only the file. A write
either replaces the file or fails to open it; each one still under way remembers
whether a newer one has ended already (`late`), and `last` how the last one ended.
A restart falls between two writes, not within one.

**`EntityPlatform`** (`helpers/entity_platform.py`, `entity.py` 186-313,
`entity_registry.py` 86-96): the entities of one
platform, all of which want the same name. `adding`, `removing`, `updating` are
the places where the coroutines of an entity await; the hooks
`async_added_to_hass` (`Added`) and `async_will_remove_from_hass` (`Removed`,
`RemovalFails`) may raise, and so may a first state and an update. A reset has a
task for every id, and the tasks begin one right after the other (`ResetTasks`);
single entities may be removed before, between and after. Bound: no reset begins
while another one is under way. What the code does not prevent is recorded in
four histories, and the properties say that nothing else goes wrong: `unseen` (an
entity whose id a call does not know, since it was entered after the call looked,
or had no state then), `stray` (a state written after its entity was removed),
`forgotten` (the entities that were there when a reset stopped the polling) and
`leftover` (a removal failed, or a polled entity was displaced, since the polling
began). `NoSharedId`, `NoStateLeft` and `AllPolled` are the same without the
exceptions, and are violated (*Further configurations*). `MCEntityPlatform` has
the mixes of entities.

**`Spider`** (`base.py`, `parser_pipeline.py`, `cache_pipeline.py`,
`transport/multicurl.py`): `pc` is where the main loop is, and each reading of
`is_ready_to_shutdown` is a step of its own. `parser`, `gen` and `cacher` are the
threads, with the events they pause by. `Collect` is the transport finishing a
request, in any order. The tasks a handler yields before it returns or fails are
put into the result queue at once, and after them the exception (`Raised`), which
the main loop logs, or raises again if it is a FatalError or the task has no
handler: that ends `run()` in the middle of the queue. ResponseNotValid comes
before any task. `stop` is the public method, which may be called at any moment and
is noticed at the top of the loop (`LoopEnds`). `told` says that the run was told
to end in one of these ways. Two histories measure how far the shutdown test was
fooled: `moved`, that the parser or the cache moved a task since the loop took what
the cache had ready, and `fooled`, how many of the last tests, in a row, were
positive although something had moved. The model ends where the loop does: what
`run()` clears up afterwards is left out.
**`SpiderJob`** is the abstract specification: given tasks are open until
processed or refused, and it stops only when none is open, when it was told to, or
when tasks moved in each of its last `Countdown` tests. `Job` is the refinement.

The definitions marked *(Mutant: ...)* are the plausible bugs each property is
tested against; no specification uses them.

## Runs

| run | question and result | bounds |
|---|---|---|
| `bus_delivery` | `TypeOK`, `ExactDelivery` hold | two functions, CLOSE and another type, the wildcard; 2 events, 1 registration per type at a time |
| `bus_once` | `OnceAtMostOnce`, `OnceFirstEvent`, `LoopOrder` (not for coroutines of one-time listeners), `ThreadsReleased` hold | a function and a one-time listener; a thread that fires, listens and removes while the loop does; 2 events, so that both can be lined up for a listener |
| `life_stop` | `NotRunningAfterStop`, `StopWaits`, `BothComplete` hold when stopped in the running phase | a job or more in every stage, of all three kinds; one may hang |
| `service_call` | `OneListener`, `ImplementsServiceCall`, `CallsEnd` hold | 2 calls that block or do not, one refused by the schema; one service, two handlers, 2 changes |
| `state` | `MirrorTracks`, `LastChanged` hold | 2 entities, 2 mirrors, a thread, 3 events, 3 instants: change, update, remove and come back |
| `time` | `OneChain`, `SameNoLeak`, `ActiveWillEnd`, `FullTime`, `TimerEnds` hold | 2 seconds, 4 calls; interval and period 1, timers of 1 and 2 |
| `time_removed` | **violated**: `IntervalRemoved` | the same |
| `script` | `TypeOK`, `HasWake`, `InOrder`, `OwnWaits` hold | seven steps of every kind, any of which may raise, 3 seconds, 6 calls or changes |
| `setup` | `TypeOK`, `SetupOnce`, `DepsFirst`, `OneVerdict`, `EntryOnce`, `FileCurrent`, `OneEntryPerFlow`, `SetupEnds` hold | two components, perhaps in a circle, one flow of 2 steps, a request from outside, a restart; writes that meet and fail |
| `entry_lost` | **violated**: `EntriesSetUp` | the same |
| `entities` | `TypeOK`, `OneEntityPerId`, `StatesMatch`, `PollingRight`, `RoundsEnd` hold | two entities, one or both polled, in one call or two, with a unique id new or old, a name of their own or none; hooks that raise; one slot, one tick |
| `spider` | `TypeOK`, `OneHand`, `ImplementsJob`, `EndsOrHangs` hold | 4 tasks: one whose handler yields another, or two at once from the generator; one slot; 2 network tries, 1 task try, a countdown of 3; with and without a cache; stopped from outside or by an error at any moment |

Why these bounds are enough to be of use: a race of the bus needs two jobs of
one listener in flight with a registration or removal between them; of the life
cycle, two coroutines in `async_block_till_done` and a job that adds another; of
the registry, two waiting calls and one replacement of the handler; of the state
machine, two changes of one entity in flight; of the time helpers, a listener
that is lined up by two time events, with a call before the first, between both
and after; of a script, a call while each kind of listener is queued; of set-up,
two that wait for each other's task, and an entry added before, while and after
its component is set up; of a platform, two adds, a removal and a reset at any
two awaits; of the spider, a task that moves behind each reading of the shutdown
test. All of these occur. Larger numbers repeat them, and the proofs below do not
depend on the bounds.

The `spider` run has a countdown of 3 where the code has 10 (`base.py` 977), so
that the shutdown test is fooled three times running within the instance: the spider
does stop with a task open there, and `ImplementsJob` says that this takes a task
moved during each of the three tests. Proved below is the same for any countdown
and any limits.

How long a countdown excludes it altogether (`NeverEarly`) is proved too, in
`EarlyEndBound`: one above the number of tries of a task, each with the tests it can
fool, times the length of the longest chain of tasks that yield each other. How many
tasks are in flight does not matter. The code's countdown of 10 is enough for small
limits, as those of this instance, but not for its own defaults (5 tries of a task
and of the network, `base.py` 35-36): a single task without a cache needs 11, and
TLC finds `NeverEarly` violated with 10 (`Spider_defaults` below) and satisfied
with 11. The model lets a thread be arbitrarily slow; in the program 10 ms pass
between two tests (`base.py` 1020), which makes ten fooled tests in a row unlikely,
not impossible.

Two runs are violated on purpose: there a comment or a docstring and the code
part; `PROJECT.json` quotes it. An interval that is removed while its listener is
queued registers itself anew (`time_removed`); an entry that is added while its
component goes through the entries it found before is never set up
(`entry_lost`).

Deadlock is not checked: an idle system, a stopped one, and one that has used up
the bounds all stop, as they may.

### Further configurations

These are run by hand (`tlc -config X.cfg M`). They show where the code parts from
what its docstrings, or its names, say, and what the exceptions stand for that the
properties of the runs make; each is violated:

| configuration | property | what happens |
|---|---|---|
| `Lifecycle_early` | `NotRunningAfterStop` | stopped while starting: `async_start` goes on after STOP, sets the state to running and starts the timer (`core.py` 193) |
| `Lifecycle_overlap` | `StopWaits` | stopped while starting: `async_start` has taken the shared list of pending tasks, so stop does not wait for them (`core.py` 269) |
| `Lifecycle_shutdown` | `StopCompletes` | `executor.shutdown()` joins a thread that waits for the loop, in the loop (`core.py` 294) |
| `Lifecycle_selfwait` | `StopCompletes` | a stop task that is itself tracked waits for itself (`core.py` 288, `components/__init__.py` 170) |
| `ServiceRegistry_true` | `TrueMeansExecuted` | a call with refused data is reported as successful (`core.py` 996) |
| `ConfigEntries_stale` | `NothingLost` | two writes meet in the executor and the older one ends last: the file stays stale (`config_entries.py` 354) |
| `EntityPlatform_shared` | `NoSharedId` | an id is given out before an await that another call, or a state not yet written, makes the answer of (`entity_platform.py` 154) wrong: a second entity displaces the first |
| `EntityPlatform_ghost` | `NoStateLeft` | an entity is removed while its first state or an update is under way, which writes the state again (`entity.py` 286) |
| `EntityPlatform_reset` | `AllPolled` | a reset waits for its removals while an entity is added, then stops the polling (`entity_platform.py` 275) |
| `Spider_defaults` | `NeverEarly` | one task, the code's default limits and its countdown of 10: each of five calls of the handler, which fails, fools two tests, and the spider stops with what the last one left in the parser's queue unread (`base.py` 977): here the refusal of the task, in other cases tasks that a handler yields |
| `Script_stuck` | `NeverStuck` | the template of a delay raises when the script is continued: it says it is running, and nothing will carry it on (`helpers/script.py` 101) |
| `Script_timeout` | `StopStops` | a wait's timeout and its trigger are queued together, the timeout first: it aborts the script, and the trigger starts it again from the top (`helpers/script.py` 130, 219) |
| `Script_stop` | `StopStops` | a script that is stopped while it awaits a service goes on with the next step (`helpers/script.py` 153) |

## Fairness

The loop runs what is ready (`WF` on the action that runs the head of the FIFO:
asyncio never skips a ready callback), the executor's threads finish what they
do (`WF` on running an executor job), and timers fire (`WF` on each timeout, on
the passing of time and on the time event). In `Lifecycle` a coroutine that
awaits is resumed unless it is among `Hangs`; in `Setup` and `EntityPlatform` a
component's set-up and a device's update return. `Script` has safety properties
only. Nobody is obliged to fire,
listen, call, ask, add, remove or stop, and a service handler may never end.

In `Spider` each thread runs (`WF`), and two things have `SF`. A request ends at
the latest by its time limit, so the main loop, which passes the transport again
and again, will find one finished if any is under way (`SF` on some `Collect`). The generator thread is enabled to
go on only between two shutdown tests; each time the loop does a round of the
transport in between, so it will some time get there. Without that the model
could hold the thread at the same place in every round.

## Proofs

Eight modules hold proofs. All of them are for every value of the constants that
satisfies the assumptions named in the modules (`BusConstants`, `LifecycleConstants`,
`RegistryConstants`, `StateConstants`, `TimeConstants`, `HelperConstants`, `TimerConstants`,
`ScriptConstants`, `SetupConstants`, `EntryConstants`, `PlatformConstants`,
`SpiderConstants`, `NewTasks`). These say that sets are finite or not empty, numbers
natural, functions and sequences of their types, and names of different things
different. `NewTasks` says a little more:
the tasks that generators and handlers yield are all different objects, as they are
in the program, which makes a new one each time.

Where it is needed, a module begins with facts on taking an element out of a sequence
and on counting (`HowMany(s, S)`: how many elements of `s` are in `S`).

**`EventBus_proofs`**, any number of listeners, threads and events:
`TypeCorrect`, `OnceCorrect` (`Spec => []OnceAtMostOnce`), `OrderCorrect`
(`Spec => []LoopOrder`), `DeliveryCorrect` (`Spec => []ExactDelivery`),
`OnceFirstCorrect` (`Spec => []OnceFirstEvent`). `LoopOrder` is about all that runs
in the loop but the coroutines of one-time listeners, which `async_run_job` puts behind
what is ready by then; these keep their order among themselves. `TypeOK` is inductive. The others
are not. The invariant `IInv` adds the first two of these, and the other two are
proved on top of it:

- `OnceInv`: a one-time listener has a call of its target scheduled, or has been
  called, only if its `run` flag is set; never both, never two calls scheduled.
  The flag is what makes a second listener job harmless.
- `OrderInv`: the listener jobs of the loop are sorted by event, and nothing
  handled in the loop is newer than any of them. FIFO order keeps the first part,
  since a new event is newer than all, and the second follows because the job
  that runs is the oldest.
- `DeliveryInv`, for `ExactDelivery`: what a function has handled of an event and
  what is still scheduled of it for that function add up to the registrations there
  were when it fired. Removing a listener takes nothing off the queue.
- `FirstInv`, for `OnceFirstEvent`: until a one-time listener has run, each event
  it was registered for is still on its way to it, and by `OrderInv` the oldest
  comes first; afterwards what it is called with is no newer than any of them.

Taking a job out of the sequence (`...Without`) and putting jobs behind it
(`...Behind`) preserve each part, in lemmas about an arbitrary sequence; the step
lemma has one case per action and only combines them.

**`ServiceRegistry_proofs`**, any services, handlers and calls: `TypeCorrect`,
`OneListenerCorrect`, and `ServiceCallCorrect`, the refinement
`Spec => ImplementsServiceCall`. The invariant `IInv` adds to the types:

- `JobsInv`: a call is carried by one job at a time (`Token`: its dispatch, its
  handler, the report to be fired, or the report that its own waiter will hear),
  and while one carries it its future is not resolved; the job's stage says whether
  the call is answered and whether its handler has begun. This is why a handler runs
  once and a future is resolved once.
- `WaitersInv`: the waiters are the calls somebody waits for, or was cancelled while
  waiting for, each once. Without it an answer might be queued twice for a call.
- `CallInv`: what is resolved has been answered, and a call that was not made yet
  has caused nothing.

`Concerns(c)` says that a step is about call c only; `RunStep` and `PutStep`, about
any sequence of jobs, turn it into the preservation of `JobsInv`. In the refinement
`async_call` is `Issue` (or `Leave`, when it does not block), a cancellation is
`Leave`, the caller's last step `Return`, a dispatch `Start`, `Answer` or nothing,
the end of a handler `Answer` or nothing, and all else stutters.

**`Core_proofs`**, first `StateMachine`, any entities, states, mirrors and threads:
`TypeCorrect`, `MirrorCorrect`, `LastChangedCorrect`.

- `MirrorTracks` says it of the jobs still queued, and is inductive beside the
  types: what a mirror has still to hear about an entity leads, event by event,
  from what it holds to what the state machine holds (`Leads`). All jobs are the
  loop's, so it is always the first that runs (`FirstJob`), and `LeadsFromNext`
  takes it off at the front. `LeadsOn` puts an event on at the back, one job for
  each mirror (`NotifyIs`), `LeadsStill` anything that is no news to this mirror.
- `LastChanged` is inductive too. `SetChanges` and `RemoveChanges` show that an
  event is fired only if it is `Worth` firing, and is `Dated`: a renewed state
  string bears the time of the event, any other the time it had before.

Then `Lifecycle`, any jobs of any kinds, whatever each adds and whoever hangs:
`LifeTypeCorrect`, `NotRunningAfterStopCorrect`, `StopWaitsCorrect`. The first needs
no more than `LifecycleConstants`. Its invariant `LifeInv`, which the others rest
on, is about the queue of the loop and the list of pending tasks:

- `Queue`: each item is in the FIFO once, and fits what it is about: a resumption to a
  coroutine that may be resumed, a job's step to a job that is to take one.
- `BootFirst`: Home Assistant starts when bootstrap is through.
- `WaitersBlocked`, `Known`: who waits is blocked in `async_block_till_done`, and
  only tracked tasks are pending or waited for.
- `Covered`: a tracked task that is neither done nor given up by `async_start` is
  still on the pending list, or in what somebody waits for. So the list, which each
  round of `async_block_till_done` takes over, is never dropped.

`NotRunningAfterStop` and `StopWaits` have a hypothesis, since the code does not give
them without (*Further configurations*): Home Assistant is stopped when it runs
(`StopAt` within `{"running"}`). Then `async_start` is through before any `async_stop`
begins, and `StopInv` says so. The hard part is the timer, which is turned off by a
callback that the STOP event puts into the queue: as long as it is on, that callback is
there, ahead of every resumption of an `async_stop` (`TimerAhead`). So nobody gets to
CLOSE with the timer on, and `NotRunningAfterStop` holds for any number of calls
of `async_stop`. `StopWaits` is for one call, and then follows from `Covered`, as
nobody else waits for a part of the work. With two it is violated:
they share `_pending_tasks`, and each takes from it what the other then does
not wait for.

**`TimeSystem_proofs`**, any periods and durations, however far time goes:
`TypeCorrect`, `OneChainCorrect`, `SameNoLeakCorrect`, `ActiveWillEndCorrect`, and
the action property `FullTimeCorrect` (`Spec => FullTime`). The invariant has a part
for each of the three users of points in time, and one for the timer's present run:

- `IntervalInv`: of the interval's listeners one at most has not run, registered
  or not. This is stronger than one registered listener, and needed: a listener
  that was removed with its job queued may run and register a successor.
- `SameInv`: there is one listener for the period, and as long as `_listener` is
  not None it has neither acted nor been cleared.
- `TimerInv`: the listener a timer remembers is the timer's, and
  `ActiveWillEnd`.
- `RunInv`, for `FullTime`: what a run has served and what remains of it make up its
  duration at any moment; only the listener of the present run is awaited, and none
  any more once it has scheduled `async_finished`, by when its end has come.

`Spares(who)` says that a step leaves who's listeners alone; `QueuesRegistered`
that it queues jobs only for registered listeners, and `KeepsFinished` that no
scheduled coroutine is forgotten. The steps of one user spare the others, so each
part has one lemma for its own steps (`...Own`) and one for all the others
(`...Spared`); this is what makes the composition hold together.

**`ConfigEntries_proofs`**, any components, dependencies, circles and flows:
`TypeCorrect`, `SetupOnceCorrect`, `OneVerdictCorrect`, `DepsFirstCorrect`,
`EntryOnceCorrect`, `OneEntryCorrect`, `FileCurrentCorrect`.

- `SetupInv` ties each component's job to its domain's entry in `setup_tasks`,
  and a refusal to a job that failed; `SetupOnce` and `OneVerdict` follow.
- `DepsInv`: what is processed, or beyond the wait for its dependencies, has
  them, and a job that waits has a call for each. The set of processed names is
  shared with flows, so this has to be said of both.
- `EntryInv`: for each entry where it stands between its flow and its component
  (`EntryAt`), and that only flows make entries (`Made`), across restarts.
- `Inv` bounds the steps in flight and says that a flow which is over is no
  longer in progress; `OneEntryPerFlow` is an action property that follows.
- `SaveInv`, for `FileCurrent`: unless another save is scheduled, the newest write is
  still under way and writes the present list (`Newest`); or it has ended, and then all
  that are left are late, and the file has the list if the last one ended well
  (`Through`). So the exception is exactly a last write that failed or was overtaken.

**`Script_proofs`**, any steps, delays and timeouts, any number of calls, and any
step raising at any time: `TypeCorrect`, `HasWakeCorrect`, `InOrderCorrect`,
`OwnWaitsCorrect`. What carries a script on is a queued continuation, an awaited
service, `async_run` itself, or the listeners of a wait.

- `Awake`: a script that is on has one of these, unless a step raised in the run that
  last had the loop. This alone gives `HasWake`, whatever overlaps.
- `Line`: as long as no two runs overlap, the one that has the loop or awaits a service
  is where `done` says and nothing is registered, and a script that waits will go on
  there. Several continuations may be queued; each takes the script on from where it is.
- `Waits`: what is registered belongs to the step the script waits at, and is not due
  before `until`. `OwnWaits`, an action property, follows: a delay's and a timeout's
  callback act only if they are still in the list (`list.remove` raises otherwise).

**`EntityPlatform_proofs`**, any entities, calls, slots and ticks: `TypeCorrect`,
`OneEntityPerIdCorrect`, `StatesMatchCorrect`, `PollingRightCorrect`. That
`async_generate_entity_id` finds an id at all is the pigeonhole principle (`FreeId`):
there is one id more than there are entities, and each stands in the way of one.

- `IdInv`, `PhaseInv`, `Fixed`: an entity has its id from when it is added to the
  list of its platform, the registry's if it has a unique id, and belongs to one
  call, which is not over before all its entities are.
- `SeenInv`: a call under way knows the id of every entity that is not removed, or has
  it in `unseen`; so two with the same id did not see each other. The first part is what
  the second one needs when the next id is given out, and it has to include entities
  whose removal awaits its hook.
- `StatesMatch` and `PollingRight` are inductive beside these and `ResetInv` (the tasks
  of a reset begin before it is through). A state that is removed while another entity
  has the same id is where the two parts of `StatesMatch` need `SeenInv`.

**`Spider_proofs`**, any tasks, generators, handlers, slots, limits and countdown,
with and without a cache: `TypeCorrect`, `OneHandCorrect`, the refinement
`JobCorrect` (`Spec => ImplementsJob`), and the two bounds `EarlyEndBound` and
`UncachedEarlyEndBound`. `OneHand` says that a task which was given and is not over is
in exactly one of the nine places where tasks may be, and any other in none.

- `HandInv`: `OneHand` in terms of counts. Each step that handles a task moves one
  unit from one count to another.
- `FreshInv`: what a generator or a handler has not yielded yet is nowhere, and a
  handler that is still to run has yielded nothing. Else yielding might put a task
  in a second place.
- `TriesInv`: a task that was tried too often is refused before it is counted again,
  which bounds the counters in `TypeOK`.
- `LocalInv`: the main loop has stopped when the countdown is at zero, and the cache's
  thread has something to do when it works.

In the refinement the generator gives tasks, handlers give and process them, the
limits refuse them, `stop` and an error that ends the run are `Tell` (the latter with
`Stop`), and all else stutters. What is hard is the end of the last test: either nothing
is open, or `fooled` is the countdown.

- `MovedInv`: what a test misses has moved since the loop took what the cache had ready.
  The cache had it ready after that, or the parser took it, or put it down, while the
  test looked elsewhere.
- `FooledInv`: so, while a task is open, each positive test since the last negative one
  has been counted.

`EarlyEndBound` says how long a countdown excludes that. `Deeper(D, Depth)` says that
a task is at most D steps from the generator: chains of tasks that yield each other
are at most D + 1 long. If the loop ends by itself with a task open, then the countdown
is at most `(D + 1) * (TaskTryLimit * (NetworkTryLimit + 2))`, and in the behaviours
without a cache at most `(D + 1) * (TaskTryLimit * 2)`. For one task and the default
limits the second is exact: 10 is violated (`Spider_defaults`). `AgeInv` adds to the
invariant above:

- `TestInv`: what is empty while the main loop is at each reading of the shutdown
  test, and that the countdown is full as long as a generator lives.
- `InTime`: how many tests in a row can have been positive (`Tests`), for each place
  where an open task may be. A task's age, the tests it can have fooled so far, goes up
  with its tries (`Start`, `Tried`, `Limit`). It may fool a test when the
  cache has its result ready, when the parser takes it up, and when the handler ends;
  two of these each time a handler is called, one each time the cache is asked. What a
  handler yields is as old as the chain before it. Moving a task on never makes it
  older than the tests there were (`Onward`, `Moved`).
- `Over`: it has stopped without being told to, hence nothing is open: `Tests` would
  have reached the countdown, which no age can.

Model-checked only is liveness under fairness (`ThreadsReleased`, `BothComplete`,
`CallsEnd`, `TimerEnds`, `SetupEnds`, `RoundsEnd`, `EndsOrHangs`), which the proof
system does not reach.

The theorems are stated for the specifications with their bounds (`MaxFired`,
`MaxListeners`, `MaxChanges`, `MaxEvents`, `MaxTime`, `MaxClock`, `MaxCalls`,
`MaxAsked`, `MaxSteps`, `MaxRestarts`, `MaxTicks`), whatever these are.

## Not modelled

- *Bus, loop*: cancellation of and exceptions in what `run_coroutine_threadsafe`
  waits for; event data and origin.
- *Event helpers*: filters by entity and the trackers of sunrise, sunset and
  patterns of the clock; they decide when the same kind of listener acts.
- *Set-up*: the lock around pip, the warnings about slow set-up,
  `async_prepare_setup_platform`; what bootstrap does before its first stage.
- *Config entries*: unloading a removed entry; a write that is cut off in the middle
  (`save_json` is not atomic).
- *Entities*: setting a platform up, with its retries, `update_before_add`,
  disabled entries, the registry's own file; two resets of a platform at a time.
- *Spider*: what `run()` clears up after its loop, KeyboardInterrupt; `only_cache`,
  with which a task that is not in the cache is dropped (`base.py` 853-854), and
  invalid URLs, with which it is dropped too; a cache back end that raises in
  `thread_worker`, which loses a task and ends the thread; the threaded transport,
  processes instead of threads, data items and their handlers, fallback handlers (and
  what they raise), scheduled tasks, proxies, the size limit of the cache pipeline's
  queues, and the generator waiting for the queue to shrink.
- *The recorder*: its difficulty is in the transaction and its retries, hence in
  SQLAlchemy and the database.
- *Automation, conditions, templates, dispatcher, remote API, utilities*: thin
  layers over what is modelled, or data.
- *The other projects*: sequential processing of text, requests or arrays, or I/O;
  they have little state that more than one actor changes.
