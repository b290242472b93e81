------------------------------- MODULE Spider -------------------------------
(***************************************************************************)
(* The spider of grab: the main loop of base.py with the multicurl         *)
(* transport inside it, and around it three threads: the parser that calls *)
(* the handlers, the task generator, and the cache pipeline.  They hand    *)
(* each other tasks through queues; the loop stops after the shutdown test *)
(* has found all of them empty and idle Countdown times running, looking   *)
(* at one after the other while the parser goes on; or before that, when   *)
(* stop() has been called or a handler raised an error that ends the run.  *)
(* The model ends where the loop does.                                     *)
(***************************************************************************)
EXTENDS Naturals, Sequences, SequencesExt, FiniteSets

CONSTANTS
  Tasks,            \* the tasks there may be
  Generators,       \* the sequences of tasks that task_generator may yield
  Children,         \* [Tasks -> SUBSET Tasks]: what a task's handler yields
  Threads,          \* thread_number: the transport's slots
  ResultLimit,      \* network_result_queue_limit
  NetworkTryLimit,  \* network_try_limit
  TaskTryLimit,     \* task_try_limit
  Countdown         \* shutdown_countdown; the code has 10

None == "none"

ASSUME SpiderConstants ==
  /\ None \notin Tasks
  /\ Generators \subseteq Seq(Tasks) /\ Children \in [Tasks -> SUBSET Tasks]
  /\ {Threads, ResultLimit, Countdown} \subseteq Nat \ {0}
  /\ {NetworkTryLimit, TaskTryLimit} \subseteq Nat

(* Whoever yields a task makes it: no generator and no handler yields one  *)
(* twice, or one that another yields.                                      *)
ASSUME NewTasks ==
  /\ \A g \in Generators : \A i \in DOMAIN g :
       /\ \A j \in DOMAIN g : g[i] = g[j] => i = j
       /\ \A t \in Tasks : g[i] \notin Children[t]
  /\ \A t \in Tasks :
       /\ IsFiniteSet(Children[t])
       /\ \A u \in Tasks : u # t => Children[t] \cap Children[u] = {}

VARIABLES
  cache,      \* is there a cache pipeline? fixed by setup_cache
  pc,         \* where the main thread is in run()
  countdown,  \* shutdown_countdown
  tries,      \* network_try_count and task_try_count of each task
  refresh,    \* tasks whose refresh_cache is set
  queue,      \* task_queue: any order, priorities are random
  pending,    \* pending_tasks
  active,     \* tasks that have a curl handle
  results,    \* the results of this round
  network,    \* network_result_queue
  parser,     \* the parser thread: where it is, and with which task
  parsed,     \* parser_result_queue
  gen,        \* the generator thread: where it is, what is left, its events
  loads,      \* CachePipeline.input_queue
  loaded,     \* CachePipeline.result_queue
  cacher,     \* the cache thread: where it is, and its event is_paused
  told,       \* was the run told to end, by stop() or an error nobody handles?
  given,      \* history: every task that was ever added
  ended,      \* history: tasks whose handler ended, or given up
  moved,      \* history: was a task moved since the loop took what the cache had ready?
  fooled      \* history: the last tests, in a row, that were positive though one was

vars == <<cache, pc, countdown, tries, refresh, queue, pending, active, results, network,
          parser, parsed, gen, loads, loaded, cacher, told, given, ended, moved, fooled>>

mainVars == <<pc, countdown, tries, refresh, pending, active, results, told, fooled>>
testVars == <<moved, fooled>>
genVars == <<gen>>
cacheVars == <<loads, loaded, cacher>>

(* The item by which a handler's exception reaches the loop; the task it   *)
(* names is for the log.                                                   *)
Raised == [task |-> None, clone |-> FALSE]

IsParserIdle == parser.at = "sleep"
Alive == gen.at # "dead"
Free == Cardinality(active) < Threads /\ Len(network) < ResultLimit

-----------------------------------------------------------------------------
(* The main loop.                                                          *)

(* (Mutant: the count is taken after the check.)                           *)
check_task_limits_Late(t) ==
  tries[t].task <= TaskTryLimit /\ tries[t].network <= NetworkTryLimit

check_task_limits(t) ==
  tries[t].task <= TaskTryLimit /\ tries[t].network + 1 <= NetworkTryLimit

(* A task in hand: count the try, check the limits, look into the cache or *)
(* go to the network.                                                      *)
Accept(t) ==
  /\ tries' = [tries EXCEPT ![t].network = @ + 1]
  /\ IF check_task_limits(t)
       THEN /\ IF cache
                 THEN loads' = Append(loads, [do |-> "load", task |-> t]) /\ UNCHANGED active
                 ELSE active' = active \cup {t} /\ UNCHANGED loads
            /\ UNCHANGED ended
       ELSE ended' = ended \cup {t} /\ UNCHANGED <<active, loads>>

TakeTask ==
  /\ pc = "top" /\ ~told
  /\ \/ ~Free /\ pc' = "work" /\ UNCHANGED <<tries, queue, pending, active, loads, ended>>
     \/ /\ Free /\ pending # <<>>
        /\ Accept(Head(pending))
        /\ pending' = Tail(pending) /\ pc' = "work" /\ UNCHANGED queue
     \/ /\ Free /\ pending = <<>>
        /\ \E t \in queue : Accept(t) /\ queue' = queue \ {t}
        /\ pc' = "work" /\ UNCHANGED pending
     \/ /\ Free /\ pending = <<>> /\ queue = {}
        /\ pc' = "size" /\ UNCHANGED <<tries, queue, pending, active, loads, ended>>
  /\ UNCHANGED <<cache, countdown, refresh, results, network, parser, parsed, gen, loaded, cacher,
                 told, given, testVars>>

(* work_allowed is looked at once in a round of the loop.                  *)
LoopEnds ==
  /\ pc = "top" /\ told
  /\ pc' = "stopped"
  /\ UNCHANGED <<cache, countdown, tries, refresh, queue, pending, active, results, network,
                 parser, parsed, genVars, cacheVars, told, given, ended, testVars>>

(* get_task_from_queue after Empty: another thread may have put something. *)
QueueSize ==
  /\ pc = "size"
  /\ pc' = IF queue # {} THEN "work" ELSE "pause"
  /\ UNCHANGED <<cache, countdown, tries, refresh, queue, pending, active, results, network,
                 parser, parsed, genVars, cacheVars, told, given, ended, testVars>>

(* is_ready_to_shutdown: pause the cache and wait, pause a generator that  *)
(* is alive and wait, read the conditions one by one, resume both.         *)
Check(at, next) ==
  /\ pc = at /\ pc' = next
  /\ UNCHANGED <<cache, tries, refresh, queue, pending, active, results, network, parser, parsed,
                 loaded, told, given, ended, moved>>

CheckPause ==
  \/ /\ Check("pause", IF cache THEN "cache" ELSE "alive")
     /\ loads' = IF cache THEN Append(loads, [do |-> "pause", task |-> None]) ELSE loads
     /\ UNCHANGED <<countdown, fooled, gen, cacher>>
  \/ /\ cacher.paused
     /\ Check("cache", "alive")
     /\ UNCHANGED <<countdown, fooled, gen, loads, cacher>>
  \/ /\ Check("alive", IF Alive THEN "generator" ELSE "parsed")
     /\ gen' = [gen EXCEPT !.paused = Alive]
     /\ UNCHANGED <<countdown, fooled, loads, cacher>>
  \/ /\ gen.held
     /\ Check("generator", "parsed")
     /\ UNCHANGED <<countdown, fooled, gen, loads, cacher>>

CheckRead ==
  /\ \/ Check("parsed", IF parsed = <<>> THEN "idle" ELSE "no")
     \/ Check("idle", IF IsParserIdle THEN "rest" ELSE "no")
     \/ Check("rest", IF /\ ~Alive /\ active = {} /\ queue = {} /\ network = <<>>
                         /\ cache => loads = <<>>
                      THEN "yes" ELSE "no")
  /\ UNCHANGED <<countdown, fooled, gen, loads, cacher>>

(* The history counts a positive test during whose round a task moved.     *)
CountFooled == fooled' = IF pc = "yes" /\ moved THEN fooled + 1 ELSE 0

(* (Mutant: the test need not be positive several times running.)          *)
CheckEnd_Once ==
  /\ \/ pc = "yes" /\ Check("yes", "stopped")
     \/ pc = "no" /\ Check("no", IF Alive THEN "resume" ELSE "work")
  /\ countdown' = Countdown
  /\ gen' = [gen EXCEPT !.paused = FALSE]
  /\ cacher' = [cacher EXCEPT !.paused = FALSE]
  /\ CountFooled /\ UNCHANGED loads

(* (Mutant: a failed test does not resume what it has paused.)             *)
CheckEnd_NoResume ==
  /\ \/ /\ Check("yes", IF countdown = 1 THEN "stopped" ELSE "work")
        /\ countdown' = countdown - 1
        /\ gen' = [gen EXCEPT !.paused = FALSE]
        /\ cacher' = [cacher EXCEPT !.paused = FALSE]
     \/ /\ Check("no", "work")
        /\ countdown' = Countdown
        /\ UNCHANGED <<gen, cacher>>
  /\ CountFooled /\ UNCHANGED loads

CheckEnd ==
  /\ \/ /\ Check("yes", IF countdown = 1 THEN "stopped" ELSE "work")
        /\ countdown' = countdown - 1
     \/ /\ Check("no", IF Alive THEN "resume" ELSE "work")
        /\ countdown' = Countdown
  /\ gen' = [gen EXCEPT !.paused = FALSE]
  /\ cacher' = [cacher EXCEPT !.paused = FALSE]
  /\ CountFooled /\ UNCHANGED loads

(* TaskGeneratorWrapperThread.resume waits until the thread has noticed.   *)
CheckResumed ==
  /\ ~gen.held
  /\ Check("resume", "work")
  /\ UNCHANGED <<countdown, fooled, gen, loads, cacher>>

(* The results of a round: first what the transport has finished (any of   *)
(* it), then what the cache has ready; a task that was not in the cache    *)
(* goes to the network or waits for a slot.  Only then are the results     *)
(* looked at.                                                              *)
Collect(t) ==
  /\ pc = "work" /\ t \in active
  /\ active' = active \ {t}
  /\ results' = Append(results, [task |-> t, cached |-> FALSE])
  /\ UNCHANGED <<cache, pc, countdown, tries, refresh, queue, pending, network, parser, parsed,
                 genVars, cacheVars, told, given, ended, testVars>>

CollectLoaded ==
  /\ pc \in {"work", "loaded"} /\ loaded # <<>>
  /\ pc' = "loaded"
  /\ LET r == Head(loaded)
     IN \/ /\ r.do = "network_result"
           /\ results' = Append(results, [task |-> r.task, cached |-> TRUE])
           /\ UNCHANGED <<active, pending>>
        \/ /\ r.do = "task" /\ Free
           /\ active' = active \cup {r.task} /\ UNCHANGED <<results, pending>>
        \/ /\ r.do = "task" /\ ~Free
           /\ pending' = Append(pending, r.task) /\ UNCHANGED <<results, active>>
  /\ loaded' = Tail(loaded)
  /\ UNCHANGED <<cache, countdown, tries, refresh, queue, network, parser, parsed, gen, loads,
                 cacher, told, given, ended, testVars>>

(* A result is valid and goes to the parser; or it is not and its task     *)
(* goes back to the queue, not to be loaded from the cache.  (The code     *)
(* asks whether there is a limit at all; but a limit of 0 lets no task     *)
(* come this far.)                                                         *)
Valid(t) == network' = Append(network, t) /\ UNCHANGED <<queue, refresh>>
TryAgain(t) ==
  queue' = queue \cup {t} /\ refresh' = refresh \cup {t} /\ UNCHANGED network

(* (Mutant: a failed request is logged and not tried again.)               *)
Processed_NoRetry(t) == Valid(t) \/ UNCHANGED <<network, queue, refresh>>

Processed(t) == Valid(t) \/ TryAgain(t)

(* The cache has nothing ready: the history counts what moves from here on. *)
NoneReady == moved' = (pc = "results" /\ moved)

(* What the network got is saved, valid or not, unless it got nothing.     *)
ProcessResult ==
  /\ pc \in {"work", "loaded", "results"} /\ results # <<>>
  /\ pc = "results" \/ loaded = <<>>
  /\ pc' = "results"
  /\ LET r == Head(results)
     IN \/ /\ Processed(r.task)
           /\ loads' = IF cache /\ ~r.cached
                         THEN Append(loads, [do |-> "save", task |-> r.task]) ELSE loads
        \/ ~r.cached /\ TryAgain(r.task) /\ UNCHANGED loads
  /\ results' = Tail(results)
  /\ NoneReady
  /\ UNCHANGED <<cache, countdown, tries, pending, active, parser, parsed, gen, loaded, cacher,
                 told, given, ended, fooled>>

RoundEnds ==
  /\ pc \in {"work", "loaded", "results"} /\ results = <<>>
  /\ pc = "results" \/ loaded = <<>>
  /\ pc' = "drain"
  /\ NoneReady
  /\ UNCHANGED <<cache, countdown, tries, refresh, queue, pending, active, results, network,
                 parser, parsed, genVars, cacheVars, told, given, ended, fooled>>

(* process_handler_result: a new task is added; ResponseNotValid adds a    *)
(* clone of the task; any other exception is logged, or raised again: a    *)
(* FatalError, or that of a task that has no handler.  That ends run().    *)
AddMade(r) ==
  /\ queue' = queue \cup {r.task}
  /\ IF r.clone
       THEN /\ tries' = [tries EXCEPT ![r.task] = [network |-> 0, task |-> @.task + 1]]
            /\ refresh' = refresh \cup {r.task}
       ELSE UNCHANGED <<tries, refresh>>
  /\ UNCHANGED <<pc, told>>

ProcessHandlerResult ==
  /\ pc = "drain"
  /\ \/ /\ parsed = <<>>
        /\ pc' = "top" /\ UNCHANGED <<queue, parsed, tries, refresh, told>>
     \/ /\ parsed # <<>> /\ parsed' = Tail(parsed)
        /\ \/ Head(parsed) # Raised /\ AddMade(Head(parsed))
           \/ Head(parsed) = Raised /\ UNCHANGED <<pc, queue, tries, refresh, told>>
           \/ /\ Head(parsed) = Raised
              /\ pc' = "stopped" /\ told' = TRUE /\ UNCHANGED <<queue, tries, refresh>>
  /\ UNCHANGED <<cache, countdown, pending, active, results, network, parser, genVars, cacheVars,
                 given, ended, testVars>>

Main ==
  \/ TakeTask \/ LoopEnds \/ QueueSize \/ CheckPause \/ CheckRead \/ CheckEnd \/ CheckResumed
  \/ CollectLoaded \/ ProcessResult \/ RoundEnds \/ ProcessHandlerResult

(* The public stop(), from wherever it is called.                          *)
stop ==
  /\ pc # "stopped" /\ ~told
  /\ told' = TRUE
  /\ UNCHANGED <<cache, pc, countdown, tries, refresh, queue, pending, active, results, network,
                 parser, parsed, genVars, cacheVars, given, ended, testVars>>

-----------------------------------------------------------------------------
(* run_parser.  is_parser_idle is set just while it sleeps.                *)

ParserGet ==
  /\ parser.at = "get"
  /\ IF network = <<>>
       THEN parser' = [parser EXCEPT !.at = "sleep"] /\ UNCHANGED <<network, moved>>
       ELSE /\ parser' = [at |-> "handle", task |-> Head(network)]
            /\ network' = Tail(network) /\ moved' = TRUE
  /\ UNCHANGED <<parsed, given, ended>>

ParserWakes ==
  /\ parser.at = "sleep"
  /\ parser' = [parser EXCEPT !.at = IF pc = "stopped" THEN "gone" ELSE "get"]
  /\ UNCHANGED <<network, parsed, given, ended, moved>>

(* The handler yields its tasks, or some of them before it raises an       *)
(* exception; or it raises ResponseNotValid at once.                       *)
ParserHandles ==
  /\ parser.at = "handle"
  /\ parser' = [at |-> "get", task |-> None]
  /\ \/ \E T \in SUBSET Children[parser.task], e \in {<<>>, <<Raised>>} :
          /\ parsed' = parsed \o (SetToSeq({[task |-> t, clone |-> FALSE] : t \in T}) \o e)
          /\ given' = given \cup T
          /\ ended' = ended \cup {parser.task}
     \/ /\ parsed' = Append(parsed, [task |-> parser.task, clone |-> TRUE])
        /\ UNCHANGED <<given, ended>>
  /\ moved' = TRUE
  /\ UNCHANGED network

Parser ==
  /\ ParserGet \/ ParserWakes \/ ParserHandles
  /\ UNCHANGED <<cache, mainVars, queue, genVars, cacheVars>>

(* TaskGeneratorWrapperThread.run: between looking at is_paused and the    *)
(* end of the generator there is no further look.                          *)
Generator ==
  /\ \/ /\ gen.at = "top"
        /\ gen' = IF gen.paused THEN [gen EXCEPT !.at = "held", !.held = TRUE]
                  ELSE [gen EXCEPT !.at = "look"]
        /\ UNCHANGED <<queue, given>>
     \/ /\ gen.at = "held" /\ ~gen.paused
        /\ gen' = [gen EXCEPT !.at = "look", !.held = FALSE]
        /\ UNCHANGED <<queue, given>>
     \/ /\ gen.at = "look"
        /\ gen' = [gen EXCEPT !.at = IF gen.paused THEN "top" ELSE "next"]
        /\ UNCHANGED <<queue, given>>
     \/ /\ gen.at = "next" /\ gen.left # <<>>
        /\ gen' = [gen EXCEPT !.at = "look", !.left = Tail(@)]
        /\ queue' = queue \cup {Head(gen.left)} /\ given' = given \cup {Head(gen.left)}
     \/ /\ gen.at = "next" /\ gen.left = <<>>
        /\ gen' = [gen EXCEPT !.at = "dead"]
        /\ UNCHANGED <<queue, given>>
  /\ UNCHANGED <<cache, mainVars, network, parser, parsed, cacheVars, ended, moved>>

(* CachePipeline.thread_worker.                                            *)
Cacher ==
  /\ \/ /\ cacher.at = "get" /\ ~cacher.paused /\ loads # <<>>
        /\ cacher' = [cacher EXCEPT !.at = "work"]
        /\ UNCHANGED <<loads, loaded, moved>>
     \/ /\ cacher.at = "work"
        /\ loads' = Tail(loads)
        /\ LET r == Head(loads)
           IN /\ \/ r.do = "load" /\ loaded' = Append(loaded, [do |-> "task", task |-> r.task])
                 \/ /\ r.do = "load" /\ r.task \notin refresh
                    /\ loaded' = Append(loaded, [do |-> "network_result", task |-> r.task])
                 \/ r.do \in {"save", "pause"} /\ UNCHANGED loaded
              /\ cacher' = [at |-> "get", paused |-> r.do = "pause"]
              /\ moved' = (moved \/ r.do = "load")
  /\ UNCHANGED <<cache, mainVars, queue, network, parser, parsed, genVars, given, ended>>

-----------------------------------------------------------------------------
Init ==
  /\ cache \in BOOLEAN
  /\ pc = "top" /\ countdown = Countdown
  /\ tries = [t \in Tasks |-> [network |-> 0, task |-> 1]]
  /\ refresh = {} /\ queue = {} /\ pending = <<>> /\ active = {}
  /\ results = <<>> /\ network = <<>>
  /\ parser = [at |-> "get", task |-> None] /\ parsed = <<>>
  /\ gen \in [at : {"top"}, left : Generators, paused : {FALSE}, held : {FALSE}]
  /\ loads = <<>> /\ loaded = <<>> /\ cacher = [at |-> "get", paused |-> FALSE]
  /\ told = FALSE /\ given = {} /\ ended = {} /\ moved = FALSE /\ fooled = 0

Next == Main \/ stop \/ (\E t \in Tasks : Collect(t)) \/ Parser \/ Generator \/ Cacher

(* Every thread runs, handlers return, and a request ends, in its time     *)
(* limit at the latest, so that the loop will collect it.  The generator   *)
(* will look at is_paused between two tests some time: the loop does a     *)
(* round of the transport in between.                                      *)
Spec ==
  /\ Init /\ [][Next]_vars
  /\ WF_vars(Main) /\ WF_vars(Parser) /\ WF_vars(Generator) /\ WF_vars(Cacher)
  /\ SF_vars(Generator /\ gen'.at = "next")
  /\ SF_vars(\E t \in Tasks : Collect(t))

-----------------------------------------------------------------------------
(* What the queues hold.                                                   *)
Result == [task : Tasks, cached : BOOLEAN]
Made == [task : Tasks, clone : BOOLEAN] \cup {Raised}
Order == [do : {"load", "save"}, task : Tasks] \cup [do : {"pause"}, task : {None}]
Found == [do : {"task", "network_result"}, task : Tasks]

(* Of how the run ends, and of the histories.                              *)
EndTypes == told \in BOOLEAN /\ moved \in BOOLEAN /\ fooled \in Nat

(* Types; the network tries of a task never go beyond the one that is      *)
(* refused, wherever it waited in between.                                 *)
TypeOK ==
  /\ cache \in BOOLEAN /\ countdown \in 0..Countdown
  /\ pc \in {"top", "size", "pause", "cache", "alive", "generator", "parsed", "idle", "rest",
             "yes", "no", "resume", "work", "loaded", "results", "drain", "stopped"}
  /\ tries \in [Tasks -> [network : 0..(NetworkTryLimit + 1), task : 1..(TaskTryLimit + 1)]]
  /\ queue \subseteq Tasks /\ active \subseteq Tasks /\ refresh \subseteq Tasks
  /\ Cardinality(active) <= Threads
  /\ results \in Seq(Result)
  /\ pending \in Seq(Tasks) /\ network \in Seq(Tasks)
  /\ parser \in [at : {"get", "sleep", "gone"}, task : {None}]
                \cup [at : {"handle"}, task : Tasks]
  /\ parsed \in Seq(Made)
  /\ gen \in [at : {"top", "held", "look", "next", "dead"}, left : Seq(Tasks),
              paused : BOOLEAN, held : BOOLEAN]
  /\ loads \in Seq(Order) /\ loaded \in Seq(Found)
  /\ cacher \in [at : {"get", "work"}, paused : BOOLEAN]
  /\ given \subseteq Tasks /\ ended \subseteq given
  /\ EndTypes

HowOften(s, e) == Cardinality({i \in DOMAIN s : s[i] = e})
Has(S, t) == IF t \in S THEN 1 ELSE 0

(* In how many hands a task is.                                            *)
Hands(t) ==
  Has(queue, t) + Has(active, t) + HowOften(pending, t) + HowOften(network, t)
    + Cardinality({i \in DOMAIN results : results[i].task = t})
    + Has({parser.task}, t) + HowOften(loads, [do |-> "load", task |-> t])
    + Cardinality({i \in DOMAIN loaded : loaded[i].task = t})
    + Cardinality({i \in DOMAIN parsed : parsed[i].task = t})

(* No thread drops a task or hands it to two: whatever has not ended is in *)
(* exactly one queue or one thread's hands, and what has ended in none.    *)
OneHand == \A t \in Tasks : Hands(t) = Has(given \ ended, t)

(* The spider keeps its promise: it does not stop while a task is open,    *)
(* unless it was told to; or unless, in the rounds of all the Countdown    *)
(* tests on end, the parser or the cache moved a task while the test       *)
(* looked elsewhere.  A single test can be fooled, and the countdown can   *)
(* only make that rarer.                                                   *)
Job == INSTANCE SpiderJob WITH open <- given \ ended, stopped <- pc = "stopped",
                               hectic <- fooled = Countdown
ImplementsJob == Job!Spec

(* What the countdown is there for: the loop does not end by itself while  *)
(* a task is open.  It depends on Countdown and on the limits on tries.    *)
NeverEarly == pc = "stopped" /\ ~told => given \subseteq ended

(* The spider stops, unless it waits for ever in the shutdown test for a   *)
(* generator thread to notice the pause, that ended after it was seen      *)
(* alive; or the test, again and again, falls into the moment in which the *)
(* parser, between two sleeps of 0.1 seconds, looks at its empty queue.    *)
Hangs == pc = "generator" /\ ~Alive /\ ~gen.held
Missed == pc = "idle" /\ ~IsParserIdle
EndsOrHangs == <>(pc = "stopped" \/ Hangs) \/ []<>Missed
=============================================================================
