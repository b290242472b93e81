--------------------------- MODULE ServiceRegistry ---------------------------
(***************************************************************************)
(* homeassistant/core.py, class ServiceRegistry: a remote procedure call   *)
(* made of events.  async_call fires CALL_SERVICE with a fresh call id; a  *)
(* listener of the registry looks the service up, runs its handler and     *)
(* fires SERVICE_EXECUTED with that id; a listener registered for the      *)
(* duration of the call recognises the id and resolves the call's future.  *)
(* A caller that blocks waits for the future at most SERVICE_CALL_LIMIT.   *)
(***************************************************************************)
EXTENDS EventLoop, FiniteSets

CONSTANTS
  Names,       \* services, by lower-case domain and name
  Handlers,    \* Service objects
  Kind,        \* [Handlers -> {"callback", "coroutine", "function"}]
  Calls,       \* call ids
  Name,        \* [Calls -> Names], the service each call is for
  Invalid,     \* the calls whose data the schema of the service refuses
  MaxChanges   \* bound: registrations and removals

ASSUME RegistryConstants ==
  /\ Kind \in [Handlers -> {"callback", "coroutine", "function"}]
  /\ Name \in [Calls -> Names]
  /\ Invalid \subseteq Calls
  /\ MaxChanges \in Nat

VARIABLES
  services,    \* ServiceRegistry._services
  subs,        \* listeners of CALL_SERVICE: _event_to_service_call, if any
  waiters,     \* listeners of SERVICE_EXECUTED, by the call they wait for
  caller,      \* "new", "waiting", "leaving", "returned" or "cancelled"
  fut,         \* the calls whose future has its result
  result,      \* what async_call returned: bool(done), once it has
  jobs,        \* what the loop and the executor still have to run
  begun,       \* history: the handler runs begun, as a count per call
  answered,    \* history: the calls that were executed, or refused
  executed,    \* history: the calls whose handler ran to its end
  changes      \* history: how often a service was registered or removed

vars == <<services, subs, waiters, caller, fut, result, jobs,
          begun, answered, executed, changes>>

NoHandler == "none"
InLoop(h) == Kind[h] # "function"

Job(stage, c, x, inLoop) == [stage |-> stage, call |-> c, x |-> x, loop |-> inLoop]

-----------------------------------------------------------------------------
(* Registering and removing services, from the event loop.                 *)

async_register(n, h) ==
  /\ changes < MaxChanges
  /\ services' = [services EXCEPT ![n] = h]
  /\ subs' = 1
  /\ changes' = changes + 1
  /\ UNCHANGED <<waiters, caller, fut, result, jobs, begun, answered, executed>>

async_remove(n) ==
  /\ changes < MaxChanges /\ services[n] # NoHandler
  /\ services' = [services EXCEPT ![n] = NoHandler]
  /\ changes' = changes + 1
  /\ UNCHANGED <<subs, waiters, caller, fut, result, jobs, begun, answered, executed>>

-----------------------------------------------------------------------------
(* The caller's side.                                                      *)

(* async_call, up to its await: listen, then fire CALL_SERVICE.            *)
async_call(c, blocking) ==
  /\ caller[c] = "new"
  /\ caller' = [caller EXCEPT ![c] = IF blocking THEN "waiting" ELSE "returned"]
  /\ waiters' = IF blocking THEN Append(waiters, c) ELSE waiters
  /\ jobs' = jobs \o [i \in 1..subs |-> Job("dispatch", c, NoHandler, TRUE)]
  /\ UNCHANGED <<services, subs, fut, result, begun, answered, executed, changes>>

(* (Mutant: asyncio.wait without its timeout.)                             *)
CallTimeout_Never(c) ==
  /\ caller[c] = "waiting" /\ c \in fut
  /\ caller' = [caller EXCEPT ![c] = "leaving"]
  /\ jobs' = Append(jobs, Job("resume", c, NoHandler, TRUE))
  /\ UNCHANGED <<services, subs, waiters, fut, result, begun, answered, executed, changes>>

(* SERVICE_CALL_LIMIT has passed: asyncio.wait gives up, and the caller's  *)
(* task is queued behind what is ready.                                    *)
CallTimeout(c) ==
  /\ caller[c] = "waiting"
  /\ caller' = [caller EXCEPT ![c] = "leaving"]
  /\ jobs' = Append(jobs, Job("resume", c, NoHandler, TRUE))
  /\ UNCHANGED <<services, subs, waiters, fut, result, begun, answered, executed, changes>>

(* The task that awaits async_call is cancelled: unsub() is not reached.   *)
Cancel(c) ==
  /\ caller[c] \in {"waiting", "leaving"}
  /\ caller' = [caller EXCEPT ![c] = "cancelled"]
  /\ UNCHANGED <<services, subs, waiters, fut, result, jobs, begun, answered, executed, changes>>

(* service_executed of the waiter for call w; resolving its future queues  *)
(* the caller's task, if it still waits.                                   *)
RunExecuted(i) ==
  LET w == jobs[i].x
  IN /\ jobs[i].stage = "executed"
     /\ \/ /\ w # jobs[i].call
           /\ jobs' = Without(jobs, i)
           /\ UNCHANGED <<caller, fut>>
        \/ /\ w = jobs[i].call
           /\ fut' = fut \cup {w}
           /\ IF caller[w] = "waiting"
                THEN /\ caller' = [caller EXCEPT ![w] = "leaving"]
                     /\ jobs' = Append(Without(jobs, i), Job("resume", w, NoHandler, TRUE))
                ELSE jobs' = Without(jobs, i) /\ UNCHANGED caller
     /\ UNCHANGED <<services, subs, waiters, result, begun, answered, executed, changes>>

(* (Mutant: unsub() only where the call succeeded.)                        *)
RunResume_KeepOnTimeout(i) ==
  LET c == jobs[i].call
  IN /\ jobs[i].stage = "resume"
     /\ jobs' = Without(jobs, i)
     /\ caller' = [caller EXCEPT ![c] = "returned"]
     /\ result' = [result EXCEPT ![c] = IF c \in fut THEN "success" ELSE "failure"]
     /\ waiters' = IF c \in fut THEN RemoveFirst(waiters, c) ELSE waiters
     /\ UNCHANGED <<services, subs, fut, begun, answered, executed, changes>>

(* The rest of async_call: bool(done), unsub(), return.                    *)
RunResume(i) ==
  LET c == jobs[i].call
  IN /\ jobs[i].stage = "resume"
     /\ jobs' = Without(jobs, i)
     /\ \/ /\ caller[c] = "leaving"
           /\ caller' = [caller EXCEPT ![c] = "returned"]
           /\ result' = [result EXCEPT ![c] = IF c \in fut THEN "success" ELSE "failure"]
           /\ waiters' = RemoveFirst(waiters, c)
        \/ /\ caller[c] = "cancelled"
           /\ UNCHANGED <<caller, result, waiters>>
     /\ UNCHANGED <<services, subs, fut, begun, answered, executed, changes>>

-----------------------------------------------------------------------------
(* The registry's side: _event_to_service_call and what it starts.         *)

(* async_fire(SERVICE_EXECUTED): one job per listener at this moment.      *)
Answers(c) == [k \in 1..Len(waiters) |-> Job("executed", c, waiters[k], TRUE)]

(* fire_service_executed: from the loop for a handler of the loop, through *)
(* bus.fire and call_soon_threadsafe for a function.                       *)
FireExecuted(c, h) ==
  IF InLoop(h) THEN Answers(c) ELSE <<Job("fire", c, h, TRUE)>>

(* The handler of call c returns (and is reported) or raises (and is not). *)
Finish(c, h, rest) ==
  \/ /\ jobs' = rest \o FireExecuted(c, h)
     /\ answered' = answered \cup {c}
     /\ executed' = executed \cup {c}
  \/ /\ jobs' = rest
     /\ UNCHANGED <<answered, executed>>

(* (Mutant: what a function or coroutine started is not awaited.)          *)
RunDispatch_NoAwait(i) ==
  LET c == jobs[i].call
      h == services[Name[c]]
      rest == Without(jobs, i)
  IN /\ jobs[i].stage = "dispatch"
     /\ h # NoHandler
     /\ begun' = [begun EXCEPT ![c] = @ + 1]
     /\ jobs' = Append(rest, Job("handler", c, h, FALSE)) \o FireExecuted(c, h)
     /\ UNCHANGED <<services, subs, waiters, caller, fut, result, answered, executed, changes>>

RunDispatch(i) ==
  LET c == jobs[i].call
      h == services[Name[c]]
      rest == Without(jobs, i)
  IN /\ jobs[i].stage = "dispatch"
     /\ \/ /\ h = NoHandler
           /\ jobs' = rest
           /\ UNCHANGED <<begun, answered, executed>>
        \/ /\ h # NoHandler /\ c \in Invalid
           /\ jobs' = rest \o FireExecuted(c, h)
           /\ answered' = answered \cup {c}
           /\ UNCHANGED <<begun, executed>>
        \/ /\ h # NoHandler /\ c \notin Invalid
           /\ begun' = [begun EXCEPT ![c] = @ + 1]
           /\ \/ InLoop(h) /\ Finish(c, h, rest)
              \/ /\ Kind[h] # "callback"
                 /\ jobs' = Append(rest, Job("handler", c, h, FALSE))
                 /\ UNCHANGED <<answered, executed>>
     /\ UNCHANGED <<services, subs, waiters, caller, fut, result, changes>>

(* A function runs in the executor, or what a coroutine awaits has come.   *)
RunHandler(i) ==
  LET c == jobs[i].call
      h == jobs[i].x
      rest == Without(jobs, i)
  IN /\ jobs[i].stage = "handler"
     /\ IF InLoop(h) /\ ~jobs[i].loop
          THEN /\ jobs' = Append(rest, Job("handler", c, h, TRUE))
               /\ UNCHANGED <<answered, executed>>
          ELSE Finish(c, h, rest)
     /\ UNCHANGED <<services, subs, waiters, caller, fut, result, begun, changes>>

RunFire(i) ==
  /\ jobs[i].stage = "fire"
  /\ jobs' = Without(jobs, i) \o Answers(jobs[i].call)
  /\ UNCHANGED <<services, subs, waiters, caller, fut, result, begun, answered, executed, changes>>

RunJob(i) ==
  /\ Runnable(jobs, i)
  /\ RunDispatch(i) \/ RunHandler(i) \/ RunFire(i) \/ RunExecuted(i) \/ RunResume(i)

RunLoopJob == \E i \in DOMAIN jobs : jobs[i].loop /\ RunJob(i)
RunOtherJob == \E i \in DOMAIN jobs : ~jobs[i].loop /\ RunJob(i)

-----------------------------------------------------------------------------
Init ==
  /\ services = [n \in Names |-> NoHandler]
  /\ subs = 0
  /\ waiters = <<>>
  /\ caller = [c \in Calls |-> "new"]
  /\ fut = {}
  /\ result = [c \in Calls |-> "none"]
  /\ jobs = <<>>
  /\ begun = [c \in Calls |-> 0]
  /\ answered = {}
  /\ executed = {}
  /\ changes = 0

Next ==
  \/ \E n \in Names : async_remove(n) \/ \E h \in Handlers : async_register(n, h)
  \/ \E c \in Calls : \E blocking \in BOOLEAN : async_call(c, blocking)
  \/ \E c \in Calls : CallTimeout(c) \/ Cancel(c)
  \/ RunLoopJob
  \/ RunOtherJob

(* The loop runs what is ready and timers fire; handlers may never end.    *)
Spec == Init /\ [][Next]_vars /\ WF_vars(RunLoopJob)
             /\ \A c \in Calls : WF_vars(CallTimeout(c))

-----------------------------------------------------------------------------
Jobs ==
  [stage : {"dispatch", "resume", "handler", "fire", "executed"}, call : Calls,
   x : Handlers \cup Calls \cup {NoHandler}, loop : BOOLEAN]

TypeOK ==
  /\ services \in [Names -> Handlers \cup {NoHandler}]
  /\ subs \in {0, 1}
  /\ waiters \in Seq(Calls)
  /\ caller \in [Calls -> {"new", "waiting", "leaving", "returned", "cancelled"}]
  /\ fut \subseteq Calls
  /\ result \in [Calls -> {"none", "success", "failure"}]
  /\ jobs \in Seq(Jobs)
  /\ begun \in [Calls -> Nat]
  /\ executed \subseteq answered /\ answered \subseteq Calls
  /\ changes \in 0..MaxChanges

(* A call has one listener of SERVICE_EXECUTED while somebody waits for it *)
(* -- only a cancelled caller leaves its listener behind -- and its future *)
(* is resolved at most once (a second set_result raises InvalidStateError  *)
(* in the loop), whatever other calls are being answered.                  *)
OneListener ==
  \A c \in Calls :
    LET own == {i \in DOMAIN jobs : /\ jobs[i].stage = "executed"
                                    /\ jobs[i].call = c /\ jobs[i].x = c}
    IN /\ Cardinality({i \in DOMAIN waiters : waiters[i] = c})
            = IF caller[c] \in {"waiting", "leaving", "cancelled"} THEN 1 ELSE 0
       /\ Cardinality(own) <= IF c \in fut THEN 0 ELSE 1

(* Seen by its callers, the registry is the remote call of ServiceCall: at *)
(* most one run of a handler per call, and TRUE only for one's own answer. *)
Remote == INSTANCE ServiceCall WITH
  phase <- [c \in Calls |-> CASE caller[c] = "new" -> "new"
                              [] caller[c] \in {"waiting", "leaving"} -> "open"
                              [] OTHER -> "over"],
  runs <- begun,
  told <- result

ImplementsServiceCall == Remote!Spec

(* A blocking call comes to an end, though its handler may fail, hang or   *)
(* never be found.                                                         *)
CallsEnd == \A c \in Calls :
  caller[c] = "waiting" ~> caller[c] \in {"returned", "cancelled"}

(* "If blocking = True, will return boolean if service executed            *)
(* successfully within SERVICE_CALL_LIMIT."                                *)
TrueMeansExecuted == \A c \in Calls : result[c] = "success" => c \in executed
=============================================================================
