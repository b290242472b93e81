--------------------------- MODULE ConfigEntries ---------------------------
(***************************************************************************)
(* Config entries and the flows that make them, homeassistant/             *)
(* config_entries.py, on top of component set-up.  The steps of a flow may *)
(* overlap; an entry is set up when it is added or when its component is;  *)
(* the list is written to a file a second after it changed, and is all     *)
(* that is left after a restart.                                           *)
(***************************************************************************)
EXTENDS Setup, SequencesExt

CONSTANTS
  MaxSteps,    \* bound: flow steps
  MaxRestarts  \* bound: restarts

ASSUME EntryConstants == MaxSteps \in Nat /\ MaxRestarts \in Nat

VARIABLES
  progress,   \* FlowManager._progress
  steps,      \* for each flow the handler coroutines in flight
  entries,    \* ConfigEntries._entries
  setting,    \* entries that _async_add_entry itself is setting up
  sched,      \* is a save scheduled?
  writes,     \* save_json jobs in the executor, the oldest first: what each will
              \* write; and, as history, whether a newer one has ended already
  file,       \* .config_entries.json
  setups,     \* history: how often each entry was set up since the start
  over,       \* history: flows that were finished or aborted
  last,       \* history: did the last write end well, after a newer one, or fail?
  taken,      \* bound: steps taken
  restarts    \* bound: restarts

entryVars == <<progress, steps, entries, setting, setups, over, taken>>
saveVars == <<sched, writes, file, last>>
vars == <<setupVars, entryVars, saveVars, restarts>>

begun == {f \in Flows : f \in progress \/ steps[f] > 0 \/ f \in over}

(* async_init: a handler that is not registered yet is loaded, and its     *)
(* dependencies are set up first; then the first step.                     *)
FirstStep(f) ==
  /\ taken < MaxSteps /\ f \notin begun
  /\ taken' = taken + 1
  /\ progress' = progress \cup {f}
  /\ steps' = [steps EXCEPT ![f] = 1]
  /\ UNCHANGED <<entries, setting, setups, over>>

async_init(f) ==
  /\ \A i \in DOMAIN jobs : jobs[i].flow # f
  /\ \/ FirstStep(f) /\ UNCHANGED setupVars
     \/ /\ taken < MaxSteps /\ f \notin begun
        /\ jobs' = Append(jobs, Job(FlowDomain[f], f))
        /\ UNCHANGED <<deps, components, setup_tasks, processed, calls, asked, entryVars>>
  /\ UNCHANGED <<saveVars, restarts>>

InitReady(i) ==
  /\ jobs[i].at = "setup" /\ jobs[i].flow # Nobody
  /\ FirstStep(jobs[i].flow)
  /\ Put(i, "done")
  /\ UNCHANGED <<deps, components, setup_tasks, processed, calls, asked, saveVars, restarts>>

(* async_configure: another step, though one may be in flight.             *)
async_configure(f) ==
  /\ f \in progress /\ taken < MaxSteps
  /\ taken' = taken + 1
  /\ steps' = [steps EXCEPT ![f] = @ + 1]
  /\ UNCHANGED <<setupVars, progress, entries, setting, setups, over, saveVars, restarts>>

(* (Mutant: a flow that is gone already is no error.)                      *)
pop_Default(f) == progress' = progress \ {f} /\ over' = over \cup {f}

(* self._progress.pop(flow_id): KeyError if it is gone.                    *)
pop(f) == f \in progress /\ pop_Default(f)

async_abort(f) ==
  /\ pop(f)
  /\ UNCHANGED <<setupVars, steps, entries, setting, setups, taken, saveVars, restarts>>

(* (Mutant: the data are taken from the list when the save is scheduled.)  *)
_async_schedule_save_Early ==
  /\ sched' = FALSE /\ writes' = Append(writes, [list |-> entries, late |-> FALSE])
  /\ UNCHANGED <<file, last>>

_async_schedule_save == sched' = TRUE /\ UNCHANGED <<writes, file, last>>

(* (Mutant: the entry is set up at once, its component asked for besides.) *)
_async_add_entry_Both(f) ==
  /\ entries' = Append(entries, f)
  /\ _async_schedule_save
  /\ setting' = setting \cup {f}
  /\ calls' = calls \cup {Call(<<"flow", f>>, FlowDomain[f])}
  /\ UNCHANGED <<deps, components, setup_tasks, processed, jobs, asked>>

(* An entry is set up here if its component is there, and else with it.    *)
_async_add_entry(f) ==
  /\ entries' = Append(entries, f)
  /\ _async_schedule_save
  /\ IF FlowDomain[f] \in components
       THEN setting' = setting \cup {f} /\ UNCHANGED setupVars
       ELSE /\ calls' = calls \cup {Call(<<"flow", f>>, FlowDomain[f])}
            /\ UNCHANGED <<deps, components, setup_tasks, processed, jobs, asked, setting>>

(* _async_handle_step after its await: a form, an error, an abort, or an   *)
(* entry.                                                                  *)
StepResult(f) ==
  /\ steps[f] > 0
  /\ steps' = [steps EXCEPT ![f] = @ - 1]
  /\ \/ /\ UNCHANGED <<setupVars, progress, entries, setting, setups, over, saveVars>>
     \/ /\ pop(f)
        /\ UNCHANGED <<setupVars, entries, setting, setups, saveVars>>
     \/ /\ pop(f)
        /\ _async_add_entry(f) /\ UNCHANGED setups
  /\ UNCHANGED <<taken, restarts>>

(* ConfigEntry.async_setup ends, well or not, for an entry that was added, *)
(* or for the next one of a component that is being set up.                *)
EntryAdded(e) ==
  /\ e \in setting
  /\ setting' = setting \ {e}
  /\ setups' = [setups EXCEPT ![e] = @ + 1]
  /\ UNCHANGED <<setupVars, progress, steps, entries, over, taken, saveVars, restarts>>

EntryLoaded(i) ==
  /\ jobs[i].at = "entries"
  /\ \E e \in jobs[i].left :
       /\ jobs' = [jobs EXCEPT ![i].left = @ \ {e}]
       /\ setups' = [setups EXCEPT ![e] = @ + 1]
  /\ UNCHANGED <<deps, components, setup_tasks, processed, calls, asked,
                 progress, steps, entries, setting, over, taken, saveVars, restarts>>

async_remove(k) ==
  /\ k \in DOMAIN entries
  /\ entries' = RemoveAt(entries, k)
  /\ _async_schedule_save
  /\ UNCHANGED <<setupVars, progress, steps, setting, setups, over, taken, restarts>>

(* The delay is over: _async_save takes the list as it is now.             *)
_async_save ==
  /\ sched /\ sched' = FALSE
  /\ writes' = Append(writes, [list |-> entries, late |-> FALSE])
  /\ UNCHANGED <<setupVars, entryVars, file, last, restarts>>

(* A job writes its list, or cannot open the file.  Jobs end in any order. *)
save_json(k) ==
  /\ k \in DOMAIN writes
  /\ \/ file' = writes[k].list /\ last' = IF writes[k].late THEN "late" ELSE "well"
     \/ file' = file /\ last' = "failed"
  /\ writes' = RemoveAt([i \in DOMAIN writes |->
                          [writes[i] EXCEPT !.late = @ \/ i < k]], k)
  /\ UNCHANGED <<setupVars, entryVars, sched, restarts>>

(* The process ends, not within a write, and starts anew: async_load reads *)
(* the file, and bootstrap asks for the domains that have entries.         *)
Restart ==
  /\ restarts < MaxRestarts /\ restarts' = restarts + 1 /\ writes = <<>>
  /\ entries' = file
  /\ calls' = {Call(<<"outside", FlowDomain[e]>>, FlowDomain[e]) : e \in Range(file)}
  /\ components' = {} /\ processed' = {} /\ jobs' = <<>>
  /\ setup_tasks' = [d \in Domains |-> 0]
  /\ progress' = {} /\ steps' = [f \in Flows |-> 0] /\ setting' = {}
  /\ setups' = [f \in Flows |-> 0]
  /\ sched' = FALSE /\ last' = "well"
  /\ UNCHANGED <<deps, asked, over, taken, writes, file>>

Init ==
  /\ SetupInit
  /\ progress = {} /\ steps = [f \in Flows |-> 0] /\ entries = <<>> /\ setting = {}
  /\ sched = FALSE /\ writes = <<>> /\ file = <<>> /\ setups = [f \in Flows |-> 0]
  /\ over = {} /\ last = "well" /\ taken = 0 /\ restarts = 0

Setting == SetupStep(Range(entries)) /\ UNCHANGED <<entryVars, saveVars, restarts>>
Entering == (\E f \in Flows : EntryAdded(f)) \/ \E i \in DOMAIN jobs : EntryLoaded(i) \/ InitReady(i)

Next ==
  \/ Setting \/ Entering \/ _async_save \/ Restart
  \/ \E d \in Domains : Ask(d) /\ UNCHANGED <<entryVars, saveVars, restarts>>
  \/ \E f \in Flows : async_init(f) \/ async_configure(f) \/ async_abort(f) \/ StepResult(f)
  \/ \E k \in DOMAIN entries : async_remove(k)
  \/ \E k \in DOMAIN writes : save_json(k)

(* The loop runs what is ready, the executor ends, and the set-up of a     *)
(* component or of an entry returns, however slow it is.                   *)
Spec == Init /\ [][Next]_vars /\ WF_vars(Setting) /\ WF_vars(Entering)

-----------------------------------------------------------------------------
Write == [list : Seq(Flows), late : BOOLEAN]

TypeOK ==
  /\ SetupTypeOK
  /\ progress \subseteq Flows /\ setting \subseteq Flows /\ over \subseteq Flows
  /\ steps \in [Flows -> 0..MaxSteps] /\ setups \in [Flows -> Nat]
  /\ entries \in Seq(Flows) /\ file \in Seq(Flows) /\ writes \in Seq(Write)
  /\ sched \in BOOLEAN /\ last \in {"well", "late", "failed"}

(* A flow that has made an entry or was aborted makes no entry any more,   *)
(* though steps of it were in flight then and end with one.                *)
OneEntryPerFlow ==
  [][Len(entries') > Len(entries) /\ UNCHANGED restarts => Last(entries') \notin over]_vars

(* An entry is not set up twice, by the task that added it and by its      *)
(* component, however the two meet.                                        *)
EntryOnce == \A e \in Flows : setups[e] + (IF e \in setting THEN 1 ELSE 0) <= 1

(* When no save is scheduled or under way, a restart loses nothing, though *)
(* writes met in the executor -- if the last one to end did not fail, and  *)
(* was not overtaken by a newer one.                                       *)
FileCurrent == ~sched /\ writes = <<>> /\ last = "well" => file = entries

(* And if it was overtaken?  The code does not wait for the write before.  *)
NothingLost == ~sched /\ writes = <<>> /\ last # "failed" => file = entries

(* "Setting up component will also load the entries": an entry of a        *)
(* component that is there, added and left in peace, has been set up.  Not *)
(* so: one added while the component goes through the list it took before. *)
EntriesSetUp ==
  \A e \in Range(entries) :
    /\ FlowDomain[e] \in components /\ e \notin setting
    /\ \A c \in calls : c.by = <<"flow", e>> => c.answer # "none"
    => setups[e] > 0
=============================================================================
