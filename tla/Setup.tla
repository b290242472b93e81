------------------------------- MODULE Setup -------------------------------
(***************************************************************************)
(* Component set-up, homeassistant/setup.py.  async_setup_component is a   *)
(* coroutine anybody may run; the work is done once, by a task that        *)
(* hass.data['setup_tasks'] remembers, and that runs the same coroutine    *)
(* for each of its dependencies and waits for all of them.  Config flows   *)
(* use async_process_deps_reqs too, so a job here belongs to either.       *)
(***************************************************************************)
EXTENDS Naturals, Sequences, Relation

CONSTANTS
  Domains,       \* the components there are
  Dependencies,  \* the possible DEPENDENCIES: a set of functions
  Flows,         \* config flows; each makes the config entry of its name
  FlowDomain,    \* the domain of each flow
  Nobody,        \* a job that is not a flow's
  MaxAsked       \* bound: calls from outside

ASSUME SetupConstants ==
  /\ Dependencies \subseteq [Domains -> SUBSET Domains]
  /\ FlowDomain \in [Flows -> Domains] /\ Nobody \notin Flows /\ MaxAsked \in Nat

VARIABLES
  deps,         \* DEPENDENCIES of the components as they are
  components,   \* hass.config.components
  setup_tasks,  \* for each domain the job in hass.data['setup_tasks'], or 0
  processed,    \* hass.data['deps_reqs_processed']
  jobs,         \* sequence: runs of _async_setup_component, and of flows
  calls,        \* runs of async_setup_component; "by" is a job, a flow or
                \* somebody outside
  asked         \* number of calls from outside

setupVars == <<deps, components, setup_tasks, processed, jobs, calls, asked>>

Job(d, f) == [domain |-> d, flow |-> f, at |-> "begin", left |-> {}]
Call(by, d) == [by |-> by, domain |-> d, on |-> 0, answer |-> "none"]
Put(i, at) == jobs' = [jobs EXCEPT ![i].at = at]

Ask(d) ==
  /\ asked < MaxAsked
  /\ asked' = asked + 1
  /\ calls' = calls \cup {Call(<<"outside", asked>>, d)}
  /\ UNCHANGED <<deps, components, setup_tasks, processed, jobs>>

(* (Mutant: True also while the task is under way.)                        *)
async_setup_component_NoAwait(c) ==
  /\ c.answer = "none"
  /\ \/ /\ c.domain \in components \/ setup_tasks[c.domain] # 0
        /\ calls' = (calls \ {c}) \cup {[c EXCEPT !.answer = "yes"]}
        /\ UNCHANGED <<setup_tasks, jobs>>
     \/ /\ c.domain \notin components /\ setup_tasks[c.domain] = 0
        /\ jobs' = Append(jobs, Job(c.domain, Nobody))
        /\ setup_tasks' = [setup_tasks EXCEPT ![c.domain] = Len(jobs')]
        /\ UNCHANGED calls
  /\ UNCHANGED <<deps, components, processed, asked>>

(* async_setup_component up to its await, and after it.                    *)
async_setup_component(c) ==
  /\ c.answer = "none"
  /\ \/ /\ c.on = 0 /\ c.domain \in components
        /\ calls' = (calls \ {c}) \cup {[c EXCEPT !.answer = "yes"]}
        /\ UNCHANGED <<setup_tasks, jobs>>
     \/ /\ c.on = 0 /\ c.domain \notin components /\ setup_tasks[c.domain] # 0
        /\ calls' = (calls \ {c}) \cup {[c EXCEPT !.on = setup_tasks[c.domain]]}
        /\ UNCHANGED <<setup_tasks, jobs>>
     \/ /\ c.on = 0 /\ c.domain \notin components /\ setup_tasks[c.domain] = 0
        /\ jobs' = Append(jobs, Job(c.domain, Nobody))
        /\ setup_tasks' = [setup_tasks EXCEPT ![c.domain] = Len(jobs')]
        /\ calls' = (calls \ {c}) \cup {[c EXCEPT !.on = Len(jobs')]}
     \/ /\ c.on # 0 /\ jobs[c.on].at \in {"done", "failed"}
        /\ calls' = (calls \ {c})
             \cup {[c EXCEPT !.answer = IF jobs[c.on].at = "done" THEN "yes" ELSE "no"]}
        /\ UNCHANGED <<setup_tasks, jobs>>
  /\ UNCHANGED <<deps, components, processed, asked>>

(* (Mutant: the order of the loader is not asked for.)                     *)
load_order_component_Unasked(d) == TRUE

(* The loader finds an order unless a component it needs needs itself.     *)
load_order_component(d) ==
  LET needs == TransitiveClosure([x, y \in Domains |-> y \in deps[x]], Domains)
  IN \A x \in Domains : x = d \/ needs[d, x] => ~needs[x, x]

(* _async_setup_component up to the dependencies: the loader or the        *)
(* configuration may refuse.  What was processed once is not again.        *)
Begin(i) ==
  LET j == jobs[i]
  IN /\ j.at = "begin"
     /\ \/ /\ j.flow = Nobody
           /\ Put(i, "failed") /\ UNCHANGED calls
        \/ /\ j.flow # Nobody \/ load_order_component(j.domain)
           /\ IF j.domain \in processed
                THEN Put(i, "setup") /\ UNCHANGED calls
                ELSE /\ Put(i, "wait")
                     /\ calls' = calls \cup {Call(<<"job", i>>, d) : d \in deps[j.domain]}
     /\ UNCHANGED <<deps, components, setup_tasks, processed, asked>>

(* (Mutant: gather does not look at the results.)                          *)
Gathered_Any(i) ==
  /\ jobs[i].at = "wait"
  /\ \A c \in calls : c.by = <<"job", i>> => c.answer # "none"
  /\ Put(i, "requirements")
  /\ calls' = {c \in calls : c.by # <<"job", i>>}
  /\ UNCHANGED <<deps, components, setup_tasks, processed, asked>>

(* gather has all results; one False is enough to fail.                    *)
Gathered(i) ==
  LET mine == {c \in calls : c.by = <<"job", i>>}
  IN /\ jobs[i].at = "wait"
     /\ \A c \in mine : c.answer # "none"
     /\ Put(i, IF \E c \in mine : c.answer = "no" THEN "failed" ELSE "requirements")
     /\ calls' = calls \ mine
     /\ UNCHANGED <<deps, components, setup_tasks, processed, asked>>

(* The requirements are installed, or cannot be.                           *)
Requirements(i) ==
  /\ jobs[i].at = "requirements"
  /\ \/ Put(i, "setup") /\ processed' = processed \cup {jobs[i].domain}
     \/ Put(i, "failed") /\ UNCHANGED processed
  /\ UNCHANGED <<deps, components, setup_tasks, calls, asked>>

(* (Mutant: the task is forgotten also when it has failed.)                *)
SetUp_Forgets(i, entries) ==
  /\ jobs[i].at = "setup" /\ jobs[i].flow = Nobody
  /\ \/ /\ jobs' = [jobs EXCEPT ![i].at = "entries",
                                ![i].left = {e \in entries : FlowDomain[e] = jobs[i].domain}]
        /\ UNCHANGED setup_tasks
     \/ /\ Put(i, "failed")
        /\ setup_tasks' = [setup_tasks EXCEPT ![jobs[i].domain] = 0]
  /\ UNCHANGED <<deps, components, processed, calls, asked>>

(* The component's own setup says True, or anything else, or raises; then  *)
(* the config entries the domain has at this moment are to be set up.      *)
SetUp(i, entries) ==
  /\ jobs[i].at = "setup" /\ jobs[i].flow = Nobody
  /\ \/ jobs' = [jobs EXCEPT ![i].at = "entries",
                             ![i].left = {e \in entries : FlowDomain[e] = jobs[i].domain}]
     \/ Put(i, "failed")
  /\ UNCHANGED <<deps, components, setup_tasks, processed, calls, asked>>

(* (Mutant: the task stays in hass.data['setup_tasks'].)                   *)
Loaded_Keeps(i) ==
  /\ jobs[i].at = "entries" /\ jobs[i].left = {}
  /\ Put(i, "done")
  /\ components' = components \cup {jobs[i].domain}
  /\ UNCHANGED <<deps, setup_tasks, processed, calls, asked>>

(* All entries are done: the component is there.                           *)
Loaded(i) ==
  /\ jobs[i].at = "entries" /\ jobs[i].left = {}
  /\ Put(i, "done")
  /\ components' = components \cup {jobs[i].domain}
  /\ setup_tasks' = [setup_tasks EXCEPT ![jobs[i].domain] = 0]
  /\ UNCHANGED <<deps, processed, calls, asked>>

SetupInit ==
  /\ deps \in Dependencies
  /\ components = {} /\ processed = {} /\ jobs = <<>> /\ calls = {} /\ asked = 0
  /\ setup_tasks = [d \in Domains |-> 0]

SetupStep(entries) ==
  \/ \E c \in calls : async_setup_component(c)
  \/ \E i \in DOMAIN jobs :
       Begin(i) \/ Gathered(i) \/ Requirements(i) \/ SetUp(i, entries) \/ Loaded(i)

-----------------------------------------------------------------------------
(* Types; what hass.data['setup_tasks'] remembers is the task of that      *)
(* domain, and not one that is done.                                       *)
SetupTypeOK ==
  /\ deps \in [Domains -> SUBSET Domains]
  /\ components \subseteq Domains /\ processed \subseteq Domains
  /\ setup_tasks \in [Domains -> 0..Len(jobs)]
  /\ \A d \in Domains : setup_tasks[d] # 0 =>
       LET j == jobs[setup_tasks[d]] IN j.domain = d /\ j.flow = Nobody /\ j.at # "done"
  /\ jobs \in Seq([domain : Domains, flow : Flows \cup {Nobody}, left : SUBSET Flows,
                   at : {"begin", "wait", "requirements", "setup", "entries", "done", "failed"}])
  /\ \A c \in calls : c.domain \in Domains /\ c.on \in 0..Len(jobs)

(* However many ask for it at once, a component is set up by one task, and *)
(* what was refused once is not tried again.                               *)
SetupOnce ==
  \A i, k \in DOMAIN jobs :
    i # k /\ jobs[i].flow = Nobody /\ jobs[k].flow = Nobody => jobs[i].domain # jobs[k].domain

(* A component's own setup is not reached before all components it depends *)
(* on are there, and its name is not among the components before that.     *)
DepsFirst ==
  /\ \A i \in DOMAIN jobs :
       jobs[i].at \in {"setup", "entries", "done"} => deps[jobs[i].domain] \subseteq components
  /\ \A d \in components : deps[d] \subseteq components

(* All who ask get the same answer, and it stays true: "yes" means that    *)
(* the component is there, "no" that it never will be.                     *)
OneVerdict ==
  \A c \in calls : /\ c.answer = "yes" => c.domain \in components
                   /\ c.answer = "no" => c.domain \notin components

(* Nobody waits for ever for a set-up: not for a component that waits for  *)
(* him, since the loader refuses what depends on itself.                   *)
SetupEnds == []<>(\A c \in calls : c.answer # "none")
=============================================================================
