------------------------ MODULE ConfigEntries_proofs ------------------------
(***************************************************************************)
(* Proofs about component set-up and config entries, for any components,   *)
(* dependencies, flows and bounds.                                         *)
(***************************************************************************)
EXTENDS ConfigEntries, SequenceTheorems, TLAPS

Jobs == [domain : Domains, flow : Flows \cup {Nobody}, left : SUBSET Flows,
         at : {"begin", "wait", "requirements", "setup", "entries", "done", "failed"}]

(* A call is a record of four fields.  It waits for a component's job of   *)
(* its own domain, and was refused only if that one has failed.            *)
CallOK(c) ==
  /\ c = [by |-> c.by, domain |-> c.domain, on |-> c.on, answer |-> c.answer]
  /\ c.domain \in Domains /\ c.on \in 0..Len(jobs)
  /\ c.on # 0 => jobs[c.on].domain = c.domain /\ jobs[c.on].flow = Nobody
  /\ c.answer = "no" =>
       setup_tasks[c.domain] # 0 /\ jobs[setup_tasks[c.domain]].at = "failed"

(* A component's job is the one hass.data['setup_tasks'] has for its       *)
(* domain, unless the component is there already.                          *)
Kept(i) ==
  jobs[i].flow = Nobody =>
    \/ setup_tasks[jobs[i].domain] = i
    \/ jobs[i].at = "done" /\ jobs[i].domain \in components

(* The inductive invariant of component set-up.                            *)
SetupInv ==
  /\ SetupTypeOK
  /\ \A c \in calls : CallOK(c)
  /\ \A i \in DOMAIN jobs : Kept(i) /\ (jobs[i].at = "entries" => jobs[i].flow = Nobody)
  /\ \A d \in components : setup_tasks[d] = 0
  /\ SetupOnce
  /\ OneVerdict

(* What a step that neither finishes nor starts a component's job may do:  *)
(* move jobs of their domain and flow, add flows' jobs and new calls.      *)
LEMMA Frame ==
  ASSUME SetupInv,
         jobs' \in Seq(Jobs), Len(jobs') >= Len(jobs),
         \A k \in 1..Len(jobs) :
           /\ jobs'[k].domain = jobs[k].domain /\ jobs'[k].flow = jobs[k].flow
           /\ \/ jobs'[k].at = jobs[k].at
              \/ /\ jobs[k].at \notin {"done", "failed"}
                 /\ jobs'[k].at = "done" => jobs[k].flow # Nobody
                 /\ jobs'[k].at = "entries" => jobs[k].flow = Nobody,
         \A k \in (Len(jobs) + 1)..Len(jobs') : jobs'[k].flow # Nobody /\ jobs'[k].at = "begin",
         \A c \in calls' : c \in calls \/ \E by : \E d \in Domains : c = Call(by, d),
         UNCHANGED <<deps, components, setup_tasks>>, processed' \subseteq Domains
  PROVE  SetupInv'
<1> DEFINE n == Len(jobs)
<1>1. /\ jobs \in Seq(Jobs) /\ n \in Nat /\ Len(jobs') \in Nat
      /\ DOMAIN jobs = 1..n /\ DOMAIN jobs' = 1..Len(jobs')
      /\ \A k \in 1..Len(jobs') : k \in 1..n \/ k \in (n + 1)..Len(jobs')
  BY DEF SetupInv, SetupTypeOK, Jobs
<1>2. SetupTypeOK'
  <2>1. setup_tasks' \in [Domains -> 0..Len(jobs')]
    BY <1>1 DEF SetupInv, SetupTypeOK
  <2>2. \A d \in Domains : setup_tasks'[d] # 0 =>
          LET j == jobs'[setup_tasks'[d]] IN j.domain = d /\ j.flow = Nobody /\ j.at # "done"
    <3> SUFFICES ASSUME NEW d \in Domains, setup_tasks[d] # 0
                 PROVE  LET j == jobs'[setup_tasks[d]]
                        IN j.domain = d /\ j.flow = Nobody /\ j.at # "done"
      OBVIOUS
    <3>1. /\ setup_tasks[d] \in 1..n
          /\ jobs[setup_tasks[d]].domain = d /\ jobs[setup_tasks[d]].flow = Nobody
          /\ jobs[setup_tasks[d]].at # "done"
      BY <1>1 DEF SetupInv, SetupTypeOK
    <3> QED BY <3>1
  <2>3. \A c \in calls' : c.domain \in Domains /\ c.on \in 0..Len(jobs')
    BY <1>1 DEF SetupInv, CallOK, Call
  <2> QED BY <2>1, <2>2, <2>3 DEF SetupTypeOK, SetupInv, Jobs
<1>3. \A c \in calls' : CallOK(c)'
  <2> SUFFICES ASSUME NEW c \in calls' PROVE CallOK(c)'
    OBVIOUS
  <2>1. CASE c \in calls
    <3>1. CallOK(c)
      BY <2>1 DEF SetupInv
    <3>2. c.on # 0 => c.on \in 1..n
      BY <3>1, <1>1 DEF CallOK
    <3>3. setup_tasks[c.domain] # 0 => setup_tasks[c.domain] \in 1..n
      BY <3>1, <1>1 DEF CallOK, SetupInv, SetupTypeOK
    <3> QED BY <3>1, <3>2, <3>3, <1>1 DEF CallOK
  <2>2. CASE \E by : \E d \in Domains : c = Call(by, d)
    BY <2>2, <1>1 DEF CallOK, Call
  <2> QED BY <2>1, <2>2
<1>4. \A i \in DOMAIN jobs' : Kept(i)' /\ (jobs'[i].at = "entries" => jobs'[i].flow = Nobody)
  <2> SUFFICES ASSUME NEW i \in 1..Len(jobs')
               PROVE  Kept(i)' /\ (jobs'[i].at = "entries" => jobs'[i].flow = Nobody)
    BY <1>1
  <2>1. CASE i \in 1..n
    <3>1. Kept(i) /\ (jobs[i].at = "entries" => jobs[i].flow = Nobody)
      BY <1>1, <2>1 DEF SetupInv
    <3> QED BY <3>1, <2>1 DEF Kept
  <2>2. CASE i \in (n + 1)..Len(jobs')
    BY <2>2 DEF Kept
  <2> QED BY <1>1, <2>1, <2>2
<1>5. SetupOnce'
  <2>1. \A i \in 1..Len(jobs') : jobs'[i].flow = Nobody =>
          i \in 1..n /\ jobs[i].flow = Nobody /\ jobs[i].domain = jobs'[i].domain
    BY <1>1
  <2> QED BY <1>1, <2>1 DEF SetupInv, SetupOnce
<1>6. OneVerdict'
  BY DEF SetupInv, OneVerdict, Call
<1> QED BY <1>2, <1>3, <1>4, <1>5, <1>6 DEF SetupInv

(* A call is begun, and joins the job of its domain or makes one; or it is *)
(* answered.                                                               *)
LEMMA CallStep ==
  ASSUME SetupInv, NEW c \in calls, async_setup_component(c)
  PROVE  SetupInv'
<1> DEFINE n == Len(jobs)
<1>1. /\ jobs \in Seq(Jobs) /\ n \in Nat /\ DOMAIN jobs = 1..n
      /\ c = [by |-> c.by, domain |-> c.domain, on |-> c.on, answer |-> c.answer]
      /\ c.domain \in Domains /\ c.on \in 0..n /\ c.answer = "none"
      /\ setup_tasks \in [Domains -> 0..n]
      /\ UNCHANGED <<deps, components, processed>>
  BY DEF SetupInv, SetupTypeOK, Jobs, CallOK, async_setup_component
<1>2. CASE UNCHANGED <<setup_tasks, jobs>>
  <2>1. \/ /\ c.domain \in components
           /\ calls' = (calls \ {c}) \cup {[c EXCEPT !.answer = "yes"]}
        \/ /\ setup_tasks[c.domain] # 0
           /\ calls' = (calls \ {c}) \cup {[c EXCEPT !.on = setup_tasks[c.domain]]}
        \/ /\ c.on # 0 /\ jobs[c.on].at \in {"done", "failed"}
           /\ calls' = (calls \ {c})
                \cup {[c EXCEPT !.answer = IF jobs[c.on].at = "done" THEN "yes" ELSE "no"]}
    <3>1. ASSUME Append(jobs, Job(c.domain, Nobody)) = jobs PROVE FALSE
      <4>1. Job(c.domain, Nobody) \in Jobs
        BY <1>1 DEF Job, Jobs
      <4>2. Len(Append(jobs, Job(c.domain, Nobody))) = n + 1
        BY <1>1, <4>1
      <4>3. n + 1 = n
        BY <3>1, <4>2
      <4> QED BY <1>1, <4>3
    <3> QED BY <1>2, <3>1 DEF async_setup_component
  <2>2. PICK new : /\ calls' = (calls \ {c}) \cup {new} /\ CallOK(new)
                   /\ new.answer = "yes" => new.domain \in components
                   /\ new.answer = "no" => new.domain \notin components
    <3>1. CASE /\ c.domain \in components
               /\ calls' = (calls \ {c}) \cup {[c EXCEPT !.answer = "yes"]}
      <4>1. [c EXCEPT !.answer = "yes"]
              = [by |-> c.by, domain |-> c.domain, on |-> c.on, answer |-> "yes"]
        BY <1>1
      <4>2. CallOK([by |-> c.by, domain |-> c.domain, on |-> c.on, answer |-> "yes"])
        BY <1>1 DEF SetupInv, CallOK
      <4> QED BY <3>1, <4>1, <4>2
    <3>2. CASE /\ setup_tasks[c.domain] # 0
               /\ calls' = (calls \ {c}) \cup {[c EXCEPT !.on = setup_tasks[c.domain]]}
      <4>1. /\ setup_tasks[c.domain] \in 0..n
            /\ jobs[setup_tasks[c.domain]].domain = c.domain
            /\ jobs[setup_tasks[c.domain]].flow = Nobody
        BY <1>1, <3>2 DEF SetupInv, SetupTypeOK
      <4>2. [c EXCEPT !.on = setup_tasks[c.domain]]
              = [by |-> c.by, domain |-> c.domain, on |-> setup_tasks[c.domain], answer |-> "none"]
        BY <1>1
      <4>3. CallOK([by |-> c.by, domain |-> c.domain, on |-> setup_tasks[c.domain], answer |-> "none"])
        BY <1>1, <4>1 DEF CallOK
      <4> QED BY <3>2, <4>2, <4>3
    <3>3. CASE /\ c.on # 0 /\ jobs[c.on].at \in {"done", "failed"}
               /\ calls' = (calls \ {c})
                    \cup {[c EXCEPT !.answer = IF jobs[c.on].at = "done" THEN "yes" ELSE "no"]}
      <4>1. /\ jobs[c.on].domain = c.domain /\ jobs[c.on].flow = Nobody /\ c.on \in DOMAIN jobs
            /\ Kept(c.on)
        BY <1>1, <3>3 DEF SetupInv, CallOK
      <4>2. setup_tasks[c.domain] = c.on =>
              jobs[c.on].at # "done" /\ c.domain \notin components
        BY <1>1, <3>3 DEF SetupInv, SetupTypeOK
      <4>3. IF jobs[c.on].at = "done" THEN c.domain \in components ELSE c.domain \notin components
        BY <4>1, <4>2, <3>3 DEF Kept
      <4> DEFINE a == IF jobs[c.on].at = "done" THEN "yes" ELSE "no"
      <4>4. [c EXCEPT !.answer = a] = [by |-> c.by, domain |-> c.domain, on |-> c.on, answer |-> a]
        BY <1>1
      <4>5. a = "no" => setup_tasks[c.domain] = c.on /\ jobs[c.on].at = "failed"
        BY <3>3, <4>1 DEF Kept
      <4>6. CallOK([by |-> c.by, domain |-> c.domain, on |-> c.on, answer |-> a])
        BY <1>1, <3>3, <4>1, <4>5 DEF CallOK
      <4> QED BY <3>3, <4>3, <4>4, <4>6
    <3> QED BY <2>1, <3>1, <3>2, <3>3
  <2>3. \A x \in calls' : CallOK(x)
    BY <2>2 DEF SetupInv
  <2>4. OneVerdict'
    BY <1>1, <2>2 DEF SetupInv, OneVerdict
  <2>5. SetupTypeOK'
    BY <1>1, <1>2, <2>3 DEF SetupInv, SetupTypeOK, CallOK
  <2>6. \A x \in calls' : CallOK(x)'
    BY <1>2, <2>3 DEF CallOK
  <2>7. SetupOnce' /\ \A i \in DOMAIN jobs' : Kept(i)' /\ (jobs'[i].at = "entries" => jobs'[i].flow = Nobody)
    BY <1>1, <1>2 DEF SetupInv, SetupOnce, Kept
  <2> QED BY <1>1, <1>2, <2>4, <2>5, <2>6, <2>7 DEF SetupInv
<1>3. CASE /\ c.on = 0 /\ c.domain \notin components /\ setup_tasks[c.domain] = 0
           /\ jobs' = Append(jobs, Job(c.domain, Nobody))
           /\ setup_tasks' = [setup_tasks EXCEPT ![c.domain] = Len(jobs')]
           /\ calls' = (calls \ {c}) \cup {[c EXCEPT !.on = Len(jobs')]}
  <2> DEFINE d == c.domain
  <2>1. /\ Job(d, Nobody) \in Jobs
        /\ jobs' \in Seq(Jobs) /\ Len(jobs') = n + 1 /\ DOMAIN jobs' = 1..(n + 1)
        /\ \A k \in 1..n : jobs'[k] = jobs[k]
        /\ jobs'[n + 1] = Job(d, Nobody)
    BY <1>1, <1>3 DEF Job, Jobs
  <2>2. \A k \in 1..n : jobs[k].flow = Nobody => jobs[k].domain # d
    BY <1>1, <1>3 DEF SetupInv, Kept
  <2>3. /\ setup_tasks' \in [Domains -> 0..(n + 1)] /\ setup_tasks'[d] = n + 1
        /\ \A x \in Domains : x # d => setup_tasks'[x] = setup_tasks[x]
    BY <1>1, <1>3, <2>1
  <2>4. \A x \in Domains : setup_tasks'[x] # 0 =>
          LET j == jobs'[setup_tasks'[x]] IN j.domain = x /\ j.flow = Nobody /\ j.at # "done"
    <3> SUFFICES ASSUME NEW x \in Domains, setup_tasks'[x] # 0
                 PROVE  LET j == jobs'[setup_tasks'[x]]
                        IN j.domain = x /\ j.flow = Nobody /\ j.at # "done"
      OBVIOUS
    <3>1. CASE x = d
      BY <2>1, <2>3, <3>1 DEF Job
    <3>2. CASE x # d
      BY <1>1, <2>1, <2>3, <3>2 DEF SetupInv, SetupTypeOK
    <3> QED BY <3>1, <3>2
  <2>5. \A x \in calls' : CallOK(x)' /\ (x.answer # "none" => x \in calls)
    <3> SUFFICES ASSUME NEW x \in calls' PROVE CallOK(x)' /\ (x.answer # "none" => x \in calls)
      OBVIOUS
    <3>1. CASE x \in calls
      <4>1. CallOK(x)
        BY <3>1 DEF SetupInv
      <4>2. x.on # 0 => jobs'[x.on] = jobs[x.on]
        BY <1>1, <2>1, <4>1 DEF CallOK
      <4>3. x.answer = "no" =>
              /\ setup_tasks'[x.domain] = setup_tasks[x.domain] /\ setup_tasks[x.domain] \in 1..n
        BY <1>1, <1>3, <2>3, <4>1 DEF CallOK
      <4> QED BY <1>1, <2>1, <3>1, <4>1, <4>2, <4>3 DEF CallOK
    <3>2. CASE x = [c EXCEPT !.on = n + 1]
      BY <1>1, <2>1, <3>2 DEF CallOK, Job
    <3> QED BY <1>3, <2>1, <3>1, <3>2
  <2>6. SetupTypeOK'
    BY <1>1, <2>1, <2>3, <2>4, <2>5 DEF SetupInv, SetupTypeOK, CallOK, Jobs
  <2>7. \A i \in DOMAIN jobs' : Kept(i)' /\ (jobs'[i].at = "entries" => jobs'[i].flow = Nobody)
    <3> SUFFICES ASSUME NEW i \in 1..(n + 1)
                 PROVE  Kept(i)' /\ (jobs'[i].at = "entries" => jobs'[i].flow = Nobody)
      BY <2>1
    <3>1. CASE i \in 1..n
      <4>1. Kept(i) /\ (jobs[i].at = "entries" => jobs[i].flow = Nobody) /\ jobs[i].domain \in Domains
        <5>1. jobs[i] \in Jobs
          BY <1>1, <3>1
        <5> QED BY <1>1, <3>1, <5>1 DEF SetupInv, Jobs
      <4>2. jobs[i].flow = Nobody => setup_tasks'[jobs[i].domain] = setup_tasks[jobs[i].domain]
        BY <2>2, <2>3, <3>1, <4>1
      <4> QED BY <1>1, <2>1, <3>1, <4>1, <4>2 DEF Kept
    <3>2. CASE i = n + 1
      BY <2>1, <2>3, <3>2 DEF Kept, Job
    <3> QED BY <1>1, <3>1, <3>2
  <2>8. SetupOnce'
    BY <1>1, <2>1, <2>2 DEF SetupInv, SetupOnce, Job
  <2>9. OneVerdict'
    BY <1>1, <2>5 DEF SetupInv, OneVerdict
  <2>10. \A x \in components' : setup_tasks'[x] = 0
    BY <1>1, <1>3, <2>3 DEF SetupInv, SetupTypeOK
  <2> QED BY <2>5, <2>6, <2>7, <2>8, <2>9, <2>10 DEF SetupInv
<1> QED BY <1>2, <1>3 DEF async_setup_component

(* The component is there: the job of its domain is done, and nobody was   *)
(* refused it.                                                             *)
LEMMA LoadedStep ==
  ASSUME SetupInv, NEW i \in DOMAIN jobs, Loaded(i)
  PROVE  SetupInv'
<1> DEFINE n == Len(jobs)
           d == jobs[i].domain
<1>1. /\ jobs \in Seq(Jobs) /\ n \in Nat /\ DOMAIN jobs = 1..n /\ i \in 1..n
      /\ setup_tasks \in [Domains -> 0..n]
      /\ jobs' = [jobs EXCEPT ![i].at = "done"] /\ jobs[i].at = "entries"
      /\ components' = components \cup {d}
      /\ setup_tasks' = [setup_tasks EXCEPT ![d] = 0]
      /\ UNCHANGED <<deps, processed, calls>>
  BY DEF SetupInv, SetupTypeOK, Jobs, Loaded, Put
<1>2. jobs[i] \in Jobs /\ d \in Domains
  <2>1. jobs[i] \in Jobs
    BY <1>1
  <2> QED BY <2>1 DEF Jobs
<1>3. jobs[i].flow = Nobody /\ setup_tasks[d] = i
  BY <1>1 DEF SetupInv, Kept
<1>4. /\ jobs' \in Seq(Jobs) /\ Len(jobs') = n /\ DOMAIN jobs' = 1..n
      /\ \A k \in 1..n : k # i => jobs'[k] = jobs[k]
      /\ jobs'[i].at = "done" /\ jobs'[i].domain = d /\ jobs'[i].flow = Nobody
  <2>1. [jobs[i] EXCEPT !.at = "done"] \in Jobs
    BY <1>2 DEF Jobs
  <2>2. jobs' = [jobs EXCEPT ![i] = [jobs[i] EXCEPT !.at = "done"]]
    BY <1>1
  <2>3. jobs' \in [1..n -> Jobs]
    BY <1>1, <2>1, <2>2
  <2>4. jobs'[i] = [jobs[i] EXCEPT !.at = "done"]
    BY <1>1, <2>2
  <2> QED BY <1>1, <1>2, <1>3, <2>2, <2>3, <2>4 DEF Jobs
<1>5. \A k \in 1..n : k # i /\ jobs[k].flow = Nobody => jobs[k].domain # d
  BY <1>1, <1>3 DEF SetupInv, SetupOnce
<1>6. /\ setup_tasks' \in [Domains -> 0..n] /\ setup_tasks'[d] = 0
      /\ \A x \in Domains : x # d => setup_tasks'[x] = setup_tasks[x] /\ setup_tasks[x] # i
  <2>1. \A x \in Domains : setup_tasks[x] = i => x = d
    BY <1>1 DEF SetupInv, SetupTypeOK
  <2> QED BY <1>1, <1>2, <2>1
<1>7. \A c \in calls' : CallOK(c)'
  <2> SUFFICES ASSUME NEW c \in calls PROVE CallOK(c)'
    BY <1>1
  <2>1. CallOK(c)
    BY DEF SetupInv
  <2>2. c.answer = "no" => c.domain # d
    BY <1>1, <1>3, <2>1 DEF CallOK
  <2>3. c.on # 0 => jobs'[c.on].domain = c.domain /\ jobs'[c.on].flow = Nobody
    BY <1>1, <1>3, <1>4, <2>1 DEF CallOK
  <2>4. c.answer = "no" =>
          setup_tasks'[c.domain] # 0 /\ jobs'[setup_tasks'[c.domain]].at = "failed"
    BY <1>1, <1>4, <1>6, <2>1, <2>2 DEF CallOK
  <2> QED BY <1>4, <2>1, <2>3, <2>4 DEF CallOK
<1>8. OneVerdict'
  <2> SUFFICES ASSUME NEW c \in calls
               PROVE  /\ c.answer = "yes" => c.domain \in components'
                      /\ c.answer = "no" => c.domain \notin components'
    BY <1>1 DEF OneVerdict
  <2>1. CallOK(c)
    BY DEF SetupInv
  <2>2. c.answer = "no" => c.domain # d
    BY <1>1, <1>3, <2>1 DEF CallOK
  <2> QED BY <1>1, <2>2 DEF SetupInv, OneVerdict
<1>9. SetupTypeOK'
  <2>1. \A x \in Domains : setup_tasks'[x] # 0 =>
          LET j == jobs'[setup_tasks'[x]] IN j.domain = x /\ j.flow = Nobody /\ j.at # "done"
    <3> SUFFICES ASSUME NEW x \in Domains, x # d, setup_tasks[x] # 0
                 PROVE  LET j == jobs'[setup_tasks[x]]
                        IN j.domain = x /\ j.flow = Nobody /\ j.at # "done"
      BY <1>6
    <3>1. jobs'[setup_tasks[x]] = jobs[setup_tasks[x]]
      BY <1>1, <1>4, <1>6
    <3> QED BY <3>1 DEF SetupInv, SetupTypeOK
  <2> QED BY <1>1, <1>2, <1>4, <1>6, <1>7, <2>1, ZenonT(60) DEF SetupInv, SetupTypeOK, CallOK, Jobs
<1>10. \A k \in DOMAIN jobs' : Kept(k)' /\ (jobs'[k].at = "entries" => jobs'[k].flow = Nobody)
  <2> SUFFICES ASSUME NEW k \in 1..n
               PROVE  Kept(k)' /\ (jobs'[k].at = "entries" => jobs'[k].flow = Nobody)
    BY <1>4
  <2>1. CASE k = i
    BY <1>1, <1>4, <2>1 DEF Kept
  <2>2. CASE k # i
    <3>1. Kept(k) /\ (jobs[k].at = "entries" => jobs[k].flow = Nobody) /\ jobs[k].domain \in Domains
      <4>1. jobs[k] \in Jobs
        BY <1>1
      <4> QED BY <1>1, <4>1 DEF SetupInv, Jobs
    <3> QED BY <1>1, <1>4, <1>5, <1>6, <2>2, <3>1 DEF Kept
  <2> QED BY <2>1, <2>2
<1>11. SetupOnce'
  BY <1>1, <1>3, <1>4, <1>5 DEF SetupInv, SetupOnce
<1>12. \A x \in components' : setup_tasks'[x] = 0
  BY <1>1, <1>6 DEF SetupInv, SetupTypeOK
<1> QED BY <1>7, <1>8, <1>9, <1>10, <1>11, <1>12 DEF SetupInv

(* Put gives one job another 'at' and leaves the rest of it alone.         *)
LEMMA PutIs ==
  ASSUME SetupInv, NEW i \in DOMAIN jobs, NEW at, Put(i, at)
  PROVE  jobs' = [jobs EXCEPT ![i] = [domain |-> jobs[i].domain, flow |-> jobs[i].flow,
                                      at |-> at, left |-> jobs[i].left]]
<1>1. jobs[i] \in Jobs
  <2>1. jobs \in Seq(Jobs)
    BY DEF SetupInv, SetupTypeOK, Jobs
  <2> QED BY <2>1
<1>2. [jobs[i] EXCEPT !.at = at]
        = [domain |-> jobs[i].domain, flow |-> jobs[i].flow, at |-> at, left |-> jobs[i].left]
  BY <1>1 DEF Jobs
<1>3. jobs' = [jobs EXCEPT ![i] = [jobs[i] EXCEPT !.at = at]]
  BY DEF Put
<1> QED BY <1>2, <1>3

(* One job moves, and does not become "done" unless it is a flow's.        *)
LEMMA Move ==
  ASSUME SetupInv, NEW i \in DOMAIN jobs,
         NEW at \in {"wait", "requirements", "setup", "entries", "done", "failed"},
         NEW left \in SUBSET Flows,
         jobs' = [jobs EXCEPT ![i] = [domain |-> jobs[i].domain, flow |-> jobs[i].flow,
                                      at |-> at, left |-> left]],
         \/ at = jobs[i].at
         \/ /\ jobs[i].at \notin {"done", "failed"}
            /\ at = "done" => jobs[i].flow # Nobody
            /\ at = "entries" => jobs[i].flow = Nobody,
         \A c \in calls' : c \in calls \/ \E by : \E d \in Domains : c = Call(by, d),
         UNCHANGED <<deps, components, setup_tasks>>, processed' \subseteq Domains
  PROVE  SetupInv'
<1>1. jobs \in Seq(Jobs) /\ jobs[i] \in Jobs /\ DOMAIN jobs = 1..Len(jobs) /\ Len(jobs) \in Nat
  <2>1. jobs \in Seq(Jobs)
    BY DEF SetupInv, SetupTypeOK, Jobs
  <2> QED BY <2>1
<1> DEFINE new == [domain |-> jobs[i].domain, flow |-> jobs[i].flow, at |-> at, left |-> left]
<1>2. new \in Jobs
  BY <1>1 DEF Jobs
<1>3. /\ jobs' \in Seq(Jobs) /\ Len(jobs') = Len(jobs) /\ jobs'[i] = new
      /\ \A k \in 1..Len(jobs) : k # i => jobs'[k] = jobs[k]
  BY <1>1, <1>2
<1>4. /\ new.domain = jobs[i].domain /\ new.flow = jobs[i].flow /\ new.at = at
  OBVIOUS
<1>5. \A k \in 1..Len(jobs) :
        /\ jobs'[k].domain = jobs[k].domain /\ jobs'[k].flow = jobs[k].flow
        /\ \/ jobs'[k].at = jobs[k].at
           \/ /\ jobs[k].at \notin {"done", "failed"}
              /\ jobs'[k].at = "done" => jobs[k].flow # Nobody
              /\ jobs'[k].at = "entries" => jobs[k].flow = Nobody
  BY <1>3, <1>4
<1> HIDE DEF new
<1> QED BY <1>1, <1>3, <1>5, Frame

(* Every step of component set-up keeps the invariant.                     *)
LEMMA SetupStepInv ==
  ASSUME SetupInv, NEW present \in SUBSET Flows, SetupStep(present)
  PROVE  SetupInv'
<1>1. CASE \E c \in calls : async_setup_component(c)
  BY <1>1, CallStep
<1>2. ASSUME NEW i \in DOMAIN jobs,
             Begin(i) \/ Gathered(i) \/ Requirements(i) \/ SetUp(i, present)
      PROVE  SetupInv'
  <2>0. /\ jobs[i] \in Jobs /\ jobs[i].domain \in Domains /\ jobs[i].left \in SUBSET Flows
        /\ processed \subseteq Domains /\ deps[jobs[i].domain] \subseteq Domains
    <3>1. jobs[i] \in Jobs
      <4>1. jobs \in Seq(Jobs)
        BY DEF SetupInv, SetupTypeOK, Jobs
      <4> QED BY <4>1
    <3> QED BY <3>1 DEF SetupInv, SetupTypeOK, Jobs
  <2>1. CASE Begin(i)
    <3>1. PICK at \in {"failed", "setup", "wait"} : Put(i, at)
      BY <2>1 DEF Begin
    <3>2. \A c \in calls' : c \in calls \/ \E by : \E d \in Domains : c = Call(by, d)
      BY <2>0, <2>1 DEF Begin
    <3>3. UNCHANGED <<deps, components, setup_tasks, processed>> /\ jobs[i].at = "begin"
      BY <2>1 DEF Begin
    <3> QED BY <2>0, <3>1, <3>2, <3>3, PutIs, Move
  <2>2. CASE Gathered(i)
    <3>1. PICK at \in {"failed", "requirements"} : Put(i, at)
      BY <2>2 DEF Gathered
    <3>2. /\ \A c \in calls' : c \in calls
          /\ UNCHANGED <<deps, components, setup_tasks, processed>> /\ jobs[i].at = "wait"
      BY <2>2 DEF Gathered
    <3> QED BY <2>0, <3>1, <3>2, PutIs, Move
  <2>3. CASE Requirements(i)
    <3>1. PICK at \in {"failed", "setup"} : Put(i, at)
      BY <2>3 DEF Requirements
    <3>2. /\ UNCHANGED <<deps, components, setup_tasks, calls>> /\ jobs[i].at = "requirements"
          /\ processed' \subseteq Domains
      BY <2>0, <2>3 DEF Requirements
    <3> QED BY <2>0, <3>1, <3>2, PutIs, Move
  <2>4. CASE SetUp(i, present)
    <3>1. UNCHANGED <<deps, components, setup_tasks, processed, calls>> /\ jobs[i].at = "setup"
          /\ jobs[i].flow = Nobody
      BY <2>4 DEF SetUp
    <3>2. CASE Put(i, "failed")
      BY <2>0, <3>1, <3>2, PutIs, Move
    <3>3. CASE jobs' = [jobs EXCEPT ![i].at = "entries",
                                    ![i].left = {e \in present : FlowDomain[e] = jobs[i].domain}]
      <4> DEFINE left == {e \in present : FlowDomain[e] = jobs[i].domain}
      <4>0. left \in SUBSET Flows
        OBVIOUS
      <4>1. [jobs[i] EXCEPT !.at = "entries", !.left = left]
              = [domain |-> jobs[i].domain, flow |-> jobs[i].flow, at |-> "entries", left |-> left]
        <5> DEFINE j == [jobs[i] EXCEPT !.at = "entries"]
        <5>1. j = [domain |-> jobs[i].domain, flow |-> jobs[i].flow, at |-> "entries",
                   left |-> jobs[i].left]
          BY <2>0 DEF Jobs
        <5>2. [jobs[i] EXCEPT !.at = "entries", !.left = left] = [j EXCEPT !.left = left]
          OBVIOUS
        <5> HIDE DEF j, left
        <5>3. [j EXCEPT !.left = left] = [domain |-> jobs[i].domain, flow |-> jobs[i].flow,
                                          at |-> "entries", left |-> left]
          BY <5>1
        <5> QED BY <5>2, <5>3
      <4>2. jobs' = [jobs EXCEPT ![i] = [jobs[i] EXCEPT !.at = "entries", !.left = left]]
        BY <3>3
      <4> HIDE DEF left
      <4> QED BY <2>0, <3>1, <4>0, <4>1, <4>2, Move
    <3> QED BY <2>4, <3>2, <3>3 DEF SetUp
  <2> QED BY <1>2, <2>1, <2>2, <2>3, <2>4
<1>3. ASSUME NEW i \in DOMAIN jobs, Loaded(i) PROVE SetupInv'
  BY <1>3, LoadedStep
<1> QED BY <1>1, <1>2, <1>3 DEF SetupStep

(* The invariant of the whole: that of set-up, the types, and a bound on   *)
(* the steps in flight; a flow that is over is in progress no more.        *)
Inv ==
  /\ SetupInv /\ TypeOK
  /\ taken \in 0..MaxSteps /\ \A f \in Flows : steps[f] <= taken
  /\ progress \cap over = {} /\ restarts \in Nat

(* Without one of its elements a sequence is one still.                    *)

(* What a removal leaves of a sequence.                                    *)
LEMMA RemoveAtIs ==
  ASSUME NEW S, NEW s \in Seq(S), NEW k \in DOMAIN s
  PROVE  /\ RemoveAt(s, k) \in Seq(S) /\ Len(RemoveAt(s, k)) = Len(s) - 1
         /\ \A i \in 1..(Len(s) - 1) : RemoveAt(s, k)[i] = IF i < k THEN s[i] ELSE s[i + 1]
<1>1. k \in 1..Len(s) /\ Len(s) \in Nat
  OBVIOUS
<1> DEFINE a == SubSeq(s, 1, k - 1)
           b == SubSeq(s, k + 1, Len(s))
<1>2. a \in Seq(S) /\ Len(a) = k - 1 /\ \A i \in 1..(k - 1) : a[i] = s[i]
  BY <1>1, SubSeqProperties
<1>3. b \in Seq(S) /\ Len(b) = Len(s) - k /\ \A i \in 1..(Len(s) - k) : b[i] = s[k + i]
  BY <1>1, SubSeqProperties
<1>4. RemoveAt(s, k) = a \o b
  BY DEF RemoveAt
<1> HIDE DEF a, b
<1>5. /\ a \o b \in Seq(S) /\ Len(a \o b) = Len(a) + Len(b)
      /\ \A i \in 1..(Len(a) + Len(b)) : (a \o b)[i] = IF i <= Len(a) THEN a[i] ELSE b[i - Len(a)]
  BY <1>2, <1>3, ConcatProperties
<1>6. Len(a) + Len(b) = Len(s) - 1
  BY <1>1, <1>2, <1>3
<1>7. ASSUME NEW i \in 1..(Len(s) - 1) PROVE (a \o b)[i] = IF i < k THEN s[i] ELSE s[i + 1]
  <2>0. k \in Nat /\ i \in Nat /\ i >= 1 /\ i \in 1..(Len(a) + Len(b))
    BY <1>1, <1>6
  <2>1. (a \o b)[i] = IF i <= Len(a) THEN a[i] ELSE b[i - Len(a)]
    BY <1>5, <2>0, Zenon
  <2>2. CASE i <= k - 1
    <3>1. i \in 1..(k - 1) /\ i < k /\ i <= Len(a)
      BY <1>2, <2>0, <2>2
    <3> QED BY <1>2, <2>1, <3>1
  <2>3. CASE ~(i <= k - 1)
    <3>1. i - (k - 1) \in 1..(Len(s) - k) /\ k + (i - (k - 1)) = i + 1 /\ ~(i < k)
      BY <1>1, <2>0, <2>3
    <3>2. (a \o b)[i] = b[i - (k - 1)]
      BY <1>2, <2>1, <2>3
    <3>3. b[i - (k - 1)] = s[i + 1]
      BY <1>3, <3>1
    <3> QED BY <3>1, <3>2, <3>3
  <2> QED BY <2>2, <2>3
<1> QED BY <1>4, <1>5, <1>6, <1>7

(* A write ends: the older ones that are left are late.                    *)
LEMMA WriteEnds ==
  ASSUME writes \in Seq(Write), NEW k \in DOMAIN writes, save_json(k)
  PROVE  /\ writes' \in Seq(Write) /\ Len(writes') = Len(writes) - 1
         /\ \A i \in 1..(Len(writes) - 1) :
              IF i < k THEN writes'[i] = [list |-> writes[i].list, late |-> TRUE]
                       ELSE writes'[i] = writes[i + 1]
<1> DEFINE s == [i \in DOMAIN writes |-> [writes[i] EXCEPT !.late = @ \/ i < k]]
<1>1. Len(writes) \in Nat /\ DOMAIN writes = 1..Len(writes) /\ \A i \in DOMAIN writes : writes[i] \in Write
  OBVIOUS
<1>2. ASSUME NEW i \in DOMAIN writes
      PROVE  s[i] \in Write /\ s[i] = IF i < k THEN [list |-> writes[i].list, late |-> TRUE] ELSE writes[i]
  <2>1. writes[i] \in [list : Seq(Flows), late : BOOLEAN]
    BY <1>1 DEF Write
  <2>2. s[i] = [writes[i] EXCEPT !.late = writes[i].late \/ i < k]
    OBVIOUS
  <2>3. CASE i < k
    <3>1. (writes[i].late \/ i < k) = TRUE
      BY <2>3, Zenon
    <3>2. s[i] = [writes[i] EXCEPT !.late = TRUE]
      BY <2>2, <3>1, Zenon
    <3> QED BY <2>1, <2>3, <3>2 DEF Write
  <2>4. CASE ~(i < k)
    <3>1. (writes[i].late \/ i < k) = writes[i].late
      <4>1. writes[i].late \in BOOLEAN
        BY <2>1
      <4> QED BY <2>4, <4>1, Zenon
    <3>2. s[i] = [writes[i] EXCEPT !.late = writes[i].late]
      BY <2>2, <3>1, Zenon
    <3> QED BY <2>1, <2>4, <3>2 DEF Write
  <2> QED BY <2>3, <2>4
<1>3. s \in Seq(Write) /\ Len(s) = Len(writes) /\ DOMAIN s = DOMAIN writes
  <2>1. s = [i \in 1..Len(writes) |-> s[i]]
    BY <1>1, Zenon
  <2> HIDE DEF s
  <2>2. s \in [1..Len(writes) -> Write]
    BY <1>1, <1>2, <2>1
  <2>3. s \in Seq(Write)
    BY <1>1, <2>2, SeqDef
  <2> QED BY <1>1, <2>2, <2>3
<1>4. writes' = RemoveAt(s, k)
  BY DEF save_json
<1> HIDE DEF s
<1>5. /\ writes' \in Seq(Write) /\ Len(writes') = Len(writes) - 1
      /\ \A i \in 1..(Len(writes) - 1) : writes'[i] = IF i < k THEN s[i] ELSE s[i + 1]
  BY <1>3, <1>4, RemoveAtIs
<1>6. ASSUME NEW i \in 1..(Len(writes) - 1)
      PROVE  IF i < k THEN writes'[i] = [list |-> writes[i].list, late |-> TRUE]
                      ELSE writes'[i] = writes[i + 1]
  <2>1. i \in DOMAIN writes /\ i + 1 \in DOMAIN writes /\ i \in Nat /\ k \in Nat
    BY <1>1
  <2>2. CASE i < k
    BY <1>2, <1>5, <2>1, <2>2
  <2>3. CASE ~(i < k)
    <3>1. ~(i + 1 < k)
      BY <2>1, <2>3
    <3> QED BY <1>2, <1>5, <2>1, <2>3, <3>1
  <2> QED BY <2>2, <2>3
<1> QED BY <1>5, <1>6

(* Steps of flows, entries and the file keep the invariant of set-up: what *)
(* they do to it is a job of a flow, or a call.                            *)
LEMMA OtherStepInv ==
  ASSUME Inv, Next, ~Setting, ~Restart
  PROVE  SetupInv'
<1> DEFINE Calls == \A c \in calls' : c \in calls \/ \E by : \E d \in Domains : c = Call(by, d)
           Rest == UNCHANGED <<deps, components, setup_tasks>> /\ processed' \subseteq Domains
<1>0. SetupInv /\ jobs \in Seq(Jobs) /\ Len(jobs) \in Nat /\ DOMAIN jobs = 1..Len(jobs)
      /\ processed \subseteq Domains
  <2>1. SetupInv /\ jobs \in Seq(Jobs)
    BY DEF Inv, SetupInv, SetupTypeOK, Jobs
  <2> QED BY <2>1 DEF SetupInv, SetupTypeOK
<1>1. ASSUME UNCHANGED jobs, Calls, Rest PROVE SetupInv'
  BY <1>0, <1>1, Frame
<1>2. ASSUME UNCHANGED setupVars PROVE SetupInv'
  BY <1>0, <1>1, <1>2 DEF setupVars
<1>3. CASE Entering
  <2>1. ASSUME NEW i \in DOMAIN jobs, EntryLoaded(i) PROVE SetupInv'
    <3>1. PICK e \in jobs[i].left : jobs' = [jobs EXCEPT ![i].left = @ \ {e}]
      BY <2>1 DEF EntryLoaded
    <3>2. jobs[i] \in Jobs
      BY <1>0
    <3> DEFINE left == jobs[i].left \ {e}
    <3>3. [jobs[i] EXCEPT !.left = left]
            = [domain |-> jobs[i].domain, flow |-> jobs[i].flow, at |-> "entries", left |-> left]
      BY <2>1, <3>2 DEF Jobs, EntryLoaded
    <3>4. left \in SUBSET Flows /\ jobs[i].at = "entries"
      BY <2>1, <3>2 DEF Jobs, EntryLoaded
    <3>5. jobs' = [jobs EXCEPT ![i] = [jobs[i] EXCEPT !.left = left]]
      BY <3>1
    <3>6. Calls /\ Rest
      BY <1>0, <2>1 DEF EntryLoaded
    <3> HIDE DEF left
    <3> QED BY <1>0, <3>3, <3>4, <3>5, <3>6, Move
  <2>2. ASSUME NEW i \in DOMAIN jobs, InitReady(i) PROVE SetupInv'
    <3>1. Put(i, "done") /\ jobs[i].at = "setup" /\ jobs[i].flow # Nobody /\ Calls /\ Rest
      BY <1>0, <2>2 DEF InitReady
    <3>2. jobs[i] \in Jobs
      BY <1>0
    <3>3. jobs[i].left \in SUBSET Flows
      BY <3>2 DEF Jobs
    <3> QED BY <1>0, <3>1, <3>3, PutIs, Move
  <2>3. ASSUME NEW f \in Flows, EntryAdded(f) PROVE SetupInv'
    BY <1>2, <2>3 DEF EntryAdded
  <2> QED BY <1>3, <2>1, <2>2, <2>3 DEF Entering
<1>4. ASSUME NEW f \in Flows, async_init(f) PROVE SetupInv'
  <2>1. CASE UNCHANGED setupVars
    BY <1>2, <2>1
  <2>2. CASE jobs' = Append(jobs, Job(FlowDomain[f], f))
             /\ UNCHANGED <<deps, components, setup_tasks, processed, calls, asked>>
    <3>1. Job(FlowDomain[f], f) \in Jobs /\ f # Nobody
      BY SetupConstants DEF Job, Jobs
    <3>2. /\ jobs' \in Seq(Jobs) /\ Len(jobs') = Len(jobs) + 1
          /\ \A k \in 1..Len(jobs) : jobs'[k] = jobs[k]
          /\ \A k \in (Len(jobs) + 1)..Len(jobs') : jobs'[k] = Job(FlowDomain[f], f)
      BY <1>0, <2>2, <3>1
    <3>3. Calls /\ Rest
      BY <1>0, <2>2
    <3>4. \A k \in (Len(jobs) + 1)..Len(jobs') : jobs'[k].flow # Nobody /\ jobs'[k].at = "begin"
      BY <3>1, <3>2 DEF Job
    <3> QED BY <1>0, <3>2, <3>3, <3>4, Frame
  <2> QED BY <1>4, <2>1, <2>2 DEF async_init
<1>5. ASSUME NEW f \in Flows, StepResult(f) PROVE SetupInv'
  <2>1. CASE UNCHANGED setupVars
    BY <1>2, <2>1
  <2>2. CASE _async_add_entry(f)
    <3>1. CASE FlowDomain[f] \in components
      BY <1>2, <2>2, <3>1 DEF _async_add_entry
    <3>2. CASE FlowDomain[f] \notin components
      <4>1. FlowDomain[f] \in Domains
        BY SetupConstants
      <4>2. UNCHANGED jobs /\ Calls /\ Rest
        BY <1>0, <2>2, <3>2, <4>1 DEF _async_add_entry
      <4> QED BY <1>1, <4>2
    <3> QED BY <3>1, <3>2
  <2> QED BY <1>5, <2>1, <2>2 DEF StepResult
<1>6. ASSUME NEW d \in Domains, Ask(d) PROVE SetupInv'
  <2>1. UNCHANGED jobs /\ Calls /\ Rest
    BY <1>0, <1>6 DEF Ask
  <2> QED BY <1>1, <2>1
<1>7. ASSUME NEW f \in Flows, async_configure(f) \/ async_abort(f) PROVE SetupInv'
  BY <1>2, <1>7 DEF async_configure, async_abort
<1>8. ASSUME \/ \E k \in DOMAIN entries : async_remove(k)
             \/ \E k \in DOMAIN writes : save_json(k)
             \/ _async_save
      PROVE  SetupInv'
  BY <1>2, <1>8 DEF async_remove, save_json, _async_save
<1> QED BY <1>3, <1>4, <1>5, <1>6, <1>7, <1>8 DEF Next

(* After a restart nothing is set up and nothing is refused.               *)
LEMMA RestartSetupInv ==
  ASSUME Inv, Restart
  PROVE  SetupInv'
<1>1. file \in Seq(Flows) /\ deps \in [Domains -> SUBSET Domains]
  BY DEF Inv, TypeOK, SetupTypeOK
<1>2. jobs' = <<>> /\ DOMAIN jobs' = {} /\ Len(jobs') = 0 /\ jobs' \in Seq(Jobs)
  BY DEF Restart
<1>3. \A c \in calls' : \E d \in Domains : c = Call(<<"outside", d>>, d)
  BY <1>1, RangeOfSeq, SetupConstants DEF Restart
<1>4. setup_tasks' = [d \in Domains |-> 0] /\ components' = {} /\ processed' = {} /\ deps' = deps
  BY DEF Restart
<1>5. \A c \in calls' : CallOK(c)'
  BY <1>2, <1>3 DEF CallOK, Call
<1>6. SetupTypeOK'
  BY <1>1, <1>2, <1>4, <1>5 DEF SetupTypeOK, CallOK, Jobs
<1>7. SetupOnce' /\ OneVerdict'
  BY <1>2, <1>3 DEF SetupOnce, OneVerdict, Call
<1> QED BY <1>2, <1>4, <1>5, <1>6, <1>7 DEF SetupInv

(* And so does every step.                                                 *)
LEMMA SetupInvStep ==
  ASSUME Inv, [Next]_vars
  PROVE  SetupInv'
<1>1. CASE Setting
  <2>1. Range(entries) \in SUBSET Flows
    BY RangeOfSeq DEF Inv, TypeOK
  <2> QED BY <1>1, <2>1, SetupStepInv DEF Inv, Setting
<1>2. CASE Restart
  BY <1>2, RestartSetupInv
<1>3. CASE Next /\ ~Setting /\ ~Restart
  BY <1>3, OtherStepInv
<1>4. CASE UNCHANGED vars
  BY <1>4 DEF vars, setupVars, Inv, SetupInv, SetupTypeOK, CallOK, Kept, SetupOnce, OneVerdict
<1> QED BY <1>1, <1>2, <1>3, <1>4

(* A step adds at most one entry, that of a flow in progress, which is     *)
(* over with it; and every part keeps its type.                            *)
LEMMA InvStep ==
  ASSUME Inv, [Next]_vars
  PROVE  Inv'
<1>1. SetupInv'
  BY SetupInvStep
<1>0. /\ entries \in Seq(Flows) /\ file \in Seq(Flows) /\ writes \in Seq(Write)
      /\ progress \subseteq Flows /\ setting \subseteq Flows /\ over \subseteq Flows
      /\ steps \in [Flows -> 0..MaxSteps] /\ setups \in [Flows -> Nat]
      /\ sched \in BOOLEAN /\ last \in {"well", "late", "failed"}
      /\ taken \in 0..MaxSteps /\ \A f \in Flows : steps[f] <= taken
      /\ progress \cap over = {} /\ MaxSteps \in Nat /\ restarts \in Nat
  BY EntryConstants DEF Inv, TypeOK
<1> DEFINE Saves == sched' \in BOOLEAN /\ last' \in {"well", "late", "failed"}
                    /\ file' \in Seq(Flows) /\ writes' \in Seq(Write)
           Flow == /\ restarts' \in Nat /\ progress' \subseteq Flows /\ over' \subseteq Flows
                   /\ progress' \cap over' = {}
                   /\ taken' \in 0..MaxSteps /\ steps' \in [Flows -> 0..MaxSteps]
                   /\ \A f \in Flows : steps'[f] <= taken'
           Entry == entries' \in Seq(Flows) /\ setting' \subseteq Flows
                    /\ setups' \in [Flows -> Nat]
<1>2. ASSUME Saves, Flow, Entry PROVE Inv'
  BY <1>1, <1>2 DEF Inv, TypeOK, SetupInv
<1>3. ASSUME UNCHANGED saveVars PROVE Saves
  BY <1>0, <1>3 DEF saveVars
<1>4. ASSUME UNCHANGED <<progress, steps, over, taken, restarts>> PROVE Flow
  BY <1>0, <1>4
<1>5. ASSUME UNCHANGED <<entries, setting, setups>> PROVE Entry
  BY <1>0, <1>5
<1>6. ASSUME NEW f \in Flows, FirstStep(f), UNCHANGED restarts PROVE Flow /\ Entry
  <2>1. Flow
    BY <1>0, <1>6 DEF FirstStep, begun
  <2> QED BY <1>5, <1>6, <2>1 DEF FirstStep
<1>7. CASE Setting \/ (\E d \in Domains : Ask(d) /\ UNCHANGED <<entryVars, saveVars, restarts>>)
  BY <1>2, <1>3, <1>4, <1>5, <1>7 DEF Setting, entryVars
<1>8. CASE Entering
  <2>1. ASSUME NEW f \in Flows, EntryAdded(f) PROVE Inv'
    <3>1. Entry
      BY <1>0, <2>1 DEF EntryAdded
    <3> QED BY <1>2, <1>3, <1>4, <2>1, <3>1 DEF EntryAdded
  <2>2. ASSUME NEW i \in DOMAIN jobs, EntryLoaded(i) PROVE Inv'
    <3>1. PICK e \in jobs[i].left : setups' = [setups EXCEPT ![e] = @ + 1]
      BY <2>2 DEF EntryLoaded
    <3>2. e \in Flows
      <4>1. jobs \in Seq(Jobs)
        BY DEF Inv, SetupInv, SetupTypeOK, Jobs
      <4>2. jobs[i] \in Jobs
        BY <4>1
      <4> QED BY <4>2 DEF Jobs
    <3>3. setups' \in [Flows -> Nat]
      BY <1>0, <3>1, <3>2
    <3> QED BY <1>0, <1>2, <1>3, <1>4, <2>2, <3>3 DEF EntryLoaded
  <2>3. ASSUME NEW i \in DOMAIN jobs, InitReady(i) PROVE Inv'
    <3>1. jobs[i].flow \in Flows
      <4>1. jobs \in Seq(Jobs)
        BY DEF Inv, SetupInv, SetupTypeOK, Jobs
      <4>2. jobs[i] \in Jobs
        BY <4>1
      <4> QED BY <2>3, <4>2 DEF InitReady, Jobs
    <3>2. Flow /\ Entry
      BY <1>6, <2>3, <3>1 DEF InitReady
    <3> QED BY <1>2, <1>3, <2>3, <3>2 DEF InitReady
  <2> QED BY <1>8, <2>1, <2>2, <2>3 DEF Entering
<1>9. ASSUME NEW f \in Flows, async_init(f) PROVE Inv'
  <2>1. Flow /\ Entry
    BY <1>4, <1>5, <1>6, <1>9 DEF async_init, entryVars
  <2> QED BY <1>2, <1>3, <1>9, <2>1 DEF async_init
<1>10. ASSUME NEW f \in Flows, async_configure(f) PROVE Inv'
  <2>1. Flow
    BY <1>0, <1>10 DEF async_configure
  <2> QED BY <1>2, <1>3, <1>5, <1>10, <2>1 DEF async_configure
<1>11. ASSUME NEW f \in Flows, async_abort(f) PROVE Inv'
  <2>1. Flow
    BY <1>0, <1>11 DEF async_abort, pop, pop_Default
  <2> QED BY <1>2, <1>3, <1>5, <1>11, <2>1 DEF async_abort
<1>12. ASSUME NEW f \in Flows, StepResult(f) PROVE Inv'
  <2>1. Flow
    <3>1. progress' \subseteq Flows /\ over' \subseteq Flows /\ progress' \cap over' = {}
      BY <1>0, <1>12 DEF StepResult, pop, pop_Default
    <3>2. /\ taken' = taken /\ restarts' = restarts /\ steps' = [steps EXCEPT ![f] = @ - 1] /\ steps[f] > 0
      BY <1>12 DEF StepResult
    <3> QED BY <1>0, <3>1, <3>2
  <2>2. CASE UNCHANGED <<entries, setting, setups, saveVars>>
    BY <1>2, <1>3, <1>5, <2>1, <2>2
  <2>3. CASE _async_add_entry(f) /\ UNCHANGED setups
    <3>1. Saves /\ Entry
      BY <1>0, <2>3 DEF _async_add_entry, _async_schedule_save, setupVars
    <3> QED BY <1>2, <2>1, <3>1
  <2> QED BY <1>12, <2>2, <2>3 DEF StepResult
<1>13. ASSUME NEW k \in DOMAIN entries, async_remove(k) PROVE Inv'
  <2>1. Entry
    BY <1>0, <1>13, RemoveAtIs DEF async_remove
  <2>2. Saves
    BY <1>0, <1>13 DEF async_remove, _async_schedule_save
  <2> QED BY <1>2, <1>4, <1>13, <2>1, <2>2 DEF async_remove
<1>14. ASSUME NEW k \in DOMAIN writes, save_json(k) PROVE Inv'
  <2>1. Saves
    <3>1. writes' \in Seq(Write)
      BY <1>0, <1>14, WriteEnds
    <3>2. writes[k].list \in Seq(Flows)
      <4>1. writes[k] \in Write
        BY <1>0
      <4> QED BY <4>1 DEF Write
    <3> QED BY <1>0, <1>14, <3>1, <3>2 DEF save_json
  <2> QED BY <1>2, <1>4, <1>5, <1>14, <2>1 DEF save_json, entryVars
<1>15. CASE _async_save
  <2>1. Saves
    <3>1. writes' = Append(writes, [list |-> entries, late |-> FALSE]) /\ sched' = FALSE
          /\ UNCHANGED <<file, last>>
      BY <1>15 DEF _async_save
    <3>2. [list |-> entries, late |-> FALSE] \in Write
      BY <1>0 DEF Write
    <3>3. writes' \in Seq(Write)
      BY <1>0, <3>1, <3>2
    <3> QED BY <1>0, <3>1, <3>3
  <2> QED BY <1>2, <1>4, <1>5, <1>15, <2>1 DEF _async_save, entryVars
<1>16. CASE Restart
  <2>1. Flow
    BY <1>0, <1>16 DEF Restart
  <2>2. Entry
    BY <1>0, <1>16 DEF Restart
  <2>3. Saves
    BY <1>0, <1>16 DEF Restart
  <2> QED BY <1>2, <2>1, <2>2, <2>3
<1>17. CASE UNCHANGED vars
  BY <1>2, <1>3, <1>4, <1>5, <1>17 DEF vars, entryVars
<1> QED BY <1>7, <1>8, <1>9, <1>10, <1>11, <1>12, <1>13, <1>14, <1>15, <1>16, <1>17 DEF Next

LEMMA InvInvariant == Spec => []Inv
<1>1. Init => Inv
  <2> SUFFICES ASSUME Init PROVE Inv
    OBVIOUS
  <2>1. /\ jobs = <<>> /\ jobs \in Seq(Jobs) /\ Len(jobs) = 0 /\ DOMAIN jobs = {}
        /\ calls = {} /\ components = {} /\ processed = {}
        /\ setup_tasks = [d \in Domains |-> 0] /\ deps \in [Domains -> SUBSET Domains]
    BY SetupConstants DEF Init, SetupInit
  <2>2. SetupInv
    BY <2>1 DEF SetupInv, SetupTypeOK, SetupOnce, OneVerdict, Jobs
  <2>3. SetupTypeOK
    BY <2>2 DEF SetupInv
  <2>4. <<>> \in Seq(Flows) /\ <<>> \in Seq(Write) /\ 0 \in 0..MaxSteps
    BY EntryConstants
  <2>5. TypeOK
    BY <2>3, <2>4 DEF TypeOK, Init
  <2> QED BY <2>2, <2>5, EntryConstants DEF Inv, Init
<1> QED BY <1>1, InvStep, PTL DEF Spec

(* Every part of the state keeps its type, and what hass.data remembers of *)
(* a domain is a task of that domain that is not done.                     *)
THEOREM TypeCorrect == Spec => []TypeOK
<1>1. Inv => TypeOK
  BY DEF Inv
<1> QED BY <1>1, InvInvariant, PTL

(* However many ask for a component at once, and whatever depends on what, *)
(* one task at most sets it up between two starts.                         *)
THEOREM SetupOnceCorrect == Spec => []SetupOnce
<1>1. Inv => SetupOnce
  BY DEF Inv, SetupInv
<1> QED BY <1>1, InvInvariant, PTL

(* All who ask async_setup_component for a component are told the same,    *)
(* and it stays true.                                                      *)
THEOREM OneVerdictCorrect == Spec => []OneVerdict
<1>1. Inv => OneVerdict
  BY DEF Inv, SetupInv
<1> QED BY <1>1, InvInvariant, PTL

(* A flow that is over makes no entry, whatever steps of it were in flight *)
(* when it ended.                                                          *)
THEOREM OneEntryCorrect == Spec => OneEntryPerFlow
<1> DEFINE A == Len(entries') > Len(entries) /\ UNCHANGED restarts => Last(entries') \notin over
<1>1. ASSUME Inv, [Next]_vars PROVE [A]_vars
  <2> SUFFICES ASSUME Next, Len(entries') > Len(entries), UNCHANGED restarts
               PROVE  Last(entries') \notin over
    BY <1>1
  <2>0. entries \in Seq(Flows) /\ Len(entries) \in Nat /\ restarts \in Nat
    BY <1>1 DEF Inv, TypeOK
  <2>1. PICK f \in Flows : pop(f) /\ entries' = Append(entries, f)
    <3>1. ASSUME UNCHANGED entries PROVE FALSE
      BY <2>0, <3>1
    <3>2. ASSUME NEW k \in DOMAIN entries, async_remove(k) PROVE FALSE
      <4>1. SubSeq(entries, 1, k - 1) \in Seq(Flows) /\ Len(SubSeq(entries, 1, k - 1)) = k - 1
        BY <2>0, SubSeqProperties
      <4>2. /\ SubSeq(entries, k + 1, Len(entries)) \in Seq(Flows)
            /\ Len(SubSeq(entries, k + 1, Len(entries))) = Len(entries) - k
        BY <2>0, SubSeqProperties
      <4>3. Len(entries') = Len(entries) - 1
        BY <2>0, <3>2, <4>1, <4>2, ConcatProperties DEF async_remove, RemoveAt
      <4> QED BY <2>0, <4>3
    <3>3. ~Restart
      BY <2>0 DEF Restart
    <3>4. Setting \/ Entering \/ _async_save
            \/ (\E d \in Domains : Ask(d) /\ UNCHANGED <<entryVars, saveVars, restarts>>)
            \/ (\E k \in DOMAIN writes : save_json(k))
          => UNCHANGED entries
      BY DEF Setting, Entering, EntryAdded, EntryLoaded, InitReady, FirstStep, _async_save,
             save_json, entryVars
    <3>5. PICK f \in Flows :
            async_init(f) \/ async_configure(f) \/ async_abort(f) \/ StepResult(f)
      BY <3>1, <3>2, <3>3, <3>4 DEF Next
    <3>6. async_init(f) \/ async_configure(f) \/ async_abort(f) => UNCHANGED entries
      BY DEF async_init, FirstStep, async_configure, async_abort, entryVars
    <3> QED BY <3>1, <3>5, <3>6 DEF StepResult, _async_add_entry
  <2>2. Last(entries') = f
    BY <2>0, <2>1 DEF Last
  <2> QED BY <1>1, <2>1, <2>2 DEF pop, pop_Default, Inv
<1> QED BY <1>1, InvInvariant, PTL DEF Spec, OneEntryPerFlow

-----------------------------------------------------------------------------
(* Where an entry stands: set up at most once; being set up by the flow    *)
(* that made it only if its component is there, and by the component's job *)
(* only before that, and by neither if it was set up already.              *)
EntryAt(e) ==
  /\ setups[e] \in {0, 1}
  /\ e \in setting => FlowDomain[e] \in components /\ setups[e] = 0 /\ e \in over
  /\ \A i \in DOMAIN jobs : e \in jobs[i].left =>
       jobs[i].at = "entries" /\ jobs[i].domain = FlowDomain[e] /\ setups[e] = 0 /\ e \in over
  /\ setups[e] = 1 =>
       /\ e \in over
       /\ \/ FlowDomain[e] \in components
          \/ \E i \in DOMAIN jobs : /\ jobs[i].at = "entries" /\ jobs[i].flow = Nobody
                                    /\ jobs[i].domain = FlowDomain[e]

(* What is in the list, in a write or in the file was made by a flow.      *)
Made ==
  /\ Range(entries) \subseteq over /\ Range(file) \subseteq over
  /\ \A k \in DOMAIN writes : Range(writes[k].list) \subseteq over

(* Where an entry stands is not changed by jobs that move, but for one     *)
(* that takes the list of entries.                                         *)
LEMMA EntryFrame ==
  ASSUME Inv, NEW e \in Flows, EntryAt(e), UNCHANGED <<setting, setups>>,
         over \subseteq over', components \subseteq components',
         \A k \in DOMAIN jobs' : e \in jobs'[k].left =>
           k \in DOMAIN jobs /\ e \in jobs[k].left
             /\ jobs'[k].at = jobs[k].at /\ jobs'[k].domain = jobs[k].domain,
         \A k \in DOMAIN jobs : jobs[k].at = "entries" /\ jobs[k].flow = Nobody =>
           \/ jobs[k].domain \in components'
           \/ k \in DOMAIN jobs' /\ jobs'[k].at = "entries" /\ jobs'[k].flow = Nobody
                /\ jobs'[k].domain = jobs[k].domain
  PROVE  EntryAt(e)'
BY DEF EntryAt

(* A job other than a component's at its entries has no entries to do.     *)
LEMMA EntrySetting ==
  ASSUME Inv, Made, \A e \in Flows : EntryAt(e), Setting
  PROVE  \A e \in Flows : EntryAt(e)'
<1>0. jobs \in Seq(Jobs) /\ DOMAIN jobs = 1..Len(jobs) /\ Len(jobs) \in Nat
  <2>1. jobs \in Seq(Jobs)
    BY DEF Inv, SetupInv, SetupTypeOK, Jobs
  <2> QED BY <2>1
<1>u. UNCHANGED <<setting, setups, over>>
  BY DEF Setting, entryVars
<1> SUFFICES ASSUME NEW e \in Flows PROVE EntryAt(e)'
  OBVIOUS
<1>1. ASSUME NEW i \in DOMAIN jobs, NEW at, Put(i, at), jobs[i].at # "entries",
             components' = components
      PROVE  EntryAt(e)'
  <2>1. /\ DOMAIN jobs' = DOMAIN jobs /\ \A k \in DOMAIN jobs : k # i => jobs'[k] = jobs[k]
        /\ jobs'[i] = [jobs[i] EXCEPT !.at = at]
    BY <1>1 DEF Put
  <2>2. jobs'[i].left = jobs[i].left
    <3>1. jobs[i] \in Jobs
      BY <1>0
    <3> QED BY <2>1, <3>1 DEF Jobs
  <2>3. e \notin jobs'[i].left
    BY <1>1, <2>2 DEF EntryAt
  <2> QED BY <1>1, <1>u, <2>1, <2>3, EntryFrame
<1>2. ASSUME NEW c \in calls, async_setup_component(c) PROVE EntryAt(e)'
  <2>1. CASE UNCHANGED jobs
    BY <1>u, <1>2, <2>1, EntryFrame DEF async_setup_component
  <2>2. CASE jobs' = Append(jobs, Job(c.domain, Nobody))
    <3>1. c.domain \in Domains
      BY DEF Inv, SetupInv, SetupTypeOK
    <3>2. Job(c.domain, Nobody) \in Jobs
      BY <3>1 DEF Job, Jobs
    <3>3. /\ DOMAIN jobs' = 1..(Len(jobs) + 1) /\ \A k \in DOMAIN jobs : jobs'[k] = jobs[k]
          /\ jobs'[Len(jobs) + 1].left = {}
      BY <1>0, <2>2, <3>2 DEF Job
    <3> QED BY <1>0, <1>u, <1>2, <3>3, EntryFrame DEF async_setup_component
  <2> QED BY <1>2, <2>1, <2>2 DEF async_setup_component
<1>3. ASSUME NEW i \in DOMAIN jobs, Begin(i) \/ Gathered(i) \/ Requirements(i)
      PROVE  EntryAt(e)'
  <2>1. /\ jobs[i].at # "entries" /\ components' = components
    BY <1>3 DEF Begin, Gathered, Requirements
  <2>2. PICK at : Put(i, at)
    BY <1>3 DEF Begin, Gathered, Requirements
  <2> QED BY <1>1, <2>1, <2>2
<1>4. ASSUME NEW i \in DOMAIN jobs, SetUp(i, Range(entries)) PROVE EntryAt(e)'
  <2> DEFINE left == {x \in Range(entries) : FlowDomain[x] = jobs[i].domain}
  <2>1. CASE Put(i, "failed")
    <3>1. jobs[i].at # "entries" /\ components' = components
      BY <1>4 DEF SetUp
    <3> QED BY <1>1, <2>1, <3>1
  <2>2. CASE jobs' = [jobs EXCEPT ![i].at = "entries", ![i].left = left]
    <3>1. jobs[i] \in Jobs /\ jobs[i].at = "setup" /\ jobs[i].flow = Nobody
      BY <1>0, <1>4 DEF SetUp
    <3>2. /\ DOMAIN jobs' = DOMAIN jobs /\ \A k \in DOMAIN jobs : k # i => jobs'[k] = jobs[k]
          /\ jobs'[i].at = "entries" /\ jobs'[i].left = left /\ jobs'[i].domain = jobs[i].domain
          /\ jobs'[i].flow = Nobody
      <4> HIDE DEF left
      <4> QED BY <2>2, <3>1 DEF Jobs
    <3>3. /\ jobs[i].domain \notin components
          /\ \A k \in DOMAIN jobs : jobs[k].at = "entries" /\ jobs[k].flow = Nobody =>
               jobs[k].domain # jobs[i].domain
      BY <3>1, SMTT(30) DEF Inv, SetupInv, SetupOnce, Kept, SetupTypeOK
    <3>4. e \in left => setups[e] = 0 /\ e \notin setting /\ e \in over
      BY <1>4, <3>3 DEF EntryAt, Made
    <3>5. components' = components
      BY <1>4 DEF SetUp
    <3> HIDE DEF left
    <3>6. EntryAt(e)
      OBVIOUS
    <3>7. \A k \in DOMAIN jobs' : e \in jobs'[k].left =>
            jobs'[k].at = "entries" /\ jobs'[k].domain = FlowDomain[e] /\ setups[e] = 0 /\ e \in over
      <4>1. e \in left => FlowDomain[e] = jobs[i].domain
        BY DEF left
      <4> QED BY <3>2, <3>4, <3>6, <4>1 DEF EntryAt
    <3>8. setups[e] = 1 /\ FlowDomain[e] \notin components =>
            \E k \in DOMAIN jobs' : jobs'[k].at = "entries" /\ jobs'[k].flow = Nobody
                                     /\ jobs'[k].domain = FlowDomain[e]
      BY <3>1, <3>2, <3>6 DEF EntryAt
    <3> QED BY <1>u, <3>5, <3>6, <3>7, <3>8 DEF EntryAt
  <2> QED BY <1>4, <2>1, <2>2 DEF SetUp
<1>5. ASSUME NEW i \in DOMAIN jobs, Loaded(i) PROVE EntryAt(e)'
  <2>1. /\ DOMAIN jobs' = DOMAIN jobs /\ \A k \in DOMAIN jobs : k # i => jobs'[k] = jobs[k]
        /\ jobs'[i].left = {} /\ components' = components \cup {jobs[i].domain}
    <3>1. jobs[i] \in Jobs
      BY <1>0
    <3> QED BY <1>5, <3>1 DEF Loaded, Put, Jobs
  <2> QED BY <1>u, <2>1, EntryFrame
<1> QED BY <1>2, <1>3, <1>4, <1>5 DEF Setting, SetupStep

(* What a removal leaves of a sequence was in it.                          *)
LEMMA RemoveAtRange ==
  ASSUME NEW S, NEW s \in Seq(S), NEW k \in DOMAIN s
  PROVE  \A x \in DOMAIN RemoveAt(s, k) : \E y \in DOMAIN s : RemoveAt(s, k)[x] = s[y]
<1>1. Len(s) \in Nat /\ DOMAIN s = 1..Len(s) /\ k \in Nat
  OBVIOUS
<1>2. DOMAIN RemoveAt(s, k) = 1..(Len(s) - 1)
  BY <1>1, RemoveAtIs
<1>3. ASSUME NEW x \in 1..(Len(s) - 1) PROVE \E y \in DOMAIN s : RemoveAt(s, k)[x] = s[y]
  <2>1. x \in DOMAIN s /\ x + 1 \in DOMAIN s
    BY <1>1
  <2>2. RemoveAt(s, k)[x] = s[x] \/ RemoveAt(s, k)[x] = s[x + 1]
    BY RemoveAtIs
  <2> QED BY <2>1, <2>2
<1> QED BY <1>2, <1>3

(* The invariant of entries: where each stands, and who made it.           *)
EntryInv == Made /\ \A e \in Flows : EntryAt(e)

LEMMA EntryInvStep ==
  ASSUME Inv, EntryInv, [Next]_vars
  PROVE  EntryInv'
<1>0. /\ entries \in Seq(Flows) /\ file \in Seq(Flows) /\ writes \in Seq(Write)
      /\ jobs \in Seq(Jobs) /\ DOMAIN jobs = 1..Len(jobs) /\ Len(jobs) \in Nat
      /\ progress \cap over = {}
  <2>1. jobs \in Seq(Jobs)
    BY DEF Inv, SetupInv, SetupTypeOK, Jobs
  <2> QED BY <2>1 DEF Inv, TypeOK
<1>1. ASSUME over \subseteq over', UNCHANGED <<entries, file, writes>> PROVE Made'
  BY <1>1 DEF EntryInv, Made
<1>2. ASSUME over \subseteq over', UNCHANGED <<setting, setups, components, jobs>>
      PROVE  \A e \in Flows : EntryAt(e)'
  BY <1>2 DEF EntryInv, EntryAt
<1>3. ASSUME NEW f \in Flows, FirstStep(f), UNCHANGED saveVars PROVE Made' /\ UNCHANGED <<setting, setups, over>>
  BY <1>1, <1>3 DEF FirstStep, saveVars
<1>4. CASE Setting
  <2>1. Made'
    BY <1>1, <1>4 DEF Setting, entryVars, saveVars
  <2> QED BY <1>4, <2>1, EntrySetting DEF EntryInv
<1>5. ASSUME NEW x \in Flows, EntryAdded(x) PROVE EntryInv'
  <2>1. Made'
    BY <1>1, <1>5 DEF EntryAdded, saveVars
  <2>2. /\ x \in setting /\ setting' = setting \ {x} /\ setups' = [setups EXCEPT ![x] = @ + 1]
        /\ UNCHANGED <<jobs, components, over>> /\ setups \in [Flows -> Nat]
    BY <1>5 DEF EntryAdded, setupVars, Inv, TypeOK
  <2>3. ASSUME NEW e \in Flows PROVE EntryAt(e)'
    <3>1. CASE e # x
      BY <2>2, <3>1 DEF EntryInv, EntryAt
    <3>2. CASE e = x
      <4>1. FlowDomain[x] \in components /\ setups[x] = 0 /\ x \in over
        BY <2>2 DEF EntryInv, EntryAt
      <4>2. \A i \in DOMAIN jobs : x \notin jobs[i].left
        <5>1. ASSUME NEW i \in DOMAIN jobs, x \in jobs[i].left PROVE FALSE
          <6>1. jobs[i].at = "entries" /\ jobs[i].domain = FlowDomain[x]
            BY <5>1 DEF EntryInv, EntryAt
          <6> QED BY <4>1, <6>1 DEF Inv, SetupInv, Kept, SetupTypeOK
        <5> QED BY <5>1
      <4> QED BY <2>2, <3>2, <4>1, <4>2 DEF EntryAt
    <3> QED BY <3>1, <3>2
  <2> QED BY <2>1, <2>3 DEF EntryInv
<1>6. ASSUME NEW i \in DOMAIN jobs, EntryLoaded(i) PROVE EntryInv'
  <2>1. Made'
    BY <1>1, <1>6 DEF EntryLoaded, saveVars
  <2>2. PICK x \in jobs[i].left : /\ jobs' = [jobs EXCEPT ![i].left = @ \ {x}]
                                  /\ setups' = [setups EXCEPT ![x] = @ + 1]
    BY <1>6 DEF EntryLoaded
  <2>3. jobs[i] \in Jobs /\ x \in Flows /\ setups \in [Flows -> Nat]
    <3>1. jobs[i] \in Jobs
      BY <1>0
    <3> QED BY <3>1 DEF Jobs, Inv, TypeOK
  <2>4. /\ jobs[i].at = "entries" /\ jobs[i].domain = FlowDomain[x] /\ jobs[i].flow = Nobody
        /\ setups[x] = 0 /\ x \in over /\ jobs[i].domain \notin components
    <3>1. jobs[i].at = "entries" /\ jobs[i].domain = FlowDomain[x] /\ setups[x] = 0 /\ x \in over
      BY <2>3 DEF EntryInv, EntryAt
    <3> QED BY <3>1 DEF Inv, SetupInv, Kept, SetupTypeOK
  <2>5. /\ DOMAIN jobs' = DOMAIN jobs /\ \A k \in DOMAIN jobs : k # i => jobs'[k] = jobs[k]
        /\ jobs'[i].at = "entries" /\ jobs'[i].domain = FlowDomain[x] /\ jobs'[i].flow = Nobody
        /\ jobs'[i].left = jobs[i].left \ {x}
    BY <2>2, <2>3, <2>4 DEF Jobs
  <2>6. UNCHANGED <<setting, over, components>>
    BY <1>6 DEF EntryLoaded
  <2>7. \A k \in DOMAIN jobs : x \in jobs[k].left => k = i
    <3>1. \A k \in DOMAIN jobs : x \in jobs[k].left =>
            jobs[k].at = "entries" /\ jobs[k].domain = jobs[i].domain
      BY <2>3, <2>4 DEF EntryInv, EntryAt
    <3> QED BY <2>4, <3>1 DEF Inv, SetupInv, SetupOnce
  <2>8. x \notin setting
    BY <2>3, <2>4 DEF EntryInv, EntryAt
  <2>9. ASSUME NEW e \in Flows PROVE EntryAt(e)'
    <3>1. CASE e = x
      BY <2>2, <2>3, <2>4, <2>5, <2>6, <2>7, <2>8, <3>1 DEF EntryAt
    <3>2. CASE e # x
      <4>1. EntryAt(e)
        BY DEF EntryInv
      <4>2. setups'[e] = setups[e]
        BY <2>2, <2>3, <3>2
      <4> QED BY <2>4, <2>5, <2>6, <4>1, <4>2 DEF EntryAt
    <3> QED BY <3>1, <3>2
  <2> QED BY <2>1, <2>9 DEF EntryInv
<1>7. ASSUME NEW i \in DOMAIN jobs, InitReady(i) PROVE EntryInv'
  <2>1. jobs[i] \in Jobs /\ jobs[i].flow \in Flows /\ jobs[i].at = "setup"
    <3>1. jobs[i] \in Jobs
      BY <1>0
    <3> QED BY <1>7, <3>1 DEF InitReady, Jobs
  <2>2. Made' /\ UNCHANGED <<setting, setups, over, components>>
    BY <1>3, <1>7, <2>1 DEF InitReady
  <2>3. /\ DOMAIN jobs' = DOMAIN jobs /\ \A k \in DOMAIN jobs : k # i => jobs'[k] = jobs[k]
        /\ jobs'[i].left = jobs[i].left
    BY <1>7, <2>1 DEF InitReady, Put, Jobs
  <2>4. ASSUME NEW e \in Flows PROVE EntryAt(e)'
    <3>1. EntryAt(e) /\ e \notin jobs[i].left
      BY <2>1 DEF EntryInv, EntryAt
    <3> QED BY <2>1, <2>2, <2>3, <3>1, EntryFrame
  <2> QED BY <2>2, <2>4 DEF EntryInv
<1>8. ASSUME NEW f \in Flows, async_init(f) PROVE EntryInv'
  <2>1. CASE FirstStep(f) /\ UNCHANGED setupVars
    <3>1. Made' /\ UNCHANGED <<setting, setups, over>>
      BY <1>3, <1>8, <2>1 DEF async_init
    <3> QED BY <1>2, <2>1, <3>1 DEF EntryInv, setupVars
  <2>2. CASE jobs' = Append(jobs, Job(FlowDomain[f], f)) /\ UNCHANGED <<components, entryVars>>
    <3>1. Job(FlowDomain[f], f) \in Jobs
      BY SetupConstants DEF Job, Jobs
    <3>2. /\ DOMAIN jobs' = 1..(Len(jobs) + 1) /\ \A k \in DOMAIN jobs : jobs'[k] = jobs[k]
          /\ jobs'[Len(jobs) + 1].left = {}
      BY <1>0, <2>2, <3>1 DEF Job
    <3>3. UNCHANGED <<setting, setups, over, components>> /\ Made'
      BY <1>1, <1>8, <2>2 DEF entryVars, async_init, saveVars
    <3>4. ASSUME NEW e \in Flows PROVE EntryAt(e)'
      <4>1. EntryAt(e)
        BY DEF EntryInv
      <4>2. \A k \in DOMAIN jobs' : k \in DOMAIN jobs \/ k = Len(jobs) + 1
        BY <1>0, <3>2
      <4>3. \A k \in DOMAIN jobs : k \in DOMAIN jobs'
        BY <1>0, <3>2
      <4> QED BY <3>2, <3>3, <4>1, <4>2, <4>3, EntryFrame
    <3> QED BY <3>3, <3>4 DEF EntryInv
  <2> QED BY <1>8, <2>1, <2>2 DEF async_init
<1>9. ASSUME NEW f \in Flows, async_configure(f) \/ async_abort(f) PROVE EntryInv'
  BY <1>1, <1>2, <1>9 DEF EntryInv, async_configure, async_abort, pop, pop_Default, saveVars, setupVars
<1>10. ASSUME NEW f \in Flows, StepResult(f) PROVE EntryInv'
  <2>1. over \subseteq over'
    BY <1>10 DEF StepResult, pop, pop_Default
  <2>2. CASE UNCHANGED <<setupVars, entries, setting, setups, saveVars>>
    BY <1>1, <1>2, <2>1, <2>2 DEF EntryInv, saveVars, setupVars
  <2>3. CASE pop(f) /\ _async_add_entry(f) /\ UNCHANGED setups
    <3>1. f \notin over /\ f \in over'
      BY <1>0, <2>3 DEF pop, pop_Default
    <3>2. /\ entries' = Append(entries, f) /\ UNCHANGED <<file, writes, jobs, components>>
          /\ setting' \subseteq setting \cup {f} /\ setting \subseteq setting'
          /\ f \in setting' => f \in setting \/ FlowDomain[f] \in components
      BY <2>3 DEF _async_add_entry, _async_schedule_save, setupVars
    <3>3. Range(entries') \subseteq over'
      <4>1. /\ DOMAIN entries' = 1..(Len(entries) + 1) /\ entries'[Len(entries) + 1] = f
            /\ \A k \in DOMAIN entries : entries'[k] = entries[k]
            /\ DOMAIN entries = 1..Len(entries) /\ Len(entries) \in Nat
        BY <1>0, <3>2
      <4>2. \A k \in DOMAIN entries' : k \in DOMAIN entries \/ k = Len(entries) + 1
        BY <4>1
      <4>3. \A k \in DOMAIN entries : entries[k] \in over
        BY DEF EntryInv, Made, Range
      <4>4. \A k \in DOMAIN entries' : entries'[k] \in over'
        BY <2>1, <3>1, <4>1, <4>2, <4>3
      <4> QED BY <4>4 DEF Range
    <3>4. Made'
      BY <2>1, <3>2, <3>3 DEF EntryInv, Made
    <3>5. ASSUME NEW e \in Flows PROVE EntryAt(e)'
      <4>1. EntryAt(e)
        BY DEF EntryInv
      <4>2. e = f => setups[e] = 0
        BY <3>1, <4>1 DEF EntryAt
      <4> QED BY <2>1, <2>3, <3>1, <3>2, <4>1, <4>2 DEF EntryAt
    <3> QED BY <3>4, <3>5 DEF EntryInv
  <2> QED BY <1>10, <2>2, <2>3 DEF StepResult, pop, pop_Default
<1>11. CASE \E d \in Domains : Ask(d) /\ UNCHANGED <<entryVars, saveVars, restarts>>
  BY <1>1, <1>2, <1>11 DEF EntryInv, Ask, entryVars, saveVars
<1>12. ASSUME NEW k \in DOMAIN entries, async_remove(k) PROVE EntryInv'
  <2>1. /\ entries' = RemoveAt(entries, k) /\ UNCHANGED <<setting, setups, over, file, writes>>
        /\ UNCHANGED <<components, jobs>>
    BY <1>12 DEF async_remove, _async_schedule_save, setupVars
  <2>2. Range(entries') \subseteq over'
    <3>1. \A x \in DOMAIN entries' : \E y \in DOMAIN entries : entries'[x] = entries[y]
      BY <1>0, <2>1, RemoveAtRange
    <3> QED BY <2>1, <3>1 DEF EntryInv, Made, Range
  <2>3. Made'
    BY <2>1, <2>2 DEF EntryInv, Made
  <2> QED BY <1>2, <2>1, <2>3 DEF EntryInv
<1>13. ASSUME NEW k \in DOMAIN writes, save_json(k) PROVE EntryInv'
  <2>1. /\ file' = writes[k].list \/ file' = file
        /\ UNCHANGED <<entries, setting, setups, over, components, jobs>>
    BY <1>13 DEF save_json, setupVars, entryVars
  <2>2. \A x \in DOMAIN writes' : \E y \in DOMAIN writes : writes'[x].list = writes[y].list
    <3>1. /\ Len(writes) \in Nat /\ DOMAIN writes = 1..Len(writes)
          /\ DOMAIN writes' = 1..(Len(writes) - 1)
      BY <1>0, <1>13, WriteEnds
    <3>2. \A x \in 1..(Len(writes) - 1) : x \in DOMAIN writes /\ x + 1 \in DOMAIN writes
      BY <3>1
    <3>3. ASSUME NEW x \in 1..(Len(writes) - 1)
          PROVE  writes'[x].list = writes[x].list \/ writes'[x].list = writes[x + 1].list
      <4>1. \/ writes'[x] = [list |-> writes[x].list, late |-> TRUE]
            \/ writes'[x] = writes[x + 1]
        BY <1>0, <1>13, WriteEnds
      <4> QED BY <4>1
    <3> QED BY <3>1, <3>2, <3>3
  <2>3. Made'
    BY <2>1, <2>2 DEF EntryInv, Made
  <2> QED BY <1>2, <2>1, <2>3 DEF EntryInv
<1>14. CASE _async_save
  <2>1. /\ writes' = Append(writes, [list |-> entries, late |-> FALSE])
        /\ UNCHANGED <<entries, file, setting, setups, over, components, jobs>>
    BY <1>14 DEF _async_save, setupVars, entryVars
  <2>2. \A x \in DOMAIN writes' : writes'[x].list = entries \/ (x \in DOMAIN writes /\ writes'[x] = writes[x])
    BY <1>0, <2>1
  <2>3. Made'
    BY <2>1, <2>2 DEF EntryInv, Made
  <2> QED BY <1>2, <2>1, <2>3 DEF EntryInv
<1>15. CASE Restart
  <2>1. /\ entries' = file /\ UNCHANGED <<file, writes, over>> /\ jobs' = <<>> /\ setting' = {}
        /\ setups' = [f \in Flows |-> 0]
    BY <1>15 DEF Restart
  <2>2. Made'
    BY <2>1 DEF EntryInv, Made
  <2>3. \A e \in Flows : EntryAt(e)'
    BY <2>1 DEF EntryAt
  <2> QED BY <2>2, <2>3 DEF EntryInv
<1>16. CASE UNCHANGED vars
  BY <1>1, <1>2, <1>16 DEF vars, entryVars, saveVars, setupVars, EntryInv
<1> QED BY <1>4, <1>5, <1>6, <1>7, <1>8, <1>9, <1>10, <1>11, <1>12, <1>13, <1>14, <1>15, <1>16
        DEF Next, Entering

(* However an entry and its component meet -- the flow finds the component *)
(* there, or asks for it, or the component is being set up -- the entry is *)
(* set up once at most between two starts.                                 *)
THEOREM EntryOnceCorrect == Spec => []EntryOnce
<1>1. Init => EntryInv
  BY DEF Init, SetupInit, EntryInv, EntryAt, Made, Range
<1>2. Inv /\ EntryInv => EntryOnce
  BY DEF EntryInv, EntryAt, EntryOnce
<1> QED BY <1>1, <1>2, InvInvariant, EntryInvStep, PTL DEF Spec

-----------------------------------------------------------------------------
(* What is processed, there, or beyond the wait for its dependencies has   *)
(* them; a job that waits has a call for each, answered or not.            *)
Late == {"requirements", "setup", "entries", "done"}
Asked(i, d) == \E c \in calls : c.by = <<"job", i>> /\ c.domain = d

DepsInv ==
  /\ \A c \in calls : c.answer \in {"none", "yes", "no"}
  /\ \A d \in processed \cup components : deps[d] \subseteq components
  /\ \A i \in DOMAIN jobs :
       /\ jobs[i].at \in Late => deps[jobs[i].domain] \subseteq components
       /\ jobs[i].at = "wait" => \A d \in deps[jobs[i].domain] : Asked(i, d)

(* Jobs that stay what they are, as to this, and calls that stay.          *)
LEMMA DepsFrame ==
  ASSUME DepsInv, UNCHANGED deps, components \subseteq components',
         \A c \in calls' : c.answer \in {"none", "yes", "no"},
         \A d \in processed' \cup components' :
           d \in processed \cup components \/ deps[d] \subseteq components,
         \A i \in DOMAIN jobs' : jobs'[i].at \in Late =>
           \/ i \in DOMAIN jobs /\ jobs[i].at \in Late /\ jobs'[i].domain = jobs[i].domain
           \/ deps[jobs'[i].domain] \subseteq components,
         \A i \in DOMAIN jobs' : jobs'[i].at = "wait" =>
           \/ /\ i \in DOMAIN jobs /\ jobs[i].at = "wait" /\ jobs'[i].domain = jobs[i].domain
              /\ \A d \in Domains : Asked(i, d) => Asked(i, d)'
           \/ \A d \in deps[jobs'[i].domain] : Asked(i, d)',
         deps \in [Domains -> SUBSET Domains],
         \A i \in DOMAIN jobs' : jobs'[i].domain \in Domains
  PROVE  DepsInv'
<1>1. \A d \in processed' \cup components' : deps[d] \subseteq components'
  BY DEF DepsInv
<1>2. \A i \in DOMAIN jobs' : jobs'[i].at \in Late => deps[jobs'[i].domain] \subseteq components'
  BY DEF DepsInv
<1>3. ASSUME NEW i \in DOMAIN jobs', jobs'[i].at = "wait", NEW d \in deps[jobs'[i].domain]
      PROVE  Asked(i, d)'
  <2>1. d \in Domains
    OBVIOUS
  <2>2. CASE \A x \in deps[jobs'[i].domain] : Asked(i, x)'
    BY <2>2
  <2>3. CASE /\ i \in DOMAIN jobs /\ jobs[i].at = "wait" /\ jobs'[i].domain = jobs[i].domain
             /\ \A x \in Domains : Asked(i, x) => Asked(i, x)'
    BY <2>1, <2>3 DEF DepsInv
  <2> QED BY <1>3, <2>2, <2>3
<1> QED BY <1>1, <1>2, <1>3 DEF DepsInv

(* A job waits on after a step of another, or becomes Late with its        *)
(* dependencies there.                                                     *)
LEMMA DepsSetting ==
  ASSUME Inv, Inv', DepsInv, Setting
  PROVE  DepsInv'
<1>0. /\ jobs \in Seq(Jobs) /\ DOMAIN jobs = 1..Len(jobs) /\ Len(jobs) \in Nat
      /\ jobs' \in Seq(Jobs) /\ deps \in [Domains -> SUBSET Domains] /\ UNCHANGED deps
      /\ \A i \in DOMAIN jobs' : jobs'[i].domain \in Domains
  <2>1. jobs \in Seq(Jobs) /\ jobs' \in Seq(Jobs) /\ deps \in [Domains -> SUBSET Domains]
    BY DEF Inv, SetupInv, SetupTypeOK, Jobs
  <2>2. \A i \in DOMAIN jobs' : jobs'[i] \in Jobs
    BY <2>1
  <2>3. UNCHANGED deps
    BY DEF Setting, SetupStep, async_setup_component, Begin, Gathered, Requirements, SetUp, Loaded
  <2> QED BY <2>1, <2>2, <2>3 DEF Jobs
<1>1. ASSUME NEW c \in calls, async_setup_component(c) PROVE DepsInv'
  <2>1. PICK new : /\ calls' = (calls \ {c}) \cup {new} /\ new.by = c.by /\ new.domain = c.domain
                   /\ new.answer \in {"none", "yes", "no"}
    <3>1. c = [by |-> c.by, domain |-> c.domain, on |-> c.on, answer |-> c.answer]
          /\ c.answer = "none"
      BY <1>1 DEF Inv, SetupInv, CallOK, async_setup_component
    <3>2. \/ \E a \in {"yes", "no"} : calls' = (calls \ {c}) \cup {[c EXCEPT !.answer = a]}
          \/ \E k : calls' = (calls \ {c}) \cup {[c EXCEPT !.on = k]}
      BY <1>1 DEF async_setup_component
    <3>3. ASSUME NEW a \in {"yes", "no"}
          PROVE  LET n == [c EXCEPT !.answer = a]
                 IN n.by = c.by /\ n.domain = c.domain /\ n.answer = a
      BY <3>1
    <3>4. ASSUME NEW k
          PROVE  LET n == [c EXCEPT !.on = k]
                 IN n.by = c.by /\ n.domain = c.domain /\ n.answer = "none"
      BY <3>1
    <3>5. CASE \E a \in {"yes", "no"} : calls' = (calls \ {c}) \cup {[c EXCEPT !.answer = a]}
      <4>1. PICK a \in {"yes", "no"} : calls' = (calls \ {c}) \cup {[c EXCEPT !.answer = a]}
        BY <3>5
      <4> QED BY <3>3, <4>1
    <3>6. CASE \E k : calls' = (calls \ {c}) \cup {[c EXCEPT !.on = k]}
      <4>1. PICK k : calls' = (calls \ {c}) \cup {[c EXCEPT !.on = k]}
        BY <3>6
      <4> QED BY <3>4, <4>1
    <3> QED BY <3>2, <3>5, <3>6
  <2>2. \A i, d : Asked(i, d) => Asked(i, d)'
    BY <2>1 DEF Asked
  <2>3. \A k \in DOMAIN jobs' : \/ k \in DOMAIN jobs /\ jobs'[k] = jobs[k]
                                \/ jobs'[k].at = "begin"
    <3>1. CASE UNCHANGED jobs
      BY <3>1
    <3>2. CASE jobs' = Append(jobs, Job(c.domain, Nobody))
      <4>1. Job(c.domain, Nobody) \in Jobs /\ Job(c.domain, Nobody).at = "begin"
        BY DEF Job, Jobs, Inv, SetupInv, SetupTypeOK
      <4>2. \A k \in DOMAIN jobs' : \/ k \in DOMAIN jobs /\ jobs'[k] = jobs[k]
                                    \/ jobs'[k] = Job(c.domain, Nobody)
        BY <1>0, <3>2, <4>1
      <4> QED BY <4>1, <4>2
    <3> QED BY <1>1, <3>1, <3>2 DEF async_setup_component
  <2>4. UNCHANGED <<components, processed>> /\ \A x \in calls' : x.answer \in {"none", "yes", "no"}
    BY <1>1, <2>1 DEF async_setup_component, DepsInv
  <2> QED BY <1>0, <2>2, <2>3, <2>4, DepsFrame DEF Late
<1>2. ASSUME NEW i \in DOMAIN jobs,
             Begin(i) \/ Gathered(i) \/ Requirements(i) \/ SetUp(i, Range(entries)) \/ Loaded(i)
      PROVE  DepsInv'
  <2>0. jobs[i] \in Jobs /\ jobs[i].domain \in Domains /\ deps[jobs[i].domain] \subseteq Domains
    <3>1. jobs[i] \in Jobs
      BY <1>0
    <3> QED BY <1>0, <3>1 DEF Jobs
  <2>1. /\ DOMAIN jobs' = DOMAIN jobs /\ \A k \in DOMAIN jobs : k # i => jobs'[k] = jobs[k]
        /\ jobs'[i].domain = jobs[i].domain
    BY <1>2, <2>0 DEF Begin, Gathered, Requirements, SetUp, Loaded, Put, Jobs
  <2>2. ASSUME NEW at, Put(i, at) PROVE jobs'[i].at = at
    BY <2>0, <2>2 DEF Put, Jobs
  <2>3. CASE Begin(i)
    <3>1. PICK at \in {"failed", "setup", "wait"} :
            /\ Put(i, at) /\ (at = "setup" => jobs[i].domain \in processed)
            /\ at = "wait" => calls' = calls \cup {Call(<<"job", i>>, d) : d \in deps[jobs[i].domain]}
      BY <2>3 DEF Begin
    <3>2. \/ jobs'[i].at = "failed"
          \/ jobs'[i].at = "setup" /\ jobs[i].domain \in processed
          \/ /\ jobs'[i].at = "wait"
             /\ calls' = calls \cup {Call(<<"job", i>>, d) : d \in deps[jobs[i].domain]}
      <4>1. jobs'[i].at = at
        BY <2>2, <3>1
      <4>2. CASE at = "failed"
        BY <4>1, <4>2, Zenon
      <4>3. CASE at = "setup"
        BY <3>1, <4>1, <4>3
      <4>4. CASE at = "wait"
        BY <3>1, <4>1, <4>4
      <4> QED BY <4>2, <4>3, <4>4
    <3>3. jobs'[i].at = "wait" => \A d \in deps[jobs[i].domain] : Asked(i, d)'
      <4> SUFFICES ASSUME jobs'[i].at = "wait", NEW d \in deps[jobs[i].domain]
                   PROVE  Asked(i, d)'
        OBVIOUS
      <4>1. Call(<<"job", i>>, d) \in calls'
        BY <3>2
      <4> QED BY <4>1 DEF Asked, Call
    <3>4. /\ UNCHANGED <<components, processed>> /\ calls \subseteq calls'
          /\ \A c \in calls' : c.answer \in {"none", "yes", "no"}
      BY <2>3 DEF Begin, Call, DepsInv
    <3>5. \A k, d : Asked(k, d) => Asked(k, d)'
      BY <3>4 DEF Asked
    <3>6. jobs'[i].at \in Late => deps[jobs[i].domain] \subseteq components
      BY <3>2 DEF Late, DepsInv
    <3> QED BY <1>0, <2>1, <3>3, <3>4, <3>5, <3>6, DepsFrame
  <2>4. CASE Gathered(i)
    <3> DEFINE mine == {c \in calls : c.by = <<"job", i>>}
    <3>1. /\ jobs'[i].at = IF \E c \in mine : c.answer = "no" THEN "failed" ELSE "requirements"
          /\ \A c \in mine : c.answer # "none" /\ calls' = calls \ mine /\ jobs[i].at = "wait"
          /\ UNCHANGED <<components, processed>>
      BY <2>2, <2>4 DEF Gathered
    <3>2. jobs'[i].at \in Late => deps[jobs[i].domain] \subseteq components
      <4> SUFFICES ASSUME \A c \in mine : c.answer # "no", NEW d \in deps[jobs[i].domain]
                   PROVE  d \in components
        BY <3>1 DEF Late
      <4>1. PICK c \in calls : c.by = <<"job", i>> /\ c.domain = d
        BY <2>4 DEF DepsInv, Asked, Gathered
      <4>2. c.answer = "yes"
        BY <3>1, <4>1 DEF DepsInv
      <4> QED BY <4>1, <4>2 DEF Inv, SetupInv, OneVerdict
    <3>3. \A k \in DOMAIN jobs, d \in Domains : k # i /\ Asked(k, d) => Asked(k, d)'
      <4>1. calls' = calls \ mine
        BY <2>4 DEF Gathered
      <4> QED BY <4>1 DEF Asked
    <3>4. \A c \in calls' : c.answer \in {"none", "yes", "no"}
      BY <2>4 DEF DepsInv, Gathered
    <3>5. UNCHANGED <<components, processed>> /\ jobs'[i].at # "wait"
      BY <2>2, <2>4 DEF Gathered
    <3> QED BY <1>0, <2>1, <3>2, <3>3, <3>4, <3>5, DepsFrame
  <2>5. CASE Requirements(i) \/ SetUp(i, Range(entries)) \/ Loaded(i)
    <3>1. jobs[i].at \in Late /\ jobs'[i].at # "wait" /\ UNCHANGED calls
          /\ components' \subseteq components \cup {jobs[i].domain} /\ components \subseteq components'
          /\ processed' \subseteq processed \cup {jobs[i].domain}
      BY <2>0, <2>5 DEF Requirements, SetUp, Loaded, Put, Late, Jobs
    <3>2. deps[jobs[i].domain] \subseteq components
      BY <3>1 DEF DepsInv
    <3>3. \A k, d : Asked(k, d) => Asked(k, d)'
      BY <3>1 DEF Asked
    <3>4. \A c \in calls' : c.answer \in {"none", "yes", "no"}
      BY <3>1 DEF DepsInv
    <3> QED BY <1>0, <2>1, <3>1, <3>2, <3>3, <3>4, DepsFrame
  <2> QED BY <1>2, <2>3, <2>4, <2>5
<1> QED BY <1>1, <1>2 DEF Setting, SetupStep

LEMMA DepsInvStep ==
  ASSUME Inv, Inv', DepsInv, [Next]_vars
  PROVE  DepsInv'
<1>0. /\ jobs \in Seq(Jobs) /\ DOMAIN jobs = 1..Len(jobs) /\ Len(jobs) \in Nat
      /\ deps \in [Domains -> SUBSET Domains]
      /\ \A i \in DOMAIN jobs' : jobs'[i].domain \in Domains
  <2>1. jobs \in Seq(Jobs) /\ jobs' \in Seq(Jobs) /\ deps \in [Domains -> SUBSET Domains]
    BY DEF Inv, SetupInv, SetupTypeOK, Jobs
  <2>2. \A i \in DOMAIN jobs' : jobs'[i] \in Jobs
    BY <2>1
  <2> QED BY <2>1, <2>2 DEF Jobs
<1> DEFINE Still == /\ UNCHANGED <<deps, components, processed>> /\ calls \subseteq calls'
                    /\ \A c \in calls' : c.answer \in {"none", "yes", "no"}
<1>1. ASSUME Still,
             \A k \in DOMAIN jobs' :
               \/ /\ k \in DOMAIN jobs /\ jobs'[k].domain = jobs[k].domain
                  /\ jobs'[k].at \in Late => jobs[k].at \in Late
                  /\ jobs'[k].at = "wait" => jobs[k].at = "wait"
               \/ jobs'[k].at = "begin"
      PROVE  DepsInv'
  <2>1. \A i, d : Asked(i, d) => Asked(i, d)'
    BY <1>1 DEF Asked
  <2> QED BY <1>0, <1>1, <2>1, DepsFrame DEF Late
<1>2. ASSUME Still, UNCHANGED jobs PROVE DepsInv'
  BY <1>1, <1>2
<1>3. ASSUME UNCHANGED <<deps, components, processed, calls>> PROVE Still
  BY <1>3 DEF DepsInv
<1>4. ASSUME UNCHANGED setupVars PROVE DepsInv'
  BY <1>2, <1>3, <1>4 DEF setupVars
<1>5. CASE Entering
  <2>1. ASSUME NEW i \in DOMAIN jobs, EntryLoaded(i) PROVE DepsInv'
    <3>1. /\ DOMAIN jobs' = DOMAIN jobs
          /\ \A k \in DOMAIN jobs : jobs'[k].domain = jobs[k].domain /\ jobs'[k].at = jobs[k].at
      <4>1. jobs[i] \in Jobs
        BY <1>0
      <4>2. PICK e : jobs' = [jobs EXCEPT ![i].left = @ \ {e}]
        BY <2>1 DEF EntryLoaded
      <4> QED BY <4>1, <4>2 DEF Jobs
    <3>2. Still
      BY <1>3, <2>1 DEF EntryLoaded
    <3> QED BY <1>1, <3>1, <3>2
  <2>2. ASSUME NEW i \in DOMAIN jobs, InitReady(i) PROVE DepsInv'
    <3>1. /\ DOMAIN jobs' = DOMAIN jobs /\ jobs[i].at = "setup" /\ jobs'[i].at = "done"
          /\ jobs'[i].domain = jobs[i].domain
          /\ \A k \in DOMAIN jobs : k # i => jobs'[k] = jobs[k]
      <4>1. jobs[i] \in Jobs
        BY <1>0
      <4> QED BY <2>2, <4>1 DEF Jobs, InitReady, Put
    <3>2. Still
      BY <1>3, <2>2 DEF InitReady
    <3> QED BY <1>1, <3>1, <3>2 DEF Late
  <2>3. ASSUME NEW f \in Flows, EntryAdded(f) PROVE DepsInv'
    BY <1>4, <2>3 DEF EntryAdded
  <2> QED BY <1>5, <2>1, <2>2, <2>3 DEF Entering
<1>6. ASSUME NEW f \in Flows, async_init(f) PROVE DepsInv'
  <2>1. CASE UNCHANGED setupVars
    BY <1>4, <2>1
  <2>2. CASE jobs' = Append(jobs, Job(FlowDomain[f], f))
             /\ UNCHANGED <<deps, components, setup_tasks, processed, calls, asked>>
    <3>1. Job(FlowDomain[f], f) \in Jobs /\ Job(FlowDomain[f], f).at = "begin"
      BY SetupConstants DEF Job, Jobs
    <3>2. \A k \in DOMAIN jobs' : \/ k \in DOMAIN jobs /\ jobs'[k] = jobs[k]
                                  \/ jobs'[k] = Job(FlowDomain[f], f)
      BY <1>0, <2>2, <3>1
    <3>3. Still
      BY <1>3, <2>2
    <3> QED BY <1>1, <3>1, <3>2, <3>3
  <2> QED BY <1>6, <2>1, <2>2 DEF async_init
<1>7. ASSUME NEW f \in Flows, StepResult(f) PROVE DepsInv'
  <2>1. CASE UNCHANGED setupVars
    BY <1>4, <2>1
  <2>2. CASE _async_add_entry(f)
    <3>1. CASE FlowDomain[f] \in components
      BY <1>4, <2>2, <3>1 DEF _async_add_entry
    <3>2. CASE FlowDomain[f] \notin components
      <4>1. Still /\ UNCHANGED jobs
        BY <2>2, <3>2 DEF _async_add_entry, Call, DepsInv
      <4> QED BY <1>2, <4>1
    <3> QED BY <3>1, <3>2
  <2> QED BY <1>7, <2>1, <2>2 DEF StepResult
<1>8. ASSUME NEW d \in Domains, Ask(d) PROVE DepsInv'
  <2>1. Still /\ UNCHANGED jobs
    BY <1>8 DEF Ask, Call, DepsInv
  <2> QED BY <1>2, <2>1
<1>9. CASE Restart
  <2>1. /\ components' = {} /\ processed' = {} /\ jobs' = <<>>
        /\ \A c \in calls' : c.answer = "none"
    BY <1>9 DEF Restart, Call
  <2> QED BY <2>1 DEF DepsInv
<1>10. ASSUME \/ \E f \in Flows : async_configure(f) \/ async_abort(f)
              \/ \E k \in DOMAIN entries : async_remove(k)
              \/ \E k \in DOMAIN writes : save_json(k)
              \/ _async_save
       PROVE  DepsInv'
  BY <1>4, <1>10 DEF async_configure, async_abort, async_remove, save_json, _async_save
<1>11. CASE UNCHANGED vars
  BY <1>4, <1>11 DEF vars
<1> QED BY <1>5, <1>6, <1>7, <1>8, <1>9, <1>10, <1>11, DepsSetting DEF Next

(* No component's own setup is reached, and no component is there, before  *)
(* all it depends on is there: the results that gather collects are true.  *)
THEOREM DepsFirstCorrect == Spec => []DepsFirst
<1>1. Init => DepsInv
  BY DEF Init, SetupInit, DepsInv
<1>2. DepsInv => DepsFirst
  BY DEF DepsInv, DepsFirst, Late
<1>3. Inv /\ Inv' /\ DepsInv /\ [Next]_vars => DepsInv'
  BY DepsInvStep
<1> QED BY <1>1, <1>2, <1>3, InvInvariant, PTL DEF Spec

-----------------------------------------------------------------------------
(* The file.                                                               *)

(* When nothing more is scheduled, either the newest write is still under  *)
(* way and writes the present list; or it has ended, those that are left   *)
(* are late, and the file has the list unless it failed or one was late.   *)
Newest == writes # <<>> /\ writes[Len(writes)] = [list |-> entries, late |-> FALSE]
Through ==
  /\ \A i \in DOMAIN writes : writes[i].late
  /\ last = "well" => file = entries

SaveInv == ~sched => Newest \/ Through

LEMMA SaveInvStep == Inv /\ SaveInv /\ [Next]_vars => SaveInv'
<1> SUFFICES ASSUME Inv, SaveInv, [Next]_vars PROVE SaveInv'
  OBVIOUS
<1>0. writes \in Seq(Write) /\ Len(writes) \in Nat /\ sched \in BOOLEAN
  BY DEF Inv, TypeOK
<1>1. ASSUME sched' = TRUE PROVE SaveInv'
  BY <1>1 DEF SaveInv
<1>2. ASSUME UNCHANGED <<entries, saveVars>> PROVE SaveInv'
  BY <1>2 DEF SaveInv, saveVars, Newest, Through
<1>3. CASE _async_save
  <2>1. UNCHANGED entries /\ writes' = Append(writes, [list |-> entries, late |-> FALSE])
    BY <1>3 DEF _async_save, entryVars
  <2>2. Newest'
    BY <1>0, <2>1 DEF Newest
  <2> QED BY <2>2 DEF SaveInv
<1>4. ASSUME NEW k \in DOMAIN writes, save_json(k) PROVE SaveInv'
  <2>0. UNCHANGED <<entries, sched>> /\ Len(writes') = Len(writes) - 1 /\ k \in 1..Len(writes)
    BY <1>0, <1>4, WriteEnds DEF save_json, entryVars
  <2>1. \A i \in 1..(Len(writes) - 1) :
          IF i < k THEN writes'[i] = [list |-> writes[i].list, late |-> TRUE]
                   ELSE writes'[i] = writes[i + 1]
    BY <1>0, <1>4, WriteEnds
  <2>2. writes' \in Seq(Write)
    BY <1>0, <1>4, WriteEnds
  <2>3. CASE Newest /\ k < Len(writes)
    <3>1. Len(writes) - 1 \in 1..(Len(writes) - 1) /\ ~(Len(writes) - 1 < k)
      BY <1>0, <2>0, <2>3
    <3>2. writes'[Len(writes) - 1] = writes[(Len(writes) - 1) + 1]
      BY <2>1, <3>1
    <3>3. (Len(writes) - 1) + 1 = Len(writes)
      BY <1>0
    <3>4. Newest'
      BY <2>0, <2>2, <2>3, <3>1, <3>2, <3>3 DEF Newest
    <3> QED BY <3>4 DEF SaveInv
  <2>4. CASE Newest /\ k = Len(writes)
    <3>1. \A i \in 1..(Len(writes) - 1) : writes'[i].late
      <4> SUFFICES ASSUME NEW i \in 1..(Len(writes) - 1) PROVE writes'[i].late
        OBVIOUS
      <4>1. i < k
        BY <1>0, <2>4
      <4>2. writes'[i] = [list |-> writes[i].list, late |-> TRUE]
        BY <2>1, <4>1
      <4> QED BY <4>2
    <3>2. last' = "well" => file' = entries
      BY <1>4, <2>4 DEF Newest, save_json
    <3>3. DOMAIN writes' = 1..(Len(writes) - 1)
      BY <2>0, <2>2
    <3> QED BY <2>0, <3>1, <3>2, <3>3 DEF SaveInv, Through
  <2>5. CASE Through
    <3>1. \A i \in 1..(Len(writes) - 1) : writes'[i].late
      <4> SUFFICES ASSUME NEW i \in 1..(Len(writes) - 1) PROVE writes'[i].late
        OBVIOUS
      <4>1. i + 1 \in DOMAIN writes /\ (i < k \/ ~(i < k))
        BY <1>0
      <4>2. writes[i + 1].late
        BY <2>5, <4>1 DEF Through
      <4>3. CASE i < k
        <5>1. writes'[i] = [list |-> writes[i].list, late |-> TRUE]
          BY <2>1, <4>3
        <5> QED BY <5>1
      <4>4. CASE ~(i < k)
        <5>1. writes'[i] = writes[i + 1]
          BY <2>1, <4>4
        <5> QED BY <4>2, <5>1, Zenon
      <4> QED BY <4>3, <4>4
    <3>2. last' # "well"
      BY <1>4, <2>5 DEF Through, save_json
    <3>3. DOMAIN writes' = 1..(Len(writes) - 1)
      BY <2>0, <2>2
    <3> QED BY <3>1, <3>2, <3>3 DEF SaveInv, Through
  <2>6. CASE sched
    BY <1>1, <2>0, <2>6
  <2> QED BY <1>0, <2>0, <2>3, <2>4, <2>5, <2>6 DEF SaveInv
<1>5. CASE Restart
  BY <1>5 DEF Restart, SaveInv, Through
<1>6. ASSUME NEW f \in Flows, StepResult(f) PROVE SaveInv'
  BY <1>1, <1>2, <1>6 DEF StepResult, _async_add_entry, _async_schedule_save, saveVars
<1>7. ASSUME NEW k \in DOMAIN entries, async_remove(k) PROVE SaveInv'
  BY <1>1, <1>7 DEF async_remove, _async_schedule_save
<1>8. ASSUME \/ Setting \/ Entering
             \/ \E d \in Domains : Ask(d) /\ UNCHANGED <<entryVars, saveVars, restarts>>
             \/ \E f \in Flows : async_init(f) \/ async_configure(f) \/ async_abort(f)
             \/ UNCHANGED vars
      PROVE  SaveInv'
  <2>1. UNCHANGED <<entries, saveVars>>
    BY <1>8 DEF Setting, Entering, EntryAdded, EntryLoaded, InitReady, async_init, FirstStep,
                async_configure, async_abort, entryVars, vars
  <2> QED BY <1>2, <2>1
<1> QED BY <1>3, <1>4, <1>5, <1>6, <1>7, <1>8 DEF Next

(* A restart loses nothing, whatever is added and removed in any order and *)
(* however the writes of it meet, once the delayed save is through: unless *)
(* the last write to end has failed, or was overtaken by a newer one.      *)
THEOREM FileCurrentCorrect == Spec => []FileCurrent
<1>1. Init => SaveInv
  BY DEF Init, SaveInv, Through
<1>2. SaveInv => FileCurrent
  BY DEF SaveInv, Newest, Through, FileCurrent
<1> QED BY <1>1, <1>2, SaveInvStep, InvInvariant, PTL DEF Spec
=============================================================================
