--------------------------- MODULE Script_proofs ---------------------------
(***************************************************************************)
(* Proofs about Script: whatever the steps, the delays and the timeouts,   *)
(* whoever turns the script on and off and however often the template      *)
(* changes, only a step that raised leaves it stuck; and as long as no two *)
(* async_run overlap, its steps follow each other and what waits at a step *)
(* acts for that step alone.                                               *)
(***************************************************************************)
EXTENDS Script, SequenceTheorems, FiniteSetTheorems, TLAPS

-----------------------------------------------------------------------------
(* Taking job i out, as the loop and the executor do when they run it,     *)
(* leaves every other job, in the order they had.                          *)
LEMMA RemoveAtProperties ==
  ASSUME NEW S, NEW s \in Seq(S), NEW i \in 1..Len(s)
  PROVE  /\ RemoveAt(s, i) \in Seq(S)
         /\ Len(RemoveAt(s, i)) = Len(s) - 1
         /\ \A k \in 1..(Len(s) - 1) :
              RemoveAt(s, i)[k] = IF k < i THEN s[k] ELSE s[k + 1]
<1> DEFINE a == SubSeq(s, 1, i - 1)
           b == SubSeq(s, i + 1, Len(s))
<1>1. /\ a \in Seq(S)
      /\ Len(a) = i - 1
      /\ \A k \in 1..(i - 1) : a[k] = s[k]
  OBVIOUS
<1>2. /\ b \in Seq(S)
      /\ Len(b) = Len(s) - i
      /\ \A k \in 1..(Len(s) - i) : b[k] = s[i + k]
  OBVIOUS
<1>3. RemoveAt(s, i) = a \o b
  BY DEF RemoveAt
<1> HIDE DEF a, b
<1>4. /\ a \o b \in Seq(S)
      /\ Len(a \o b) = Len(a) + Len(b)
      /\ \A k \in 1..(Len(a) + Len(b)) :
           (a \o b)[k] = IF k <= Len(a) THEN a[k] ELSE b[k - Len(a)]
  BY <1>1, <1>2, ConcatProperties, Zenon
<1>5. ASSUME NEW k \in 1..(Len(s) - 1)
      PROVE  (a \o b)[k] = IF k < i THEN s[k] ELSE s[k + 1]
  <2>1. (a \o b)[k] = IF k <= i - 1 THEN a[k] ELSE b[k - (i - 1)]
    BY <1>1, <1>2, <1>4, SMTT(30)
  <2>2. CASE k < i
    BY <1>1, <2>1, <2>2
  <2>3. CASE ~(k < i)
    BY <1>2, <2>1, <2>3, SMTT(30)
  <2> QED BY <2>2, <2>3
<1> QED BY <1>1, <1>2, <1>3, <1>4, <1>5

-----------------------------------------------------------------------------
(* Counting.  How many elements of s are in S is what is known of queues   *)
(* when neither their order nor their other elements matter.               *)

Where(s, S) == {i \in DOMAIN s : s[i] \in S}
HowMany(s, S) == Cardinality(Where(s, S))

LEMMA CountType ==
  ASSUME NEW T, NEW s \in Seq(T), NEW S
  PROVE  /\ IsFiniteSet(Where(s, S)) /\ HowMany(s, S) \in Nat
         /\ HowMany(s, S) = 0 <=> \A i \in DOMAIN s : s[i] \notin S
<1>1. Len(s) \in Nat /\ DOMAIN s = 1..Len(s)
  OBVIOUS
<1>2. IsFiniteSet(1..Len(s)) /\ Where(s, S) \in SUBSET (1..Len(s))
  BY <1>1, FS_Interval DEF Where
<1>3. IsFiniteSet(Where(s, S))
  BY <1>2, FS_Subset
<1>4. HowMany(s, S) \in Nat /\ (HowMany(s, S) = 0 <=> Where(s, S) = {})
  BY <1>3, FS_CardinalityType, FS_EmptySet DEF HowMany
<1> QED BY <1>3, <1>4 DEF Where

LEMMA CountEmpty ==
  ASSUME NEW S
  PROVE  HowMany(<<>>, S) = 0
<1>1. Where(<<>>, S) = {}
  BY DEF Where
<1> QED BY <1>1, FS_EmptySet DEF HowMany

LEMMA CountOne ==
  ASSUME NEW x, NEW S
  PROVE  HowMany(<<x>>, S) = IF x \in S THEN 1 ELSE 0
<1>1. Where(<<x>>, S) = IF x \in S THEN {1} ELSE {}
  BY DEF Where
<1> QED BY <1>1, FS_EmptySet, FS_Singleton DEF HowMany

(* Of two sequences in a row, each keeps what it has.                      *)
LEMMA CountConcat ==
  ASSUME NEW T, NEW s \in Seq(T), NEW u \in Seq(T), NEW S
  PROVE  HowMany(s \o u, S) = HowMany(s, S) + HowMany(u, S)
<1> DEFINE m == Len(s)
           A == Where(s, S)
           B == Where(u, S)
           C == {k \in (m + 1)..(m + Len(u)) : u[k - m] \in S}
           f == [i \in B |-> i + m]
<1>1. m \in Nat /\ Len(u) \in Nat /\ DOMAIN s = 1..m /\ DOMAIN u = 1..Len(u)
  OBVIOUS
<1>2. /\ DOMAIN (s \o u) = 1..(m + Len(u))
      /\ \A k \in 1..(m + Len(u)) : (s \o u)[k] = IF k <= m THEN s[k] ELSE u[k - m]
  BY ConcatProperties
<1>3. Where(s \o u, S) = A \cup C /\ A \cap C = {}
  BY <1>1, <1>2 DEF Where
<1>4. f \in Bijection(B, C)
  <2>1. f \in [B -> C]
    BY <1>1 DEF Where
  <2>2. \A a, b \in B : f[a] = f[b] => a = b
    BY <1>1 DEF Where
  <2>3. \A c \in C : \E b \in B : f[b] = c
    <3> SUFFICES ASSUME NEW c \in C PROVE c - m \in B /\ f[c - m] = c
      OBVIOUS
    <3> QED BY <1>1 DEF Where
  <2> HIDE DEF f, B, C
  <2> QED BY <2>1, <2>2, <2>3, Zenon DEF Bijection, Injection, Surjection, IsInjective
<1>5. IsFiniteSet(A) /\ IsFiniteSet(B)
  BY CountType
<1> HIDE DEF A, B, C, f
<1>6. IsFiniteSet(C) /\ Cardinality(C) = Cardinality(B)
  BY <1>4, <1>5, FS_Bijection DEF ExistsBijection
<1>7. Cardinality(A \cup C) = Cardinality(A) + Cardinality(C) - Cardinality(A \cap C)
  BY <1>5, <1>6, FS_Union
<1>8. Cardinality(A \cap C) = 0
  BY <1>3, FS_EmptySet
<1>9. Cardinality(A) \in Nat /\ Cardinality(B) \in Nat
  BY <1>5, FS_CardinalityType
<1> QED BY <1>3, <1>6, <1>7, <1>8, <1>9 DEF HowMany, A, B

LEMMA CountAppend ==
  ASSUME NEW T, NEW s \in Seq(T), NEW x \in T, NEW S
  PROVE  HowMany(Append(s, x), S) = HowMany(s, S) + IF x \in S THEN 1 ELSE 0
<1>1. Append(s, x) = s \o <<x>> /\ <<x>> \in Seq(T)
  BY AppendIsConcat
<1>2. HowMany(s \o <<x>>, S) = HowMany(s, S) + HowMany(<<x>>, S)
  BY <1>1, CountConcat
<1> QED BY <1>1, <1>2, CountOne

(* Taking the head off takes one off its count, and off no other.         *)
LEMMA CountTail ==
  ASSUME NEW T, NEW s \in Seq(T), s # <<>>, NEW S
  PROVE  /\ HowMany(Tail(s), S) = HowMany(s, S) - IF Head(s) \in S THEN 1 ELSE 0
         /\ Head(s) \in S => HowMany(s, S) > 0
<1> DEFINE h == <<Head(s)>>
           t == Tail(s)
<1>1. h \in Seq(T) /\ t \in Seq(T) /\ s = h \o t
  OBVIOUS
<1>2. HowMany(h, S) = IF Head(s) \in S THEN 1 ELSE 0
  BY CountOne
<1> HIDE DEF h, t
<1>3. HowMany(s, S) = HowMany(h, S) + HowMany(t, S)
  BY <1>1, CountConcat
<1>4. HowMany(t, S) \in Nat
  BY <1>1, CountType
<1> QED BY <1>2, <1>3, <1>4 DEF t

-----------------------------------------------------------------------------
(* What is registered, and what the script's list says of it.              *)

Tracker == [sub : BOOLEAN, triggered : BOOLEAN]
Subs(s) == {k \in DOMAIN s : s[k].sub}
Tags(A, B) == {PitUnsub(k) : k \in A} \cup {TrackerUnsub(k) : k \in B}

LEMMA TagsIn ==
  ASSUME NEW A, NEW B
  PROVE  /\ \A k : PitUnsub(k) \in Tags(A, B) <=> k \in A
         /\ \A k : TrackerUnsub(k) \in Tags(A, B) <=> k \in B
         /\ Tags(A, B) = {} <=> A = {} /\ B = {}
<1>1. \A j, k : (PitUnsub(j) = PitUnsub(k) => j = k) /\ (TrackerUnsub(j) = TrackerUnsub(k) => j = k)
  BY DEF PitUnsub, TrackerUnsub
<1>2. \A j, k : PitUnsub(j) # TrackerUnsub(k)
  BY DEF PitUnsub, TrackerUnsub
<1> QED BY <1>1, <1>2 DEF Tags

LEMMA PitFields ==
  ASSUME NEW p \in Pit
  PROVE  /\ [p EXCEPT !.sub = FALSE] \in Pit /\ ~[p EXCEPT !.sub = FALSE].sub
         /\ [p EXCEPT !.run = TRUE, !.sub = FALSE] \in Pit
         /\ ~[p EXCEPT !.run = TRUE, !.sub = FALSE].sub
BY DEF Pit

LEMMA TrackerFields ==
  ASSUME NEW t \in Tracker, NEW b \in BOOLEAN
  PROVE  /\ [t EXCEPT !.sub = FALSE] \in Tracker /\ ~[t EXCEPT !.sub = FALSE].sub
         /\ [t EXCEPT !.triggered = b] \in Tracker
         /\ [t EXCEPT !.triggered = b].sub = t.sub
BY DEF Tracker

(* Registering puts one more listener behind the others.                   *)
LEMMA TrackIs ==
  ASSUME NEW ps \in Seq(Pit), NEW who \in Users, NEW due \in Int,
         NEW qs, qs = async_track_point_in_utc_time(ps, who, due)
  PROVE  /\ qs \in Seq(Pit) /\ Len(qs) = Len(ps) + 1
         /\ \A k \in 1..Len(ps) : qs[k] = ps[k]
         /\ qs[Len(qs)] = [who |-> who, at |-> due, sub |-> TRUE, run |-> FALSE]
<1>1. [who |-> who, at |-> due, sub |-> TRUE, run |-> FALSE] \in Pit
  BY DEF Pit
<1> QED BY <1>1 DEF async_track_point_in_utc_time

LEMMA TrackSubs ==
  ASSUME NEW ps \in Seq(Pit), NEW who \in Users, NEW due \in Int,
         NEW qs, qs = async_track_point_in_utc_time(ps, who, due)
  PROVE  Subs(qs) = Subs(ps) \cup {Len(qs)}
<1> DEFINE new == [who |-> who, at |-> due, sub |-> TRUE, run |-> FALSE]
<1>1. new.sub = TRUE
  OBVIOUS
<1> HIDE DEF new
<1>2. /\ qs \in Seq(Pit) /\ Len(qs) = Len(ps) + 1 /\ Len(ps) \in Nat
      /\ \A k \in 1..Len(ps) : qs[k] = ps[k]
      /\ qs[Len(qs)] = new
  BY TrackIs DEF new
<1>3. DOMAIN qs = DOMAIN ps \cup {Len(qs)} /\ DOMAIN ps = 1..Len(ps)
  BY <1>2
<1> QED BY <1>1, <1>2, <1>3 DEF Subs

LEMMA WatchIs ==
  ASSUME NEW ts \in Seq(Tracker)
  PROVE  LET us == Append(ts, [sub |-> TRUE, triggered |-> FALSE])
         IN  /\ us \in Seq(Tracker) /\ Len(us) = Len(ts) + 1
             /\ Subs(us) = Subs(ts) \cup {Len(ts) + 1}
<1> DEFINE new == [sub |-> TRUE, triggered |-> FALSE]
           us == Append(ts, new)
<1>1. new \in Tracker /\ new.sub = TRUE
  BY DEF Tracker
<1> HIDE DEF new
<1>2. /\ us \in Seq(Tracker) /\ Len(us) = Len(ts) + 1 /\ Len(ts) \in Nat
      /\ \A k \in 1..Len(ts) : us[k] = ts[k]
      /\ us[Len(ts) + 1] = new
  BY <1>1
<1> HIDE DEF us
<1>3. DOMAIN us = DOMAIN ts \cup {Len(ts) + 1} /\ DOMAIN ts = 1..Len(ts)
  BY <1>2
<1>4. Subs(us) = Subs(ts) \cup {Len(ts) + 1}
  BY <1>1, <1>2, <1>3 DEF Subs
<1> QED BY <1>2, <1>4 DEF us, new

(* Unsubscribing all that the list has leaves nothing registered.          *)
LEMMA ClearPits ==
  ASSUME NEW ps \in Seq(Pit), \A k \in Subs(ps) : PitUnsub(k) \in listeners
  PROVE  /\ WithoutPits(ps) \in Seq(Pit) /\ Len(WithoutPits(ps)) = Len(ps)
         /\ Subs(WithoutPits(ps)) = {}
<1> DEFINE qs == WithoutPits(ps)
<1>1. DOMAIN ps = 1..Len(ps) /\ Len(ps) \in Nat
  OBVIOUS
<1>2. ASSUME NEW k \in 1..Len(ps) PROVE qs[k] \in Pit /\ ~qs[k].sub
  <2>1. ps[k] \in Pit
    OBVIOUS
  <2>2. qs[k] = IF PitUnsub(k) \in listeners THEN [ps[k] EXCEPT !.sub = FALSE] ELSE ps[k]
    BY <1>1 DEF WithoutPits
  <2>3. CASE PitUnsub(k) \in listeners
    BY <2>1, <2>2, <2>3, PitFields, Zenon
  <2>4. CASE PitUnsub(k) \notin listeners
    BY <1>1, <2>1, <2>2, <2>4 DEF Subs
  <2> QED BY <2>3, <2>4
<1>3. DOMAIN qs = 1..Len(ps) /\ qs = [k \in 1..Len(ps) |-> qs[k]]
  BY <1>1 DEF WithoutPits
<1> HIDE DEF qs
<1>4. qs \in Seq(Pit) /\ Len(qs) = Len(ps)
  BY <1>1, <1>2, <1>3
<1> QED BY <1>2, <1>3, <1>4 DEF Subs, qs

LEMMA ClearTrackers ==
  ASSUME NEW ts \in Seq(Tracker), \A k \in Subs(ts) : TrackerUnsub(k) \in listeners
  PROVE  /\ WithoutTrackers(ts) \in Seq(Tracker) /\ Len(WithoutTrackers(ts)) = Len(ts)
         /\ Subs(WithoutTrackers(ts)) = {}
<1> DEFINE us == WithoutTrackers(ts)
<1>1. DOMAIN ts = 1..Len(ts) /\ Len(ts) \in Nat
  OBVIOUS
<1>2. ASSUME NEW k \in 1..Len(ts) PROVE us[k] \in Tracker /\ ~us[k].sub
  <2>1. ts[k] \in Tracker
    OBVIOUS
  <2>2. us[k] = IF TrackerUnsub(k) \in listeners THEN [ts[k] EXCEPT !.sub = FALSE] ELSE ts[k]
    BY <1>1 DEF WithoutTrackers
  <2>3. CASE TrackerUnsub(k) \in listeners
    BY <2>1, <2>2, <2>3, TrackerFields, Zenon
  <2>4. CASE TrackerUnsub(k) \notin listeners
    BY <1>1, <2>1, <2>2, <2>4 DEF Subs
  <2> QED BY <2>3, <2>4
<1>3. DOMAIN us = 1..Len(ts) /\ us = [k \in 1..Len(ts) |-> us[k]]
  BY <1>1 DEF WithoutTrackers
<1> HIDE DEF us
<1>4. us \in Seq(Tracker) /\ Len(us) = Len(ts)
  BY <1>1, <1>2, <1>3
<1> QED BY <1>2, <1>3, <1>4 DEF Subs, us

-----------------------------------------------------------------------------
(* What carries the script on: async_run itself, a service call, a         *)
(* continuation that is queued, or the listeners of a wait.                *)

RunJob == [stage : {"run"}]
Runs == HowMany(jobs, RunJob)
One(b) == IF b THEN 1 ELSE 0

Awake ==
  cur # -1 /\ ~raised => ~Idle \/ Len(awaiting) > 0 \/ Runs > 0 \/ listeners # {}

(* As long as no two async_run overlap there is one line of steps: the one *)
(* that has the loop, or awaits a service, is where the history says, and  *)
(* a script that waits will go on there.                                   *)
Line ==
  alone =>
    /\ ~Idle \/ awaiting # <<>> => listeners = {}
    /\ ~Idle => awaiting = <<>> /\ at = done + 1
    /\ awaiting # <<>> => Len(awaiting) = 1 /\ awaiting[1] = done
    /\ Idle /\ awaiting = <<>> /\ cur # -1 => cur = done + 1

(* Whatever is registered belongs to the step the script waits at.         *)
Waits ==
  alone =>
    /\ \A k \in Subs(pits) :
         /\ cur >= 1 /\ until <= pits[k].at
         /\ pits[k].who = "delay" => Steps[cur] = "delay"
         /\ pits[k].who = "timeout" => Steps[cur] = "timed_wait"
    /\ Subs(trackers) # {} => cur >= 1 /\ Steps[cur] \in {"wait", "timed_wait"}

Inv == TypeOK /\ Awake /\ Line /\ Waits

LEMMA Facts ==
  ASSUME TypeOK
  PROVE  /\ pits \in Seq(Pit) /\ DOMAIN pits = 1..Len(pits) /\ Len(pits) \in Nat
         /\ trackers \in Seq(Tracker) /\ DOMAIN trackers = 1..Len(trackers)
         /\ Len(trackers) \in Nat
         /\ listeners = Tags(Subs(pits), Subs(trackers))
         /\ clock \in Nat /\ sent \in Nat /\ sent <= clock /\ until \in Nat
         /\ Runs \in Nat /\ (Queued("run") <=> Runs > 0)
         /\ Len(awaiting) \in Nat /\ (awaiting # <<>> <=> Len(awaiting) > 0)
         /\ cur \in Int /\ at \in Int /\ done \in Int /\ Len(Steps) \in Nat
         /\ Delay \in Nat /\ Timeout \in Nat
<1>1. /\ pits \in Seq(Pit) /\ trackers \in Seq(Tracker)
      /\ clock \in Nat /\ sent \in Nat /\ sent <= clock /\ until \in Nat
      /\ awaiting \in Seq(0..(Len(Steps) - 1))
  BY TimeConstants DEF TypeOK, Tracker
<1>2. listeners = Tags(Subs(pits), Subs(trackers))
  BY DEF TypeOK, Tags, Subs
<1>3. Runs \in Nat /\ (Queued("run") <=> Runs > 0)
  <2>1. jobs \in Seq(Job)
    BY DEF TypeOK
  <2>2. \A i \in DOMAIN jobs : jobs[i] \in RunJob <=> jobs[i].stage = "run"
    BY <2>1 DEF Job, RunJob
  <2>3. Runs \in Nat /\ (Runs = 0 <=> \A i \in DOMAIN jobs : jobs[i] \notin RunJob)
    BY <2>1, CountType DEF Runs
  <2> QED BY <2>2, <2>3 DEF Queued
<1>4. Len(Steps) \in Nat /\ Delay \in Nat /\ Timeout \in Nat
  BY ScriptConstants, LenProperties, Zenon
<1>5. cur \in Int /\ at \in Int /\ done \in Int
  BY <1>4 DEF TypeOK, Off
<1>6. Len(awaiting) \in Nat /\ (awaiting # <<>> <=> Len(awaiting) > 0)
  BY <1>1
<1> QED BY <1>1, <1>2, <1>3, <1>4, <1>5, <1>6

(* Listeners are never forgotten, so that what jobs say of them stays true.*)
LEMMA JobGrows ==
  ASSUME TypeOK, pits' \in Seq(Pit), Len(pits) <= Len(pits'),
         trackers' \in Seq(Tracker), Len(trackers) <= Len(trackers'),
         sent' \in Nat, sent <= sent'
  PROVE  Job \subseteq Job' /\ [stage |-> "run"] \in Job'
<1>1. /\ DOMAIN pits \subseteq DOMAIN pits' /\ DOMAIN trackers \subseteq DOMAIN trackers'
      /\ 0..sent \subseteq 0..sent'
  BY Facts, SMTT(30)
<1>2. Job \subseteq Job'
  BY <1>1, Zenon DEF Job
<1> QED BY <1>2 DEF Job

(* The effect of a step on the loop's queue.                               *)
LEMMA JobsAre ==
  ASSUME TypeOK, pits' \in Seq(Pit), Len(pits) <= Len(pits'),
         trackers' \in Seq(Tracker), Len(trackers) <= Len(trackers'), sent' = sent
  PROVE  /\ jobs' = jobs => jobs' \in Seq(Job') /\ Runs' = Runs
         /\ jobs # <<>> /\ jobs' = Tail(jobs) =>
              jobs' \in Seq(Job') /\ Runs' = Runs - One(Next_job("run"))
         /\ jobs # <<>> /\ jobs' = Append(Tail(jobs), [stage |-> "run"]) =>
              jobs' \in Seq(Job') /\ Runs' = Runs - One(Next_job("run")) + 1
<1>1. /\ Job \subseteq Job' /\ [stage |-> "run"] \in Job' /\ [stage |-> "run"] \in RunJob
      /\ jobs \in Seq(Job) /\ Runs \in Nat
  <2>1. sent' \in Nat /\ sent <= sent'
    BY Facts
  <2> QED BY <2>1, JobGrows, Facts DEF TypeOK, RunJob
<1>2. jobs \in Seq(Job')
  BY <1>1
<1>3. ASSUME jobs # <<>>
      PROVE  /\ Tail(jobs) \in Seq(Job')
             /\ HowMany(Tail(jobs), RunJob) = Runs - One(Next_job("run"))
             /\ One(Next_job("run")) \in 0..1 /\ One(Next_job("run")) <= Runs
  <2>1. Tail(jobs) \in Seq(Job') /\ Head(jobs) \in Job
    BY <1>1, <1>2, <1>3
  <2>2. Head(jobs) \in RunJob <=> Next_job("run")
    BY <1>3, <2>1 DEF Job, RunJob, Next_job
  <2>3. /\ HowMany(Tail(jobs), RunJob) = Runs - IF Head(jobs) \in RunJob THEN 1 ELSE 0
        /\ Head(jobs) \in RunJob => Runs > 0
    BY <1>1, <1>3, CountTail DEF Runs
  <2> QED BY <1>1, <2>1, <2>2, <2>3 DEF One
<1>4. ASSUME jobs' = jobs PROVE jobs' \in Seq(Job') /\ Runs' = Runs
  BY <1>2, <1>4 DEF Runs
<1>5. ASSUME jobs # <<>>, jobs' = Tail(jobs)
      PROVE  jobs' \in Seq(Job') /\ Runs' = Runs - One(Next_job("run"))
  BY <1>3, <1>5 DEF Runs
<1>6. ASSUME jobs # <<>>, jobs' = Append(Tail(jobs), [stage |-> "run"])
      PROVE  jobs' \in Seq(Job') /\ Runs' = Runs - One(Next_job("run")) + 1
  <2> DEFINE t == Tail(jobs)
             r == [stage |-> "run"]
  <2>1. t \in Seq(Job') /\ r \in Job' /\ r \in RunJob
    BY <1>1, <1>3, <1>6
  <2> HIDE DEF t, r
  <2>2. Append(t, r) \in Seq(Job') /\ HowMany(Append(t, r), RunJob) = HowMany(t, RunJob) + 1
    BY <2>1, CountAppend
  <2> QED BY <1>3, <1>6, <2>2 DEF Runs, t, r
<1> QED BY <1>4, <1>5, <1>6

(* Lining up jobs that continue nothing.                                   *)
LEMMA MoreJobs ==
  ASSUME TypeOK, Job \subseteq Job', NEW n \in Nat, NEW more \in [1..n -> Job' \ RunJob],
         jobs' = jobs \o more
  PROVE  jobs' \in Seq(Job') /\ Runs' = Runs
<1>1. jobs \in Seq(Job')
  BY DEF TypeOK
<1>2. more \in Seq(Job') /\ DOMAIN more = 1..n
  OBVIOUS
<1>3. HowMany(more, RunJob) = 0
  BY <1>2, CountType
<1>4. HowMany(jobs \o more, RunJob) = HowMany(jobs, RunJob) + HowMany(more, RunJob)
  BY <1>1, <1>2, CountConcat
<1>5. jobs \o more \in Seq(Job')
  BY <1>1, <1>2
<1> QED BY <1>3, <1>4, <1>5, Facts DEF Runs

-----------------------------------------------------------------------------
(* A step keeps the types if it keeps those of what it changes.            *)
LEMMA TypeStep ==
  ASSUME TypeOK, clock' = clock, sent' = sent, calls' \in 0..MaxCalls,
         pits' \in Seq(Pit), trackers' \in Seq(Tracker), jobs' \in Seq(Job'),
         listeners' = Tags(Subs(pits'), Subs(trackers')),
         cur' \in -1..Len(Steps), at' \in {Off} \cup 0..Len(Steps),
         awaiting' \in Seq(0..(Len(Steps) - 1)), template' \in BOOLEAN,
         stopped' \in BOOLEAN, raised' \in BOOLEAN, alone' \in BOOLEAN,
         done' \in -1..(Len(Steps) - 1), until' \in Nat
  PROVE  TypeOK'
BY DEF TypeOK, Tracker, Tags, Subs

LEMMA CallsType == TypeOK /\ Called => calls' \in 0..MaxCalls
BY TimeConstants DEF TypeOK, Called

LEMMA Cleared ==
  ASSUME TypeOK, _async_remove_listener
  PROVE  /\ pits' \in Seq(Pit) /\ Len(pits') = Len(pits) /\ Subs(pits') = {}
         /\ trackers' \in Seq(Tracker) /\ Len(trackers') = Len(trackers)
         /\ Subs(trackers') = {}
         /\ listeners' = {} /\ listeners' = Tags(Subs(pits'), Subs(trackers'))
<1>1. /\ \A k \in Subs(pits) : PitUnsub(k) \in listeners
      /\ \A k \in Subs(trackers) : TrackerUnsub(k) \in listeners
  BY Facts, TagsIn
<1>2. /\ pits' \in Seq(Pit) /\ Len(pits') = Len(pits) /\ Subs(pits') = {}
      /\ trackers' \in Seq(Tracker) /\ Len(trackers') = Len(trackers) /\ Subs(trackers') = {}
  <2>1. pits \in Seq(Pit) /\ trackers \in Seq(Tracker)
    BY Facts
  <2>2. pits' = WithoutPits(pits) /\ trackers' = WithoutTrackers(trackers)
    BY DEF _async_remove_listener
  <2> QED BY <1>1, <2>1, <2>2, ClearPits, ClearTrackers, Zenon
<1>3. listeners' = {} /\ Tags({}, {}) = {}
  BY TagsIn DEF _async_remove_listener
<1> QED BY <1>2, <1>3

(* Once everything is removed nothing is left to say of listeners.         *)
LEMMA NoWaits == Subs(pits)' = {} /\ Subs(trackers)' = {} => Waits'
BY DEF Waits

(* What an async_run does before its first step, whoever calls it.         *)
LEMMA RunStarts ==
  ASSUME Inv, NEW outside \in BOOLEAN, async_run(outside), Idle,
         clock' = clock, sent' = sent, calls' \in 0..MaxCalls,
         jobs' = jobs \/ (jobs # <<>> /\ jobs' = Tail(jobs))
  PROVE  Inv'
<1>0. TypeOK /\ Awake /\ Line /\ Waits
  BY DEF Inv
<1>1. /\ cur' = IF cur = -1 THEN 0 ELSE cur
      /\ at' = cur' /\ _async_remove_listener
      /\ done' = IF cur # -1 /\ alone THEN done ELSE cur' - 1
      /\ stopped' = (stopped /\ ~outside)
      /\ raised' = FALSE /\ alone' = (awaiting = <<>>)
      /\ UNCHANGED <<template, awaiting, until>>
  BY DEF async_run
<1>2. /\ pits' \in Seq(Pit) /\ Len(pits') = Len(pits) /\ Subs(pits') = {}
      /\ trackers' \in Seq(Tracker) /\ Len(trackers') = Len(trackers) /\ Subs(trackers') = {}
      /\ listeners' = {} /\ listeners' = Tags(Subs(pits'), Subs(trackers'))
  BY <1>0, <1>1, Cleared
<1>3. Len(Steps) \in Nat /\ Len(pits) \in Nat /\ Len(trackers) \in Nat
  BY <1>0, Facts
<1>4. jobs' \in Seq(Job')
  BY <1>0, <1>2, <1>3, JobsAre
<1>5. cur \in -1..Len(Steps) /\ done \in -1..(Len(Steps) - 1)
  BY <1>0 DEF TypeOK
<1>6. cur' \in 0..Len(Steps) /\ done' \in -1..(Len(Steps) - 1)
  BY <1>1, <1>3, <1>5
<1>7. TypeOK'
  <2>1. /\ awaiting' \in Seq(0..(Len(Steps) - 1)) /\ until' \in Nat
        /\ template' \in BOOLEAN /\ stopped' \in BOOLEAN /\ raised' \in BOOLEAN
    BY <1>0, <1>1 DEF TypeOK
  <2>2. cur' \in -1..Len(Steps) /\ at' \in {Off} \cup 0..Len(Steps) /\ alone' \in BOOLEAN
    BY <1>1, <1>6
  <2> QED BY <1>0, <1>2, <1>4, <1>6, <2>1, <2>2, TypeStep, Zenon
<1>8. ~Idle'
  BY <1>1, <1>6 DEF Idle, Off
<1>9. Line'
  <2>1. ASSUME awaiting = <<>> PROVE at' = done' + 1
    <3>1. CASE cur # -1 /\ alone
      <4>1. cur = done + 1
        BY <1>0, <2>1, <3>1 DEF Line
      <4> QED BY <1>1, <3>1, <4>1
    <3>2. CASE ~(cur # -1 /\ alone)
      BY <1>1, <1>6, <3>2
    <3> QED BY <3>1, <3>2
  <2> QED BY <1>1, <1>2, <1>8, <2>1 DEF Line
<1>10. Awake' /\ Waits'
  BY <1>2, <1>8, NoWaits DEF Awake
<1> QED BY <1>7, <1>9, <1>10 DEF Inv

LEMMA TurnOnStep ==
  ASSUME Inv, TurnOn
  PROVE  Inv'
<1>1. Idle /\ Called /\ async_run(TRUE) /\ UNCHANGED <<clock, sent, jobs>>
  BY DEF TurnOn
<1>2. calls' \in 0..MaxCalls
  BY <1>1, CallsType DEF Inv
<1> QED BY <1>1, <1>2, RunStarts

LEMMA ContinueStep ==
  ASSUME Inv, Continue
  PROVE  Inv'
<1>1. /\ Idle /\ jobs # <<>> /\ async_run(FALSE) /\ jobs' = Tail(jobs)
      /\ UNCHANGED <<clock, sent, calls>>
  BY DEF Continue, Next_job
<1>2. calls' \in 0..MaxCalls
  BY <1>1 DEF Inv, TypeOK
<1> QED BY <1>1, <1>2, RunStarts

LEMMA TurnOffStep ==
  ASSUME Inv, TurnOff
  PROVE  Inv'
<1>0. TypeOK /\ Awake /\ Line /\ Waits
  BY DEF Inv
<1>1. /\ async_stop /\ Called /\ Idle
      /\ UNCHANGED <<clock, sent, jobs, template, at, awaiting, done, until, raised, alone>>
  BY DEF TurnOff
<1>2. /\ Runs \in Nat /\ (Queued("run") <=> Runs > 0) /\ Len(Steps) \in Nat
      /\ Len(awaiting) \in Nat /\ (awaiting # <<>> <=> Len(awaiting) > 0)
      /\ Len(pits) \in Nat /\ Len(trackers) \in Nat
      /\ pits \in Seq(Pit) /\ trackers \in Seq(Tracker)
      /\ listeners = Tags(Subs(pits), Subs(trackers))
  BY <1>0, Facts
<1>3. \/ cur = -1 /\ UNCHANGED <<cur, listeners, trackers, pits, stopped>>
      \/ cur # -1 /\ cur' = -1 /\ stopped' = TRUE /\ _async_remove_listener
  BY <1>1 DEF async_stop
<1>4. /\ pits' \in Seq(Pit) /\ Len(pits') = Len(pits)
      /\ trackers' \in Seq(Tracker) /\ Len(trackers') = Len(trackers)
      /\ listeners' = Tags(Subs(pits'), Subs(trackers'))
  <2>1. CASE cur = -1 /\ UNCHANGED <<cur, listeners, trackers, pits, stopped>>
    BY <1>2, <2>1
  <2>2. CASE cur # -1 /\ cur' = -1 /\ stopped' = TRUE /\ _async_remove_listener
    BY <1>0, <2>2, Cleared
  <2> QED BY <1>3, <2>1, <2>2
<1>5. jobs' \in Seq(Job') /\ Runs' = Runs
  BY <1>0, <1>1, <1>2, <1>4, JobsAre
<1>6. cur' = -1 /\ stopped' \in BOOLEAN
  BY <1>0, <1>1, <1>3 DEF TypeOK
<1>7. TypeOK'
  <2>1. /\ calls' \in 0..MaxCalls /\ awaiting' \in Seq(0..(Len(Steps) - 1))
        /\ template' \in BOOLEAN /\ until' \in Nat
        /\ raised' \in BOOLEAN /\ alone' \in BOOLEAN
        /\ at' \in {Off} \cup 0..Len(Steps) /\ done' \in -1..(Len(Steps) - 1)
    BY <1>0, <1>1, CallsType DEF TypeOK
  <2>2. cur' \in -1..Len(Steps)
    BY <1>2, <1>6
  <2>3. clock' = clock /\ sent' = sent
    BY <1>1
  <2> QED BY <1>0, <1>4, <1>5, <1>6, <2>1, <2>2, <2>3, TypeStep, Zenon
<1>8. alone => listeners' = {} /\ Subs(pits)' = {} /\ Subs(trackers)' = {}
  <2>1. CASE cur = -1 /\ UNCHANGED <<cur, listeners, trackers, pits, stopped>>
    <3>1. alone => Subs(pits) = {} /\ Subs(trackers) = {}
      BY <1>0, <2>1 DEF Waits
    <3>2. alone => listeners = {}
      BY <1>2, <3>1, TagsIn
    <3> QED BY <2>1, <3>1, <3>2
  <2>2. CASE cur # -1 /\ cur' = -1 /\ stopped' = TRUE /\ _async_remove_listener
    BY <1>0, <2>2, Cleared
  <2> QED BY <1>3, <2>1, <2>2
<1>9. Awake' /\ Line' /\ Waits'
  BY <1>0, <1>1, <1>6, <1>8 DEF Awake, Line, Waits, Idle
<1> QED BY <1>7, <1>9 DEF Inv

-----------------------------------------------------------------------------
(* The steps: async_run has the loop, and nothing else waits.              *)

LEMMA Running ==
  ASSUME Inv, ~Idle
  PROVE  /\ alone => /\ awaiting = <<>> /\ listeners = {} /\ at = done + 1
                     /\ Subs(pits) = {} /\ Subs(trackers) = {}
         /\ at \in 0..Len(Steps)
<1>0. TypeOK /\ Line
  BY DEF Inv
<1>1. listeners = Tags(Subs(pits), Subs(trackers))
  BY <1>0, Facts
<1>2. at \in 0..Len(Steps)
  BY <1>0 DEF TypeOK, Idle
<1>3. alone => awaiting = <<>> /\ listeners = {} /\ at = done + 1
  BY <1>0 DEF Line
<1>4. alone => Subs(pits) = {} /\ Subs(trackers) = {}
  BY <1>1, <1>3, TagsIn
<1> QED BY <1>2, <1>3, <1>4

LEMMA DelayStepStep ==
  ASSUME Inv, DelayStep
  PROVE  Inv'
<1>0. TypeOK /\ Awake /\ Line /\ Waits
  BY DEF Inv
<1>1. /\ ~Idle /\ at < Len(Steps) /\ at' = Off /\ cur' = at + 1 /\ done' = at
      /\ pits' = async_track_point_in_utc_time(pits, "delay", clock + Delay)
      /\ listeners' = listeners \cup {PitUnsub(Len(pits'))}
      /\ until' = clock + Delay
      /\ Steps[at + 1] = "delay"
      /\ UNCHANGED <<clock, sent, jobs, calls, trackers, template, awaiting, stopped, raised, alone>>
  BY DEF DelayStep, At, Leave
<1>2. /\ pits \in Seq(Pit) /\ Len(pits) \in Nat /\ Len(trackers) \in Nat
      /\ trackers \in Seq(Tracker) /\ listeners = Tags(Subs(pits), Subs(trackers))
      /\ clock \in Nat /\ Runs \in Nat /\ Len(Steps) \in Nat /\ Delay \in Nat /\ Timeout \in Nat
      /\ Len(awaiting) \in Nat /\ (awaiting # <<>> <=> Len(awaiting) > 0)
  BY <1>0, Facts
<1>3. /\ clock + Delay \in Nat /\ clock + Delay \in Int /\ "delay" \in Users
  BY <1>2 DEF Users
<1>4. /\ pits' \in Seq(Pit) /\ Len(pits') = Len(pits) + 1
      /\ pits'[Len(pits')].who = "delay" /\ pits'[Len(pits')].at = clock + Delay
      /\ Subs(pits') = Subs(pits) \cup {Len(pits')}
  <2> DEFINE due == clock + Delay
  <2>1. due \in Int /\ pits' = async_track_point_in_utc_time(pits, "delay", due)
    BY <1>1, <1>3
  <2> HIDE DEF due
  <2>2. /\ pits' \in Seq(Pit) /\ Len(pits') = Len(pits) + 1
        /\ pits'[Len(pits')] = [who |-> "delay", at |-> due, sub |-> TRUE, run |-> FALSE]
    BY <1>2, <1>3, <2>1, TrackIs
  <2>3. Subs(pits') = Subs(pits) \cup {Len(pits')}
    BY <1>2, <1>3, <2>1, TrackSubs, ZenonT(60)
  <2> QED BY <2>2, <2>3 DEF due
<1>5. listeners' = Tags(Subs(pits'), Subs(trackers')) /\ listeners' # {}
  <2>1. /\ Subs(pits') = Subs(pits) \cup {Len(pits')}
        /\ listeners = Tags(Subs(pits), Subs(trackers))
        /\ listeners' = listeners \cup {PitUnsub(Len(pits'))}
    BY <1>1, <1>2, <1>4
  <2>2. listeners' = Tags(Subs(pits'), Subs(trackers))
    BY <2>1 DEF Tags
  <2> QED BY <1>1, <2>1, <2>2
<1>6. jobs' \in Seq(Job') /\ Runs' = Runs
  BY <1>0, <1>1, <1>2, <1>4, JobsAre
<1>7. /\ at \in 0..Len(Steps)
      /\ alone => /\ awaiting = <<>> /\ listeners = {}
                  /\ Subs(pits) = {} /\ Subs(trackers) = {}
  BY <1>1, Running
<1>8. TypeOK'
  <2>1. /\ calls' \in 0..MaxCalls /\ awaiting' \in Seq(0..(Len(Steps) - 1))
        /\ template' \in BOOLEAN /\ stopped' \in BOOLEAN /\ raised' \in BOOLEAN /\ alone' \in BOOLEAN
    BY <1>0, <1>1 DEF TypeOK
  <2>2. /\ cur' \in -1..Len(Steps) /\ done' \in -1..(Len(Steps) - 1)
        /\ at' \in {Off} \cup 0..Len(Steps) /\ until' \in Nat
    BY <1>1, <1>2, <1>3, <1>7
  <2>3. clock' = clock /\ sent' = sent /\ trackers' \in Seq(Tracker)
    BY <1>1, <1>2
  <2> QED BY <1>0, <1>4, <1>5, <1>6, <2>1, <2>2, <2>3, TypeStep, Zenon
<1>9. Idle' /\ cur' = at + 1 /\ cur' >= 1
  BY <1>1, <1>7 DEF Idle
<1>10. Awake'
  BY <1>5 DEF Awake
<1>11. Line'
  BY <1>1, <1>7, <1>9 DEF Line
<1>12. Waits'
  <2>1. alone' => Subs(pits') = {Len(pits')} /\ Subs(trackers') = {}
    BY <1>1, <1>4, <1>7
  <2> QED BY <1>1, <1>3, <1>4, <1>9, <2>1 DEF Waits
<1> QED BY <1>8, <1>10, <1>11, <1>12 DEF Inv

LEMMA WaitStepStep ==
  ASSUME Inv, WaitStep
  PROVE  Inv'
<1>0. TypeOK /\ Awake /\ Line /\ Waits
  BY DEF Inv
<1>1. /\ ~Idle /\ at < Len(Steps) /\ at' = Off /\ cur' = at + 1 /\ done' = at
      /\ trackers' = Append(trackers, [sub |-> TRUE, triggered |-> FALSE])
      /\ Steps[at + 1] \in {"wait", "timed_wait"}
      /\ UNCHANGED <<clock, sent, jobs, calls, template, awaiting, stopped, raised, alone>>
  BY Zenon DEF WaitStep, At, Leave
<1>w. \/ pits' = pits /\ until' = until /\ listeners' = listeners \cup {TrackerUnsub(Len(trackers'))}
      \/ /\ pits' = async_track_point_in_utc_time(pits, "timeout", clock + Timeout)
         /\ listeners' = listeners \cup {TrackerUnsub(Len(trackers')), PitUnsub(Len(pits'))}
         /\ until' = clock + Timeout /\ Steps[at + 1] = "timed_wait"
  BY DEF WaitStep, At
<1>2. /\ pits \in Seq(Pit) /\ Len(pits) \in Nat /\ Len(trackers) \in Nat
      /\ trackers \in Seq(Tracker) /\ listeners = Tags(Subs(pits), Subs(trackers))
      /\ clock \in Nat /\ Runs \in Nat /\ Len(Steps) \in Nat /\ Delay \in Nat /\ Timeout \in Nat
      /\ Len(awaiting) \in Nat /\ (awaiting # <<>> <=> Len(awaiting) > 0)
      /\ until \in Nat
  BY <1>0, Facts
<1>3. clock + Timeout \in Int /\ "timeout" \in Users
  BY <1>2 DEF Users
<1>4. /\ trackers' \in Seq(Tracker) /\ Len(trackers') = Len(trackers) + 1
      /\ Subs(trackers') = Subs(trackers) \cup {Len(trackers')}
  <2>1. /\ trackers' \in Seq(Tracker) /\ Len(trackers') = Len(trackers) + 1
        /\ Subs(trackers') = Subs(trackers) \cup {Len(trackers) + 1}
    BY <1>1, <1>2, WatchIs, Zenon
  <2> QED BY <2>1
<1>5. /\ pits' \in Seq(Pit) /\ Len(pits) <= Len(pits')
      /\ listeners' = Tags(Subs(pits'), Subs(trackers'))
      /\ \A k \in Subs(pits') :
           k \in Subs(pits)
             \/ (pits'[k].who = "timeout" /\ pits'[k].at = until' /\ Steps[at + 1] = "timed_wait")
      /\ until' \in Nat
  <2> DEFINE more == listeners \cup {TrackerUnsub(Len(trackers'))}
  <2>1. more = Tags(Subs(pits), Subs(trackers'))
    <3>1. /\ Subs(trackers') = Subs(trackers) \cup {Len(trackers')}
          /\ listeners = Tags(Subs(pits), Subs(trackers))
          /\ more = listeners \cup {TrackerUnsub(Len(trackers'))}
      BY <1>2, <1>4
    <3> HIDE DEF more
    <3> QED BY <3>1 DEF Tags
  <2>2. CASE pits' = pits /\ until' = until /\ listeners' = listeners \cup {TrackerUnsub(Len(trackers'))}
    <3>1. pits' = pits /\ until' = until /\ listeners' = more
      BY <2>2
    <3> HIDE DEF more
    <3> QED BY <1>2, <2>1, <3>1
  <2>3. CASE /\ pits' = async_track_point_in_utc_time(pits, "timeout", clock + Timeout)
             /\ listeners' = listeners \cup {TrackerUnsub(Len(trackers')), PitUnsub(Len(pits'))}
             /\ until' = clock + Timeout /\ Steps[at + 1] = "timed_wait"
    <3> DEFINE due == clock + Timeout
    <3>1. /\ due \in Int /\ pits' = async_track_point_in_utc_time(pits, "timeout", due)
          /\ until' = due /\ until' \in Nat /\ Steps[at + 1] = "timed_wait"
      <4>1. clock + Timeout \in Nat
        BY <1>2
      <4> QED BY <1>3, <2>3, <4>1
    <3>2. listeners' = more \cup {PitUnsub(Len(pits'))}
      BY <2>3
    <3> HIDE DEF due, more
    <3>3. /\ pits' \in Seq(Pit) /\ Len(pits') = Len(pits) + 1
          /\ pits'[Len(pits')] = [who |-> "timeout", at |-> due, sub |-> TRUE, run |-> FALSE]
      BY <1>2, <1>3, <3>1, TrackIs
    <3>4. Subs(pits') = Subs(pits) \cup {Len(pits')}
      BY <1>2, <1>3, <3>1, TrackSubs, ZenonT(60)
    <3>5. listeners' = Tags(Subs(pits'), Subs(trackers'))
      BY <2>1, <3>2, <3>4 DEF Tags
    <3>6. \A k \in Subs(pits') :
            k \in Subs(pits)
              \/ (pits'[k].who = "timeout" /\ pits'[k].at = until' /\ Steps[at + 1] = "timed_wait")
      BY <3>1, <3>3, <3>4
    <3>7. Len(pits) <= Len(pits')
      BY <1>2, <3>3
    <3> QED BY <3>1, <3>3, <3>5, <3>6, <3>7
  <2> QED BY <1>w, <2>2, <2>3, Zenon
<1>6. jobs' \in Seq(Job') /\ Runs' = Runs
  BY <1>0, <1>1, <1>2, <1>4, <1>5, JobsAre
<1>7. /\ at \in 0..Len(Steps)
      /\ alone => awaiting = <<>> /\ Subs(pits) = {} /\ Subs(trackers) = {}
  BY <1>1, Running
<1>8. TypeOK'
  <2>1. /\ calls' \in 0..MaxCalls /\ awaiting' \in Seq(0..(Len(Steps) - 1))
        /\ template' \in BOOLEAN /\ stopped' \in BOOLEAN /\ raised' \in BOOLEAN /\ alone' \in BOOLEAN
    BY <1>0, <1>1 DEF TypeOK
  <2>2. /\ cur' \in -1..Len(Steps) /\ done' \in -1..(Len(Steps) - 1)
        /\ at' \in {Off} \cup 0..Len(Steps)
    BY <1>1, <1>2, <1>7
  <2>3. clock' = clock /\ sent' = sent
    BY <1>1
  <2> QED BY <1>0, <1>4, <1>5, <1>6, <2>1, <2>2, <2>3, TypeStep, Zenon
<1>9. Idle' /\ cur' = at + 1 /\ cur' >= 1 /\ listeners' # {}
  <2>1. listeners' # {}
    BY <1>w
  <2> QED BY <1>1, <1>7, <2>1 DEF Idle
<1>10. Awake' /\ Line'
  BY <1>1, <1>7, <1>9 DEF Awake, Line
<1>11. Waits'
  <2>1. alone' => \A k \in Subs(pits') :
          /\ pits'[k].who = "timeout" /\ pits'[k].at = until'
          /\ Steps[at + 1] = "timed_wait"
    BY <1>1, <1>5, <1>7
  <2> QED BY <1>1, <1>5, <1>9, <2>1 DEF Waits
<1> QED BY <1>8, <1>10, <1>11 DEF Inv

(* Steps that neither wait nor line anything up.                           *)
LEMMA Untouched ==
  ASSUME Inv, UNCHANGED <<timeVars, listeners, trackers>>
  PROVE  /\ pits' \in Seq(Pit) /\ trackers' \in Seq(Tracker) /\ jobs' \in Seq(Job')
         /\ listeners' = Tags(Subs(pits'), Subs(trackers'))
         /\ clock' = clock /\ sent' = sent /\ calls' \in 0..MaxCalls
         /\ Runs' = Runs
         /\ Len(Steps) \in Nat /\ Runs \in Nat /\ Len(awaiting) \in Nat
         /\ (awaiting # <<>> <=> Len(awaiting) > 0)
<1>0. TypeOK
  BY DEF Inv
<1>1. /\ pits \in Seq(Pit) /\ trackers \in Seq(Tracker) /\ Len(pits) \in Nat
      /\ Len(trackers) \in Nat /\ listeners = Tags(Subs(pits), Subs(trackers))
      /\ Len(Steps) \in Nat /\ Runs \in Nat /\ Len(awaiting) \in Nat
      /\ (awaiting # <<>> <=> Len(awaiting) > 0)
  BY <1>0, Facts
<1>2. UNCHANGED <<clock, sent, jobs, pits, calls, listeners, trackers>>
  BY DEF timeVars
<1>3. jobs' \in Seq(Job') /\ Runs' = Runs
  BY <1>0, <1>1, <1>2, JobsAre
<1>4. listeners' = Tags(Subs(pits'), Subs(trackers'))
  BY <1>1, <1>2
<1>5. calls' \in 0..MaxCalls
  BY <1>0, <1>2 DEF TypeOK
<1> QED BY <1>1, <1>2, <1>3, <1>4, <1>5

(* ... and, if they leave cur alone or end the script, keep its line.      *)
LEMMA StepTypes ==
  ASSUME Inv, UNCHANGED <<timeVars, listeners, trackers, template, until, stopped, alone>>,
         cur' \in {cur, -1}, raised' \in BOOLEAN, at' \in {Off} \cup 0..Len(Steps),
         done' \in -1..(Len(Steps) - 1), awaiting' \in Seq(0..(Len(Steps) - 1))
  PROVE  TypeOK'
<1>0. TypeOK
  BY DEF Inv
<1>1. /\ pits' \in Seq(Pit) /\ trackers' \in Seq(Tracker) /\ jobs' \in Seq(Job')
      /\ listeners' = Tags(Subs(pits'), Subs(trackers'))
      /\ clock' = clock /\ sent' = sent /\ calls' \in 0..MaxCalls /\ Len(Steps) \in Nat
  BY Untouched
<1>2. /\ cur' \in -1..Len(Steps) /\ template' \in BOOLEAN /\ until' \in Nat
      /\ stopped' \in BOOLEAN /\ alone' \in BOOLEAN
  BY <1>0, <1>1 DEF TypeOK
<1> QED BY <1>0, <1>1, <1>2, TypeStep, Zenon

LEMMA PassStepStep ==
  ASSUME Inv, PassStep
  PROVE  Inv'
<1>0. TypeOK /\ Awake /\ Line /\ Waits
  BY DEF Inv
<1>1. /\ ~Idle /\ at < Len(Steps) /\ at' = at + 1 /\ done' = at
      /\ UNCHANGED <<timeVars, cur, listeners, trackers, template, awaiting, until, stopped, raised, alone>>
  BY DEF PassStep, At, NextStep
<1>2. Len(Steps) \in Nat
  BY <1>0, Facts
<1>3. /\ at \in 0..Len(Steps)
      /\ alone => awaiting = <<>> /\ listeners = {} /\ Subs(pits) = {} /\ Subs(trackers) = {}
  BY <1>1, Running
<1>4. TypeOK'
  <2>1. raised' \in BOOLEAN /\ awaiting' \in Seq(0..(Len(Steps) - 1)) /\ cur' \in {cur, -1}
    BY <1>0, <1>1 DEF TypeOK
  <2>2. at' \in {Off} \cup 0..Len(Steps) /\ done' \in -1..(Len(Steps) - 1)
    BY <1>1, <1>2, <1>3
  <2> QED BY <1>1, <2>1, <2>2, StepTypes
<1>5. ~Idle'
  BY <1>1, <1>3 DEF Idle, Off
<1>6. Awake' /\ Line'
  BY <1>1, <1>3, <1>5 DEF Awake, Line
<1>7. Waits'
  <2>1. UNCHANGED <<pits, listeners, trackers, alone, cur, until>>
    BY <1>1 DEF timeVars
  <2> QED BY <1>0, <2>1 DEF Waits
<1> QED BY <1>4, <1>6, <1>7 DEF Inv

LEMMA ServiceStepStep ==
  ASSUME Inv, ServiceStep
  PROVE  Inv'
<1>0. TypeOK /\ Awake /\ Line /\ Waits
  BY DEF Inv
<1>1. /\ ~Idle /\ at < Len(Steps) /\ at' = Off /\ done' = at /\ awaiting' = Append(awaiting, at)
      /\ UNCHANGED <<timeVars, cur, listeners, trackers, template, until, stopped, raised, alone>>
  BY DEF ServiceStep, At
<1>2. Len(Steps) \in Nat
  BY <1>0, Facts
<1>3. /\ at \in 0..(Len(Steps) - 1)
      /\ alone => awaiting = <<>> /\ listeners = {}
  BY <1>1, <1>2, Running
<1>4. /\ awaiting' \in Seq(0..(Len(Steps) - 1)) /\ Len(awaiting') > 0
      /\ awaiting = <<>> => Len(awaiting') = 1 /\ awaiting'[1] = at
  <2>1. awaiting \in Seq(0..(Len(Steps) - 1))
    BY <1>0 DEF TypeOK
  <2> QED BY <1>1, <1>3, <2>1
<1>5. TypeOK'
  <2>1. raised' \in BOOLEAN /\ cur' \in {cur, -1}
    BY <1>0, <1>1 DEF TypeOK
  <2>2. at' \in {Off} \cup 0..Len(Steps) /\ done' \in -1..(Len(Steps) - 1)
    BY <1>1, <1>2, <1>3
  <2> QED BY <1>1, <1>4, <2>1, <2>2, StepTypes
<1>6. Idle'
  BY <1>1 DEF Idle
<1>7. Awake'
  BY <1>4 DEF Awake
<1>8. Line'
  <2>1. awaiting' # <<>>
    BY <1>4
  <2> QED BY <1>1, <1>3, <1>4, <1>6, <2>1 DEF Line
<1>9. Waits'
  <2>1. UNCHANGED <<pits, listeners, trackers, alone, cur, until>>
    BY <1>1 DEF timeVars
  <2> QED BY <1>0, <2>1 DEF Waits
<1> QED BY <1>5, <1>7, <1>8, <1>9 DEF Inv

LEMMA ServiceReturnsStep ==
  ASSUME Inv, NEW i \in DOMAIN awaiting, ServiceReturns(i)
  PROVE  Inv'
<1>0. TypeOK /\ Awake /\ Line /\ Waits
  BY DEF Inv
<1>1. /\ Idle /\ at' = awaiting[i] + 1 /\ awaiting' = RemoveAt(awaiting, i) /\ raised' = FALSE
      /\ UNCHANGED <<timeVars, cur, listeners, trackers, template, done, until, stopped, alone>>
  BY DEF ServiceReturns
<1>2. Len(Steps) \in Nat
  BY <1>0, Facts
<1>3. awaiting \in Seq(0..(Len(Steps) - 1)) /\ i \in 1..Len(awaiting) /\ awaiting # <<>>
  BY <1>0 DEF TypeOK
<1>4. /\ awaiting' \in Seq(0..(Len(Steps) - 1)) /\ Len(awaiting') = Len(awaiting) - 1
      /\ awaiting[i] \in 0..(Len(Steps) - 1)
  BY <1>1, <1>3, RemoveAtProperties
<1>5. TypeOK'
  <2>1. raised' \in BOOLEAN /\ cur' \in {cur, -1} /\ done' \in -1..(Len(Steps) - 1)
    BY <1>0, <1>1 DEF TypeOK
  <2>2. at' \in {Off} \cup 0..Len(Steps)
    BY <1>1, <1>2, <1>4
  <2> QED BY <1>1, <1>4, <2>1, <2>2, StepTypes
<1>6. ~Idle'
  BY <1>1, <1>4 DEF Idle, Off
<1>7. Awake'
  BY <1>6 DEF Awake
<1>8. Line'
  <2>1. alone => Len(awaiting) = 1 /\ awaiting[1] = done /\ listeners = {}
    BY <1>0, <1>3 DEF Line
  <2>2. alone => i = 1 /\ at' = done + 1
    BY <1>1, <1>3, <2>1
  <2>3. alone => awaiting' = <<>>
    <3>1. ASSUME alone PROVE Len(awaiting') = 0
      <4>1. Len(awaiting) = 1
        BY <2>1, <3>1
      <4> QED BY <1>4, <4>1
    <3> QED BY <1>4, <3>1, EmptySeq
  <2> QED BY <1>1, <1>6, <2>1, <2>2, <2>3 DEF Line
<1>9. Waits'
  <2>1. UNCHANGED <<pits, listeners, trackers, alone, cur, until>>
    BY <1>1 DEF timeVars
  <2> QED BY <1>0, <2>1 DEF Waits
<1> QED BY <1>5, <1>7, <1>8, <1>9 DEF Inv

LEMMA EndRunStep ==
  ASSUME Inv, EndRun
  PROVE  Inv'
<1>0. TypeOK /\ Awake /\ Line /\ Waits
  BY DEF Inv
<1>1. /\ ~Idle /\ at' = Off /\ cur' = -1
      /\ UNCHANGED <<timeVars, listeners, trackers, template, awaiting, done, until, stopped, raised, alone>>
  <2>1. ~Idle
    <3>1. Len(Steps) # Off
      BY <1>0, Facts DEF Off
    <3> QED BY <3>1 DEF EndRun, At, Idle
  <2> QED BY <2>1 DEF EndRun, history
<1>2. alone => awaiting = <<>> /\ listeners = {} /\ Subs(pits) = {} /\ Subs(trackers) = {}
  BY <1>1, Running
<1>3. TypeOK'
  <2>1. /\ raised' \in BOOLEAN /\ cur' \in {cur, -1} /\ done' \in -1..(Len(Steps) - 1)
        /\ awaiting' \in Seq(0..(Len(Steps) - 1)) /\ at' \in {Off} \cup 0..Len(Steps)
    BY <1>0, <1>1 DEF TypeOK
  <2> QED BY <1>1, <2>1, StepTypes
<1>4. Idle'
  BY <1>1 DEF Idle
<1>5. Awake' /\ Line'
  BY <1>1, <1>2, <1>4 DEF Awake, Line
<1>6. Waits'
  <2>1. UNCHANGED <<pits, trackers, alone>>
    BY <1>1 DEF timeVars
  <2> QED BY <1>2, <2>1 DEF Waits
<1> QED BY <1>3, <1>5, <1>6 DEF Inv

LEMMA RaisesStep ==
  ASSUME Inv, Raises
  PROVE  Inv'
<1>0. TypeOK /\ Awake /\ Line /\ Waits
  BY DEF Inv
<1>1. /\ ~Idle /\ at' = Off /\ raised' = TRUE
      /\ done' = IF cur = -1 THEN done ELSE cur - 1
      /\ UNCHANGED <<timeVars, cur, listeners, trackers, template, awaiting, until, stopped, alone>>
  BY DEF Raises
<1>2. alone => awaiting = <<>> /\ listeners = {}
  BY <1>1, Running
<1>3. cur \in -1..Len(Steps) /\ done \in -1..(Len(Steps) - 1) /\ Len(Steps) \in Nat
  BY <1>0, Facts DEF TypeOK
<1>4. TypeOK'
  <2>1. /\ raised' \in BOOLEAN /\ cur' \in {cur, -1}
        /\ awaiting' \in Seq(0..(Len(Steps) - 1)) /\ at' \in {Off} \cup 0..Len(Steps)
    BY <1>0, <1>1 DEF TypeOK
  <2>2. done' \in -1..(Len(Steps) - 1)
    BY <1>1, <1>3
  <2> QED BY <1>1, <2>1, <2>2, StepTypes
<1>5. Idle'
  BY <1>1 DEF Idle
<1>6. Awake' /\ Line'
  BY <1>1, <1>2, <1>3, <1>5 DEF Awake, Line
<1>7. Waits'
  <2>1. UNCHANGED <<pits, listeners, trackers, alone, cur, until>>
    BY <1>1 DEF timeVars
  <2> QED BY <1>0, <2>1 DEF Waits
<1> QED BY <1>4, <1>6, <1>7 DEF Inv

-----------------------------------------------------------------------------
(* What waits leave behind.                                                *)

LEMMA ConsumedIs ==
  ASSUME TypeOK, NEW who, PitRuns(who), NEW k, k = Head(jobs).k
  PROVE  /\ k \in 1..Len(pits) /\ pits[k].who = who /\ pits[k].at <= clock
         /\ jobs # <<>> /\ ~Next_job("run")
         /\ Consumed \in Seq(Pit) /\ Len(Consumed) = Len(pits)
         /\ \A j \in 1..Len(pits) \ {k} : Consumed[j] = pits[j]
<1>1. Head(jobs) \in Job /\ Head(jobs).stage = "pit" /\ jobs # <<>>
  BY DEF PitRuns, Next_job, TypeOK
<1>2. k \in 1..Len(pits) /\ Head(jobs).now \in 0..sent
  BY <1>1, SMTT(30) DEF Job, TypeOK
<1>3. pits[k] \in Pit
  BY <1>2 DEF TypeOK
<1> DEFINE p == [pits[k] EXCEPT !.run = TRUE, !.sub = FALSE]
<1>4. p \in Pit
  BY <1>3, PitFields, Zenon
<1>5. Consumed = [pits EXCEPT ![k] = p]
  BY Zenon DEF Consumed
<1>6. pits[k].who = who /\ Head(jobs).now >= pits[k].at
  BY DEF PitRuns, Due
<1>7. pits[k].at <= clock
  <2>1. pits[k].at \in Int
    BY <1>3 DEF Pit
  <2> QED BY <1>2, <1>6, <2>1, Facts, SMTT(30)
<1> HIDE DEF p
<1>8. /\ [pits EXCEPT ![k] = p] \in Seq(Pit)
      /\ Len([pits EXCEPT ![k] = p]) = Len(pits)
      /\ \A j \in 1..Len(pits) \ {k} : [pits EXCEPT ![k] = p][j] = pits[j]
  BY <1>2, <1>4 DEF TypeOK
<1>9. ~Next_job("run")
  BY <1>1 DEF Next_job
<1> QED BY <1>1, <1>2, <1>5, <1>6, <1>7, <1>8, <1>9, Zenon

LEMMA ConsumedSubs ==
  ASSUME TypeOK, NEW who, PitRuns(who), NEW k, k = Head(jobs).k
  PROVE  Subs(Consumed) = Subs(pits) \ {k}
<1>1. /\ k \in 1..Len(pits) /\ Consumed \in Seq(Pit) /\ Len(Consumed) = Len(pits)
      /\ \A j \in 1..Len(pits) \ {k} : Consumed[j] = pits[j]
  BY ConsumedIs
<1>2. pits[k] \in Pit /\ DOMAIN pits = 1..Len(pits)
  BY <1>1, Facts
<1>3. ~Consumed[k].sub
  <2>1. Consumed[k] = [pits[k] EXCEPT !.run = TRUE, !.sub = FALSE]
    BY <1>1, <1>2 DEF Consumed
  <2> QED BY <1>2, <2>1, PitFields, Zenon
<1>4. DOMAIN Consumed = 1..Len(pits)
  BY <1>1
<1> QED BY <1>1, <1>2, <1>3, <1>4 DEF Subs

LEMMA DelayEnds ==
  ASSUME Inv, async_script_delay
  PROVE  Inv'
<1>0. TypeOK /\ Awake /\ Line /\ Waits
  BY DEF Inv
<1>p. PICK k : k = Head(jobs).k
  OBVIOUS
<1>1. /\ Idle /\ PitRuns("delay") /\ pits' = Consumed
      /\ \/ /\ PitUnsub(k) \in listeners
            /\ listeners' = listeners \ {PitUnsub(k)}
            /\ jobs' = Append(Tail(jobs), [stage |-> "run"])
         \/ PitUnsub(k) \notin listeners /\ jobs' = Tail(jobs) /\ UNCHANGED listeners
      /\ UNCHANGED <<clock, sent, calls, cur, trackers, template, at, awaiting,
                     done, until, stopped, raised, alone>>
  BY <1>p DEF async_script_delay, history
<1>2. /\ k \in 1..Len(pits) /\ pits[k].who = "delay" /\ pits[k].at <= clock
      /\ jobs # <<>> /\ ~Next_job("run")
      /\ pits' \in Seq(Pit) /\ Len(pits') = Len(pits)
      /\ \A j \in 1..Len(pits) \ {k} : pits'[j] = pits[j]
  BY <1>0, <1>p, <1>1, ConsumedIs
<1>3. Subs(pits') = Subs(pits) \ {k}
  BY <1>0, <1>p, <1>1, ConsumedSubs
<1>4. /\ pits \in Seq(Pit) /\ trackers \in Seq(Tracker) /\ Len(pits) \in Nat
      /\ Len(trackers) \in Nat /\ listeners = Tags(Subs(pits), Subs(trackers))
      /\ Runs \in Nat /\ Len(awaiting) \in Nat /\ (awaiting # <<>> <=> Len(awaiting) > 0)
      /\ clock \in Nat /\ until \in Nat
  BY <1>0, Facts
<1>5. PitUnsub(k) \in listeners <=> k \in Subs(pits)
  BY <1>4, TagsIn
<1>6. listeners' = Tags(Subs(pits'), Subs(trackers'))
  <2>1. \A j : (PitUnsub(k) = PitUnsub(j) => k = j) /\ PitUnsub(k) # TrackerUnsub(j)
    BY DEF PitUnsub, TrackerUnsub
  <2>2. CASE PitUnsub(k) \in listeners
    <3>1. listeners' = listeners \ {PitUnsub(k)} /\ trackers' = trackers
      BY <1>1, <2>2
    <3> QED BY <1>3, <1>4, <2>1, <3>1 DEF Tags
  <2>3. CASE PitUnsub(k) \notin listeners
    BY <1>1, <1>3, <1>4, <1>5, <2>3
  <2> QED BY <2>2, <2>3
<1>7. /\ jobs' \in Seq(Job')
      /\ Runs' = IF PitUnsub(k) \in listeners THEN Runs + 1 ELSE Runs
  <2>1. pits' \in Seq(Pit) /\ Len(pits) <= Len(pits') /\ sent' = sent
        /\ trackers' \in Seq(Tracker) /\ Len(trackers) <= Len(trackers')
    BY <1>1, <1>2, <1>4
  <2>2. One(Next_job("run")) = 0
    BY <1>2 DEF One
  <2>3. CASE PitUnsub(k) \in listeners
    <3>1. jobs' \in Seq(Job') /\ Runs' = Runs - One(Next_job("run")) + 1
      BY <1>0, <1>1, <1>2, <2>1, <2>3, JobsAre
    <3> QED BY <1>4, <2>2, <2>3, <3>1
  <2>4. CASE PitUnsub(k) \notin listeners
    <3>1. jobs' \in Seq(Job') /\ Runs' = Runs - One(Next_job("run"))
      BY <1>0, <1>1, <1>2, <2>1, <2>4, JobsAre
    <3> QED BY <1>4, <2>2, <2>4, <3>1
  <2> QED BY <2>3, <2>4
<1>8. TypeOK'
  <2>1. /\ clock' = clock /\ sent' = sent /\ calls' \in 0..MaxCalls
        /\ trackers' \in Seq(Tracker) /\ cur' \in -1..Len(Steps)
        /\ at' \in {Off} \cup 0..Len(Steps) /\ awaiting' \in Seq(0..(Len(Steps) - 1))
        /\ template' \in BOOLEAN /\ stopped' \in BOOLEAN /\ raised' \in BOOLEAN /\ alone' \in BOOLEAN
        /\ done' \in -1..(Len(Steps) - 1) /\ until' \in Nat
    BY <1>0, <1>1, <1>4 DEF TypeOK
  <2> QED BY <1>0, <1>2, <1>6, <1>7, <2>1, TypeStep, Zenon
<1>9. Awake' /\ Line'
  BY <1>0, <1>1, <1>4, <1>7 DEF Awake, Line, Idle
<1>10. Waits'
  <2>1. \A j \in Subs(pits') : j \in Subs(pits) /\ pits'[j] = pits[j]
    BY <1>2, <1>3, <1>4 DEF Subs
  <2> QED BY <1>0, <1>1, <2>1 DEF Waits
<1> QED BY <1>8, <1>9, <1>10 DEF Inv

LEMMA TimeoutEnds ==
  ASSUME Inv, async_script_timeout
  PROVE  Inv'
<1>0. TypeOK /\ Awake /\ Line /\ Waits
  BY DEF Inv
<1>p. PICK k : k = Head(jobs).k
  OBVIOUS
<1>1. /\ Idle /\ PitRuns("timeout") /\ jobs' = Tail(jobs)
      /\ \/ /\ PitUnsub(k) \in listeners /\ cur # -1
            /\ pits' = WithoutPits(Consumed) /\ trackers' = WithoutTrackers(trackers)
            /\ listeners' = {} /\ cur' = -1 /\ stopped' = TRUE
         \/ /\ ~(PitUnsub(k) \in listeners /\ cur # -1)
            /\ pits' = Consumed /\ listeners' = listeners \ {PitUnsub(k)}
            /\ UNCHANGED <<trackers, cur, stopped>>
      /\ UNCHANGED <<clock, sent, calls, template, at, awaiting, done, until, raised, alone>>
  BY <1>p DEF async_script_timeout
<1>2. /\ k \in 1..Len(pits) /\ jobs # <<>> /\ ~Next_job("run")
      /\ Consumed \in Seq(Pit) /\ Len(Consumed) = Len(pits)
      /\ \A j \in 1..Len(pits) \ {k} : Consumed[j] = pits[j]
  BY <1>0, <1>p, <1>1, ConsumedIs
<1>3. Subs(Consumed) = Subs(pits) \ {k}
  BY <1>0, <1>p, <1>1, ConsumedSubs
<1>4. /\ pits \in Seq(Pit) /\ trackers \in Seq(Tracker) /\ Len(pits) \in Nat
      /\ Len(trackers) \in Nat /\ listeners = Tags(Subs(pits), Subs(trackers))
      /\ DOMAIN pits = 1..Len(pits)
      /\ Runs \in Nat /\ Len(awaiting) \in Nat /\ Len(Steps) \in Nat
      /\ (awaiting # <<>> <=> Len(awaiting) > 0)
  BY <1>0, Facts
<1>5. CASE PitUnsub(k) \in listeners /\ cur # -1
  <2>1. /\ pits' = WithoutPits(Consumed) /\ trackers' = WithoutTrackers(trackers)
        /\ listeners' = {} /\ cur' = -1 /\ stopped' = TRUE
    BY <1>1, <1>5
  <2>2. /\ \A j \in Subs(Consumed) : PitUnsub(j) \in listeners
        /\ \A j \in Subs(trackers) : TrackerUnsub(j) \in listeners
    BY <1>3, <1>4, TagsIn
  <2>3. /\ pits' \in Seq(Pit) /\ Len(pits') = Len(pits) /\ Subs(pits') = {}
        /\ trackers' \in Seq(Tracker) /\ Len(trackers') = Len(trackers)
        /\ Subs(trackers') = {}
    BY <1>2, <1>4, <2>1, <2>2, ClearPits, ClearTrackers, Zenon
  <2>4. listeners' = Tags(Subs(pits'), Subs(trackers'))
    BY <2>1, <2>3, TagsIn
  <2>5. jobs' \in Seq(Job') /\ Runs' = Runs
    <3>1. jobs' \in Seq(Job') /\ Runs' = Runs - One(Next_job("run"))
      BY <1>0, <1>1, <1>2, <1>4, <2>3, JobsAre
    <3>2. One(Next_job("run")) = 0
      BY <1>2 DEF One
    <3> QED BY <1>4, <3>1, <3>2
  <2>6. TypeOK'
    <3>1. /\ clock' = clock /\ sent' = sent /\ calls' \in 0..MaxCalls
          /\ at' \in {Off} \cup 0..Len(Steps) /\ awaiting' \in Seq(0..(Len(Steps) - 1))
          /\ template' \in BOOLEAN /\ stopped' \in BOOLEAN /\ raised' \in BOOLEAN /\ alone' \in BOOLEAN
          /\ done' \in -1..(Len(Steps) - 1) /\ until' \in Nat
      BY <1>0, <1>1, <2>1 DEF TypeOK
    <3>2. cur' \in -1..Len(Steps)
      BY <1>4, <2>1
    <3> QED BY <1>0, <2>3, <2>4, <2>5, <3>1, <3>2, TypeStep, Zenon
  <2>7. Idle'
    BY <1>1 DEF Idle
  <2>8. alone => awaiting = <<>>
    <3>1. listeners # {}
      BY <1>5
    <3> QED BY <1>0, <3>1 DEF Line
  <2>9. Awake' /\ Line'
    BY <1>1, <2>1, <2>7, <2>8 DEF Awake, Line
  <2>10. Waits'
    BY <2>3, NoWaits
  <2> QED BY <2>6, <2>9, <2>10 DEF Inv
<1>6. CASE ~(PitUnsub(k) \in listeners /\ cur # -1)
  <2>1. /\ pits' = Consumed /\ listeners' = listeners \ {PitUnsub(k)}
        /\ UNCHANGED <<trackers, cur, stopped>>
    BY <1>1, <1>6
  <2>2. pits' \in Seq(Pit) /\ Len(pits') = Len(pits) /\ Subs(pits') = Subs(pits) \ {k}
    BY <1>2, <1>3, <2>1
  <2>3. listeners' = Tags(Subs(pits'), Subs(trackers'))
    <3>1. \A j : (PitUnsub(k) = PitUnsub(j) => k = j) /\ PitUnsub(k) # TrackerUnsub(j)
      BY DEF PitUnsub, TrackerUnsub
    <3> QED BY <1>4, <2>1, <2>2, <3>1 DEF Tags
  <2>4. jobs' \in Seq(Job') /\ Runs' = Runs
    <3>1. jobs' \in Seq(Job') /\ Runs' = Runs - One(Next_job("run"))
      BY <1>0, <1>1, <1>2, <1>4, <2>1, <2>2, JobsAre
    <3>2. One(Next_job("run")) = 0
      BY <1>2 DEF One
    <3> QED BY <1>4, <3>1, <3>2
  <2>5. TypeOK'
    <3>1. /\ clock' = clock /\ sent' = sent /\ calls' \in 0..MaxCalls
          /\ trackers' \in Seq(Tracker) /\ cur' \in -1..Len(Steps)
          /\ at' \in {Off} \cup 0..Len(Steps) /\ awaiting' \in Seq(0..(Len(Steps) - 1))
          /\ template' \in BOOLEAN /\ stopped' \in BOOLEAN /\ raised' \in BOOLEAN /\ alone' \in BOOLEAN
          /\ done' \in -1..(Len(Steps) - 1) /\ until' \in Nat
      BY <1>0, <1>1, <1>4, <2>1 DEF TypeOK
    <3> QED BY <1>0, <2>2, <2>3, <2>4, <3>1, TypeStep, Zenon
  <2>6. Idle' /\ (cur # -1 => listeners' = listeners)
    BY <1>1, <1>6, <2>1 DEF Idle
  <2>7. Awake' /\ Line'
    BY <1>0, <1>1, <2>1, <2>4, <2>6 DEF Awake, Line, Idle
  <2>8. Waits'
    <3>1. \A j \in Subs(pits') : j \in Subs(pits) /\ pits'[j] = pits[j]
      BY <1>2, <1>4, <2>1, <2>2 DEF Subs
    <3> QED BY <1>0, <1>1, <2>1, <3>1 DEF Waits
  <2> QED BY <2>5, <2>7, <2>8 DEF Inv
<1> QED BY <1>5, <1>6

(* What the template's listener remembers of the value it has seen.        *)
Seen == [trackers EXCEPT ![Head(jobs).k].triggered = template]

LEMMA SeenIs ==
  ASSUME TypeOK, Next_job("state"), NEW k, k = Head(jobs).k
  PROVE  /\ k \in 1..Len(trackers) /\ jobs # <<>> /\ ~Next_job("run")
         /\ Seen \in Seq(Tracker) /\ Len(Seen) = Len(trackers)
         /\ \A j \in 1..Len(trackers) : Seen[j].sub = trackers[j].sub
<1>1. Head(jobs) \in Job /\ Head(jobs).stage = "state" /\ jobs # <<>>
  BY DEF Next_job, TypeOK
<1>2. k \in 1..Len(trackers) /\ trackers \in Seq(Tracker) /\ template \in BOOLEAN
  BY <1>1 DEF Job, TypeOK, Tracker
<1> DEFINE t == [trackers[k] EXCEPT !.triggered = template]
<1>3. t \in Tracker /\ t.sub = trackers[k].sub
  <2>1. trackers[k] \in Tracker
    BY <1>2
  <2> QED BY <1>2, <2>1, TrackerFields, Zenon
<1>4. Seen = [trackers EXCEPT ![k] = t]
  BY Zenon DEF Seen
<1> HIDE DEF t
<1>5. /\ Seen \in Seq(Tracker) /\ Len(Seen) = Len(trackers)
      /\ \A j \in 1..Len(trackers) : Seen[j] = IF j = k THEN t ELSE trackers[j]
  BY <1>2, <1>3, <1>4
<1>6. \A j \in 1..Len(trackers) : Seen[j].sub = trackers[j].sub
  BY <1>3, <1>5
<1>7. ~Next_job("run")
  BY <1>1 DEF Next_job
<1> QED BY <1>1, <1>2, <1>5, <1>6, <1>7

LEMMA SeenSubs ==
  ASSUME NEW ts \in Seq(Tracker), NEW us \in Seq(Tracker), Len(us) = Len(ts),
         \A j \in 1..Len(ts) : us[j].sub = ts[j].sub
  PROVE  Subs(us) = Subs(ts)
<1>1. DOMAIN us = 1..Len(ts) /\ DOMAIN ts = 1..Len(ts)
  OBVIOUS
<1> QED BY <1>1 DEF Subs

LEMMA WaitEnds ==
  ASSUME Inv, async_script_wait
  PROVE  Inv'
<1>0. TypeOK /\ Awake /\ Line /\ Waits
  BY DEF Inv
<1>p. PICK k : k = Head(jobs).k
  OBVIOUS
<1>1. /\ Idle /\ Next_job("state")
      /\ \/ /\ pits' = WithoutPits(pits) /\ trackers' = WithoutTrackers(Seen)
            /\ listeners' = {}
            /\ jobs' = Append(Tail(jobs), [stage |-> "run"])
         \/ trackers' = Seen /\ jobs' = Tail(jobs) /\ UNCHANGED <<pits, listeners>>
      /\ UNCHANGED <<clock, sent, calls, cur, template, at, awaiting,
                     done, until, stopped, raised, alone>>
  BY <1>p DEF async_script_wait, Seen, history
<1>2. /\ k \in 1..Len(trackers) /\ jobs # <<>> /\ ~Next_job("run")
      /\ Seen \in Seq(Tracker) /\ Len(Seen) = Len(trackers)
      /\ \A j \in 1..Len(trackers) : Seen[j].sub = trackers[j].sub
  BY <1>0, <1>p, <1>1, SeenIs
<1>4. /\ pits \in Seq(Pit) /\ trackers \in Seq(Tracker) /\ Len(pits) \in Nat
      /\ Len(trackers) \in Nat /\ listeners = Tags(Subs(pits), Subs(trackers))
      /\ DOMAIN pits = 1..Len(pits) /\ DOMAIN trackers = 1..Len(trackers)
      /\ Runs \in Nat /\ Len(awaiting) \in Nat
      /\ (awaiting # <<>> <=> Len(awaiting) > 0)
  BY <1>0, Facts
<1>3. Subs(Seen) = Subs(trackers)
  BY <1>2, <1>4, SeenSubs, Zenon
<1>5. One(Next_job("run")) = 0
  BY <1>2 DEF One
<1>6. CASE /\ pits' = WithoutPits(pits) /\ trackers' = WithoutTrackers(Seen)
           /\ listeners' = {}
           /\ jobs' = Append(Tail(jobs), [stage |-> "run"])
  <2>1. /\ \A j \in Subs(pits) : PitUnsub(j) \in listeners
        /\ \A j \in Subs(Seen) : TrackerUnsub(j) \in listeners
    BY <1>3, <1>4, TagsIn
  <2>2. /\ pits' \in Seq(Pit) /\ Len(pits') = Len(pits) /\ Subs(pits') = {}
        /\ trackers' \in Seq(Tracker) /\ Len(trackers') = Len(Seen) /\ Subs(trackers') = {}
    BY <1>2, <1>4, <1>6, <2>1, ClearPits, ClearTrackers, Zenon
  <2>3. listeners' = Tags(Subs(pits'), Subs(trackers'))
    BY <1>6, <2>2, TagsIn
  <2>4. jobs' \in Seq(Job') /\ Runs' = Runs + 1
    <3>1. jobs' \in Seq(Job') /\ Runs' = Runs - One(Next_job("run")) + 1
      <4>1. pits' \in Seq(Pit) /\ Len(pits) <= Len(pits') /\ sent' = sent
            /\ trackers' \in Seq(Tracker) /\ Len(trackers) <= Len(trackers')
        BY <1>1, <1>2, <1>4, <2>2
      <4> QED BY <1>0, <1>2, <1>6, <4>1, JobsAre
    <3> QED BY <1>4, <1>5, <3>1
  <2>5. TypeOK'
    <3>1. /\ clock' = clock /\ sent' = sent /\ calls' \in 0..MaxCalls
          /\ at' \in {Off} \cup 0..Len(Steps) /\ awaiting' \in Seq(0..(Len(Steps) - 1))
          /\ template' \in BOOLEAN /\ stopped' \in BOOLEAN /\ cur' \in -1..Len(Steps)
          /\ done' \in -1..(Len(Steps) - 1) /\ until' \in Nat
          /\ raised' \in BOOLEAN /\ alone' \in BOOLEAN
      BY <1>0, <1>1 DEF TypeOK
    <3> QED BY <1>0, <2>2, <2>3, <2>4, <3>1, TypeStep, Zenon
  <2>6. Awake' /\ Line'
    BY <1>0, <1>1, <1>4, <1>6, <2>4 DEF Awake, Line, Idle
  <2>7. Waits'
    BY <2>2, NoWaits
  <2> QED BY <2>5, <2>6, <2>7 DEF Inv
<1>7. CASE trackers' = Seen /\ jobs' = Tail(jobs) /\ UNCHANGED <<pits, listeners>>
  <2>1. jobs' \in Seq(Job') /\ Runs' = Runs
    <3>1. jobs' \in Seq(Job') /\ Runs' = Runs - One(Next_job("run"))
      <4>1. pits' \in Seq(Pit) /\ Len(pits) <= Len(pits') /\ sent' = sent
            /\ trackers' \in Seq(Tracker) /\ Len(trackers) <= Len(trackers')
        BY <1>1, <1>2, <1>4, <1>7
      <4> QED BY <1>0, <1>2, <1>7, <4>1, JobsAre
    <3> QED BY <1>4, <1>5, <3>1
  <2>2. listeners' = Tags(Subs(pits'), Subs(trackers')) /\ Subs(trackers') = Subs(trackers)
    BY <1>3, <1>4, <1>7
  <2>3. TypeOK'
    <3>1. /\ clock' = clock /\ sent' = sent /\ calls' \in 0..MaxCalls
          /\ at' \in {Off} \cup 0..Len(Steps) /\ awaiting' \in Seq(0..(Len(Steps) - 1))
          /\ template' \in BOOLEAN /\ stopped' \in BOOLEAN /\ cur' \in -1..Len(Steps)
          /\ done' \in -1..(Len(Steps) - 1) /\ until' \in Nat
          /\ raised' \in BOOLEAN /\ alone' \in BOOLEAN
      BY <1>0, <1>1, <1>7 DEF TypeOK
    <3>2. pits' \in Seq(Pit) /\ trackers' \in Seq(Tracker)
      BY <1>2, <1>4, <1>7
    <3> QED BY <1>0, <2>1, <2>2, <3>1, <3>2, TypeStep, Zenon
  <2>4. Awake' /\ Line'
    BY <1>0, <1>1, <1>7, <2>1 DEF Awake, Line, Idle
  <2>5. Waits'
    BY <1>0, <1>1, <1>7, <2>2 DEF Waits
  <2> QED BY <2>3, <2>4, <2>5 DEF Inv
<1> QED BY <1>1, <1>6, <1>7

-----------------------------------------------------------------------------
(* Time passes, and what is registered is lined up.                        *)

LEMMA OrderIs ==
  ASSUME NEW n \in Nat, NEW K \in SUBSET (1..n), NEW ks \in InOrderOf(K)
  PROVE  \E m \in Nat : ks \in [1..m -> K]
<1>1. Cardinality(K) \in Nat
  <2>1. IsFiniteSet(1..n)
    BY FS_Interval
  <2>2. IsFiniteSet(K)
    BY <2>1, FS_Subset
  <2> QED BY <2>2, FS_CardinalityType
<1>2. ks \in [1..Cardinality(K) -> K]
  BY DEF InOrderOf
<1> QED BY <1>1, <1>2

LEMMA TemplateStep ==
  ASSUME Inv, TemplateChanges
  PROVE  Inv'
<1>0. TypeOK /\ Awake /\ Line /\ Waits
  BY DEF Inv
<1> DEFINE K == {k \in DOMAIN trackers : trackers[k].sub}
<1>1. /\ Called /\ template' = ~template
      /\ UNCHANGED <<clock, sent, pits, cur, listeners, trackers, at, awaiting,
                     done, until, stopped, raised, alone>>
  BY DEF TemplateChanges, history
<1>2. PICK ks \in InOrderOf(K) :
        jobs' = jobs \o [n \in DOMAIN ks |-> [stage |-> "state", k |-> ks[n]]]
  BY DEF TemplateChanges
<1>3. /\ pits \in Seq(Pit) /\ trackers \in Seq(Tracker) /\ Len(pits) \in Nat
      /\ Len(trackers) \in Nat /\ listeners = Tags(Subs(pits), Subs(trackers))
      /\ DOMAIN trackers = 1..Len(trackers) /\ sent \in Nat
  BY <1>0, Facts
<1>4. PICK m \in Nat : ks \in [1..m -> K]
  <2>1. K \in SUBSET (1..Len(trackers))
    BY <1>3
  <2> HIDE DEF K
  <2> QED BY <1>3, <2>1, OrderIs
<1> DEFINE more == [n \in DOMAIN ks |-> [stage |-> "state", k |-> ks[n]]]
<1>5. more \in [1..m -> Job' \ RunJob]
  <2>1. ASSUME NEW n \in 1..m PROVE [stage |-> "state", k |-> ks[n]] \in Job' \ RunJob
    <3>1. ks[n] \in DOMAIN trackers'
      BY <1>1, <1>4
    <3> QED BY <3>1 DEF Job, RunJob
  <2> QED BY <1>4, <2>1
<1>6. Job \subseteq Job'
  <2>1. /\ pits' \in Seq(Pit) /\ Len(pits) <= Len(pits')
        /\ trackers' \in Seq(Tracker) /\ Len(trackers) <= Len(trackers')
        /\ sent' \in Nat /\ sent <= sent'
    BY <1>1, <1>3
  <2> QED BY <1>0, <2>1, JobGrows
<1>7. jobs' \in Seq(Job') /\ Runs' = Runs
  <2> HIDE DEF more
  <2>1. jobs' = jobs \o more
    BY <1>2 DEF more
  <2> QED BY <1>0, <1>5, <1>6, <2>1, MoreJobs
<1>8. TypeOK'
  <2>1. /\ clock' = clock /\ sent' = sent /\ calls' \in 0..MaxCalls
        /\ at' \in {Off} \cup 0..Len(Steps) /\ awaiting' \in Seq(0..(Len(Steps) - 1))
        /\ template' \in BOOLEAN /\ stopped' \in BOOLEAN /\ cur' \in -1..Len(Steps)
        /\ done' \in -1..(Len(Steps) - 1) /\ until' \in Nat
          /\ raised' \in BOOLEAN /\ alone' \in BOOLEAN
    BY <1>0, <1>1, CallsType DEF TypeOK
  <2>2. /\ pits' \in Seq(Pit) /\ trackers' \in Seq(Tracker)
        /\ listeners' = Tags(Subs(pits'), Subs(trackers'))
    BY <1>1, <1>3
  <2> QED BY <1>0, <1>7, <2>1, <2>2, TypeStep, Zenon
<1>9. Awake' /\ Line' /\ Waits'
  BY <1>0, <1>1, <1>7 DEF Awake, Line, Waits, Idle
<1> QED BY <1>8, <1>9 DEF Inv

LEMMA TimeStep ==
  ASSUME Inv, Time, UNCHANGED <<scriptVars, history>>
  PROVE  Inv'
<1>0. TypeOK /\ Awake /\ Line /\ Waits
  BY DEF Inv
<1>1. UNCHANGED <<cur, listeners, trackers, template, at, awaiting, done, until, stopped, raised, alone>>
  BY DEF scriptVars, history
<1>2. /\ pits \in Seq(Pit) /\ trackers \in Seq(Tracker) /\ Len(pits) \in Nat
      /\ Len(trackers) \in Nat /\ listeners = Tags(Subs(pits), Subs(trackers))
      /\ DOMAIN pits = 1..Len(pits) /\ clock \in Nat /\ sent \in Nat /\ sent <= clock
      /\ Runs \in Nat /\ until \in Nat
  BY <1>0, Facts
<1>a. ASSUME pits' = pits, calls' = calls, clock <= clock', clock' \in 0..MaxClock,
             sent' \in 0..clock', jobs' \in Seq(Job'), Runs' = Runs
      PROVE  Inv'
  <2>1. TypeOK'
    <3>1. /\ calls' \in 0..MaxCalls /\ trackers' \in Seq([sub : BOOLEAN, triggered : BOOLEAN])
          /\ at' \in {Off} \cup 0..Len(Steps) /\ awaiting' \in Seq(0..(Len(Steps) - 1))
          /\ template' \in BOOLEAN /\ stopped' \in BOOLEAN /\ cur' \in -1..Len(Steps)
          /\ done' \in -1..(Len(Steps) - 1) /\ until' \in Nat
          /\ raised' \in BOOLEAN /\ alone' \in BOOLEAN
      BY <1>0, <1>1, <1>a DEF TypeOK
    <3>2. listeners' = Tags(Subs(pits'), Subs(trackers')) /\ pits' \in Seq(Pit)
      BY <1>1, <1>2, <1>a
    <3> QED BY <1>a, <3>1, <3>2 DEF TypeOK, Tags, Subs
  <2>2. Awake' /\ Line' /\ Waits'
    BY <1>0, <1>1, <1>a DEF Awake, Line, Waits, Idle
  <2> QED BY <2>1, <2>2 DEF Inv
<1>3. CASE PassTime
  <2>1. pits' = pits /\ calls' = calls /\ sent' = sent /\ jobs' = jobs
        /\ clock < MaxClock /\ clock' = clock + 1
    BY <1>3 DEF PassTime
  <2>2. jobs' \in Seq(Job') /\ Runs' = Runs
    BY <1>0, <1>1, <1>2, <2>1, JobsAre
  <2>3. clock <= clock' /\ clock' \in 0..MaxClock /\ sent' \in 0..clock'
    BY <1>2, <2>1, TimeConstants
  <2> QED BY <1>a, <2>1, <2>2, <2>3
<1>4. CASE PitLapses
  <2>1. pits' = pits /\ calls' = calls /\ sent' = sent /\ clock' = clock
        /\ jobs # <<>> /\ jobs' = Tail(jobs) /\ ~Next_job("run")
    BY <1>4 DEF PitLapses, Next_job
  <2>2. jobs' \in Seq(Job') /\ Runs' = Runs
    <3>1. jobs' \in Seq(Job') /\ Runs' = Runs - One(Next_job("run"))
      BY <1>0, <1>1, <1>2, <2>1, JobsAre
    <3>2. One(Next_job("run")) = 0
      BY <2>1 DEF One
    <3> QED BY <1>2, <3>1, <3>2
  <2>3. clock <= clock' /\ clock' \in 0..MaxClock /\ sent' \in 0..clock'
    BY <1>0, <1>2, <2>1 DEF TypeOK
  <2> QED BY <1>a, <2>1, <2>2, <2>3
<1>5. CASE fire_time_event
  <2> DEFINE K == {k \in DOMAIN pits : pits[k].sub}
  <2>1. pits' = pits /\ calls' = calls /\ sent' = clock /\ clock' = clock
    BY <1>5 DEF fire_time_event
  <2>2. PICK ks \in InOrderOf(K) :
          jobs' = jobs \o [n \in DOMAIN ks |-> [stage |-> "pit", k |-> ks[n], now |-> clock]]
    BY <1>5 DEF fire_time_event
  <2>3. PICK m \in Nat : ks \in [1..m -> K]
    <3>1. K \in SUBSET (1..Len(pits))
      BY <1>2
    <3> HIDE DEF K
    <3> QED BY <1>2, <3>1, OrderIs
  <2> DEFINE more == [n \in DOMAIN ks |-> [stage |-> "pit", k |-> ks[n], now |-> clock]]
  <2>4. more \in [1..m -> Job' \ RunJob]
    <3>1. ASSUME NEW n \in 1..m
          PROVE  [stage |-> "pit", k |-> ks[n], now |-> clock] \in Job' \ RunJob
      <4>1. ks[n] \in DOMAIN pits' /\ clock \in 0..sent'
        BY <1>2, <2>1, <2>3
      <4> QED BY <4>1 DEF Job, RunJob
    <3> QED BY <2>3, <3>1
  <2>5. Job \subseteq Job'
    <3>1. /\ pits' \in Seq(Pit) /\ Len(pits) <= Len(pits')
          /\ trackers' \in Seq(Tracker) /\ Len(trackers) <= Len(trackers')
          /\ sent' \in Nat /\ sent <= sent'
      BY <1>1, <1>2, <2>1
    <3> QED BY <1>0, <3>1, JobGrows
  <2>6. jobs' \in Seq(Job') /\ Runs' = Runs
    <3> HIDE DEF more
    <3>1. jobs' = jobs \o more
      BY <2>2 DEF more
    <3> QED BY <1>0, <2>4, <2>5, <3>1, MoreJobs
  <2>7. clock <= clock' /\ clock' \in 0..MaxClock /\ sent' \in 0..clock'
    BY <1>0, <1>2, <2>1 DEF TypeOK
  <2> QED BY <1>a, <2>1, <2>6, <2>7
<1> QED BY <1>3, <1>4, <1>5 DEF Time

-----------------------------------------------------------------------------
LEMMA InvInit == Init => Inv
<1> SUFFICES ASSUME Init PROVE Inv
  OBVIOUS
<1>1. /\ clock = 0 /\ sent = 0 /\ jobs = <<>> /\ pits = <<>> /\ calls = 0
      /\ cur = -1 /\ listeners = {} /\ trackers = <<>> /\ template = FALSE
      /\ at = Off /\ awaiting = <<>>
      /\ done = -1 /\ until = 0 /\ stopped = FALSE /\ raised = FALSE /\ alone = TRUE
  BY DEF Init, TimeInit
<1>2. Len(Steps) \in Nat
  BY ScriptConstants, LenProperties, Zenon
<1>3. Subs(pits) = {} /\ Subs(trackers) = {}
  BY <1>1 DEF Subs
<1>4. TypeOK
  <2>1. listeners = Tags(Subs(pits), Subs(trackers))
    BY <1>1, <1>3, TagsIn
  <2>2. /\ clock \in 0..MaxClock /\ sent \in 0..clock /\ calls \in 0..MaxCalls
        /\ pits \in Seq(Pit) /\ jobs \in Seq(Job)
        /\ trackers \in Seq([sub : BOOLEAN, triggered : BOOLEAN])
        /\ awaiting \in Seq(0..(Len(Steps) - 1))
    BY <1>1, TimeConstants, EmptySeq
  <2>3. /\ cur \in -1..Len(Steps) /\ at \in {Off} \cup 0..Len(Steps)
        /\ template \in BOOLEAN /\ stopped \in BOOLEAN /\ raised \in BOOLEAN /\ alone \in BOOLEAN
        /\ done \in -1..(Len(Steps) - 1) /\ until \in Nat
    <3>1. -1 \in -1..Len(Steps) /\ -1 \in -1..(Len(Steps) - 1)
      BY <1>2
    <3> QED BY <1>1, <3>1
  <2> QED BY <2>1, <2>2, <2>3 DEF TypeOK, Tags, Subs
<1>5. Awake /\ Line
  BY <1>1 DEF Awake, Line, Idle
<1>6. Waits
  BY <1>3 DEF Waits
<1> QED BY <1>4, <1>5, <1>6 DEF Inv

LEMMA InvStep == Inv /\ [Next]_vars => Inv'
<1> SUFFICES ASSUME Inv, [Next]_vars PROVE Inv'
  OBVIOUS
<1>1. CASE Time /\ UNCHANGED <<scriptVars, history>>
  BY <1>1, TimeStep
<1>2. CASE Step
  BY <1>2, DelayStepStep, WaitStepStep, PassStepStep, ServiceStepStep, EndRunStep, RaisesStep
     DEF Step
<1>3. CASE Callback
  BY <1>3, DelayEnds, TimeoutEnds, WaitEnds, ContinueStep DEF Callback
<1>4. CASE TurnOn \/ TurnOff \/ TemplateChanges
  BY <1>4, TurnOnStep, TurnOffStep, TemplateStep
<1>5. CASE \E i \in DOMAIN awaiting : ServiceReturns(i)
  BY <1>5, ServiceReturnsStep
<1>6. CASE UNCHANGED vars
  <2>1. UNCHANGED <<clock, sent, jobs, pits, calls, cur, listeners, trackers, template, at,
                    awaiting, done, until, stopped, raised, alone>>
    BY <1>6 DEF vars, timeVars, scriptVars, history
  <2>2. TypeOK'
    <3>1. Job' = Job /\ TypeOK
      BY <2>1 DEF Job, Inv
    <3> QED BY <2>1, <3>1 DEF TypeOK
  <2>3. Awake' /\ Line' /\ Waits'
    BY <2>1 DEF Inv, Awake, Line, Waits, Runs, Idle
  <2> QED BY <2>2, <2>3 DEF Inv
<1> QED BY <1>1, <1>2, <1>3, <1>4, <1>5, <1>6 DEF Next

LEMMA InvCorrect == Spec => []Inv
BY InvInit, InvStep, PTL DEF Spec

(* Types; and the script's list is exactly what is registered for it: no   *)
(* listener is left behind and none is lost.                               *)
THEOREM TypeCorrect == Spec => []TypeOK
<1>1. Inv => TypeOK
  BY DEF Inv
<1> QED BY <1>1, InvCorrect, PTL

(* A script that runs has something that will carry it on, unless the      *)
(* async_run that last had the loop was ended by a step that raised.       *)
THEOREM HasWakeCorrect == Spec => []HasWake
<1>1. ASSUME Inv PROVE HasWake
  <2>1. /\ Runs \in Nat /\ (Queued("run") <=> Runs > 0)
        /\ Len(awaiting) \in Nat /\ (awaiting # <<>> <=> Len(awaiting) > 0)
    BY <1>1, Facts DEF Inv
  <2> QED BY <1>1, <2>1 DEF Inv, Awake, HasWake
<1> QED BY <1>1, InvCorrect, PTL

(* The steps are done one after another, but for steps repeated since one  *)
(* raised, as long as no async_run begins while another awaits a service.  *)
THEOREM InOrderCorrect == Spec => []InOrder
<1>1. Inv => InOrder
  BY DEF Inv, Line, InOrder
<1> QED BY <1>1, InvCorrect, PTL

(* A delay's listener, a timeout and a template's listener act only for    *)
(* the step the script waits at, however many of them are queued.          *)
THEOREM OwnWaitsCorrect == Spec => OwnWaits
<1> DEFINE Own ==
      alone /\ jobs # <<>> =>
        /\ async_script_delay /\ jobs' # Tail(jobs) => WaitsAt({"delay"}) /\ clock >= until
        /\ async_script_timeout /\ cur' # cur => WaitsAt({"timed_wait"}) /\ clock >= until
        /\ async_script_wait /\ jobs' # Tail(jobs) /\ trackers[Head(jobs).k].sub =>
             WaitsAt({"wait", "timed_wait"})
<1>1. ASSUME Inv, alone, jobs # <<>> PROVE Own
  <2>0. TypeOK /\ Waits
    BY <1>1 DEF Inv
  <2>p. PICK k : k = Head(jobs).k
    OBVIOUS
  <2>1. /\ pits \in Seq(Pit) /\ DOMAIN pits = 1..Len(pits)
        /\ listeners = Tags(Subs(pits), Subs(trackers))
        /\ clock \in Nat /\ until \in Nat /\ DOMAIN trackers = 1..Len(trackers)
    BY <2>0, Facts
  <2>2. PitUnsub(k) \in listeners => k \in Subs(pits)
    BY <2>1, TagsIn
  <2>3. ASSUME NEW who, PitRuns(who), PitUnsub(k) \in listeners
        PROVE  /\ k \in Subs(pits) /\ pits[k].who = who /\ cur >= 1
               /\ clock >= until
    <3>1. /\ k \in 1..Len(pits) /\ pits[k].who = who /\ pits[k].at <= clock
      BY <2>0, <2>p, <2>3, ConsumedIs
    <3>2. pits[k].at \in Int
      <4>1. pits[k] \in Pit
        BY <2>1, <3>1
      <4> QED BY <4>1 DEF Pit
    <3>3. k \in Subs(pits) /\ cur >= 1 /\ until <= pits[k].at
      BY <1>1, <2>0, <2>2, <2>3 DEF Waits
    <3> QED BY <2>1, <3>1, <3>2, <3>3
  <2>4. ASSUME async_script_delay, jobs' # Tail(jobs)
        PROVE  WaitsAt({"delay"}) /\ clock >= until
    <3>1. PitRuns("delay") /\ PitUnsub(k) \in listeners
      BY <2>p, <2>4 DEF async_script_delay
    <3>2. k \in Subs(pits) /\ pits[k].who = "delay" /\ cur >= 1 /\ clock >= until
      BY <2>3, <3>1
    <3> QED BY <1>1, <2>0, <3>2 DEF Waits, WaitsAt
  <2>5. ASSUME async_script_timeout, cur' # cur
        PROVE  WaitsAt({"timed_wait"}) /\ clock >= until
    <3>1. PitRuns("timeout") /\ PitUnsub(k) \in listeners
      BY <2>p, <2>5 DEF async_script_timeout
    <3>2. k \in Subs(pits) /\ pits[k].who = "timeout" /\ cur >= 1 /\ clock >= until
      BY <2>3, <3>1
    <3> QED BY <1>1, <2>0, <3>2 DEF Waits, WaitsAt
  <2>6. ASSUME async_script_wait, trackers[k].sub
        PROVE  WaitsAt({"wait", "timed_wait"})
    <3>1. k \in Subs(trackers)
      <4>1. Next_job("state")
        BY <2>6 DEF async_script_wait
      <4>2. k \in 1..Len(trackers)
        BY <2>0, <2>p, <4>1, SeenIs
      <4> QED BY <2>1, <2>6, <4>2 DEF Subs
    <3> QED BY <1>1, <2>0, <3>1 DEF Waits, WaitsAt
  <2> QED BY <2>p, <2>4, <2>5, <2>6
<1>2. Inv => [Own]_vars
  BY <1>1
<1> QED BY <1>2, InvCorrect, PTL DEF OwnWaits
=============================================================================
