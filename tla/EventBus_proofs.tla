--------------------------- MODULE EventBus_proofs ---------------------------
(***************************************************************************)
(* Proofs about EventBus, for any event types, listeners, kinds, threads   *)
(* and bounds.                                                             *)
(***************************************************************************)
EXTENDS EventBus, SequenceTheorems, FiniteSetTheorems, WellFoundedInduction,
        TLAPS

-----------------------------------------------------------------------------
(* Taking job i out, as the loop and the executor do when they run it,     *)
(* leaves every other job, in the order they had.                          *)
LEMMA RemoveAtProperties ==
  ASSUME NEW S, NEW s \in Seq(S), NEW i \in 1..Len(s)
  PROVE  /\ RemoveAt(s, i) \in Seq(S)
         /\ Len(RemoveAt(s, i)) = Len(s) - 1
         /\ \A k \in 1..(Len(s) - 1) :
              RemoveAt(s, i)[k] = IF k < i THEN s[k] ELSE s[k + 1]
<1> DEFINE a == SubSeq(s, 1, i - 1)
           b == SubSeq(s, i + 1, Len(s))
<1>1. /\ a \in Seq(S)
      /\ Len(a) = i - 1
      /\ \A k \in 1..(i - 1) : a[k] = s[k]
  OBVIOUS
<1>2. /\ b \in Seq(S)
      /\ Len(b) = Len(s) - i
      /\ \A k \in 1..(Len(s) - i) : b[k] = s[i + k]
  OBVIOUS
<1>3. RemoveAt(s, i) = a \o b
  BY DEF RemoveAt
<1> HIDE DEF a, b
<1>4. /\ a \o b \in Seq(S)
      /\ Len(a \o b) = Len(a) + Len(b)
      /\ \A k \in 1..(Len(a) + Len(b)) :
           (a \o b)[k] = IF k <= Len(a) THEN a[k] ELSE b[k - Len(a)]
  BY <1>1, <1>2, ConcatProperties, Zenon
<1>5. ASSUME NEW k \in 1..(Len(s) - 1)
      PROVE  (a \o b)[k] = IF k < i THEN s[k] ELSE s[k + 1]
  <2>1. (a \o b)[k] = IF k <= i - 1 THEN a[k] ELSE b[k - (i - 1)]
    BY <1>1, <1>2, <1>4, SMTT(30)
  <2>2. CASE k < i
    BY <1>1, <2>1, <2>2
  <2>3. CASE ~(k < i)
    BY <1>2, <2>1, <2>3, SMTT(30)
  <2> QED BY <2>2, <2>3
<1> QED BY <1>1, <1>2, <1>3, <1>4, <1>5

(* A nonempty set of naturals has a least element.                         *)
LEMMA LeastElement ==
  ASSUME NEW T \in SUBSET Nat, T # {}
  PROVE  Min(T) \in T
<1>1. IsWellFoundedOn(OpToRel(<, Nat), Nat)
  BY NatLessThanWellFounded
<1> DEFINE R == {ss \in Nat \X Nat : ss[1] < ss[2]}
<1>2. OpToRel(<, Nat) = R
  BY Zenon DEF OpToRel
<1>3. \E x \in T : \A y \in T : ~(<<y, x>> \in R)
  BY <1>1, <1>2, WFMin, ZenonT(60)
<1>4. \E x \in T : \A y \in T : x <= y
  <2>1. PICK x \in T : \A y \in T : ~(<<y, x>> \in R)
    BY <1>3
  <2>2. ASSUME NEW y \in T PROVE x <= y
    <3>1. <<y, x>> \in R <=> y < x
      OBVIOUS
    <3> QED BY <2>1, <3>1
  <2> QED BY <2>2
<1> QED BY <1>4 DEF Min

(* Removing the first element equal to e leaves a sequence over the same   *)
(* set, whether or not e was there.                                        *)
LEMMA RemoveFirstType ==
  ASSUME NEW S, NEW s \in Seq(S), NEW e
  PROVE  RemoveFirst(s, e) \in Seq(S)
<1>1. CASE \E i \in 1..Len(s) : s[i] = e
  <2> DEFINE I == {i \in 1..Len(s) : s[i] = e}
  <2>1. I # {} /\ I \in SUBSET Nat
    BY <1>1
  <2>2. Min(I) \in 1..Len(s)
    BY <2>1, LeastElement
  <2>3. SelectInSeq(s, LAMBDA v : v = e) = Min(I)
    BY <2>1 DEF SelectInSeq
  <2>4. RemoveFirst(s, e) = RemoveAt(s, Min(I))
    BY <1>1, <2>3 DEF RemoveFirst
  <2> QED BY <2>2, <2>4, RemoveAtProperties
<1>2. CASE ~ \E i \in 1..Len(s) : s[i] = e
  BY <1>2 DEF RemoveFirst
<1> QED BY <1>1, <1>2

-----------------------------------------------------------------------------
(* Counting.  How many elements of s are in S is what is known of queues   *)
(* when neither their order nor their other elements matter.               *)

Where(s, S) == {i \in DOMAIN s : s[i] \in S}
HowMany(s, S) == Cardinality(Where(s, S))

LEMMA CountType ==
  ASSUME NEW T, NEW s \in Seq(T), NEW S
  PROVE  /\ IsFiniteSet(Where(s, S)) /\ HowMany(s, S) \in Nat
         /\ HowMany(s, S) = 0 <=> \A i \in DOMAIN s : s[i] \notin S
<1>1. Len(s) \in Nat /\ DOMAIN s = 1..Len(s)
  OBVIOUS
<1>2. IsFiniteSet(1..Len(s)) /\ Where(s, S) \in SUBSET (1..Len(s))
  BY <1>1, FS_Interval DEF Where
<1>3. IsFiniteSet(Where(s, S))
  BY <1>2, FS_Subset
<1>4. HowMany(s, S) \in Nat /\ (HowMany(s, S) = 0 <=> Where(s, S) = {})
  BY <1>3, FS_CardinalityType, FS_EmptySet DEF HowMany
<1> QED BY <1>3, <1>4 DEF Where

(* Only what the predicate says of each place matters.                     *)
LEMMA CountSame ==
  ASSUME NEW s, NEW u, NEW S, NEW R, DOMAIN s = DOMAIN u,
         \A i \in DOMAIN s : s[i] \in S <=> u[i] \in R
  PROVE  HowMany(s, S) = HowMany(u, R)
<1>1. Where(s, S) = Where(u, R)
  BY DEF Where
<1> QED BY <1>1 DEF HowMany

LEMMA CountOne ==
  ASSUME NEW x, NEW S
  PROVE  HowMany(<<x>>, S) = IF x \in S THEN 1 ELSE 0
<1>1. Where(<<x>>, S) = IF x \in S THEN {1} ELSE {}
  BY DEF Where
<1> QED BY <1>1, FS_EmptySet, FS_Singleton DEF HowMany

(* Of two sequences in a row, each keeps what it has.                      *)
LEMMA CountConcat ==
  ASSUME NEW T, NEW s \in Seq(T), NEW u \in Seq(T), NEW S
  PROVE  HowMany(s \o u, S) = HowMany(s, S) + HowMany(u, S)
<1> DEFINE m == Len(s)
           A == Where(s, S)
           B == Where(u, S)
           C == {k \in (m + 1)..(m + Len(u)) : u[k - m] \in S}
           f == [i \in B |-> i + m]
<1>1. m \in Nat /\ Len(u) \in Nat /\ DOMAIN s = 1..m /\ DOMAIN u = 1..Len(u)
  OBVIOUS
<1>2. /\ DOMAIN (s \o u) = 1..(m + Len(u))
      /\ \A k \in 1..(m + Len(u)) : (s \o u)[k] = IF k <= m THEN s[k] ELSE u[k - m]
  BY ConcatProperties
<1>3. Where(s \o u, S) = A \cup C /\ A \cap C = {}
  BY <1>1, <1>2 DEF Where
<1>4. f \in Bijection(B, C)
  <2>1. f \in [B -> C]
    BY <1>1 DEF Where
  <2>2. \A a, b \in B : f[a] = f[b] => a = b
    BY <1>1 DEF Where
  <2>3. \A c \in C : \E b \in B : f[b] = c
    <3> SUFFICES ASSUME NEW c \in C PROVE c - m \in B /\ f[c - m] = c
      OBVIOUS
    <3> QED BY <1>1 DEF Where
  <2> HIDE DEF f, B, C
  <2> QED BY <2>1, <2>2, <2>3, Zenon DEF Bijection, Injection, Surjection, IsInjective
<1>5. IsFiniteSet(A) /\ IsFiniteSet(B)
  BY CountType
<1> HIDE DEF A, B, C, f
<1>6. IsFiniteSet(C) /\ Cardinality(C) = Cardinality(B)
  BY <1>4, <1>5, FS_Bijection DEF ExistsBijection
<1>7. Cardinality(A \cup C) = Cardinality(A) + Cardinality(C) - Cardinality(A \cap C)
  BY <1>5, <1>6, FS_Union
<1>8. Cardinality(A \cap C) = 0
  BY <1>3, FS_EmptySet
<1>9. Cardinality(A) \in Nat /\ Cardinality(B) \in Nat
  BY <1>5, FS_CardinalityType
<1> QED BY <1>3, <1>6, <1>7, <1>8, <1>9 DEF HowMany, A, B

LEMMA CountAppend ==
  ASSUME NEW T, NEW s \in Seq(T), NEW x \in T, NEW S
  PROVE  HowMany(Append(s, x), S) = HowMany(s, S) + IF x \in S THEN 1 ELSE 0
<1>1. Append(s, x) = s \o <<x>> /\ <<x>> \in Seq(T)
  BY AppendIsConcat
<1>2. HowMany(s \o <<x>>, S) = HowMany(s, S) + HowMany(<<x>>, S)
  BY <1>1, CountConcat
<1> QED BY <1>1, <1>2, CountOne

(* Taking an element out takes one off its count, and off no other.        *)
LEMMA CountRemoveAt ==
  ASSUME NEW T, NEW s \in Seq(T), NEW i \in DOMAIN s, NEW S
  PROVE  /\ HowMany(RemoveAt(s, i), S) = HowMany(s, S) - IF s[i] \in S THEN 1 ELSE 0
         /\ s[i] \in S => HowMany(s, S) > 0
<1> DEFINE a == SubSeq(s, 1, i - 1)
           b == SubSeq(s, i + 1, Len(s))
           x == <<s[i]>>
<1>1. i \in 1..Len(s) /\ Len(s) \in Nat /\ s[i] \in T
  OBVIOUS
<1>2. a \in Seq(T) /\ Len(a) = i - 1 /\ \A k \in 1..(i - 1) : a[k] = s[k]
  BY <1>1
<1>3. b \in Seq(T) /\ Len(b) = Len(s) - i /\ \A k \in 1..(Len(s) - i) : b[k] = s[i + k]
  BY <1>1
<1>4. x \in Seq(T) /\ Len(x) = 1 /\ x[1] = s[i]
  BY <1>1
<1>5. RemoveAt(s, i) = a \o b
  BY DEF RemoveAt
<1>6. HowMany(x, S) = IF s[i] \in S THEN 1 ELSE 0
  BY CountOne
<1> HIDE DEF a, b, x
<1>l. Len(x) = 1 /\ Len(a) = i - 1 /\ Len(b) = Len(s) - i
  BY <1>2, <1>3, <1>4, Zenon
<1> DEFINE r == x \o b
           v == a \o r
<1>7. /\ r \in Seq(T) /\ Len(r) = Len(x) + Len(b)
      /\ \A k \in 1..(Len(x) + Len(b)) : r[k] = IF k <= Len(x) THEN x[k] ELSE b[k - Len(x)]
  BY <1>3, <1>4, ConcatProperties, Zenon
<1> HIDE DEF r
<1>8. s = v
  <2>1. /\ v \in Seq(T) /\ Len(v) = Len(a) + Len(r)
        /\ \A k \in 1..(Len(a) + Len(r)) : v[k] = IF k <= Len(a) THEN a[k] ELSE r[k - Len(a)]
    <3>1. a \in Seq(T) /\ r \in Seq(T)
      BY <1>2, <1>7
    <3> QED BY <3>1, ConcatProperties, Zenon
  <2> HIDE DEF v
  <2>2. Len(v) = Len(s) /\ Len(a) = i - 1 /\ Len(r) = Len(s) - i + 1
    <3>1. Len(v) = Len(a) + Len(r) /\ Len(r) = Len(x) + Len(b)
      BY <1>7, <2>1, Zenon
    <3>2. i \in Nat /\ Len(s) \in Nat
      BY <1>1
    <3>3. Len(r) = 1 + (Len(s) - i) /\ Len(v) = (i - 1) + Len(r)
      BY <1>l, <3>1, Zenon
    <3>4. Len(r) = Len(s) - i + 1
      BY <3>2, <3>3
    <3> QED BY <1>l, <3>2, <3>3, <3>4, SMTT(30)
  <2>3. ASSUME NEW k \in 1..Len(s) PROVE s[k] = v[k]
    <3>1. v[k] = IF k <= i - 1 THEN a[k] ELSE r[k - (i - 1)]
      BY <1>1, <2>1, <2>2
    <3>2. k > i - 1 => r[k - (i - 1)] = IF k - (i - 1) <= 1 THEN x[k - (i - 1)] ELSE b[k - (i - 1) - 1]
      <4>1. /\ i \in Nat /\ k \in Nat /\ Len(b) \in Nat
            /\ k > i - 1 => k - (i - 1) \in 1..(Len(x) + Len(b))
        BY <1>1, <1>l
      <4>2. ASSUME k > i - 1
            PROVE  r[k - (i - 1)] = IF k - (i - 1) <= Len(x) THEN x[k - (i - 1)]
                                    ELSE b[k - (i - 1) - Len(x)]
        BY <1>7, <4>1, <4>2, Zenon
      <4> QED BY <1>l, <4>2
    <3>3. CASE k < i
      BY <1>1, <1>2, <3>1, <3>3
    <3>4. CASE k = i
      BY <1>1, <1>4, <3>1, <3>2, <3>4
    <3>5. CASE k > i
      <4>1. v[k] = b[k - i]
        <5>1. k - (i - 1) - 1 = k - i
          BY <1>1
        <5> QED BY <1>1, <3>1, <3>2, <3>5, <5>1
      <4>2. k - i \in 1..(Len(s) - i) /\ i + (k - i) = k
        BY <1>1, <3>5
      <4> QED BY <1>3, <4>1, <4>2
    <3> QED BY <1>1, <3>3, <3>4, <3>5
  <2> QED BY <2>1, <2>2, <2>3, SeqEqual
<1>9. /\ HowMany(s, S) = HowMany(a, S) + HowMany(r, S)
      /\ HowMany(r, S) = HowMany(x, S) + HowMany(b, S)
      /\ HowMany(a \o b, S) = HowMany(a, S) + HowMany(b, S)
  <2>1. HowMany(v, S) = HowMany(a, S) + HowMany(r, S)
    BY <1>2, <1>7, CountConcat
  <2>2. HowMany(x \o b, S) = HowMany(x, S) + HowMany(b, S)
    BY <1>3, <1>4, CountConcat
  <2>3. HowMany(a \o b, S) = HowMany(a, S) + HowMany(b, S)
    BY <1>2, <1>3, CountConcat
  <2> QED BY <1>8, <2>1, <2>2, <2>3, Zenon DEF r
<1>10. HowMany(a, S) \in Nat /\ HowMany(b, S) \in Nat
  BY <1>2, <1>3, CountType
<1> QED BY <1>5, <1>6, <1>9, <1>10

-----------------------------------------------------------------------------
(* The records of a job, taken apart.                                      *)
LEMMA JobParts ==
  ASSUME TypeOK, NEW i \in DOMAIN jobs
  PROVE  /\ jobs[i] \in Job
         /\ jobs[i].stage \in {"listener", "target"} =>
              jobs[i].h \in Handles /\ jobs[i].ev \in 1..Len(fired)
         /\ jobs[i].stage = "call" => jobs[i].th \in Threads /\ jobs[i].op \in Op
<1>1. jobs[i] \in Job
  BY DEF TypeOK
<1> QED BY <1>1 DEF Job

(* Performing an operation keeps the types, whoever performs it: the jobs  *)
(* and the calls recorded so far refer to events that stay fired.          *)
LEMMA PerformType ==
  ASSUME TypeOK, NEW op \in Op, NEW rest \in Seq(Job),
         Perform(op, rest)
  PROVE  /\ listeners' \in [Keys -> Seq(Handles)]
         /\ jobs' \in Seq(Job')
         /\ onceType' \in [Once -> Keys \cup {NoType}]
         /\ fired' \in Seq([type : EventTypes, heard : [Keys -> Seq(Handles)]])
         /\ 1..Len(fired) \subseteq 1..Len(fired')
<1> USE DEF Op, TypeOK
<1>1. CASE op.op = "fire" /\ async_fire(op.type, rest)
  <2> DEFINE to == Recipients(op.type)
             n == Len(fired) + 1
             new == [i \in 1..Len(to) |-> ListenerJob(to[i], n)]
  <2>1. op.type \in EventTypes
    BY <1>1
  <2>2. to \in Seq(Handles)
    <3>1. listeners[op.type] \in Seq(Handles) /\ listeners[MATCH_ALL] \in Seq(Handles)
      BY <2>1 DEF Keys
    <3> QED BY <3>1, ConcatProperties DEF Recipients
  <2>3. /\ fired' = Append(fired, [type |-> op.type, heard |-> listeners])
        /\ jobs' = rest \o new
        /\ UNCHANGED <<listeners, onceType>>
    BY <1>1 DEF async_fire
  <2>4. /\ fired' \in Seq([type : EventTypes, heard : [Keys -> Seq(Handles)]])
        /\ Len(fired) \in Nat
        /\ Len(fired') = n
    BY <2>1, <2>3
  <2>5. Job \subseteq Job'
    <3>1. 1..Len(fired) \subseteq 1..Len(fired')
      BY <2>4
    <3> QED BY <3>1, Zenon DEF Job, Handles, Op, Keys
  <2>6. \A i \in 1..Len(to) : ListenerJob(to[i], n) \in Job'
    BY <2>2, <2>4 DEF ListenerJob, Job, Handles
  <2>7. new \in Seq(Job')
    BY <2>2, <2>6
  <2> HIDE DEF new, to
  <2>8. rest \in Seq(Job')
    BY <2>5
  <2>9. rest \o new \in Seq(Job')
    BY <2>7, <2>8, ConcatProperties
  <2> QED BY <2>3, <2>4, <2>9
<1>2. CASE op.op = "listen" /\ op.h \in Funcs /\ async_listen(op.type, op.h, rest)
  BY <1>2 DEF async_listen, Job, Keys, Handles
<1>3. CASE op.op = "listen" /\ op.h \in Once /\ async_listen_once(op.type, op.h, rest)
  BY <1>3 DEF async_listen_once, Job, Keys, Handles
<1>4. CASE /\ op.op = "remove"
           /\ _async_remove_listener(op.type, op.h)
           /\ jobs' = rest
           /\ UNCHANGED <<onceType, fired>>
  <2>1. op.type \in Keys
    BY <1>4
  <2>2. RemoveFirst(listeners[op.type], op.h) \in Seq(Handles)
    BY <2>1, RemoveFirstType
  <2> QED BY <1>4, <2>2 DEF _async_remove_listener, Job
<1> QED BY <1>1, <1>2, <1>3, <1>4 DEF Perform

(* The jobs that may exist depend on how many events have been fired.      *)
LEMMA JobUnchanged == fired' = fired => Job' = Job
  BY DEF Job, Op, Handles, Keys

(* Every step keeps the types.                                             *)
LEMMA TypeStep ==
  TypeOK /\ [Next]_vars => TypeOK'
<1> SUFFICES ASSUME TypeOK, [Next]_vars PROVE TypeOK'
  OBVIOUS
<1>0. Len(fired) \in Nat /\ Len(jobs) \in Nat /\ DOMAIN jobs = 1..Len(jobs)
  BY DEF TypeOK
<1>1. ASSUME NEW op \in Op, LoopOp(op) PROVE TypeOK'
  <2>1. Perform(op, jobs) /\ UNCHANGED <<run, blocked, handled>>
    BY <1>1 DEF LoopOp
  <2>2. jobs \in Seq(Job)
    BY DEF TypeOK
  <2>3. /\ listeners' \in [Keys -> Seq(Handles)]
        /\ jobs' \in Seq(Job')
        /\ onceType' \in [Once -> Keys \cup {NoType}]
        /\ fired' \in Seq([type : EventTypes, heard : [Keys -> Seq(Handles)]])
        /\ 1..Len(fired) \subseteq 1..Len(fired')
    BY <2>1, <2>2, PerformType, Zenon
  <2>4. handled' \in [Handles -> Seq(1..Len(fired'))]
    BY <2>1, <2>3, SeqMonotonic DEF TypeOK
  <2> QED BY <2>1, <2>3, <2>4 DEF TypeOK
<1>2. ASSUME NEW op \in Op, NEW th \in Threads, ThreadCall(th, op) PROVE TypeOK'
  <2>1. CallJob(th, op) \in Job
    BY DEF CallJob, Job
  <2>2. /\ jobs' = Append(jobs, CallJob(th, op))
        /\ blocked' \subseteq blocked \cup {th}
        /\ UNCHANGED <<listeners, run, onceType, fired, handled>>
    BY <1>2 DEF ThreadCall
  <2>3. jobs' \in Seq(Job')
    BY <2>1, <2>2, JobUnchanged DEF TypeOK
  <2> QED BY <2>2, <2>3 DEF TypeOK
<1>3. ASSUME NEW i \in DOMAIN jobs, RunJob(i) PROVE TypeOK'
  <2>1. /\ Without(jobs, i) \in Seq(Job)
        /\ jobs[i] \in Job
    BY <1>0, RemoveAtProperties, JobParts DEF TypeOK, Without
  <2>2. CASE RunListener(i)
    <3>1. jobs[i].h \in Handles /\ jobs[i].ev \in 1..Len(fired)
      BY <2>2, JobParts DEF RunListener
    <3> QED BY <2>1, <2>2, <3>1 DEF RunListener, TypeOK, Job
  <2>3. CASE RunOnce(i)
    <3> DEFINE w == jobs[i].h
               rest == Without(jobs, i)
    <3>1. w \in Once /\ w \in Handles /\ jobs[i].ev \in 1..Len(fired)
      BY <2>3, JobParts DEF RunOnce
    <3>2. CASE w \in run /\ jobs' = rest /\ UNCHANGED <<listeners, run, handled>>
      BY <2>1, <2>3, <3>2 DEF RunOnce, TypeOK, Job
    <3>3. CASE /\ w \notin run
               /\ run' = run \cup {w}
               /\ _async_remove_listener(onceType[w], w)
               /\ IF Kind[Target[w]] = "callback"
                    THEN /\ handled' = [handled EXCEPT ![w] = Append(@, jobs[i].ev)]
                         /\ jobs' = rest
                    ELSE /\ jobs' = Append(rest, TargetJob(w, jobs[i].ev))
                         /\ UNCHANGED handled
      <4>1. listeners' \in [Keys -> Seq(Handles)]
        <5>1. \A t \in Keys : RemoveFirst(listeners[t], w) \in Seq(Handles)
          BY RemoveFirstType DEF TypeOK
        <5> QED BY <3>3, <5>1 DEF _async_remove_listener, TypeOK
      <4>2. UNCHANGED <<onceType, blocked, fired>>
        BY <2>3 DEF RunOnce
      <4>3. TargetJob(w, jobs[i].ev) \in Job
        BY <3>1, Zenon DEF TargetJob, Job
      <4>4. jobs' \in Seq(Job')
        BY <2>1, <3>3, <4>2, <4>3, JobUnchanged
      <4>5. handled' \in [Handles -> Seq(1..Len(fired'))]
        <5>1. Append(handled[w], jobs[i].ev) \in Seq(1..Len(fired))
          BY <3>1 DEF TypeOK
        <5>2. handled' = handled
                \/ handled' = [handled EXCEPT ![w] = Append(handled[w], jobs[i].ev)]
          BY <3>3
        <5> QED BY <4>2, <5>1, <5>2 DEF TypeOK
      <4> QED BY <3>1, <3>3, <4>1, <4>2, <4>4, <4>5 DEF TypeOK
    <3> QED BY <2>3, <3>2, <3>3 DEF RunOnce
  <2>4. CASE RunTarget(i)
    <3>1. jobs[i].h \in Handles /\ jobs[i].ev \in 1..Len(fired)
      BY <2>4, JobParts DEF RunTarget
    <3> QED BY <2>1, <2>4, <3>1 DEF RunTarget, TypeOK, Job
  <2>5. CASE RunCall(i)
    <3>1. /\ jobs[i].op \in Op
          /\ Perform(jobs[i].op, Without(jobs, i))
          /\ blocked' = blocked \ {jobs[i].th}
          /\ UNCHANGED <<run, handled>>
      BY <2>5, JobParts DEF RunCall
    <3>2. /\ listeners' \in [Keys -> Seq(Handles)]
          /\ jobs' \in Seq(Job')
          /\ onceType' \in [Once -> Keys \cup {NoType}]
          /\ fired' \in Seq([type : EventTypes, heard : [Keys -> Seq(Handles)]])
          /\ 1..Len(fired) \subseteq 1..Len(fired')
      BY <2>1, <3>1, PerformType, Zenon
    <3>3. handled' \in [Handles -> Seq(1..Len(fired'))]
      BY <3>1, <3>2, SeqMonotonic DEF TypeOK
    <3> QED BY <3>1, <3>2, <3>3 DEF TypeOK
  <2> QED BY <1>3, <2>2, <2>3, <2>4, <2>5 DEF RunJob
<1>4. CASE UNCHANGED vars
  BY <1>4 DEF vars, TypeOK, Job
<1> QED BY <1>1, <1>2, <1>3, <1>4 DEF Next, RunLoopJob, RunExecutorJob

(* The bus keeps its types, and no job refers to an event that has not     *)
(* been fired.                                                             *)
THEOREM TypeCorrect == Spec => []TypeOK
<1>1. Init => TypeOK
  BY DEF Init, TypeOK
<1> QED BY <1>1, TypeStep, PTL DEF Spec

-----------------------------------------------------------------------------
(* One-time listeners.  A onetime_listener that has not set 'run' has not  *)
(* called its target and has not scheduled the call; this is what makes    *)
(* the promise inductive.  The facts are stated of a sequence s, so that   *)
(* they can be followed through the removal of the running job.            *)
Targets(s, w) == {i \in DOMAIN s : s[i].stage = "target" /\ s[i].h = w}

OnceInv(s) ==
  /\ \A i \in DOMAIN s : s[i].stage = "target" => s[i].h \in Once
  /\ \A w \in Once :
       /\ w \notin run => handled[w] = <<>> /\ Targets(s, w) = {}
       /\ Len(handled[w]) <= 1
       /\ Targets(s, w) # {} => handled[w] = <<>>
       /\ \A i, j \in Targets(s, w) : i = j

(* Order.  The loop's pending listener calls are sorted by event, and no   *)
(* listener of the loop has handled an event newer than any of them.       *)
Pending(s) == {i \in DOMAIN s : s[i].stage = "listener" /\ s[i].loop}

Sorted(s) == \A i, j \in Pending(s) : i < j => s[i].ev <= s[j].ev

OrderInv(s) ==
  /\ Sorted(s)
  /\ \A i \in DOMAIN s :
       s[i].stage = "listener" /\ s[i].h \in Funcs /\ InLoop(s[i].h) => s[i].loop
  /\ \A f \in Funcs : InLoop(f) =>
       /\ \A j, k \in DOMAIN handled[f] : j < k => handled[f][j] <= handled[f][k]
       /\ \A i \in Pending(s) : \A k \in DOMAIN handled[f] : handled[f][k] <= s[i].ev

(* Taking a job out only removes: what is left comes from other places, in *)
(* the order it was in.                                                    *)
LEMMA WithoutFrom ==
  ASSUME NEW s \in Seq(Job), NEW i \in DOMAIN s
  PROVE  /\ Without(s, i) \in Seq(Job)
         /\ \A k \in DOMAIN Without(s, i) :
              LET j == IF k < i THEN k ELSE k + 1
              IN j \in DOMAIN s /\ j # i /\ Without(s, i)[k] = s[j]
<1>1. i \in 1..Len(s) /\ Len(s) \in Nat
  OBVIOUS
<1>2. /\ Without(s, i) \in Seq(Job)
      /\ Len(Without(s, i)) = Len(s) - 1
      /\ \A k \in 1..(Len(s) - 1) :
           Without(s, i)[k] = IF k < i THEN s[k] ELSE s[k + 1]
  BY <1>1, RemoveAtProperties DEF Without
<1> QED BY <1>1, <1>2

(* Scheduling behind the rest moves nothing.                               *)
LEMMA BehindFrom ==
  ASSUME NEW S, NEW s \in Seq(S), NEW new \in Seq(S)
  PROVE  /\ s \o new \in Seq(S)
         /\ DOMAIN s \subseteq DOMAIN (s \o new)
         /\ \A k \in DOMAIN (s \o new) :
              \/ k \in DOMAIN s /\ (s \o new)[k] = s[k]
              \/ /\ k > Len(s)
                 /\ k - Len(s) \in DOMAIN new
                 /\ (s \o new)[k] = new[k - Len(s)]
<1>1. /\ s \o new \in Seq(S)
      /\ Len(s \o new) = Len(s) + Len(new)
      /\ \A k \in 1..(Len(s) + Len(new)) :
           (s \o new)[k] = IF k <= Len(s) THEN s[k] ELSE new[k - Len(s)]
  BY ConcatProperties, Zenon
<1> QED BY <1>1

(* The one-time facts survive taking a job out ...                         *)
LEMMA OnceWithout ==
  ASSUME NEW s \in Seq(Job), NEW i \in DOMAIN s, OnceInv(s)
  PROVE  OnceInv(Without(s, i))
<1> DEFINE r == Without(s, i)
           old(k) == IF k < i THEN k ELSE k + 1
<1>1. \A k \in DOMAIN r : old(k) \in DOMAIN s /\ r[k] = s[old(k)]
  BY WithoutFrom
<1>2. r \in Seq(Job) /\ i \in Nat
  BY WithoutFrom
<1>3. ASSUME NEW w \in Once
      PROVE  /\ \A k \in Targets(r, w) : old(k) \in Targets(s, w)
             /\ \A j, k \in Targets(r, w) : old(j) = old(k) => j = k
  BY <1>1, <1>2 DEF Targets
<1> HIDE DEF r, old
<1>4. OnceInv(r)
  BY <1>1, <1>3 DEF OnceInv
<1> QED BY <1>4 DEF r

(* ... and scheduling jobs that are not calls of a wrapped listener.       *)
LEMMA OnceBehind ==
  ASSUME NEW S, NEW s \in Seq(S), NEW new \in Seq(S), OnceInv(s),
         \A k \in DOMAIN new : new[k].stage # "target"
  PROVE  OnceInv(s \o new)
<1>1. ASSUME NEW w \in Once PROVE Targets(s \o new, w) \subseteq Targets(s, w)
  BY BehindFrom DEF Targets
<1>2. \A k \in DOMAIN (s \o new) :
        (s \o new)[k].stage = "target" => (s \o new)[k].h \in Once
  BY BehindFrom DEF OnceInv
<1> QED BY <1>1, <1>2 DEF OnceInv

(* The same two facts for the order of the pending listener calls.         *)
LEMMA OrderWithout ==
  ASSUME NEW s \in Seq(Job), NEW i \in DOMAIN s, OrderInv(s)
  PROVE  OrderInv(Without(s, i))
<1> DEFINE r == Without(s, i)
           old(k) == IF k < i THEN k ELSE k + 1
<1>1. \A k \in DOMAIN r : old(k) \in DOMAIN s /\ r[k] = s[old(k)]
  BY WithoutFrom
<1>2. r \in Seq(Job) /\ i \in Nat
  BY WithoutFrom
<1>3. /\ \A k \in Pending(r) : old(k) \in Pending(s) /\ r[k] = s[old(k)]
      /\ \A j, k \in Pending(r) : j < k => old(j) < old(k)
  BY <1>1, <1>2 DEF Pending
<1> HIDE DEF r, old
<1>4. Sorted(r)
  BY <1>3 DEF OrderInv, Sorted
<1>5. OrderInv(r)
  BY <1>1, <1>3, <1>4 DEF OrderInv
<1> QED BY <1>5 DEF r

LEMMA OrderBehind ==
  ASSUME NEW S, NEW s \in Seq(S), NEW new \in Seq(S), NEW n \in Nat, OrderInv(s),
         \A i \in Pending(s) : s[i].ev \in Nat /\ s[i].ev <= n,
         \A f \in Funcs : \A k \in DOMAIN handled[f] : handled[f][k] <= n,
         \A k \in Pending(new) : new[k].ev = n,
         \A k \in DOMAIN new :
           new[k].stage = "listener" /\ new[k].h \in Funcs /\ InLoop(new[k].h)
             => new[k].loop
  PROVE  OrderInv(s \o new)
<1> DEFINE r == s \o new
<1>1. \A k \in DOMAIN r :
        \/ k \in DOMAIN s /\ r[k] = s[k]
        \/ k > Len(s) /\ k - Len(s) \in DOMAIN new /\ r[k] = new[k - Len(s)]
  BY BehindFrom
<1>2. r \in Seq(S) /\ Len(s) \in Nat /\ DOMAIN s = 1..Len(s) /\ DOMAIN r = 1..Len(r)
  BY BehindFrom
<1> HIDE DEF r
<1>3. ASSUME NEW k \in Pending(r)
      PROVE  \/ k \in Pending(s) /\ r[k] = s[k]
             \/ k > Len(s) /\ r[k].ev = n
  BY <1>1 DEF Pending
<1>4. Sorted(r)
  <2> SUFFICES ASSUME NEW j \in Pending(r), NEW k \in Pending(r), j < k
               PROVE  r[j].ev <= r[k].ev
    BY DEF Sorted
  <2>1. CASE k \in Pending(s) /\ r[k] = s[k]
    <3>1. j \in Pending(s) /\ r[j] = s[j]
      BY <1>2, <1>3, <2>1 DEF Pending
    <3> QED BY <2>1, <3>1 DEF OrderInv, Sorted
  <2>2. CASE r[k].ev = n
    BY <1>3, <2>2
  <2> QED BY <1>3, <2>1, <2>2
<1>5. OrderInv(r)
  BY <1>1, <1>3, <1>4 DEF OrderInv
<1> QED BY <1>5 DEF r

(* Performing an operation schedules at most the listener calls of one new *)
(* event, behind the rest, and touches neither 'run' nor what was handled. *)
LEMMA PerformJobs ==
  ASSUME TypeOK, NEW op \in Op, NEW rest \in Seq(Job), Perform(op, rest)
  PROVE  \E new \in Seq(Job') :
           /\ jobs' = rest \o new
           /\ \A k \in DOMAIN new :
                /\ new[k].stage = "listener"
                /\ new[k].ev = Len(fired) + 1
                /\ new[k].h \in Funcs /\ InLoop(new[k].h) => new[k].loop
<1>1. CASE op.op = "fire" /\ async_fire(op.type, rest)
  <2> DEFINE to == Recipients(op.type)
             n == Len(fired) + 1
             new == [i \in 1..Len(to) |-> ListenerJob(to[i], n)]
  <2>1. op.type \in EventTypes
    BY <1>1 DEF Op
  <2>2. to \in Seq(Handles)
    <3>1. listeners[op.type] \in Seq(Handles) /\ listeners[MATCH_ALL] \in Seq(Handles)
      BY <2>1 DEF Keys, TypeOK
    <3> QED BY <3>1, ConcatProperties DEF Recipients
  <2>3. /\ fired' = Append(fired, [type |-> op.type, heard |-> listeners])
        /\ jobs' = rest \o new
    BY <1>1 DEF async_fire
  <2>4. Len(fired) \in Nat /\ Len(fired') = n
    BY <2>3 DEF TypeOK
  <2>5. \A i \in 1..Len(to) : ListenerJob(to[i], n) \in Job'
    BY <2>2, <2>4 DEF ListenerJob, Job, Handles
  <2>6. new \in Seq(Job')
    BY <2>2, <2>5
  <2>7. \A k \in DOMAIN new :
          /\ new[k].stage = "listener"
          /\ new[k].ev = n
          /\ new[k].h \in Funcs /\ InLoop(new[k].h) => new[k].loop
    BY DEF ListenerJob, InLoop
  <2> QED BY <2>3, <2>6, <2>7
<1>2. CASE jobs' = rest /\ fired' = fired
  <2>1. rest \o <<>> = rest /\ <<>> \in Seq(Job')
    BY ConcatEmptySeq
  <2> DEFINE none == <<>>
  <2>2. \A k \in DOMAIN none : FALSE
    OBVIOUS
  <2>3. none \in Seq(Job') /\ jobs' = rest \o none
    BY <1>2, <2>1
  <2> HIDE DEF none
  <2> QED BY <2>2, <2>3
<1> QED BY <1>1, <1>2 DEF Perform, async_listen, async_listen_once

IInv == TypeOK /\ OnceInv(jobs) /\ OrderInv(jobs)

(* An operation of the bus keeps both, on top of whatever jobs remain.     *)
LEMMA PerformInv ==
  ASSUME TypeOK, NEW op \in Op, NEW rest \in Seq(Job), Perform(op, rest),
         OnceInv(rest), OrderInv(rest), UNCHANGED <<run, handled>>
  PROVE  OnceInv(jobs)' /\ OrderInv(jobs)'
<1>1. PICK new \in Seq(Job') :
        /\ jobs' = rest \o new
        /\ \A k \in DOMAIN new :
             /\ new[k].stage = "listener"
             /\ new[k].ev = Len(fired) + 1
             /\ new[k].h \in Funcs /\ InLoop(new[k].h) => new[k].loop
  BY PerformJobs
<1>2. rest \in Seq(Job')
  <2>1. 1..Len(fired) \subseteq 1..Len(fired')
    BY PerformType
  <2>2. Job \subseteq Job'
    BY <2>1, Zenon DEF Job, Handles, Op, Keys
  <2> QED BY <2>2, SeqMonotonic
<1>3. OnceInv(rest \o new)
  BY <1>1, <1>2, OnceBehind
<1>4. OrderInv(rest \o new)
  <2>1. Len(fired) + 1 \in Nat
    BY DEF TypeOK
  <2>2. \A i \in Pending(rest) : rest[i].ev \in Nat /\ rest[i].ev <= Len(fired) + 1
    <3> SUFFICES ASSUME NEW i \in Pending(rest)
                 PROVE  rest[i].ev \in Nat /\ rest[i].ev <= Len(fired) + 1
      OBVIOUS
    <3>1. rest[i] \in Job /\ rest[i].stage = "listener"
      BY DEF Pending
    <3>2. rest[i].ev \in 1..Len(fired)
      BY <3>1 DEF Job
    <3> QED BY <2>1, <3>2
  <2>3. \A f \in Funcs : \A k \in DOMAIN handled[f] : handled[f][k] <= Len(fired) + 1
    BY <2>1 DEF TypeOK, Handles
  <2> QED BY <1>1, <1>2, <2>1, <2>2, <2>3, OrderBehind DEF Pending
<1>5. UNCHANGED <<run, handled>>
  OBVIOUS
<1> QED BY <1>1, <1>3, <1>4, <1>5, SMTT(30)
      DEF OnceInv, Targets, OrderInv, Sorted, Pending

(* Every step keeps the invariant.                                         *)
LEMMA InvStep ==
  IInv /\ [Next]_vars => IInv'
<1> SUFFICES ASSUME IInv, [Next]_vars PROVE IInv'
  OBVIOUS
<1> USE DEF IInv
<1>t. TypeOK'
  BY TypeStep
<1>0. jobs \in Seq(Job) /\ Len(jobs) \in Nat /\ DOMAIN jobs = 1..Len(jobs)
  BY DEF TypeOK
<1>1. ASSUME NEW op \in Op, LoopOp(op) PROVE IInv'
  BY <1>t, <1>0, <1>1, PerformInv DEF LoopOp
<1>2. ASSUME NEW op \in Op, NEW th \in Threads, ThreadCall(th, op) PROVE IInv'
  <2>1. /\ jobs' = Append(jobs, CallJob(th, op))
        /\ UNCHANGED <<run, fired, handled>>
    BY <1>2 DEF ThreadCall
  <2> DEFINE new == <<CallJob(th, op)>>
  <2>2. CallJob(th, op) \in Job /\ CallJob(th, op).stage = "call"
    BY DEF CallJob, Job
  <2>3. new \in Seq(Job) /\ \A k \in DOMAIN new : new[k].stage = "call"
    BY <2>2
  <2>4. jobs' = jobs \o new
    BY <1>0, <2>1, <2>2, AppendIsConcat
  <2> HIDE DEF new
  <2>5. OnceInv(jobs \o new)
    BY <1>0, <2>3, OnceBehind
  <2>6. OrderInv(jobs \o new)
    <3>1. Len(fired) \in Nat
      BY DEF TypeOK
    <3>2. \A i \in Pending(jobs) : jobs[i].ev \in Nat /\ jobs[i].ev <= Len(fired)
      BY <3>1, JobParts DEF Pending
    <3>3. \A f \in Funcs : \A k \in DOMAIN handled[f] : handled[f][k] <= Len(fired)
      BY <3>1 DEF TypeOK, Handles
    <3>4. Pending(new) = {}
      BY <2>3 DEF Pending
    <3> QED BY <1>0, <2>3, <3>1, <3>2, <3>3, <3>4, OrderBehind
  <2> QED BY <1>t, <2>1, <2>4, <2>5, <2>6
          DEF OnceInv, Targets, OrderInv, Sorted, Pending
<1>3. ASSUME NEW i \in DOMAIN jobs, RunJob(i) PROVE IInv'
  <2> DEFINE rest == Without(jobs, i)
  <2>1. rest \in Seq(Job) /\ OnceInv(rest) /\ OrderInv(rest)
    BY <1>0, WithoutFrom, OnceWithout, OrderWithout
  <2>2. Runnable(jobs, i)
    BY <1>3 DEF RunJob
  <2>3. CASE RunListener(i)
    <3> DEFINE f == jobs[i].h
    <3>1. /\ jobs[i].stage = "listener" /\ f \in Funcs
          /\ jobs' = rest
          /\ handled' = [handled EXCEPT ![f] = Append(@, jobs[i].ev)]
          /\ UNCHANGED <<run, fired>>
      BY <2>3 DEF RunListener
    <3>2. OnceInv(jobs)'
      <4>1. \A w \in Once : handled'[w] = handled[w]
        BY <3>1, BusConstants DEF TypeOK, Handles
      <4> HIDE DEF rest, f
      <4>2. jobs' = rest /\ run' = run
        BY <3>1
      <4>3. \A w \in Once : Targets(jobs', w) = Targets(rest, w)
        BY <4>2
      <4> QED BY <2>1, <4>1, <4>2, <4>3 DEF OnceInv, Targets
    <3>3. ASSUME InLoop(f)
          PROVE  \A k \in Pending(rest) : jobs[i].ev <= rest[k].ev
      <4>1. i \in Pending(jobs)
        BY <3>1, <3>3 DEF OrderInv, Pending
      <4>2. ASSUME NEW k \in Pending(rest) PROVE jobs[i].ev <= rest[k].ev
        <5> DEFINE j == IF k < i THEN k ELSE k + 1
        <5>1. j \in Pending(jobs) /\ j # i /\ rest[k] = jobs[j]
          BY <1>0, WithoutFrom DEF Pending
        <5>2. i < j
          BY <1>0, <2>2, <4>1, <5>1 DEF Runnable, Pending
        <5> HIDE DEF j, rest
        <5> QED BY <4>1, <5>1, <5>2 DEF OrderInv, Sorted
      <4> QED BY <4>2
    <3>4. ASSUME NEW g \in Funcs, InLoop(g)
          PROVE  /\ \A j, k \in DOMAIN handled'[g] : j < k => handled'[g][j] <= handled'[g][k]
                 /\ \A m \in Pending(rest) : \A k \in DOMAIN handled'[g] :
                      handled'[g][k] <= rest[m].ev
      <4> HIDE DEF rest
      <4>1. CASE g # f
        <5>1. handled'[g] = handled[g]
          BY <3>1, <4>1 DEF TypeOK, Handles
        <5> QED BY <2>1, <3>4, <5>1 DEF OrderInv
      <4>2. CASE g = f
        <5>1. /\ handled[f] \in Seq(1..Len(fired))
              /\ handled'[f] = Append(handled[f], jobs[i].ev)
              /\ jobs[i].ev \in 1..Len(fired)
          BY <3>1, JobParts DEF TypeOK, Handles
        <5>2. /\ DOMAIN handled'[f] = 1..(Len(handled[f]) + 1)
              /\ \A k \in DOMAIN handled[f] : handled'[f][k] = handled[f][k]
              /\ handled'[f][Len(handled[f]) + 1] = jobs[i].ev
              /\ DOMAIN handled[f] = 1..Len(handled[f])
              /\ Len(handled[f]) \in Nat
          BY <5>1
        <5>3. \A k \in DOMAIN handled[f] : handled[f][k] <= jobs[i].ev
          BY <3>1, <3>4, <4>2 DEF OrderInv, Pending
        <5>4. \A j, k \in DOMAIN handled[f] : j < k => handled[f][j] <= handled[f][k]
          BY <3>4, <4>2, <3>1 DEF OrderInv
        <5>5. \A m \in Pending(rest) : \A k \in DOMAIN handled[f] :
                handled[f][k] <= rest[m].ev
          BY <2>1, <3>4, <4>2, <3>1 DEF OrderInv
        <5> HIDE DEF f
        <5>6. \A k \in DOMAIN handled'[f] :
                k \in DOMAIN handled[f] \/ k = Len(handled[f]) + 1
          BY <5>2
        <5>7. \A m \in Pending(rest) : \A k \in DOMAIN handled'[f] :
                handled'[f][k] <= rest[m].ev
          BY <3>3, <3>4, <4>2, <5>2, <5>5, <5>6
        <5>8. ASSUME NEW j \in DOMAIN handled'[f], NEW k \in DOMAIN handled'[f], j < k
              PROVE  handled'[f][j] <= handled'[f][k]
          <6>1. j \in DOMAIN handled[f]
            BY <5>2, <5>8
          <6>2. CASE k \in DOMAIN handled[f]
            BY <5>2, <5>4, <5>8, <6>1, <6>2
          <6>3. CASE k = Len(handled[f]) + 1
            BY <5>2, <5>3, <6>1, <6>3
          <6> QED BY <5>6, <6>2, <6>3
        <5> QED BY <4>2, <5>7, <5>8
      <4> QED BY <4>1, <4>2
    <3>5. OrderInv(jobs)'
      <4> HIDE DEF rest, f
      <4> QED BY <2>1, <3>1, <3>4 DEF OrderInv, Sorted, Pending, InLoop
    <3> QED BY <1>t, <3>2, <3>5
  <2>4. CASE RunOnce(i)
    <3> DEFINE w == jobs[i].h
    <3>1. /\ w \in Once /\ UNCHANGED fired
          /\ jobs[i].ev \in 1..Len(fired)
      BY <2>4, JobParts DEF RunOnce
    <3>2. CASE w \in run /\ jobs' = rest /\ UNCHANGED <<run, handled>>
      BY <1>t, <2>1, <3>2 DEF OnceInv, Targets, OrderInv, Sorted, Pending
    <3>3. CASE /\ w \notin run /\ run' = run \cup {w}
               /\ handled' = [handled EXCEPT ![w] = Append(@, jobs[i].ev)]
               /\ jobs' = rest
      <4>1. /\ handled[w] = <<>> /\ Targets(rest, w) = {}
            /\ Len(handled'[w]) = 1
        BY <2>1, <3>1, <3>3 DEF OnceInv, TypeOK, Handles
      <4>2. /\ \A v \in Once : v # w => handled'[v] = handled[v]
            /\ \A f \in Funcs : handled'[f] = handled[f]
        BY <3>1, <3>3, BusConstants DEF TypeOK, Handles
      <4> HIDE DEF rest, w
      <4>3. OnceInv(jobs)'
        BY <2>1, <3>3, <4>1, <4>2 DEF OnceInv, Targets
      <4>4. OrderInv(jobs)'
        BY <2>1, <3>3, <4>2 DEF OrderInv, Sorted, Pending
      <4> QED BY <1>t, <4>3, <4>4
    <3>4. CASE /\ w \notin run /\ run' = run \cup {w}
               /\ jobs' = Append(rest, TargetJob(w, jobs[i].ev))
               /\ UNCHANGED handled
      <4> DEFINE new == <<TargetJob(w, jobs[i].ev)>>
      <4>1. /\ TargetJob(w, jobs[i].ev) \in Job
            /\ TargetJob(w, jobs[i].ev).stage = "target"
            /\ TargetJob(w, jobs[i].ev).h = w
        BY <3>1, Zenon DEF TargetJob, Job, Handles
      <4>2. jobs' = rest \o new
        BY <2>1, <3>4, <4>1, AppendIsConcat
      <4>3. /\ new \in Seq(Job)
            /\ DOMAIN new = {1}
            /\ new[1].stage = "target" /\ new[1].h = w
        BY <4>1
      <4>4. Targets(rest, w) = {} /\ handled[w] = <<>>
        BY <2>1, <3>1, <3>4 DEF OnceInv
      <4> HIDE DEF new, rest, w
      <4>5. \A k \in DOMAIN jobs' :
              \/ k \in DOMAIN rest /\ jobs'[k] = rest[k]
              \/ /\ k = Len(rest) + 1
                 /\ jobs'[k].stage = "target" /\ jobs'[k].h = w
        <5>1. \A k \in DOMAIN jobs' :
              \/ k \in DOMAIN rest /\ jobs'[k] = rest[k]
              \/ /\ k > Len(rest) /\ k - Len(rest) \in DOMAIN new
                 /\ jobs'[k] = new[k - Len(rest)]
          BY <2>1, <4>2, <4>3, BehindFrom
        <5>2. Len(rest) \in Nat /\ DOMAIN jobs' \subseteq Nat
          BY <1>t, <2>1 DEF TypeOK
        <5> QED BY <4>3, <5>1, <5>2
      <4>6. OnceInv(jobs)'
        BY <2>1, <3>1, <3>4, <4>4, <4>5 DEF OnceInv, Targets
      <4>7. OrderInv(jobs)'
        <5>1. /\ Pending(jobs)' = Pending(jobs')
              /\ \A k \in Pending(jobs') : k \in Pending(rest) /\ jobs'[k] = rest[k]
          BY <4>5 DEF Pending
        <5> QED BY <2>1, <3>4, <4>5, <5>1, ZenonT(60) DEF OrderInv, Sorted
      <4> QED BY <1>t, <4>6, <4>7
    <3> QED BY <2>4, <3>2, <3>3, <3>4 DEF RunOnce
  <2>5. CASE RunTarget(i)
    <3> DEFINE w == jobs[i].h
    <3>1. /\ jobs[i].stage = "target" /\ jobs' = rest
          /\ handled' = [handled EXCEPT ![w] = Append(@, jobs[i].ev)]
          /\ UNCHANGED <<run, fired>>
      BY <2>5 DEF RunTarget
    <3>2. w \in Once /\ i \in Targets(jobs, w)
      BY <3>1 DEF OnceInv, Targets
    <3>3. /\ w \in run /\ handled[w] = <<>>
          /\ \A j \in Targets(jobs, w) : j = i
      BY <3>2 DEF OnceInv
    <3>4. Targets(rest, w) = {}
      <4> SUFFICES ASSUME NEW k \in Targets(rest, w) PROVE FALSE
        OBVIOUS
      <4> DEFINE j == IF k < i THEN k ELSE k + 1
      <4>1. j \in DOMAIN jobs /\ j # i /\ rest[k] = jobs[j]
        BY <1>0, WithoutFrom DEF Targets
      <4> QED BY <3>3, <4>1 DEF Targets
    <3>5. Len(handled'[w]) = 1
      BY <3>1, <3>2, <3>3 DEF TypeOK, Handles
    <3>6. /\ \A v \in Once : v # w => handled'[v] = handled[v]
          /\ \A f \in Funcs : handled'[f] = handled[f]
      BY <3>1, <3>2, BusConstants DEF TypeOK, Handles
    <3> HIDE DEF rest, w
    <3>7. OnceInv(jobs)'
      BY <2>1, <3>1, <3>3, <3>4, <3>5, <3>6 DEF OnceInv, Targets
    <3>8. OrderInv(jobs)'
      BY <2>1, <3>1, <3>6 DEF OrderInv, Sorted, Pending
    <3> QED BY <1>t, <3>7, <3>8
  <2>6. CASE RunCall(i)
    <3>1. /\ jobs[i].op \in Op
          /\ Perform(jobs[i].op, rest)
          /\ UNCHANGED <<run, handled>>
      BY <2>6, JobParts DEF RunCall
    <3> QED BY <1>t, <2>1, <3>1, PerformInv
  <2> QED BY <1>3, <2>3, <2>4, <2>5, <2>6 DEF RunJob
<1>4. CASE UNCHANGED vars
  BY <1>t, <1>4 DEF vars, OnceInv, Targets, OrderInv, Sorted, Pending
<1> QED BY <1>1, <1>2, <1>3, <1>4 DEF Next, RunLoopJob, RunExecutorJob

LEMMA InvInvariant == Spec => []IInv
<1>1. Init => IInv
  <2> SUFFICES ASSUME Init PROVE IInv
    OBVIOUS
  <2>1. TypeOK
    BY DEF Init, TypeOK
  <2>2. OnceInv(jobs)
    BY DEF Init, OnceInv, Targets, Handles
  <2>3. OrderInv(jobs)
    BY DEF Init, OrderInv, Sorted, Pending, Handles
  <2> QED BY <2>1, <2>2, <2>3 DEF IInv
<1> QED BY <1>1, InvStep, PTL DEF Spec

(* Whatever a one-time listener was registered for, however many events    *)
(* were lined up for it and whoever removes it: what it wraps is called,   *)
(* or scheduled to be called, at most once.                                *)
THEOREM OnceCorrect == Spec => []OnceAtMostOnce
<1>1. IInv => OnceAtMostOnce
  BY DEF IInv, OnceInv, OnceAtMostOnce, Targets, TargetJobs
<1> QED BY <1>1, InvInvariant, PTL

(* What one-time listeners add to the order.  The calls of wrapped          *)
(* coroutines are sorted among themselves and none is newer than a         *)
(* pending listener call, so a onetime_listener that runs now puts its own *)
(* behind them rightly.                                                    *)
Late(s) == {i \in DOMAIN s : s[i].stage = "target" /\ s[i].loop}

LateInv(s) ==
  /\ \A i, j \in Late(s) : i < j => s[i].ev <= s[j].ev
  /\ \A i \in Late(s), j \in Pending(s) : s[i].ev <= s[j].ev
  /\ \A i \in DOMAIN s : s[i].stage = "target" => s[i].loop = InLoop(s[i].h)
  /\ \A i \in DOMAIN s : s[i].stage = "listener" /\ s[i].h \in Once => s[i].loop
  /\ \A w \in Once : \A k \in DOMAIN handled[w] :
       /\ InLoop(w) => \A j \in Pending(s) : handled[w][k] <= s[j].ev
       /\ Kind[Target[w]] = "coroutine" => \A i \in Late(s) : handled[w][k] <= s[i].ev

LEMMA LateWithout ==
  ASSUME NEW s \in Seq(Job), NEW i \in DOMAIN s, LateInv(s)
  PROVE  LateInv(Without(s, i))
<1> DEFINE r == Without(s, i)
           old(k) == IF k < i THEN k ELSE k + 1
<1>1. \A k \in DOMAIN r : old(k) \in DOMAIN s /\ r[k] = s[old(k)]
  BY WithoutFrom
<1>2. r \in Seq(Job) /\ i \in Nat
  BY WithoutFrom
<1>3. /\ \A k \in Pending(r) : old(k) \in Pending(s) /\ r[k] = s[old(k)]
      /\ \A k \in Late(r) : old(k) \in Late(s) /\ r[k] = s[old(k)]
      /\ \A j, k \in Late(r) : j < k => old(j) < old(k)
  BY <1>1, <1>2 DEF Pending, Late
<1> HIDE DEF r, old
<1>4. LateInv(r)
  BY <1>1, <1>3 DEF LateInv
<1> QED BY <1>4 DEF r

(* Behind the rest come the listener calls of one new event n, none older  *)
(* than anything scheduled or handled.                                     *)
LEMMA LateBehind ==
  ASSUME NEW S, NEW s \in Seq(S), NEW new \in Seq(S), NEW n \in Nat, LateInv(s),
         \A i \in Late(s) : s[i].ev <= n,
         \A w \in Once : \A k \in DOMAIN handled[w] : handled[w][k] <= n,
         \A k \in DOMAIN new :
           /\ new[k].stage # "target"
           /\ new[k].stage = "listener" => new[k].ev = n
           /\ new[k].stage = "listener" /\ new[k].h \in Once => new[k].loop
  PROVE  LateInv(s \o new)
<1> DEFINE r == s \o new
<1>1. \A k \in DOMAIN r :
        \/ k \in DOMAIN s /\ r[k] = s[k]
        \/ k - Len(s) \in DOMAIN new /\ r[k] = new[k - Len(s)]
  BY BehindFrom
<1> HIDE DEF r
<1>2. \A k \in Late(r) : k \in Late(s) /\ r[k] = s[k]
  BY <1>1 DEF Late
<1>3. \A k \in Pending(r) : (k \in Pending(s) /\ r[k] = s[k]) \/ r[k].ev = n
  BY <1>1 DEF Pending
<1>4. /\ \A k \in DOMAIN r : r[k].stage = "target" => k \in DOMAIN s /\ r[k] = s[k]
      /\ \A k \in DOMAIN r : r[k].stage = "listener" /\ r[k].h \in Once =>
           (k \in DOMAIN s /\ r[k] = s[k]) \/ r[k].loop
  BY <1>1
<1>5. LateInv(r)
  BY <1>2, <1>3, <1>4 DEF LateInv
<1> QED BY <1>5 DEF r

(* The invariant depends only on the jobs and on what was handled.         *)
LEMMA LateSame ==
  ASSUME NEW s, LateInv(s), jobs' = s, UNCHANGED handled
  PROVE  LateInv(jobs)'
<1>1. Late(jobs)' = Late(s) /\ Pending(jobs)' = Pending(s)
  BY DEF Late, Pending
<1> QED BY <1>1 DEF LateInv, InLoop

LEMMA LatePerform ==
  ASSUME TypeOK, NEW op \in Op, NEW rest \in Seq(Job), Perform(op, rest),
         LateInv(rest), UNCHANGED handled
  PROVE  LateInv(jobs)'
<1>1. CASE op.op = "fire" /\ async_fire(op.type, rest)
  <2> DEFINE to == Recipients(op.type)
             n == Len(fired) + 1
             new == [i \in 1..Len(to) |-> ListenerJob(to[i], n)]
             S == Job \cup {ListenerJob(h, n) : h \in Handles}
  <2>1. to \in Seq(Handles)
    <3>1. listeners[op.type] \in Seq(Handles) /\ listeners[MATCH_ALL] \in Seq(Handles)
      BY <1>1 DEF Keys, TypeOK, Op
    <3> QED BY <3>1, ConcatProperties DEF Recipients
  <2>2. jobs' = rest \o new
    BY <1>1 DEF async_fire
  <2>3. n \in Nat /\ Len(fired) \in Nat
    BY DEF TypeOK
  <2>4. new \in Seq(S)
    BY <2>1
  <2>5. rest \in Seq(S)
    BY SeqMonotonic
  <2>6. \A k \in DOMAIN new :
          /\ new[k].stage # "target"
          /\ new[k].stage = "listener" => new[k].ev = n
          /\ new[k].stage = "listener" /\ new[k].h \in Once => new[k].loop
    BY DEF ListenerJob
  <2>7. \A i \in Late(rest) : rest[i].ev <= n
    <3> SUFFICES ASSUME NEW i \in Late(rest) PROVE rest[i].ev <= n
      OBVIOUS
    <3>1. rest[i] \in Job /\ rest[i].stage = "target"
      BY DEF Late
    <3>2. rest[i].ev \in 1..Len(fired)
      BY <3>1 DEF Job
    <3> QED BY <2>3, <3>2
  <2>8. \A w \in Once : \A k \in DOMAIN handled[w] : handled[w][k] <= n
    BY <2>3 DEF TypeOK, Handles
  <2> HIDE DEF new, S, n
  <2>9. LateInv(rest \o new)
    BY <2>3, <2>4, <2>5, <2>6, <2>7, <2>8, LateBehind
  <2> QED BY <2>2, <2>9, LateSame
<1>2. CASE jobs' = rest
  BY <1>2, LateSame
<1> QED BY <1>1, <1>2 DEF Perform, async_listen, async_listen_once

(* A job of the loop that runs is its first, so what it is called with is  *)
(* no newer than what the later ones of its kind are.                      *)
LEMMA LateStep ==
  IInv /\ LateInv(jobs) /\ [Next]_vars => LateInv(jobs)'
<1> SUFFICES ASSUME IInv, LateInv(jobs), [Next]_vars PROVE LateInv(jobs)'
  OBVIOUS
<1>t. TypeOK /\ OnceInv(jobs) /\ OrderInv(jobs)
  BY DEF IInv
<1>0. jobs \in Seq(Job) /\ Len(jobs) \in Nat /\ DOMAIN jobs = 1..Len(jobs)
  BY <1>t DEF TypeOK
<1>1. ASSUME NEW op \in Op, LoopOp(op) PROVE LateInv(jobs)'
  BY <1>t, <1>0, <1>1, LatePerform DEF LoopOp
<1>2. ASSUME NEW op \in Op, NEW th \in Threads, ThreadCall(th, op) PROVE LateInv(jobs)'
  <2>1. jobs' = Append(jobs, CallJob(th, op)) /\ UNCHANGED handled
    BY <1>2 DEF ThreadCall
  <2> DEFINE new == <<CallJob(th, op)>>
  <2>2. CallJob(th, op) \in Job /\ CallJob(th, op).stage = "call"
    BY DEF CallJob, Job
  <2>3. new \in Seq(Job) /\ \A k \in DOMAIN new : new[k].stage = "call"
    BY <2>2
  <2>4. jobs' = jobs \o new
    BY <1>0, <2>1, <2>2, AppendIsConcat
  <2> HIDE DEF new
  <2>5. Len(fired) \in Nat /\ \A i \in Late(jobs) : jobs[i].ev <= Len(fired)
    BY <1>t, JobParts DEF Late, TypeOK
  <2>6. \A w \in Once : \A k \in DOMAIN handled[w] : handled[w][k] <= Len(fired)
    BY <1>t, <2>5 DEF TypeOK, Handles
  <2>7. LateInv(jobs \o new)
    BY <1>0, <2>3, <2>5, <2>6, LateBehind
  <2> QED BY <2>1, <2>4, <2>7, LateSame
<1>3. ASSUME NEW i \in DOMAIN jobs, RunJob(i) PROVE LateInv(jobs)'
  <2> DEFINE rest == Without(jobs, i)
             old(k) == IF k < i THEN k ELSE k + 1
  <2>1. rest \in Seq(Job) /\ LateInv(rest)
    BY <1>0, WithoutFrom, LateWithout
  <2>2. Runnable(jobs, i)
    BY <1>3 DEF RunJob
  <2>3. /\ \A k \in Pending(rest) :
             old(k) \in Pending(jobs) /\ old(k) # i /\ rest[k] = jobs[old(k)]
        /\ \A k \in Late(rest) :
             old(k) \in Late(jobs) /\ old(k) # i /\ rest[k] = jobs[old(k)]
    BY <1>0, WithoutFrom, SMTT(30) DEF Pending, Late
  <2>4. jobs[i].loop => \A j \in Pending(jobs) \cup Late(jobs) : j # i => i < j
    BY <1>0, <2>2 DEF Runnable, Pending, Late
  <2> HIDE DEF rest, old
  <2>5. ASSUME jobs[i].stage = "listener", jobs[i].loop
        PROVE  /\ \A k \in Pending(rest) : jobs[i].ev <= rest[k].ev
               /\ \A k \in Late(rest) : rest[k].ev <= jobs[i].ev
               /\ \A w \in Once : InLoop(w) => \A k \in DOMAIN handled[w] :
                    handled[w][k] <= jobs[i].ev
    <3>1. i \in Pending(jobs)
      BY <2>5 DEF Pending
    <3> QED BY <1>t, <2>3, <2>4, <2>5, <3>1 DEF OrderInv, Sorted, LateInv
  <2>6. CASE RunListener(i)
    <3>1. jobs' = rest /\ handled' = [handled EXCEPT ![jobs[i].h] = Append(@, jobs[i].ev)]
          /\ jobs[i].h \in Funcs
      BY <2>6 DEF RunListener, rest
    <3>2. \A w \in Once : handled'[w] = handled[w]
      BY <1>t, <3>1, BusConstants DEF TypeOK, Handles
    <3>3. Late(jobs)' = Late(rest) /\ Pending(jobs)' = Pending(rest)
      BY <3>1 DEF Late, Pending
    <3> QED BY <2>1, <3>1, <3>2, <3>3 DEF LateInv, InLoop
  <2>7. CASE RunOnce(i)
    <3> DEFINE w == jobs[i].h
    <3>1. /\ w \in Once /\ jobs[i].stage = "listener" /\ jobs[i].loop
          /\ jobs[i].ev \in 1..Len(fired) /\ Len(fired) \in Nat
      BY <1>t, <2>7, JobParts DEF RunOnce, LateInv, TypeOK
    <3>2. CASE jobs' = rest /\ UNCHANGED handled
      BY <2>1, <3>2, LateSame
    <3>3. CASE /\ Kind[Target[w]] = "callback" /\ w \notin run
               /\ handled' = [handled EXCEPT ![w] = Append(@, jobs[i].ev)]
               /\ jobs' = rest
      <4>1. handled[w] = <<>>
        BY <1>t, <3>1, <3>3 DEF OnceInv
      <4>2. \A v \in Once : v # w => handled'[v] = handled[v]
        BY <1>t, <3>3 DEF TypeOK, Handles
      <4>3. \A k \in DOMAIN handled'[w] : handled'[w][k] = jobs[i].ev
        BY <1>t, <3>1, <3>3, <4>1 DEF TypeOK, Handles
      <4>4. Late(jobs)' = Late(rest) /\ Pending(jobs)' = Pending(rest)
        BY <3>3 DEF Late, Pending
      <4> HIDE DEF w
      <4>6. \A v \in Once : \A k \in DOMAIN handled'[v] :
              /\ InLoop(v) => \A j \in Pending(rest) : handled'[v][k] <= rest[j].ev
              /\ Kind[Target[v]] = "coroutine" =>
                   \A j \in Late(rest) : handled'[v][k] <= rest[j].ev
        <5> SUFFICES ASSUME NEW v \in Once, NEW k \in DOMAIN handled'[v]
                     PROVE  /\ InLoop(v) => \A j \in Pending(rest) : handled'[v][k] <= rest[j].ev
                            /\ Kind[Target[v]] = "coroutine" =>
                                 \A j \in Late(rest) : handled'[v][k] <= rest[j].ev
          OBVIOUS
        <5>1. CASE v = w
          BY <2>5, <3>1, <3>3, <4>3, <5>1 DEF w
        <5>2. CASE v # w
          BY <2>1, <4>2, <5>2 DEF LateInv
        <5> QED BY <5>1, <5>2
      <4> QED BY <2>1, <3>3, <4>4, <4>6 DEF LateInv, InLoop
    <3>4. CASE /\ jobs' = Append(rest, TargetJob(w, jobs[i].ev))
               /\ UNCHANGED handled
      <4> DEFINE t == TargetJob(w, jobs[i].ev)
                 l == Len(rest) + 1
      <4>1. t \in Job /\ t.stage = "target" /\ t.h = w /\ t.ev = jobs[i].ev
            /\ t.loop = InLoop(w)
        BY <3>1, Zenon DEF TargetJob, Job, Handles, InLoop
      <4> HIDE DEF t, w
      <4>2. /\ jobs' \in Seq(Job) /\ DOMAIN jobs' = 1..l /\ l \in Nat
            /\ jobs'[l] = t
            /\ \A k \in 1..l : k # l => k \in DOMAIN rest /\ jobs'[k] = rest[k]
            /\ DOMAIN rest \subseteq 1..l /\ l \notin DOMAIN rest
        BY <2>1, <3>4, <4>1 DEF t, w
      <4>3. /\ \A k \in Pending(jobs)' : k \in Pending(rest) /\ jobs'[k] = rest[k]
            /\ \A k \in Late(jobs)' : k # l => k \in Late(rest) /\ jobs'[k] = rest[k] /\ k < l
        BY <4>1, <4>2 DEF Pending, Late
      <4>4. /\ l \in Late(jobs)' => InLoop(w)
            /\ Late(jobs)' \subseteq 1..l
        BY <4>1, <4>2 DEF Late
      <4>5. \A j, k \in Late(jobs)' : j < k => jobs'[j].ev <= jobs'[k].ev
        <5> SUFFICES ASSUME NEW j \in Late(jobs)', NEW k \in Late(jobs)', j < k
                     PROVE  jobs'[j].ev <= jobs'[k].ev
          OBVIOUS
        <5>1. j # l
          BY <4>2, <4>4
        <5>2. CASE k = l
          BY <2>5, <3>1, <4>1, <4>2, <4>3, <5>1, <5>2
        <5>3. CASE k # l
          BY <2>1, <4>3, <5>1, <5>3 DEF LateInv
        <5> QED BY <5>2, <5>3
      <4>6. \A k \in Late(jobs)', j \in Pending(jobs)' : jobs'[k].ev <= jobs'[j].ev
        BY <2>1, <2>5, <3>1, <4>1, <4>2, <4>3 DEF LateInv
      <4>7. /\ \A k \in DOMAIN jobs' : jobs'[k].stage = "target" =>
                 jobs'[k].loop = InLoop(jobs'[k].h)
            /\ \A k \in DOMAIN jobs' : jobs'[k].stage = "listener" /\ jobs'[k].h \in Once =>
                 jobs'[k].loop
        BY <2>1, <4>1, <4>2 DEF LateInv
      <4>8. \A v \in Once : \A k \in DOMAIN handled[v] :
              /\ InLoop(v) => \A j \in Pending(jobs)' : handled[v][k] <= jobs'[j].ev
              /\ Kind[Target[v]] = "coroutine" =>
                   \A j \in Late(jobs)' : handled[v][k] <= jobs'[j].ev
        <5> SUFFICES ASSUME NEW v \in Once, NEW k \in DOMAIN handled[v]
                     PROVE  /\ InLoop(v) => \A j \in Pending(jobs)' : handled[v][k] <= jobs'[j].ev
                            /\ Kind[Target[v]] = "coroutine" =>
                                 \A j \in Late(jobs)' : handled[v][k] <= jobs'[j].ev
          OBVIOUS
        <5>1. InLoop(v) => \A j \in Pending(jobs)' : handled[v][k] <= jobs'[j].ev
          BY <2>1, <4>3 DEF LateInv
        <5>2. ASSUME Kind[Target[v]] = "coroutine", NEW j \in Late(jobs)'
              PROVE  handled[v][k] <= jobs'[j].ev
          <6>1. InLoop(v)
            BY <5>2 DEF InLoop
          <6>2. CASE j = l
            BY <2>5, <3>1, <4>1, <4>2, <6>1, <6>2
          <6>3. CASE j # l
            BY <2>1, <4>3, <5>2, <6>3 DEF LateInv
          <6> QED BY <6>2, <6>3
        <5> QED BY <5>1, <5>2
      <4> QED BY <3>4, <4>5, <4>6, <4>7, <4>8 DEF LateInv, InLoop
    <3> QED BY <2>7, <3>2, <3>3, <3>4 DEF RunOnce, rest
  <2>8. CASE RunTarget(i)
    <3> DEFINE w == jobs[i].h
    <3>1. /\ jobs[i].stage = "target" /\ jobs' = rest
          /\ handled' = [handled EXCEPT ![w] = Append(@, jobs[i].ev)]
          /\ jobs[i].ev \in 1..Len(fired)
      BY <1>t, <2>8, JobParts DEF RunTarget, rest
    <3>2. w \in Once /\ i \in Targets(jobs, w) /\ handled[w] = <<>>
      BY <1>t, <3>1 DEF OnceInv, Targets
    <3>3. \A v \in Once : v # w => handled'[v] = handled[v]
      BY <1>t, <3>1 DEF TypeOK, Handles
    <3>4. \A k \in DOMAIN handled'[w] : handled'[w][k] = jobs[i].ev
      BY <1>t, <3>1, <3>2 DEF TypeOK, Handles
    <3>5. Late(jobs)' = Late(rest) /\ Pending(jobs)' = Pending(rest)
      BY <3>1 DEF Late, Pending
    <3> HIDE DEF w
    <3>6. \A v \in Once : \A k \in DOMAIN handled'[v] :
            /\ InLoop(v) => \A j \in Pending(rest) : handled'[v][k] <= rest[j].ev
            /\ Kind[Target[v]] = "coroutine" =>
                 \A j \in Late(rest) : handled'[v][k] <= rest[j].ev
      <4> SUFFICES ASSUME NEW v \in Once, NEW k \in DOMAIN handled'[v], InLoop(v)
                   PROVE  /\ \A j \in Pending(rest) : handled'[v][k] <= rest[j].ev
                          /\ Kind[Target[v]] = "coroutine" =>
                               \A j \in Late(rest) : handled'[v][k] <= rest[j].ev
        BY DEF InLoop
      <4>1. CASE v = w
        <5>1. i \in Late(jobs)
          BY <1>0, <3>1, <4>1 DEF LateInv, Late, w
        <5> QED BY <2>3, <2>4, <3>4, <4>1, <5>1 DEF LateInv, Late
      <4>2. CASE v # w
        BY <2>1, <3>3, <4>2 DEF LateInv
      <4> QED BY <4>1, <4>2
    <3> QED BY <2>1, <3>1, <3>5, <3>6 DEF LateInv, InLoop
  <2>9. CASE RunCall(i)
    <3>1. jobs[i].op \in Op /\ Perform(jobs[i].op, rest) /\ UNCHANGED handled
      BY <1>t, <2>9, JobParts DEF RunCall, rest
    <3> QED BY <1>t, <2>1, <3>1, LatePerform
  <2> QED BY <1>3, <2>6, <2>7, <2>8, <2>9 DEF RunJob
<1>4. CASE UNCHANGED vars
  <2>1. jobs' = jobs /\ UNCHANGED handled
    BY <1>4 DEF vars
  <2> QED BY <2>1, LateSame
<1> QED BY <1>1, <1>2, <1>3, <1>4 DEF Next, RunLoopJob, RunExecutorJob

(* What the loop runs sees events in the order they were fired, each       *)
(* listener and between them, but for the coroutine of a one-time          *)
(* listener, which may see its event late and keeps order only with others *)
(* of its kind.                                                            *)
THEOREM OrderCorrect == Spec => []LoopOrder
<1>1. Init => LateInv(jobs)
  BY DEF Init, LateInv, Late, Pending, Handles
<1>2. IInv /\ LateInv(jobs) => LoopOrder
  <2> SUFFICES ASSUME IInv, LateInv(jobs) PROVE LoopOrder
    OBVIOUS
  <2>1. LoopJobs("listener") = Pending(jobs) /\ LoopJobs("target") = Late(jobs)
    BY DEF LoopJobs, Pending, Late
  <2>2. ASSUME NEW w \in Once, NEW j \in DOMAIN handled[w], NEW k \in DOMAIN handled[w]
        PROVE  ~(j < k)
    BY DEF IInv, TypeOK, OnceInv, Handles
  <2>3. \A f \in Funcs : InLoop(f) =>
          /\ \A j, k \in DOMAIN handled[f] : j < k => handled[f][j] <= handled[f][k]
          /\ \A i \in Pending(jobs) : \A k \in DOMAIN handled[f] : handled[f][k] <= jobs[i].ev
    BY DEF IInv, OrderInv
  <2>4. \A w \in Once : InLoop(w) =>
          \A i \in Pending(jobs) : \A k \in DOMAIN handled[w] : handled[w][k] <= jobs[i].ev
    BY DEF LateInv
  <2> QED BY <2>1, <2>2, <2>3, <2>4 DEF LoopOrder, LateInv, Handles
<1> QED BY <1>1, <1>2, LateStep, InvInvariant, PTL DEF Spec

-----------------------------------------------------------------------------
(* Delivery.  What has been handled and what is still scheduled of event n *)
(* for f is what was owed when it fired; stated of a sequence, again.      *)

AnyJob == [stage : {"listener", "target"}, h : Handles, ev : Nat, loop : BOOLEAN]
Deliver(f, n) == {j \in AnyJob : j.stage = "listener" /\ j.h = f /\ j.ev = n}

DeliveryInv(s) ==
  \A n \in DOMAIN fired, f \in Funcs :
    HowMany(handled[f], {n}) + HowMany(s, Deliver(f, n)) = Owed(n, f)

LEMMA DeliverIs ==
  ASSUME TypeOK, NEW j \in Job, NEW f, NEW n
  PROVE  j \in Deliver(f, n) <=> j.stage = "listener" /\ j.h = f /\ j.ev = n
<1>1. Len(fired) \in Nat
  BY DEF TypeOK
<1>2. ASSUME j.stage = "listener" PROVE j \in AnyJob
  <2>1. j \in [stage : {"listener", "target"}, h : Handles, ev : 1..Len(fired), loop : BOOLEAN]
    BY <1>2 DEF Job
  <2>2. 1..Len(fired) \subseteq Nat
    BY <1>1
  <2> QED BY <2>1, <2>2, Zenon DEF AnyJob
<1> QED BY <1>2 DEF Deliver

LEMMA CountIs == ASSUME NEW s, NEW h PROVE Count(s, h) = HowMany(s, {h})
<1>1. {i \in DOMAIN s : s[i] = h} = Where(s, {h})
  BY DEF Where
<1> QED BY <1>1 DEF Count, HowMany

LEMMA DeliveryIs == TypeOK => (DeliveryInv(jobs) <=> ExactDelivery)
<1> SUFFICES ASSUME TypeOK, NEW n, NEW f
             PROVE  {i \in DOMAIN jobs : /\ jobs[i].stage = "listener"
                                         /\ jobs[i].h = f /\ jobs[i].ev = n}
                      = Where(jobs, Deliver(f, n))
  BY CountIs DEF DeliveryInv, ExactDelivery, HowMany
<1>1. \A i \in DOMAIN jobs : jobs[i] \in Job
  BY DEF TypeOK
<1>2. \A i \in DOMAIN jobs : jobs[i] \in Deliver(f, n)
                               <=> jobs[i].stage = "listener" /\ jobs[i].h = f /\ jobs[i].ev = n
  BY <1>1, DeliverIs
<1> QED BY <1>2 DEF Where

(* A new event is owed to the listeners it was given jobs for, and to each *)
(* as often as it was registered; nobody has heard of it yet.              *)
LEMMA FireDelivers ==
  ASSUME TypeOK, NEW t \in EventTypes, NEW rest \in Seq(Job), async_fire(t, rest),
         DeliveryInv(rest), UNCHANGED handled
  PROVE  DeliveryInv(jobs)'
<1>z. PICK z : z = Len(fired) + 1
  OBVIOUS
<1> DEFINE to == Recipients(t)
           new == [i \in 1..Len(to) |-> ListenerJob(to[i], z)]
<1>1. /\ fired' = Append(fired, [type |-> t, heard |-> listeners])
      /\ jobs' = rest \o new /\ UNCHANGED listeners
  BY <1>z DEF async_fire
<1>2. /\ listeners[t] \in Seq(Handles) /\ listeners[MATCH_ALL] \in Seq(Handles)
      /\ fired \in Seq([type : EventTypes, heard : [Keys -> Seq(Handles)]]) /\ Len(fired) \in Nat
  BY DEF TypeOK, Keys
<1>3. to \in Seq(Handles) /\ Len(to) \in Nat /\ DOMAIN to = 1..Len(to)
  <2>1. to \in Seq(Handles)
    BY <1>2, ConcatProperties, Zenon DEF Recipients
  <2> QED BY <2>1
<1>4. /\ z \in Nat /\ DOMAIN fired' = 1..z /\ DOMAIN fired = 1..Len(fired) /\ z > Len(fired)
      /\ fired'[z] = [type |-> t, heard |-> listeners]
      /\ \A n \in DOMAIN fired : n \in Nat /\ n < z /\ fired'[n] = fired[n]
      /\ \A n \in DOMAIN fired' : n = z \/ n \in DOMAIN fired
  BY <1>z, <1>1, <1>2
<1>5. \A i \in 1..Len(to) : to[i] \in Handles /\ ListenerJob(to[i], z) \in AnyJob
  BY <1>3, <1>4 DEF ListenerJob, AnyJob
<1>6. new \in Seq(AnyJob) /\ DOMAIN new = 1..Len(to)
  BY <1>3, <1>5
<1>7. \A f, n : \A i \in 1..Len(to) : new[i] \in Deliver(f, n) <=> to[i] \in {f} /\ n = z
  BY <1>5 DEF ListenerJob, Deliver
<1> DEFINE Mixed == AnyJob \cup Job
<1>8. rest \in Seq(Mixed) /\ new \in Seq(Mixed)
  <2>1. AnyJob \subseteq Mixed /\ Job \subseteq Mixed
    OBVIOUS
  <2> HIDE DEF Mixed, new
  <2> QED BY <1>6, <2>1, SeqMonotonic
<1> HIDE DEF to, new, Mixed
<1>9. \A f, n : HowMany(jobs', Deliver(f, n))
                  = HowMany(rest, Deliver(f, n)) + HowMany(new, Deliver(f, n))
  BY <1>1, <1>8, CountConcat, Zenon
<1>10. ASSUME NEW f \in Funcs, NEW n \in DOMAIN fired
       PROVE  HowMany(handled'[f], {n}) + HowMany(jobs', Deliver(f, n)) = Owed(n, f)'
  <2>1. HowMany(new, Deliver(f, n)) = 0
    <3>1. \A i \in DOMAIN new : new[i] \notin Deliver(f, n)
      BY <1>4, <1>6, <1>7
    <3> QED BY <1>6, <3>1, CountType
  <2>2. Owed(n, f)' = Owed(n, f)
    BY <1>4 DEF Owed
  <2>3. HowMany(rest, Deliver(f, n)) \in Nat /\ HowMany(jobs', Deliver(f, n)) = HowMany(rest, Deliver(f, n))
    BY <1>8, <1>9, <2>1, CountType
  <2>4. HowMany(handled[f], {n}) + HowMany(rest, Deliver(f, n)) = Owed(n, f)
    BY DEF DeliveryInv
  <2> QED BY <2>2, <2>3, <2>4
<1>11. ASSUME NEW f \in Funcs
       PROVE  HowMany(handled'[f], {z}) + HowMany(jobs', Deliver(f, z)) = Owed(z, f)'
  <2>1. HowMany(handled'[f], {z}) = 0
    <3>1. handled[f] \in Seq(1..Len(fired))
      BY DEF TypeOK, Handles
    <3>2. \A i \in DOMAIN handled[f] : handled[f][i] \notin {z}
      BY <1>2, <1>4, <3>1
    <3> QED BY <3>1, <3>2, CountType
  <2>2. HowMany(rest, Deliver(f, z)) = 0
    <3>1. \A i \in DOMAIN rest : rest[i] \in Job
      OBVIOUS
    <3>2. \A j \in Job : j.stage = "listener" => j.ev \in 1..Len(fired)
      BY DEF Job
    <3>3. \A i \in DOMAIN rest : rest[i] \notin Deliver(f, z)
      BY <1>2, <1>4, <3>1, <3>2 DEF Deliver
    <3> QED BY <3>3, CountType
  <2>3. HowMany(new, Deliver(f, z)) = HowMany(to, {f})
    BY <1>3, <1>6, <1>7, CountSame
  <2>4. HowMany(to, {f}) = HowMany(listeners[t], {f}) +
                             IF t = CLOSE THEN 0 ELSE HowMany(listeners[MATCH_ALL], {f})
    <3>1. HowMany(listeners[t], {f}) \in Nat /\ HowMany(listeners[MATCH_ALL], {f}) \in Nat
      BY <1>2, CountType
    <3>2. HowMany(listeners[MATCH_ALL] \o listeners[t], {f})
            = HowMany(listeners[MATCH_ALL], {f}) + HowMany(listeners[t], {f})
      BY <1>2, CountConcat
    <3>3. CASE t = CLOSE
      BY <3>1, <3>3 DEF to, Recipients
    <3>4. CASE t # CLOSE
      <4>1. to = listeners[MATCH_ALL] \o listeners[t]
        BY <3>4 DEF to, Recipients
      <4> QED BY <3>1, <3>2, <3>4, <4>1
    <3> QED BY <3>3, <3>4
  <2>5. Owed(z, f)' = HowMany(listeners[t], {f}) +
                        IF t = CLOSE THEN 0 ELSE HowMany(listeners[MATCH_ALL], {f})
    <3>1. fired'[z].type = t /\ fired'[z].heard = listeners
      BY <1>4
    <3> QED BY <3>1, CountIs DEF Owed
  <2>6. HowMany(to, {f}) \in Nat
    BY <1>3, CountType
  <2> QED BY <1>9, <2>1, <2>2, <2>3, <2>4, <2>5, <2>6
<1> QED BY <1>4, <1>10, <1>11 DEF DeliveryInv

(* The other operations schedule nothing and fire nothing.                 *)
LEMMA PerformDelivers ==
  ASSUME TypeOK, NEW op \in Op, NEW rest \in Seq(Job), Perform(op, rest),
         DeliveryInv(rest), UNCHANGED handled
  PROVE  DeliveryInv(jobs)'
<1>1. CASE op.op = "fire" /\ async_fire(op.type, rest)
  <2>1. op.type \in EventTypes
    BY <1>1 DEF Op
  <2> QED BY <1>1, <2>1, FireDelivers, Zenon
<1>2. CASE jobs' = rest /\ fired' = fired
  BY <1>2 DEF DeliveryInv, Owed
<1> QED BY <1>1, <1>2 DEF Perform, async_listen, async_listen_once

(* Every step keeps the account.                                           *)
LEMMA DeliveryStep ==
  IInv /\ DeliveryInv(jobs) /\ [Next]_vars => DeliveryInv(jobs)'
<1> SUFFICES ASSUME IInv, DeliveryInv(jobs), [Next]_vars PROVE DeliveryInv(jobs)'
  OBVIOUS
<1>t. TypeOK /\ OnceInv(jobs)
  BY DEF IInv
<1>0. jobs \in Seq(Job)
  BY <1>t DEF TypeOK
<1>1. ASSUME NEW op \in Op, LoopOp(op) PROVE DeliveryInv(jobs)'
  <2>1. Perform(op, jobs) /\ UNCHANGED handled
    BY <1>1 DEF LoopOp
  <2> QED BY <1>t, <1>0, <2>1, PerformDelivers, Zenon
<1>2. ASSUME NEW op \in Op, NEW th \in Threads, ThreadCall(th, op)
      PROVE  DeliveryInv(jobs)'
  <2> DEFINE j == CallJob(th, op)
  <2>1. jobs' = Append(jobs, j) /\ UNCHANGED <<fired, handled>>
    BY <1>2 DEF ThreadCall
  <2>2. j \in Job /\ \A f, n : j \notin Deliver(f, n)
    BY DEF CallJob, Job, Deliver
  <2> HIDE DEF j
  <2>3. \A f, n : HowMany(jobs', Deliver(f, n)) = HowMany(jobs, Deliver(f, n))
    <3> SUFFICES ASSUME NEW f, NEW n
                 PROVE  HowMany(jobs', Deliver(f, n)) = HowMany(jobs, Deliver(f, n))
      OBVIOUS
    <3>1. HowMany(jobs', Deliver(f, n))
            = HowMany(jobs, Deliver(f, n)) + IF j \in Deliver(f, n) THEN 1 ELSE 0
      BY <1>0, <2>1, <2>2, CountAppend
    <3>2. HowMany(jobs, Deliver(f, n)) \in Nat
      BY <1>0, CountType
    <3> QED BY <2>2, <3>1, <3>2
  <2> QED BY <2>1, <2>3 DEF DeliveryInv, Owed
<1>3. ASSUME NEW i \in DOMAIN jobs, RunJob(i) PROVE DeliveryInv(jobs)'
  <2> DEFINE rest == Without(jobs, i)
             this == jobs[i]
  <2>1. rest \in Seq(Job) /\ this \in Job
    BY <1>t, <1>0, WithoutFrom, JobParts
  <2>2. \A f, n : /\ HowMany(rest, Deliver(f, n)) \in Nat
                  /\ HowMany(jobs, Deliver(f, n)) =
                       HowMany(rest, Deliver(f, n)) + IF this \in Deliver(f, n) THEN 1 ELSE 0
    <3> SUFFICES ASSUME NEW f, NEW n
                 PROVE  /\ HowMany(rest, Deliver(f, n)) \in Nat
                        /\ HowMany(jobs, Deliver(f, n)) =
                             HowMany(rest, Deliver(f, n)) + IF this \in Deliver(f, n) THEN 1 ELSE 0
      OBVIOUS
    <3>1. HowMany(rest, Deliver(f, n))
            = HowMany(jobs, Deliver(f, n)) - IF this \in Deliver(f, n) THEN 1 ELSE 0
      BY <1>0, CountRemoveAt DEF Without
    <3>2. HowMany(jobs, Deliver(f, n)) \in Nat /\ HowMany(rest, Deliver(f, n)) \in Nat
      BY <1>0, <2>1, CountType
    <3> QED BY <3>1, <3>2
  <2>3. \A f, n : this \in Deliver(f, n)
                    <=> this.stage = "listener" /\ this.h = f /\ this.ev = n
    BY <1>t, <2>1, DeliverIs
  <2>4. CASE RunListener(i)
    <3>1. /\ this.stage = "listener" /\ this.h \in Funcs
          /\ jobs' = rest
          /\ handled' = [handled EXCEPT ![this.h] = Append(@, this.ev)]
          /\ UNCHANGED fired
      BY <2>4 DEF RunListener
    <3>2. this.ev \in 1..Len(fired)
      BY <1>t, <3>1, JobParts
    <3> HIDE DEF rest, this
    <3>3. ASSUME NEW f \in Funcs, NEW n \in DOMAIN fired
          PROVE  HowMany(handled'[f], {n}) + HowMany(jobs', Deliver(f, n)) = Owed(n, f)
      <4>1. handled[f] \in Seq(1..Len(fired)) /\ f \in DOMAIN handled
        BY <1>t DEF TypeOK, Handles
      <4>2. /\ HowMany(handled[f], {n}) \in Nat
            /\ HowMany(handled[f], {n}) + HowMany(jobs, Deliver(f, n)) = Owed(n, f)
        BY <4>1, CountType DEF DeliveryInv
      <4>3. CASE this.h # f
        <5>1. handled'[f] = handled[f]
          BY <3>1, <4>1, <4>3
        <5>2. this \notin Deliver(f, n)
          BY <2>3, <4>3
        <5> QED BY <2>2, <3>1, <4>2, <5>1, <5>2
      <4>4. CASE this.h = f
        <5>1. handled'[f] = Append(handled[f], this.ev)
          BY <3>1, <4>1, <4>4
        <5>2. HowMany(handled'[f], {n})
                = HowMany(handled[f], {n}) + IF this.ev \in {n} THEN 1 ELSE 0
          BY <3>2, <4>1, <5>1, CountAppend
        <5>3. this \in Deliver(f, n) <=> this.ev \in {n}
          BY <2>3, <3>1, <4>4
        <5> QED BY <2>2, <3>1, <4>2, <5>2, <5>3
      <4> QED BY <4>3, <4>4
    <3>4. \A n, f : Owed(n, f)' = Owed(n, f)
      BY <3>1 DEF Owed
    <3> QED BY <3>1, <3>3, <3>4 DEF DeliveryInv
  <2>5. ASSUME \A f \in Funcs : handled'[f] = handled[f] /\ this.h # f, fired' = fired,
               \A f, n : HowMany(jobs', Deliver(f, n)) = HowMany(rest, Deliver(f, n))
        PROVE  DeliveryInv(jobs)'
    <3> HIDE DEF rest, this
    <3>1. \A f \in Funcs : \A n : HowMany(jobs', Deliver(f, n)) = HowMany(jobs, Deliver(f, n))
      BY <2>2, <2>3, <2>5
    <3> QED BY <2>5, <3>1 DEF DeliveryInv, Owed
  <2>6. CASE RunOnce(i)
    <3>1. /\ this.h \in Once /\ UNCHANGED fired
          /\ this.ev \in 1..Len(fired)
      BY <1>t, <2>6, JobParts DEF RunOnce
    <3> DEFINE new == TargetJob(this.h, this.ev)
    <3>2. /\ \/ handled' = handled
             \/ handled' = [handled EXCEPT ![this.h] = Append(@, this.ev)]
          /\ jobs' = rest \/ jobs' = Append(rest, new)
      BY <2>6 DEF RunOnce
    <3>3. new \in Job /\ \A f, n : new \notin Deliver(f, n)
      <4>1. new \in Job
        BY <3>1, Zenon DEF TargetJob, Job, Handles
      <4> QED BY <4>1 DEF TargetJob, Deliver
    <3> HIDE DEF rest, new, this
    <3>4. \A f \in Funcs : handled'[f] = handled[f] /\ this.h # f
      BY <1>t, <3>1, <3>2, BusConstants DEF TypeOK, Handles
    <3>5. \A f, n : HowMany(Append(rest, new), Deliver(f, n)) = HowMany(rest, Deliver(f, n))
      <4> SUFFICES ASSUME NEW f, NEW n
                   PROVE  HowMany(Append(rest, new), Deliver(f, n)) = HowMany(rest, Deliver(f, n))
        OBVIOUS
      <4>1. HowMany(Append(rest, new), Deliver(f, n))
              = HowMany(rest, Deliver(f, n)) + IF new \in Deliver(f, n) THEN 1 ELSE 0
        BY <2>1, <3>3, CountAppend
      <4> QED BY <2>2, <3>3, <4>1
    <3>6. \A f, n : HowMany(jobs', Deliver(f, n)) = HowMany(rest, Deliver(f, n))
      BY <3>2, <3>5
    <3> QED BY <2>5, <3>1, <3>4, <3>6
  <2>7. CASE RunTarget(i)
    <3>1. /\ this.h \in Once /\ UNCHANGED fired /\ jobs' = rest
          /\ handled' = [handled EXCEPT ![this.h] = Append(@, this.ev)]
      BY <1>t, <2>7 DEF RunTarget, OnceInv
    <3> HIDE DEF rest, this
    <3>2. \A f \in Funcs : handled'[f] = handled[f] /\ this.h # f
      BY <1>t, <3>1, BusConstants DEF TypeOK, Handles
    <3> QED BY <2>5, <3>1, <3>2
  <2>8. CASE RunCall(i)
    <3>1. /\ this.stage = "call" /\ this.op \in Op
          /\ Perform(this.op, rest)
          /\ UNCHANGED handled
      BY <1>t, <2>8, JobParts DEF RunCall
    <3>2. DeliveryInv(rest)
      <4> HIDE DEF rest, this
      <4>1. \A f, n : this \notin Deliver(f, n)
        BY <2>3, <3>1
      <4>2. \A f, n : HowMany(rest, Deliver(f, n)) = HowMany(jobs, Deliver(f, n))
        BY <2>2, <4>1
      <4> QED BY <4>2 DEF DeliveryInv
    <3> HIDE DEF rest, this
    <3> QED BY <1>t, <2>1, <3>1, <3>2, PerformDelivers, Zenon
  <2> QED BY <1>3, <2>4, <2>6, <2>7, <2>8 DEF RunJob
<1>4. CASE UNCHANGED vars
  BY <1>4 DEF vars, DeliveryInv, Owed
<1> QED BY <1>1, <1>2, <1>3, <1>4 DEF Next, RunLoopJob, RunExecutorJob

(* Every registration present when an event fires gets it exactly once,    *)
(* whatever is registered or removed while the jobs are on their way.      *)
THEOREM DeliveryCorrect == Spec => []ExactDelivery
<1>1. Init => DeliveryInv(jobs)
  BY DEF Init, DeliveryInv
<1>2. IInv /\ DeliveryInv(jobs) => ExactDelivery
  BY DeliveryIs DEF IInv
<1> QED BY <1>1, <1>2, DeliveryStep, InvInvariant, PTL DEF Spec

-----------------------------------------------------------------------------
(* The first event.  As long as a one-time listener has not run, each of   *)
(* the events it was registered for is still on its way to it; the loop    *)
(* takes the oldest first.  R is the set of those that have run.           *)
FirstInv(s, R) ==
  /\ \A i \in DOMAIN s : s[i].stage = "listener" /\ s[i].h \in Once => s[i].loop
  /\ \A w \in Once, n \in DOMAIN fired : Owed(n, w) > 0 =>
       /\ w \notin R => \E i \in Pending(s) : s[i].h = w /\ s[i].ev = n
       /\ \A i \in Targets(s, w) : s[i].ev <= n
       /\ handled[w] # <<>> => handled[w][1] <= n

(* Every other job is still there after job i has been taken out.          *)
LEMMA WithoutKeeps ==
  ASSUME NEW s \in Seq(Job), NEW i \in DOMAIN s, NEW j \in DOMAIN s, j # i
  PROVE  \E k \in DOMAIN Without(s, i) : Without(s, i)[k] = s[j]
<1> DEFINE k == IF j < i THEN j ELSE j - 1
<1>1. i \in 1..Len(s) /\ j \in 1..Len(s) /\ Len(s) \in Nat
  OBVIOUS
<1>2. /\ Without(s, i) \in Seq(Job)
      /\ Len(Without(s, i)) = Len(s) - 1
      /\ \A m \in 1..(Len(s) - 1) :
           Without(s, i)[m] = IF m < i THEN s[m] ELSE s[m + 1]
  BY <1>1, RemoveAtProperties DEF Without
<1>3. k \in 1..(Len(s) - 1) /\ (IF k < i THEN s[k] ELSE s[k + 1]) = s[j]
  BY <1>1
<1>4. k \in DOMAIN Without(s, i) /\ Without(s, i)[k] = s[j]
  <2> HIDE DEF k
  <2> QED BY <1>2, <1>3
<1> QED BY <1>4

(* Taking out a job that no listener still waits for keeps the facts; so   *)
(* does scheduling jobs that are not calls of a wrapped listener.          *)
LEMMA FirstWithout ==
  ASSUME NEW s \in Seq(Job), NEW i \in DOMAIN s, NEW R, FirstInv(s, R),
         s[i].stage = "listener" /\ s[i].h \in Once => s[i].h \in R
  PROVE  FirstInv(Without(s, i), R)
<1> DEFINE r == Without(s, i)
<1>1. \A k \in DOMAIN r : \E j \in DOMAIN s : r[k] = s[j]
  BY WithoutFrom
<1>2. \A j \in DOMAIN s : j # i => \E k \in DOMAIN r : r[k] = s[j]
  BY WithoutKeeps
<1> HIDE DEF r
<1>3. ASSUME NEW w \in Once, NEW n \in DOMAIN fired, Owed(n, w) > 0
      PROVE  /\ w \notin R => \E k \in Pending(r) : r[k].h = w /\ r[k].ev = n
             /\ \A k \in Targets(r, w) : r[k].ev <= n
             /\ handled[w] # <<>> => handled[w][1] <= n
  <2>1. ASSUME w \notin R PROVE \E k \in Pending(r) : r[k].h = w /\ r[k].ev = n
    <3>1. PICK j \in Pending(s) : s[j].h = w /\ s[j].ev = n
      BY <1>3, <2>1 DEF FirstInv
    <3>2. j # i /\ j \in DOMAIN s
      BY <2>1, <3>1 DEF Pending
    <3>3. PICK k \in DOMAIN r : r[k] = s[j]
      BY <1>2, <3>2
    <3> QED BY <3>1, <3>3 DEF Pending
  <2>2. ASSUME NEW k \in Targets(r, w) PROVE r[k].ev <= n
    <3>1. PICK j \in DOMAIN s : r[k] = s[j]
      BY <1>1 DEF Targets
    <3>2. j \in Targets(s, w)
      BY <3>1 DEF Targets
    <3> QED BY <1>3, <3>1, <3>2 DEF FirstInv
  <2> QED BY <1>3, <2>1, <2>2 DEF FirstInv
<1>4. ASSUME NEW k \in DOMAIN r, r[k].stage = "listener", r[k].h \in Once PROVE r[k].loop
  <2>1. PICK j \in DOMAIN s : r[k] = s[j]
    BY <1>1
  <2> QED BY <1>4, <2>1, Zenon DEF FirstInv
<1>5. FirstInv(r, R)
  BY <1>3, <1>4, Zenon DEF FirstInv
<1> QED BY <1>5 DEF r

LEMMA FirstBehind ==
  ASSUME NEW S, NEW s \in Seq(S), NEW new \in Seq(S), NEW R, FirstInv(s, R),
         \A k \in DOMAIN new :
           new[k].stage # "target" /\ (new[k].stage = "listener" /\ new[k].h \in Once => new[k].loop)
  PROVE  FirstInv(s \o new, R)
<1> DEFINE r == s \o new
<1>1. \A k \in DOMAIN r :
        (k \in DOMAIN s /\ r[k] = s[k]) \/ \E m \in DOMAIN new : r[k] = new[m]
  BY BehindFrom, Zenon
<1>2. \A k \in DOMAIN s : k \in DOMAIN r /\ r[k] = s[k]
  <2>1. /\ Len(r) = Len(s) + Len(new) /\ r \in Seq(S)
        /\ \A k \in 1..(Len(s) + Len(new)) :
             r[k] = IF k <= Len(s) THEN s[k] ELSE new[k - Len(s)]
    BY ConcatProperties, Zenon
  <2>2. Len(s) \in Nat /\ Len(new) \in Nat /\ DOMAIN s = 1..Len(s) /\ DOMAIN r = 1..Len(r)
    BY <2>1
  <2> HIDE DEF r
  <2> QED BY <2>1, <2>2
<1> HIDE DEF r
<1>3. \A w : Targets(r, w) \subseteq Targets(s, w) /\ \A k \in Targets(r, w) : r[k] = s[k]
  BY <1>1 DEF Targets
<1>4. \A k \in Pending(s) : k \in Pending(r) /\ r[k] = s[k]
  BY <1>2 DEF Pending
<1>5. \A k \in DOMAIN r : r[k].stage = "listener" /\ r[k].h \in Once => r[k].loop
  BY <1>1 DEF FirstInv
<1>6. FirstInv(r, R)
  BY <1>3, <1>4, <1>5 DEF FirstInv
<1> QED BY <1>6 DEF r

(* A new event reaches the one-time listeners registered for it, and is    *)
(* newer than whatever has been passed on.                                 *)
LEMMA FireFirst ==
  ASSUME TypeOK, NEW t \in EventTypes, NEW rest \in Seq(Job), async_fire(t, rest),
         FirstInv(rest, run), UNCHANGED <<run, handled>>
  PROVE  FirstInv(jobs, run)'
<1>z. PICK z : z = Len(fired) + 1
  OBVIOUS
<1> DEFINE to == Recipients(t)
           new == [i \in 1..Len(to) |-> ListenerJob(to[i], z)]
<1>1. /\ fired' = Append(fired, [type |-> t, heard |-> listeners])
      /\ jobs' = rest \o new /\ UNCHANGED listeners
  BY <1>z DEF async_fire
<1>2. /\ listeners[t] \in Seq(Handles) /\ listeners[MATCH_ALL] \in Seq(Handles)
      /\ fired \in Seq([type : EventTypes, heard : [Keys -> Seq(Handles)]]) /\ Len(fired) \in Nat
  BY DEF TypeOK, Keys
<1>3. to \in Seq(Handles) /\ Len(to) \in Nat /\ DOMAIN to = 1..Len(to)
  <2>1. to \in Seq(Handles)
    BY <1>2, ConcatProperties, Zenon DEF Recipients
  <2> QED BY <2>1
<1>4. /\ z \in Nat /\ DOMAIN fired' = 1..z /\ DOMAIN fired = 1..Len(fired) /\ z > Len(fired)
      /\ fired'[z] = [type |-> t, heard |-> listeners]
      /\ \A n \in DOMAIN fired : n \in Nat /\ n < z /\ fired'[n] = fired[n]
      /\ \A n \in DOMAIN fired' : n = z \/ n \in DOMAIN fired
  BY <1>z, <1>1, <1>2
<1>5. \A i \in 1..Len(to) : to[i] \in Handles /\ ListenerJob(to[i], z) \in AnyJob
  BY <1>3, <1>4 DEF ListenerJob, AnyJob
<1>6. /\ new \in Seq(AnyJob) /\ DOMAIN new = 1..Len(to) /\ Len(new) = Len(to)
      /\ \A i \in 1..Len(to) :
           /\ new[i].stage = "listener" /\ new[i].h = to[i] /\ new[i].ev = z
           /\ to[i] \in Once => new[i].loop
  <2>1. \A i \in 1..Len(to) : new[i] = ListenerJob(to[i], z)
    OBVIOUS
  <2>2. new \in Seq(AnyJob) /\ DOMAIN new = 1..Len(to) /\ Len(new) = Len(to)
    BY <1>3, <1>5
  <2> HIDE DEF new, to
  <2>3. \A h : /\ ListenerJob(h, z).stage = "listener" /\ ListenerJob(h, z).h = h
               /\ ListenerJob(h, z).ev = z
    BY DEF ListenerJob
  <2>4. \A h \in Once : ListenerJob(h, z).loop
    BY Zenon DEF ListenerJob
  <2> QED BY <2>1, <2>2, <2>3, <2>4, ZenonT(60)
<1> DEFINE Mixed == AnyJob \cup Job
<1>7. rest \in Seq(Mixed) /\ new \in Seq(Mixed)
  <2>1. AnyJob \subseteq Mixed /\ Job \subseteq Mixed
    OBVIOUS
  <2> HIDE DEF Mixed, new
  <2> QED BY <1>6, <2>1, SeqMonotonic
<1> HIDE DEF to, new, Mixed
<1>8. FirstInv(rest \o new, run)
  BY <1>6, <1>7, FirstBehind
<1>9. \A w : Targets(jobs', w) \subseteq Targets(rest, w)
               /\ \A k \in Targets(jobs', w) : jobs'[k] = rest[k]
  <2>1. \A k \in DOMAIN jobs' : \/ k \in DOMAIN rest /\ jobs'[k] = rest[k]
                                \/ \E m \in DOMAIN new : jobs'[k] = new[m]
    BY <1>1, <1>7, BehindFrom
  <2> QED BY <1>6, <2>1 DEF Targets
<1>10. ASSUME NEW w \in Once, Owed(z, w)' > 0
       PROVE  /\ \E i \in Pending(jobs') : jobs'[i].h = w /\ jobs'[i].ev = z
              /\ \A i \in Targets(jobs', w) : jobs'[i].ev <= z
              /\ handled'[w] # <<>> => handled'[w][1] <= z
  <2>1. \E m \in DOMAIN to : to[m] = w
    <3>1. Owed(z, w)' = HowMany(listeners[t], {w}) +
                          IF t = CLOSE THEN 0 ELSE HowMany(listeners[MATCH_ALL], {w})
      <4>1. fired'[z].type = t /\ fired'[z].heard = listeners
        BY <1>4
      <4> QED BY <4>1, CountIs DEF Owed
    <3>2. HowMany(listeners[t], {w}) \in Nat /\ HowMany(listeners[MATCH_ALL], {w}) \in Nat
      BY <1>2, CountType
    <3>3. HowMany(listeners[MATCH_ALL] \o listeners[t], {w})
            = HowMany(listeners[MATCH_ALL], {w}) + HowMany(listeners[t], {w})
      BY <1>2, CountConcat
    <3>4. HowMany(to, {w}) # 0
      <4>1. CASE t = CLOSE
        BY <1>10, <3>1, <3>2, <4>1 DEF to, Recipients
      <4>2. CASE t # CLOSE
        <5>1. to = listeners[MATCH_ALL] \o listeners[t]
          BY <4>2 DEF to, Recipients
        <5> QED BY <1>10, <3>1, <3>2, <3>3, <4>2, <5>1
      <4> QED BY <4>1, <4>2
    <3>5. ~ \A m \in DOMAIN to : to[m] \notin {w}
      BY <1>3, <3>4, CountType
    <3> QED BY <3>5
  <2>2. PICK m \in DOMAIN to : to[m] = w
    BY <2>1
  <2> DEFINE k == Len(rest) + m
  <2>3. k \in DOMAIN jobs' /\ jobs'[k] = new[m]
    <3>1. /\ Len(rest \o new) = Len(rest) + Len(new) /\ rest \o new \in Seq(Mixed)
          /\ \A i \in 1..(Len(rest) + Len(new)) :
               (rest \o new)[i] = IF i <= Len(rest) THEN rest[i] ELSE new[i - Len(rest)]
      BY <1>7, ConcatProperties, Zenon
    <3>2. Len(rest) \in Nat /\ m \in 1..Len(to) /\ DOMAIN jobs' = 1..Len(jobs')
      BY <1>1, <1>3, <3>1
    <3>3. k \in 1..(Len(rest) + Len(new)) /\ ~(k <= Len(rest)) /\ k - Len(rest) = m
      BY <1>3, <1>6, <3>2
    <3> QED BY <1>1, <3>1, <3>2, <3>3
  <2>4. k \in Pending(jobs') /\ jobs'[k].h = w /\ jobs'[k].ev = z
    <3>1. new[m].stage = "listener" /\ new[m].loop /\ new[m].h = w /\ new[m].ev = z
      BY <1>3, <1>6, <2>2
    <3> HIDE DEF k
    <3> QED BY <2>3, <3>1 DEF Pending
  <2>5. ASSUME NEW i \in Targets(jobs', w) PROVE jobs'[i].ev <= z
    <3>1. i \in DOMAIN rest /\ rest[i].stage = "target" /\ jobs'[i] = rest[i]
      BY <1>9 DEF Targets
    <3>2. rest[i] \in Job
      BY <3>1
    <3>3. rest[i].ev \in 1..Len(fired)
      BY <3>1, <3>2 DEF Job
    <3> QED BY <1>2, <1>4, <3>1, <3>3
  <2>6. handled'[w] # <<>> => handled'[w][1] <= z
    <3>1. handled[w] \in Seq(1..Len(fired)) /\ handled' = handled
      BY DEF TypeOK, Handles
    <3> QED BY <1>2, <1>4, <3>1
  <2> HIDE DEF k
  <2> QED BY <2>4, <2>5, <2>6
<1>11. ASSUME NEW w \in Once, NEW n \in DOMAIN fired', Owed(n, w)' > 0
       PROVE  /\ w \notin run' => \E i \in Pending(jobs') : jobs'[i].h = w /\ jobs'[i].ev = n
              /\ \A i \in Targets(jobs', w) : jobs'[i].ev <= n
              /\ handled'[w] # <<>> => handled'[w][1] <= n
  <2>1. CASE n = z
    <3>1. Owed(z, w)' > 0
      BY <1>11, <2>1
    <3> QED BY <1>10, <2>1, <3>1
  <2>2. CASE n \in DOMAIN fired
    <3>1. Owed(n, w) > 0
      BY <1>4, <1>11, <2>2 DEF Owed
    <3>2. FirstInv(jobs', run)
      BY <1>1, <1>8
    <3> QED BY <2>2, <3>1, <3>2 DEF FirstInv
  <2> QED BY <1>4, <2>1, <2>2
<1> QED BY <1>1, <1>8, <1>11 DEF FirstInv, Pending, Targets

LEMMA PerformFirst ==
  ASSUME TypeOK, NEW op \in Op, NEW rest \in Seq(Job), Perform(op, rest),
         FirstInv(rest, run), UNCHANGED <<run, handled>>
  PROVE  FirstInv(jobs, run)'
<1>1. CASE op.op = "fire" /\ async_fire(op.type, rest)
  <2>1. op.type \in EventTypes
    BY <1>1 DEF Op
  <2> QED BY <1>1, <2>1, FireFirst, Zenon
<1>2. CASE jobs' = rest /\ fired' = fired
  BY <1>2 DEF FirstInv, Owed, Pending, Targets
<1> QED BY <1>1, <1>2 DEF Perform, async_listen, async_listen_once

(* Every step keeps it: the loop's first job is its oldest listener call.  *)
LEMMA FirstStep ==
  IInv /\ FirstInv(jobs, run) /\ [Next]_vars => FirstInv(jobs, run)'
<1> SUFFICES ASSUME IInv, FirstInv(jobs, run), [Next]_vars PROVE FirstInv(jobs, run)'
  OBVIOUS
<1>t. TypeOK /\ OnceInv(jobs) /\ OrderInv(jobs)
  BY DEF IInv
<1>0. jobs \in Seq(Job) /\ Len(jobs) \in Nat /\ DOMAIN jobs = 1..Len(jobs)
  BY <1>t DEF TypeOK
<1>1. ASSUME NEW op \in Op, LoopOp(op) PROVE FirstInv(jobs, run)'
  <2>1. Perform(op, jobs) /\ UNCHANGED <<run, handled>>
    BY <1>1 DEF LoopOp
  <2> QED BY <1>t, <1>0, <2>1, PerformFirst, Zenon
<1>2. ASSUME NEW op \in Op, NEW th \in Threads, ThreadCall(th, op)
      PROVE  FirstInv(jobs, run)'
  <2> DEFINE new == <<CallJob(th, op)>>
  <2>1. jobs' = Append(jobs, CallJob(th, op)) /\ UNCHANGED <<run, fired, handled>>
    BY <1>2 DEF ThreadCall
  <2>2. CallJob(th, op) \in Job /\ CallJob(th, op).stage = "call"
    BY DEF CallJob, Job
  <2>3. new \in Seq(Job) /\ \A k \in DOMAIN new : new[k].stage = "call"
    BY <2>2
  <2>4. jobs' = jobs \o new
    BY <1>0, <2>1, <2>2, AppendIsConcat
  <2> HIDE DEF new
  <2>5. FirstInv(jobs \o new, run)
    BY <1>0, <2>3, FirstBehind
  <2> QED BY <2>1, <2>4, <2>5 DEF FirstInv, Owed, Pending, Targets
<1>3. ASSUME NEW i \in DOMAIN jobs, RunJob(i) PROVE FirstInv(jobs, run)'
  <2> DEFINE rest == Without(jobs, i)
             this == jobs[i]
  <2>1. rest \in Seq(Job) /\ this \in Job
    BY <1>t, <1>0, WithoutFrom, JobParts
  <2>2. Runnable(jobs, i)
    BY <1>3 DEF RunJob
  <2>3. ASSUME this.stage = "listener" /\ this.h \in Once => this.h \in run
        PROVE  FirstInv(rest, run)
    BY <1>0, <2>3, FirstWithout
  <2>4. CASE RunListener(i)
    <3>1. /\ this.stage = "listener" /\ this.h \in Funcs /\ this.h \notin Once
          /\ jobs' = rest
          /\ handled' = [handled EXCEPT ![this.h] = Append(@, this.ev)]
          /\ UNCHANGED <<run, fired>>
      BY <2>4, BusConstants DEF RunListener
    <3>2. FirstInv(rest, run)
      BY <2>3, <3>1
    <3> HIDE DEF rest, this
    <3>3. \A w \in Once : handled'[w] = handled[w]
      BY <1>t, <3>1 DEF TypeOK, Handles
    <3> QED BY <3>1, <3>2, <3>3 DEF FirstInv, Owed, Pending, Targets
  <2>5. CASE RunOnce(i)
    <3> DEFINE w == this.h
    <3>1. /\ this.stage = "listener" /\ w \in Once /\ UNCHANGED fired
          /\ this.ev \in 1..Len(fired)
      BY <1>t, <2>5, JobParts DEF RunOnce
    <3>2. CASE w \in run /\ jobs' = rest /\ UNCHANGED <<run, handled>>
      <4>1. FirstInv(rest, run)
        BY <2>3, <3>2
      <4> HIDE DEF rest, this
      <4> QED BY <3>1, <3>2, <4>1 DEF FirstInv, Owed, Pending, Targets
    <3>3. CASE w \notin run /\ run' = run \cup {w}
      <4>1. FirstInv(rest, run')
        <5>1. FirstInv(jobs, run')
          BY <3>3 DEF FirstInv
        <5>2. w \in run'
          BY <3>3
        <5> HIDE DEF w
        <5> QED BY <1>0, <5>1, <5>2, FirstWithout DEF w
      <4>2. ASSUME NEW n \in DOMAIN fired, Owed(n, w) > 0 PROVE this.ev <= n
        <5>1. PICK j \in Pending(jobs) : jobs[j].h = w /\ jobs[j].ev = n
          BY <3>1, <3>3, <4>2 DEF FirstInv
        <5>2. i \in Pending(jobs)
          BY <3>1 DEF FirstInv, Pending
        <5>3. j = i \/ i < j
          BY <1>0, <2>2, <5>1, <5>2 DEF Runnable, Pending
        <5>4. i < j => this.ev <= jobs[j].ev
          BY <1>t, <5>1, <5>2 DEF OrderInv, Sorted
        <5>5. this.ev \in Nat
          BY <3>1
        <5> QED BY <5>1, <5>3, <5>4, <5>5
      <4>3. handled[w] = <<>> /\ Targets(jobs, w) = {} /\ Targets(rest, w) = {}
        <5>1. OnceInv(rest)
          BY <1>t, <1>0, OnceWithout
        <5> QED BY <1>t, <3>1, <3>3, <5>1 DEF OnceInv
      <4>4. CASE handled' = [handled EXCEPT ![w] = Append(@, this.ev)] /\ jobs' = rest
        <5>1. handled'[w] = <<this.ev>> /\ \A v \in Once : v # w => handled'[v] = handled[v]
          BY <1>t, <3>1, <4>3, <4>4 DEF TypeOK, Handles
        <5>2. handled'[w][1] = this.ev
          BY <5>1
        <5> HIDE DEF w, rest, this
        <5>3. ASSUME NEW v \in Once, NEW n \in DOMAIN fired', Owed(n, v)' > 0
              PROVE  handled'[v] # <<>> => handled'[v][1] <= n
          <6>1. Owed(n, v) > 0 /\ n \in DOMAIN fired
            BY <3>1, <5>3 DEF Owed
          <6> QED BY <4>1, <4>2, <5>1, <5>2, <6>1 DEF FirstInv
        <5>4. Pending(jobs)' = Pending(rest) /\ \A v : Targets(jobs, v)' = Targets(rest, v)
          BY <4>4 DEF Pending, Targets
        <5>5. \A n, v : Owed(n, v)' = Owed(n, v)
          BY <3>1 DEF Owed
        <5> QED BY <3>1, <4>1, <4>4, <5>3, <5>4, <5>5 DEF FirstInv
      <4>5. CASE jobs' = Append(rest, TargetJob(w, this.ev)) /\ UNCHANGED handled
        <5> DEFINE new == TargetJob(w, this.ev)
        <5>1. new \in Job /\ new.stage = "target" /\ new.h = w /\ new.ev = this.ev
          BY <3>1, Zenon DEF TargetJob, Job, Handles
        <5>2. jobs' = Append(rest, new)
          BY <4>5
        <5> HIDE DEF new, w, rest, this
        <5>3. /\ \A k \in DOMAIN rest : k \in DOMAIN jobs' /\ jobs'[k] = rest[k]
              /\ \A k \in DOMAIN jobs' : \/ k \in DOMAIN rest /\ jobs'[k] = rest[k]
                                         \/ jobs'[k] = new
          BY <2>1, <5>1, <5>2
        <5>4. /\ \A k \in Pending(rest) : k \in Pending(jobs)' /\ jobs'[k] = rest[k]
              /\ \A k \in DOMAIN jobs' : jobs'[k].stage = "listener" /\ jobs'[k].h \in Once
                                           => jobs'[k].loop
          BY <4>1, <5>1, <5>3 DEF FirstInv, Pending
        <5>5. ASSUME NEW v \in Once, NEW n \in DOMAIN fired, Owed(n, v) > 0,
                     NEW k \in Targets(jobs', v)
              PROVE  jobs'[k].ev <= n
          <6>1. CASE k \in DOMAIN rest /\ jobs'[k] = rest[k]
            <7>1. k \in Targets(rest, v)
              BY <6>1 DEF Targets
            <7> QED BY <4>1, <5>5, <6>1, <7>1 DEF FirstInv
          <6>2. CASE jobs'[k] = new
            <7>1. v = w
              BY <5>1, <6>2 DEF Targets
            <7> QED BY <4>2, <5>1, <5>5, <6>2, <7>1
          <6> QED BY <5>3, <5>5, <6>1, <6>2 DEF Targets
        <5>6. \A n, v : Owed(n, v)' = Owed(n, v)
          BY <3>1 DEF Owed
        <5>7. \A v : Targets(jobs, v)' = Targets(jobs', v)
          BY DEF Targets
        <5>8. ASSUME NEW v \in Once, NEW n \in DOMAIN fired', Owed(n, v)' > 0
              PROVE  /\ v \notin run' => \E k \in Pending(jobs)' : jobs'[k].h = v /\ jobs'[k].ev = n
                     /\ \A k \in Targets(jobs, v)' : jobs'[k].ev <= n
                     /\ handled'[v] # <<>> => handled'[v][1] <= n
          <6>1. Owed(n, v) > 0 /\ n \in DOMAIN fired
            BY <3>1, <5>6, <5>8
          <6>2. v \notin run' => \E k \in Pending(rest) : rest[k].h = v /\ rest[k].ev = n
            BY <4>1, <6>1 DEF FirstInv
          <6>3. handled'[v] # <<>> => handled'[v][1] <= n
            BY <4>1, <4>5, <6>1 DEF FirstInv
          <6>4. \A k \in Targets(jobs, v)' : jobs'[k].ev <= n
            BY <5>5, <5>7, <6>1
          <6> QED BY <5>4, <6>2, <6>3, <6>4
        <5> QED BY <5>4, <5>8 DEF FirstInv
      <4> QED BY <2>5, <3>3, <4>4, <4>5 DEF RunOnce
    <3> QED BY <2>5, <3>2, <3>3 DEF RunOnce
  <2>6. CASE RunTarget(i)
    <3> DEFINE w == this.h
    <3>1. /\ this.stage = "target" /\ w \in Once /\ UNCHANGED <<run, fired>> /\ jobs' = rest
          /\ handled' = [handled EXCEPT ![w] = Append(@, this.ev)]
      BY <1>t, <2>6 DEF RunTarget, OnceInv
    <3>2. FirstInv(rest, run)
      BY <2>3, <3>1
    <3>3. i \in Targets(jobs, w)
      BY <3>1 DEF Targets
    <3>4. handled[w] = <<>>
      BY <1>t, <3>1, <3>3 DEF OnceInv
    <3>5. handled'[w] = <<this.ev>> /\ \A v \in Once : v # w => handled'[v] = handled[v]
      BY <1>t, <3>1, <3>4 DEF TypeOK, Handles
    <3>6. handled'[w][1] = this.ev
      BY <3>5
    <3>7. \A n \in DOMAIN fired : Owed(n, w) > 0 => this.ev <= n
      BY <3>1, <3>3 DEF FirstInv
    <3> HIDE DEF w, rest, this
    <3>8. ASSUME NEW v \in Once, NEW n \in DOMAIN fired', Owed(n, v)' > 0
          PROVE  handled'[v] # <<>> => handled'[v][1] <= n
      <4>1. Owed(n, v) > 0 /\ n \in DOMAIN fired
        BY <3>1, <3>8 DEF Owed
      <4> QED BY <3>2, <3>5, <3>6, <3>7, <4>1 DEF FirstInv
    <3>9. Pending(jobs)' = Pending(rest) /\ \A v : Targets(jobs, v)' = Targets(rest, v)
      BY <3>1 DEF Pending, Targets
    <3>10. \A n, v : Owed(n, v)' = Owed(n, v)
      BY <3>1 DEF Owed
    <3> QED BY <3>1, <3>2, <3>8, <3>9, <3>10 DEF FirstInv
  <2>7. CASE RunCall(i)
    <3>1. /\ this.stage = "call" /\ this.op \in Op
          /\ Perform(this.op, rest)
          /\ UNCHANGED <<run, handled>>
      BY <1>t, <2>7, JobParts DEF RunCall
    <3>2. FirstInv(rest, run)
      BY <2>3, <3>1
    <3> HIDE DEF rest, this
    <3> QED BY <1>t, <2>1, <3>1, <3>2, PerformFirst, Zenon
  <2> QED BY <1>3, <2>4, <2>5, <2>6, <2>7 DEF RunJob
<1>4. CASE UNCHANGED vars
  BY <1>4 DEF vars, FirstInv, Owed, Pending, Targets
<1> QED BY <1>1, <1>2, <1>3, <1>4 DEF Next, RunLoopJob, RunExecutorJob

(* A one-time listener is called with the first event fired while it was   *)
(* registered, whatever comes before the loop gets to it.                  *)
THEOREM OnceFirstCorrect == Spec => []OnceFirstEvent
<1>1. Init => FirstInv(jobs, run)
  BY DEF Init, FirstInv
<1>2. FirstInv(jobs, run) => OnceFirstEvent
  BY DEF FirstInv, OnceFirstEvent
<1> QED BY <1>1, <1>2, FirstStep, InvInvariant, PTL DEF Spec
=============================================================================
