---------------------------- MODULE Spider_proofs ----------------------------
(***************************************************************************)
(* Proofs about Spider, for any tasks, generators, handlers, thread number *)
(* and limits: the types; that no thread ever drops a task or hands it to  *)
(* two; how many tests the tasks can fool, which bounds the countdowns     *)
(* with which the spider can stop by itself while a task is open; and that *)
(* it implements SpiderJob, for any countdown.                             *)
(***************************************************************************)
EXTENDS Spider, Integers, SequenceTheorems, FiniteSetTheorems, TLAPS

-----------------------------------------------------------------------------
(* Counting.  How many elements of s are in S is what is known of queues   *)
(* when neither their order nor their other elements matter.               *)

Where(s, S) == {i \in DOMAIN s : s[i] \in S}
HowMany(s, S) == Cardinality(Where(s, S))

LEMMA CountType ==
  ASSUME NEW T, NEW s \in Seq(T), NEW S
  PROVE  /\ IsFiniteSet(Where(s, S)) /\ HowMany(s, S) \in Nat
         /\ HowMany(s, S) = 0 <=> \A i \in DOMAIN s : s[i] \notin S
<1>1. Len(s) \in Nat /\ DOMAIN s = 1..Len(s)
  OBVIOUS
<1>2. IsFiniteSet(1..Len(s)) /\ Where(s, S) \in SUBSET (1..Len(s))
  BY <1>1, FS_Interval DEF Where
<1>3. IsFiniteSet(Where(s, S))
  BY <1>2, FS_Subset
<1>4. HowMany(s, S) \in Nat /\ (HowMany(s, S) = 0 <=> Where(s, S) = {})
  BY <1>3, FS_CardinalityType, FS_EmptySet DEF HowMany
<1> QED BY <1>3, <1>4 DEF Where

LEMMA CountEmpty ==
  ASSUME NEW S
  PROVE  HowMany(<<>>, S) = 0
<1>1. Where(<<>>, S) = {}
  BY DEF Where
<1> QED BY <1>1, FS_EmptySet DEF HowMany

LEMMA CountOne ==
  ASSUME NEW x, NEW S
  PROVE  HowMany(<<x>>, S) = IF x \in S THEN 1 ELSE 0
<1>1. Where(<<x>>, S) = IF x \in S THEN {1} ELSE {}
  BY DEF Where
<1> QED BY <1>1, FS_EmptySet, FS_Singleton DEF HowMany

(* Of two sequences in a row, each keeps what it has.                      *)
LEMMA CountConcat ==
  ASSUME NEW T, NEW s \in Seq(T), NEW u \in Seq(T), NEW S
  PROVE  HowMany(s \o u, S) = HowMany(s, S) + HowMany(u, S)
<1> DEFINE m == Len(s)
           A == Where(s, S)
           B == Where(u, S)
           C == {k \in (m + 1)..(m + Len(u)) : u[k - m] \in S}
           f == [i \in B |-> i + m]
<1>1. m \in Nat /\ Len(u) \in Nat /\ DOMAIN s = 1..m /\ DOMAIN u = 1..Len(u)
  OBVIOUS
<1>2. /\ DOMAIN (s \o u) = 1..(m + Len(u))
      /\ \A k \in 1..(m + Len(u)) : (s \o u)[k] = IF k <= m THEN s[k] ELSE u[k - m]
  BY ConcatProperties
<1>3. Where(s \o u, S) = A \cup C /\ A \cap C = {}
  BY <1>1, <1>2 DEF Where
<1>4. f \in Bijection(B, C)
  <2>1. f \in [B -> C]
    BY <1>1 DEF Where
  <2>2. \A a, b \in B : f[a] = f[b] => a = b
    BY <1>1 DEF Where
  <2>3. \A c \in C : \E b \in B : f[b] = c
    <3> SUFFICES ASSUME NEW c \in C PROVE c - m \in B /\ f[c - m] = c
      OBVIOUS
    <3> QED BY <1>1 DEF Where
  <2> HIDE DEF f, B, C
  <2> QED BY <2>1, <2>2, <2>3, Zenon DEF Bijection, Injection, Surjection, IsInjective
<1>5. IsFiniteSet(A) /\ IsFiniteSet(B)
  BY CountType
<1> HIDE DEF A, B, C, f
<1>6. IsFiniteSet(C) /\ Cardinality(C) = Cardinality(B)
  BY <1>4, <1>5, FS_Bijection DEF ExistsBijection
<1>7. Cardinality(A \cup C) = Cardinality(A) + Cardinality(C) - Cardinality(A \cap C)
  BY <1>5, <1>6, FS_Union
<1>8. Cardinality(A \cap C) = 0
  BY <1>3, FS_EmptySet
<1>9. Cardinality(A) \in Nat /\ Cardinality(B) \in Nat
  BY <1>5, FS_CardinalityType
<1> QED BY <1>3, <1>6, <1>7, <1>8, <1>9 DEF HowMany, A, B

LEMMA CountAppend ==
  ASSUME NEW T, NEW s \in Seq(T), NEW x \in T, NEW S
  PROVE  HowMany(Append(s, x), S) = HowMany(s, S) + IF x \in S THEN 1 ELSE 0
<1>1. Append(s, x) = s \o <<x>> /\ <<x>> \in Seq(T)
  BY AppendIsConcat
<1>2. HowMany(s \o <<x>>, S) = HowMany(s, S) + HowMany(<<x>>, S)
  BY <1>1, CountConcat
<1> QED BY <1>1, <1>2, CountOne

(* Taking the head off takes one off its count, and off no other.         *)
LEMMA CountTail ==
  ASSUME NEW T, NEW s \in Seq(T), s # <<>>, NEW S
  PROVE  /\ HowMany(Tail(s), S) = HowMany(s, S) - IF Head(s) \in S THEN 1 ELSE 0
         /\ Head(s) \in S => HowMany(s, S) > 0
<1> DEFINE h == <<Head(s)>>
           t == Tail(s)
<1>1. h \in Seq(T) /\ t \in Seq(T) /\ s = h \o t
  OBVIOUS
<1>2. HowMany(h, S) = IF Head(s) \in S THEN 1 ELSE 0
  BY CountOne
<1> HIDE DEF h, t
<1>3. HowMany(s, S) = HowMany(h, S) + HowMany(t, S)
  BY <1>1, CountConcat
<1>4. HowMany(t, S) \in Nat
  BY <1>1, CountType
<1> QED BY <1>2, <1>3, <1>4 DEF t

(* Putting a set in some order gives each element one place.               *)
LEMMA CountSet ==
  ASSUME NEW S, IsFiniteSet(S), NEW R
  PROVE  /\ SetToSeq(S) \in Seq(S)
         /\ \A x \in S : \E i \in DOMAIN SetToSeq(S) : SetToSeq(S)[i] = x
         /\ HowMany(SetToSeq(S), R) = Cardinality(S \cap R)
<1> DEFINE n == Cardinality(S)
           f == SetToSeq(S)
<1>1. n \in Nat /\ \E g \in [1..n -> S] : IsInjective(g)
  BY FS_CardinalityType DEF ExistsBijection, Bijection, Injection
<1>2. f \in [1..n -> S] /\ IsInjective(f)
  BY <1>1 DEF SetToSeq
<1>3. f \in Seq(S) /\ DOMAIN f = 1..n
  BY <1>1, <1>2
<1>4. f \in Surjection(1..n, S)
  <2>1. f \in Injection(1..n, S)
    BY <1>2 DEF Injection
  <2>2. Cardinality(1..n) = n
    BY <1>1, FS_Interval
  <2> QED BY <2>1, <2>2, FS_Injection
<1> HIDE DEF f, n
<1>5. \A x \in S : \E i \in DOMAIN f : f[i] = x
  BY <1>3, <1>4 DEF Surjection
<1>6. HowMany(f, R) = Cardinality(S \cap R)
  <2> DEFINE W == Where(f, R)
             g == [i \in W |-> f[i]]
  <2>1. IsFiniteSet(W)
    BY <1>3, CountType
  <2>2. g \in [W -> S \cap R]
    BY <1>2, <1>3 DEF Where
  <2>3. g \in Injection(W, S \cap R)
    BY <1>2, <1>3, <2>2 DEF Injection, IsInjective, Where
  <2>4. g \in Surjection(W, S \cap R)
    BY <1>3, <1>5, <2>2 DEF Surjection, Where
  <2>5. ExistsBijection(W, S \cap R)
    BY <2>3, <2>4 DEF ExistsBijection, Bijection
  <2> HIDE DEF W
  <2>6. Cardinality(S \cap R) = Cardinality(W)
    BY <2>1, <2>5, FS_Bijection
  <2> QED BY <2>6 DEF W, HowMany
<1> QED BY <1>3, <1>5, <1>6 DEF f

-----------------------------------------------------------------------------
(* The elements of a queue of S that hold task t.                          *)
Of(S, t) == {r \in S : r.task = t}
Load(t) == [do |-> "load", task |-> t]

(* Hands(t), in terms of the counts the lemmas are about.                  *)
Held(t) ==
  Has(queue, t) + Has(active, t) + HowMany(pending, {t}) + HowMany(network, {t})
    + HowMany(results, Of(Result, t)) + Has({parser.task}, t) + HowMany(loads, {Load(t)})
    + HowMany(loaded, Of(Found, t)) + HowMany(parsed, Of(Made, t))

(* The inductive invariant.  A task that no handler and no generator has   *)
(* yielded yet is nowhere, and a task whose handler is still to run has    *)
(* yielded none of its tasks; a task that is tried too often is refused    *)
(* before it is counted again.                                             *)
LocalInv ==
  /\ IsFiniteSet(active)
  /\ countdown = 0 => pc = "stopped"
  /\ cacher.at = "work" => loads # <<>>

HandInv == \A t \in Tasks : Held(t) = Has(given \ ended, t)

TriesInv ==
  \A t \in Tasks :
    /\ t \notin ended => tries[t].network <= NetworkTryLimit
    /\ tries[t].task > TaskTryLimit =>
         \/ t \in queue \/ t \in ended \/ t \notin given
         \/ \E i \in DOMAIN parsed : parsed[i] = [task |-> t, clone |-> FALSE]

FreshInv ==
  /\ \A i \in DOMAIN gen.left :
       /\ gen.left[i] \notin given
       /\ \A j \in DOMAIN gen.left : gen.left[i] = gen.left[j] => i = j
       /\ \A t \in Tasks : gen.left[i] \notin Children[t]
  /\ \A t \in Tasks : t \notin ended => Children[t] \cap given = {}

Inv == TypeOK /\ LocalInv /\ HandInv /\ TriesInv /\ FreshInv

-----------------------------------------------------------------------------
(* Hands are natural numbers, and of all of them at most one is not empty. *)

LEMMA HasType == \A S, t : Has(S, t) \in {0, 1} /\ (Has(S, t) = 1 <=> t \in S)
  BY DEF Has

LEMMA Types ==
  ASSUME TypeOK
  PROVE  /\ pending \in Seq(Tasks) /\ network \in Seq(Tasks) /\ results \in Seq(Result)
         /\ loads \in Seq(Order) /\ loaded \in Seq(Found) /\ parsed \in Seq(Made)
  BY DEF TypeOK

LEMMA EndTypesStep == TypeOK /\ [Next]_vars => EndTypes'
<1> SUFFICES ASSUME TypeOK, [Next]_vars PROVE EndTypes'
  OBVIOUS
<1>1. EndTypes
  BY DEF TypeOK
<1>2. told' \in BOOLEAN
  <2>1. told' = told \/ told' = TRUE
    <3>1. CASE ProcessHandlerResult
      BY <3>1 DEF ProcessHandlerResult, AddMade
    <3>2. CASE stop
      BY <3>2 DEF stop
    <3>3. CASE ~ProcessHandlerResult /\ ~stop
      BY <3>3 DEF Next, Main, TakeTask, LoopEnds, QueueSize, CheckPause, CheckRead, CheckEnd,
                  CheckResumed, Check, Collect, CollectLoaded, ProcessResult, RoundEnds, Parser,
                  Generator, Cacher, mainVars, vars
    <3> QED BY <3>1, <3>2, <3>3, Zenon
  <2> QED BY <1>1, <2>1 DEF EndTypes
<1>3. fooled' \in Nat
  <2>1. fooled' \in {fooled, fooled + 1, 0}
    <3>1. CASE CheckEnd
      BY <3>1 DEF CheckEnd, CountFooled
    <3>2. CASE ~CheckEnd
      BY <3>2 DEF Next, Main, TakeTask, LoopEnds, QueueSize, CheckPause, CheckRead, CheckResumed, Check,
                  Collect, CollectLoaded, ProcessResult, RoundEnds, ProcessHandlerResult, stop, Parser,
                  Generator, Cacher, mainVars, testVars, vars
    <3> QED BY <3>1, <3>2, Zenon
  <2> QED BY <1>1, <2>1 DEF EndTypes
<1>4. moved' \in BOOLEAN
  <2>1. CASE Main
    BY <1>1, <2>1 DEF Main, TakeTask, LoopEnds, QueueSize, CheckPause, CheckRead, CheckEnd,
                      CheckResumed, Check, CollectLoaded, ProcessResult, RoundEnds, NoneReady,
                      ProcessHandlerResult, testVars, EndTypes
  <2>2. CASE ~Main
    BY <1>1, <2>2 DEF Next, Collect, stop, Parser, ParserGet, ParserWakes, ParserHandles, Generator,
                      Cacher, testVars, vars, EndTypes
  <2> QED BY <2>1, <2>2
<1> QED BY <1>2, <1>3, <1>4 DEF EndTypes

Counts(t) ==
  /\ Has(queue, t) \in Nat /\ Has(active, t) \in Nat
  /\ HowMany(pending, {t}) \in Nat /\ HowMany(network, {t}) \in Nat
  /\ HowMany(results, Of(Result, t)) \in Nat /\ Has({parser.task}, t) \in Nat
  /\ HowMany(loads, {Load(t)}) \in Nat /\ HowMany(loaded, Of(Found, t)) \in Nat
  /\ HowMany(parsed, Of(Made, t)) \in Nat

LEMMA HeldParts == ASSUME TypeOK, NEW t PROVE Counts(t)
<1>1. \A S : Has(S, t) \in Nat
  BY HasType
<1> QED BY <1>1, Types, CountType DEF Counts

(* A task found in one place is open, and it is in no other.               *)
LEMMA OnlyHand ==
  ASSUME TypeOK, HandInv, NEW t \in Tasks,
         \/ t \in queue \/ t \in active \/ t = parser.task
         \/ HowMany(pending, {t}) > 0 \/ HowMany(network, {t}) > 0
         \/ HowMany(results, Of(Result, t)) > 0 \/ HowMany(loads, {Load(t)}) > 0
         \/ HowMany(loaded, Of(Found, t)) > 0 \/ HowMany(parsed, Of(Made, t)) > 0
  PROVE  /\ t \in given /\ t \notin ended
         /\ Held(t) = 1
<1>1. Held(t) = Has(given \ ended, t)
  BY DEF HandInv
<1>2. Has(queue, t) = 1 \/ Has(active, t) = 1 \/ Has({parser.task}, t) = 1
        \/ HowMany(pending, {t}) > 0 \/ HowMany(network, {t}) > 0
        \/ HowMany(results, Of(Result, t)) > 0 \/ HowMany(loads, {Load(t)}) > 0
        \/ HowMany(loaded, Of(Found, t)) > 0 \/ HowMany(parsed, Of(Made, t)) > 0
  BY DEF Has
<1>0. Counts(t)
  BY HeldParts
<1>3. Held(t) > 0
  BY <1>0, <1>2 DEF Held, Counts
<1>4. Has(given \ ended, t) = 1
  BY <1>1, <1>3, HasType
<1> QED BY <1>1, <1>4, HasType

(* A task that is not open is nowhere.                                     *)
LEMMA NoHand ==
  ASSUME TypeOK, HandInv, NEW t \in Tasks, t \notin given \/ t \in ended
  PROVE  /\ Held(t) = 0 /\ t \notin queue /\ t \notin active
<1>1. Held(t) = 0
  BY HasType DEF HandInv
<1>0. Counts(t)
  BY HeldParts
<1>2. Has(queue, t) = 0 /\ Has(active, t) = 0
  BY <1>0, <1>1 DEF Held, Counts
<1> QED BY <1>1, <1>2, HasType

(* What a step leaves alone.                                               *)
LEMMA FreshKept ==
  ASSUME FreshInv, gen'.left = gen.left, given' = given, ended \subseteq ended'
  PROVE  FreshInv'
  BY DEF FreshInv

LEMMA TriesKept ==
  ASSUME TriesInv, tries' = tries, queue \subseteq queue', given' = given,
         ended' = ended, parsed' = parsed
  PROVE  TriesInv'
  BY DEF TriesInv

(* The steps that move no task: the shutdown test, the threads going to    *)
(* sleep and waking.                                                       *)
LEMMA QuietStep ==
  ASSUME Inv, TypeOK',
         UNCHANGED <<tries, queue, pending, active, results, network, parsed, loaded, given, ended>>,
         gen'.left = gen.left, parser'.task = parser.task,
         loads' = loads \/ loads' = Append(loads, [do |-> "pause", task |-> None]),
         countdown' = 0 => pc' = "stopped",
         cacher'.at = "work" => cacher.at = "work" \/ loads # <<>>
  PROVE  Inv'
<1>1. FreshInv' /\ TriesInv'
  BY FreshKept, TriesKept DEF Inv
<1>2. loads \in Seq(Order)
  BY Types DEF Inv
<1>3. LocalInv'
  <2>1. loads # <<>> => loads' # <<>>
    BY <1>2
  <2>2. cacher.at = "work" => loads # <<>>
    BY DEF Inv, LocalInv
  <2>3. IsFiniteSet(active')
    BY DEF Inv, LocalInv
  <2> QED BY <2>1, <2>2, <2>3 DEF LocalInv
<1>4. \A t : HowMany(loads', {Load(t)}) = HowMany(loads, {Load(t)})
  <2> SUFFICES ASSUME NEW t PROVE HowMany(loads', {Load(t)}) = HowMany(loads, {Load(t)})
    OBVIOUS
  <2> DEFINE pause == [do |-> "pause", task |-> None]
  <2>0. loads' = loads \/ loads' = Append(loads, pause)
    OBVIOUS
  <2>1. pause \in Order /\ pause \notin {Load(t)}
    BY DEF Order, Load
  <2> HIDE DEF pause
  <2>2. HowMany(Append(loads, pause), {Load(t)}) = HowMany(loads, {Load(t)}) + 0
    BY <1>2, <2>1, CountAppend
  <2>3. HowMany(loads, {Load(t)}) \in Nat
    BY <1>2, CountType
  <2>4. HowMany(Append(loads, pause), {Load(t)}) = HowMany(loads, {Load(t)})
    BY <2>2, <2>3
  <2> QED BY <2>0, <2>4, Zenon
<1>5. HandInv'
  BY <1>4 DEF Inv, HandInv, Held
<1> QED BY <1>1, <1>3, <1>5 DEF Inv

-----------------------------------------------------------------------------
(* Putting a task somewhere and taking it out again.                       *)

LEMMA HasChanges ==
  ASSUME NEW S, NEW t
  PROVE  /\ t \notin S => \A u : Has(S \cup {t}, u) = Has(S, u) + Has({t}, u)
         /\ t \in S => \A u : Has(S, u) = Has(S \ {t}, u) + Has({t}, u)
         /\ t \in S => \A u : Has(S \cup {t}, u) = Has(S, u)
  BY DEF Has

LEMMA TaskIn ==
  ASSUME NEW s \in Seq(Tasks), NEW t \in Tasks, NEW u
  PROVE  HowMany(Append(s, t), {u}) = HowMany(s, {u}) + Has({t}, u)
<1>1. HowMany(Append(s, t), {u}) = HowMany(s, {u}) + IF t \in {u} THEN 1 ELSE 0
  BY CountAppend
<1>2. Has({t}, u) = IF t \in {u} THEN 1 ELSE 0
  BY DEF Has
<1> QED BY <1>1, <1>2

LEMMA TaskOut ==
  ASSUME NEW s \in Seq(Tasks), s # <<>>, NEW u
  PROVE  /\ Head(s) \in Tasks /\ Tail(s) \in Seq(Tasks)
         /\ HowMany(Tail(s), {u}) = HowMany(s, {u}) - Has({Head(s)}, u)
<1>1. HowMany(Tail(s), {u}) = HowMany(s, {u}) - IF Head(s) \in {u} THEN 1 ELSE 0
  BY CountTail
<1>2. Has({Head(s)}, u) = IF Head(s) \in {u} THEN 1 ELSE 0
  BY DEF Has
<1>3. Head(s) \in Tasks /\ Tail(s) \in Seq(Tasks)
  OBVIOUS
<1> QED BY <1>1, <1>2, <1>3

(* The same in the queues of records, S being the set of what may be there.*)
LEMMA RecordIn ==
  ASSUME NEW S, NEW s \in Seq(S), NEW r \in S, NEW t, r.task = t, NEW u
  PROVE  HowMany(Append(s, r), Of(S, u)) = HowMany(s, Of(S, u)) + Has({t}, u)
<1>1. HowMany(Append(s, r), Of(S, u)) = HowMany(s, Of(S, u)) + IF r \in Of(S, u) THEN 1 ELSE 0
  BY CountAppend
<1>2. Has({t}, u) = IF r \in Of(S, u) THEN 1 ELSE 0
  BY DEF Has, Of
<1> QED BY <1>1, <1>2

LEMMA RecordOut ==
  ASSUME NEW S, NEW s \in Seq(S), s # <<>>, NEW u
  PROVE  /\ Head(s) \in S /\ Tail(s) \in Seq(S)
         /\ HowMany(Tail(s), Of(S, u)) = HowMany(s, Of(S, u)) - Has({Head(s).task}, u)
<1>1. HowMany(Tail(s), Of(S, u)) = HowMany(s, Of(S, u)) - IF Head(s) \in Of(S, u) THEN 1 ELSE 0
  BY CountTail
<1>2. Head(s) \in S /\ Tail(s) \in Seq(S)
  OBVIOUS
<1>3. Has({Head(s).task}, u) = IF Head(s) \in Of(S, u) THEN 1 ELSE 0
  BY <1>2 DEF Has, Of
<1> QED BY <1>1, <1>2, <1>3

(* In the cache pipeline's input, what is not to be loaded does not count. *)
LoadOf(r, u) == IF r.do = "load" THEN Has({r.task}, u) ELSE 0

LEMMA OrderIs ==
  ASSUME NEW r \in Order, NEW u
  PROVE  LoadOf(r, u) = IF r \in {Load(u)} THEN 1 ELSE 0
  BY DEF LoadOf, Has, Load, Order

LEMMA OrderIn ==
  ASSUME NEW s \in Seq(Order), NEW r \in Order, NEW u
  PROVE  HowMany(Append(s, r), {Load(u)}) = HowMany(s, {Load(u)}) + LoadOf(r, u)
<1>1. HowMany(Append(s, r), {Load(u)}) = HowMany(s, {Load(u)}) + IF r \in {Load(u)} THEN 1 ELSE 0
  BY CountAppend
<1> QED BY <1>1, OrderIs

LEMMA OrderOut ==
  ASSUME NEW s \in Seq(Order), s # <<>>, NEW u
  PROVE  /\ Head(s) \in Order /\ Tail(s) \in Seq(Order)
         /\ HowMany(Tail(s), {Load(u)}) = HowMany(s, {Load(u)}) - LoadOf(Head(s), u)
<1>1. HowMany(Tail(s), {Load(u)}) = HowMany(s, {Load(u)}) - IF Head(s) \in {Load(u)} THEN 1 ELSE 0
  BY CountTail
<1>2. Head(s) \in Order /\ Tail(s) \in Seq(Order)
  OBVIOUS
<1> QED BY <1>1, <1>2, OrderIs

(* How a step changes the counts for task u, place by place, and that the  *)
(* account stays right if the changes add up.                              *)
Moves(u, q, a, p, n, r, h, l, d, y) ==
  /\ Has(queue', u) = Has(queue, u) + q /\ Has(active', u) = Has(active, u) + a
  /\ HowMany(pending', {u}) = HowMany(pending, {u}) + p
  /\ HowMany(network', {u}) = HowMany(network, {u}) + n
  /\ HowMany(results', Of(Result, u)) = HowMany(results, Of(Result, u)) + r
  /\ Has({parser'.task}, u) = Has({parser.task}, u) + h
  /\ HowMany(loads', {Load(u)}) = HowMany(loads, {Load(u)}) + l
  /\ HowMany(loaded', Of(Found, u)) = HowMany(loaded, Of(Found, u)) + d
  /\ HowMany(parsed', Of(Made, u)) = HowMany(parsed, Of(Made, u)) + y

LEMMA Balance ==
  ASSUME TypeOK, HandInv, NEW u \in Tasks,
         NEW q \in Int, NEW a \in Int, NEW p \in Int, NEW n \in Int, NEW r \in Int,
         NEW h \in Int, NEW l \in Int, NEW d \in Int, NEW y \in Int, NEW e \in Int,
         Moves(u, q, a, p, n, r, h, l, d, y), q + a + p + n + r + h + l + d + y = e,
         Has(given' \ ended', u) = Has(given \ ended, u) + e
  PROVE  Held(u)' = Has(given \ ended, u)'
<1>1. Counts(u) /\ Held(u) = Has(given \ ended, u)
  BY HeldParts DEF HandInv
<1>2. Held(u)' = Held(u) + e
  BY <1>1 DEF Moves, Held, Counts
<1> QED BY <1>1, <1>2

-----------------------------------------------------------------------------
(* The steps that move a task, one by one.                                 *)

LEMMA CollectStep ==
  ASSUME Inv, NEW t \in Tasks, Collect(t)
  PROVE  Inv'
<1>e. EndTypes'
  BY EndTypesStep, Zenon DEF Inv, Next
<1> DEFINE r == [task |-> t, cached |-> FALSE]
<1>1. /\ pc = "work" /\ t \in active /\ active' = active \ {t} /\ results' = Append(results, r)
      /\ UNCHANGED <<cache, pc, countdown, tries, refresh, queue, pending, network, parser, parsed,
                     gen, loads, loaded, cacher, given, ended>>
  BY DEF Collect, genVars, cacheVars
<1>2. r \in Result /\ r.task = t
  BY DEF Result
<1> HIDE DEF r
<1>3. TypeOK /\ HandInv /\ IsFiniteSet(active) /\ LocalInv
  BY DEF Inv, LocalInv
<1>4. IsFiniteSet(active') /\ Cardinality(active') <= Cardinality(active)
        /\ Cardinality(active') \in Nat /\ Cardinality(active) \in Nat
  BY <1>1, <1>3, FS_Subset, FS_CardinalityType
<1>5. TypeOK'
  <2>1. Cardinality(active') <= Threads
    BY <1>3, <1>4, SpiderConstants DEF TypeOK
  <2>2. results' \in Seq(Result)
    BY <1>1, <1>2, <1>3 DEF TypeOK
  <2> QED BY <1>e, <1>1, <1>3, <2>1, <2>2 DEF TypeOK
<1>6. HandInv'
  <2> SUFFICES ASSUME NEW u \in Tasks PROVE Held(u)' = Has(given \ ended, u)'
    BY DEF HandInv
  <2> DEFINE one == Has({t}, u)
  <2>1. results \in Seq(Result) /\ one \in Int /\ Counts(u)
    BY <1>3, Types, HasType, HeldParts
  <2>2. Has(active, u) = Has(active', u) + one /\ Has(active', u) \in Int
    BY <1>1, HasChanges, HasType
  <2>3. HowMany(results', Of(Result, u)) = HowMany(results, Of(Result, u)) + one
    BY <1>1, <1>2, <2>1, RecordIn
  <2> HIDE DEF one
  <2>4. Moves(u, 0, -one, 0, 0, one, 0, 0, 0, 0)
    BY <1>1, <2>1, <2>2, <2>3, SMTT(30) DEF Moves, Counts
  <2>5. 0 + (-one) + 0 + 0 + one + 0 + 0 + 0 + 0 = 0 /\ -one \in Int /\ 0 \in Int
    BY <2>1
  <2>6. Has(given' \ ended', u) = Has(given \ ended, u) + 0
    BY <1>1, HasType
  <2> QED BY <1>3, <2>1, <2>4, <2>5, <2>6, Balance, Zenon
<1>7. LocalInv' /\ TriesInv' /\ FreshInv'
  BY <1>1, <1>3, <1>4, FreshKept, TriesKept DEF Inv, LocalInv
<1> QED BY <1>5, <1>6, <1>7 DEF Inv

(* A task that is in the hands of another place is not in the set a step   *)
(* puts it into.                                                           *)
LEMMA NotTwice ==
  ASSUME TypeOK, HandInv, NEW t \in Tasks
  PROVE  /\ \/ t \in queue \/ HowMany(pending, {t}) > 0 \/ HowMany(loaded, Of(Found, t)) > 0
              => t \notin active
         /\ \/ HowMany(results, Of(Result, t)) > 0 \/ HowMany(parsed, Of(Made, t)) > 0
              => t \notin queue
<1>1. Counts(t) /\ Held(t) = Has(given \ ended, t) /\ Has(given \ ended, t) \in {0, 1}
  BY HeldParts, HasType DEF HandInv
<1>2. (t \in queue <=> Has(queue, t) = 1) /\ (t \in active <=> Has(active, t) = 1)
        /\ Has(queue, t) \in {0, 1} /\ Has(active, t) \in {0, 1}
  BY HasType
<1> QED BY <1>1, <1>2 DEF Counts, Held

(* There is room for one more handle.                                      *)
LEMMA FreeHandle ==
  ASSUME TypeOK, LocalInv, NEW t \in Tasks, t \notin active, Free, active' = active \cup {t}
  PROVE  IsFiniteSet(active') /\ active' \subseteq Tasks /\ Cardinality(active') <= Threads
<1>1. IsFiniteSet(active') /\ Cardinality(active') = Cardinality(active) + 1
  BY FS_AddElement DEF LocalInv
<1>2. Cardinality(active) \in Nat /\ Cardinality(active) < Threads /\ Threads \in Nat
  BY SpiderConstants, FS_CardinalityType DEF Free, LocalInv
<1> QED BY <1>1, <1>2 DEF TypeOK

(* What the cache has ready becomes a result, or goes to the network, or   *)
(* waits for a slot.                                                       *)
LEMMA LoadedStep ==
  ASSUME Inv, CollectLoaded
  PROVE  Inv'
<1>0. TypeOK /\ HandInv /\ IsFiniteSet(active) /\ LocalInv
  BY DEF Inv, LocalInv
<1>e. EndTypes'
  BY <1>0, EndTypesStep, Zenon DEF Inv, Next, Main
<1>1. /\ pc \in {"work", "loaded"} /\ loaded # <<>> /\ pc' = "loaded" /\ loaded' = Tail(loaded)
      /\ UNCHANGED <<cache, countdown, tries, refresh, queue, network, parser, parsed, gen, loads,
                     cacher, given, ended>>
  BY DEF CollectLoaded
<1>2. PICK m : m = Head(loaded)
  OBVIOUS
<1>t. PICK t : t = m.task
  OBVIOUS
<1>r. PICK r : r = [task |-> t, cached |-> TRUE]
  OBVIOUS
<1>3. \/ results' = Append(results, r) /\ UNCHANGED <<active, pending>>
      \/ Free /\ active' = active \cup {t} /\ UNCHANGED <<results, pending>>
      \/ pending' = Append(pending, t) /\ UNCHANGED <<results, active>>
  BY <1>2, <1>t, <1>r DEF CollectLoaded
<1>p. loaded \in Seq(Found) /\ results \in Seq(Result) /\ pending \in Seq(Tasks)
  BY <1>0, Types
<1>4. /\ m \in Found /\ loaded' \in Seq(Found)
      /\ \A u : HowMany(loaded', Of(Found, u)) = HowMany(loaded, Of(Found, u)) - Has({t}, u)
  BY <1>p, <1>t, <1>1, <1>2, RecordOut
<1>6. t \in Tasks /\ r \in Result /\ r.task = t
  BY <1>4, <1>t, <1>r DEF Found, Result
<1>7. t \notin active
  <2>1. Has({t}, t) = 1 /\ HowMany(loaded', Of(Found, t)) \in Nat /\ HowMany(loaded, Of(Found, t)) \in Nat
    BY <1>p, <1>4, HasType, CountType
  <2>2. HowMany(loaded', Of(Found, t)) = HowMany(loaded, Of(Found, t)) - Has({t}, t)
    BY <1>4
  <2>3. HowMany(loaded, Of(Found, t)) > 0
    BY <2>1, <2>2
  <2> QED BY <1>0, <1>6, <2>3, NotTwice
<1>8. IsFiniteSet(active') /\ active' \subseteq Tasks /\ Cardinality(active') <= Threads
  <2>1. CASE active' = active
    BY <1>0, <2>1 DEF TypeOK
  <2>2. CASE active' = active \cup {t} /\ Free
    BY <1>0, <1>6, <1>7, <2>2, FreeHandle
  <2> QED BY <1>3, <2>1, <2>2
<1>9. TypeOK'
  <2>1. results' \in Seq(Result) /\ pending' \in Seq(Tasks)
    <3>1. Append(results, r) \in Seq(Result) /\ Append(pending, t) \in Seq(Tasks)
      BY <1>p, <1>6
    <3> QED BY <1>p, <1>3, <3>1
  <2> QED BY <1>e, <1>0, <1>1, <1>4, <1>8, <2>1 DEF TypeOK
<1>10. HandInv'
  <2> SUFFICES ASSUME NEW u \in Tasks PROVE Held(u)' = Has(given \ ended, u)'
    BY DEF HandInv
  <2> DEFINE one == Has({t}, u)
  <2>1. one \in Nat /\ Counts(u)
    BY <1>0, HasType, HeldParts
  <2>2. HowMany(loaded', Of(Found, u)) = HowMany(loaded, Of(Found, u)) - one
    BY <1>4
  <2>3. /\ HowMany(Append(results, r), Of(Result, u)) = HowMany(results, Of(Result, u)) + one
        /\ Has(active \cup {t}, u) = Has(active, u) + one
        /\ HowMany(Append(pending, t), {u}) = HowMany(pending, {u}) + one
    BY <1>p, <1>6, <1>7, RecordIn, HasChanges, TaskIn
  <2> HIDE DEF one
  <2>4. \/ Moves(u, 0, 0, 0, 0, one, 0, 0, -one, 0)
        \/ Moves(u, 0, one, 0, 0, 0, 0, 0, -one, 0)
        \/ Moves(u, 0, 0, one, 0, 0, 0, 0, -one, 0)
    <3>1. CASE results' = Append(results, r) /\ UNCHANGED <<active, pending>>
      BY <1>1, <2>1, <2>2, <2>3, <3>1, SMTT(30) DEF Moves, Counts
    <3>2. CASE active' = active \cup {t} /\ UNCHANGED <<results, pending>>
      BY <1>1, <2>1, <2>2, <2>3, <3>2, SMTT(30) DEF Moves, Counts
    <3>3. CASE pending' = Append(pending, t) /\ UNCHANGED <<results, active>>
      BY <1>1, <2>1, <2>2, <2>3, <3>3, SMTT(30) DEF Moves, Counts
    <3> QED BY <1>3, <3>1, <3>2, <3>3, Zenon
  <2>5. /\ 0 + 0 + 0 + 0 + one + 0 + 0 + (-one) + 0 = 0
        /\ 0 + one + 0 + 0 + 0 + 0 + 0 + (-one) + 0 = 0
        /\ 0 + 0 + one + 0 + 0 + 0 + 0 + (-one) + 0 = 0
        /\ -one \in Int /\ one \in Int /\ 0 \in Int
    BY <2>1
  <2>6. Has(given' \ ended', u) = Has(given \ ended, u) + 0
    BY <1>1, HasType
  <2> QED BY <1>0, <2>4, <2>5, <2>6, Balance, Zenon
<1>11. LocalInv' /\ TriesInv' /\ FreshInv'
  BY <1>0, <1>1, <1>8, FreshKept, TriesKept DEF Inv, LocalInv
<1> QED BY <1>9, <1>10, <1>11 DEF Inv

(* A result goes to the parser, or its task back to the queue; what the    *)
(* cache is asked to save is no task in hand.                              *)
LEMMA ResultStep ==
  ASSUME Inv, ProcessResult
  PROVE  Inv'
<1>0. TypeOK /\ HandInv /\ LocalInv
  BY DEF Inv
<1>e. EndTypes'
  BY <1>0, EndTypesStep, Zenon DEF Inv, Next, Main
<1>1. /\ pc' = "results" /\ results # <<>> /\ results' = Tail(results)
      /\ UNCHANGED <<cache, countdown, tries, pending, active, parser, parsed, gen, loaded, cacher,
                     given, ended>>
  BY DEF ProcessResult
<1>2. PICK m : m = Head(results)
  OBVIOUS
<1>p. results \in Seq(Result) /\ network \in Seq(Tasks) /\ loads \in Seq(Order)
  BY <1>0, Types
<1>3. /\ m \in Result /\ results' \in Seq(Result)
      /\ \A u : HowMany(results', Of(Result, u)) = HowMany(results, Of(Result, u)) - Has({m.task}, u)
  BY <1>p, <1>1, <1>2, RecordOut
<1>4. PICK t : t = m.task
  OBVIOUS
<1>s. PICK save : save = [do |-> "save", task |-> t]
  OBVIOUS
<1>5. /\ \/ network' = Append(network, t) /\ UNCHANGED <<queue, refresh>>
         \/ queue' = queue \cup {t} /\ refresh' = refresh \cup {t} /\ UNCHANGED network
      /\ loads' = loads \/ loads' = Append(loads, save)
  BY <1>2, <1>4, <1>s DEF ProcessResult, Processed, Valid, TryAgain
<1>6. t \in Tasks /\ save \in Order /\ save.do = "save"
  BY <1>3, <1>4, <1>s DEF Result, Order
<1>7. t \notin queue
  <2>1. Has({t}, t) = 1 /\ HowMany(results', Of(Result, t)) \in Nat /\ HowMany(results, Of(Result, t)) \in Nat
    BY <1>p, <1>3, HasType, CountType
  <2>2. HowMany(results', Of(Result, t)) = HowMany(results, Of(Result, t)) - Has({t}, t)
    BY <1>3, <1>4
  <2>3. HowMany(results, Of(Result, t)) > 0
    BY <2>1, <2>2
  <2> QED BY <1>0, <1>6, <2>3, NotTwice
<1>8. /\ loads' \in Seq(Order)
      /\ loads # <<>> => loads' # <<>>
      /\ \A u : HowMany(loads', {Load(u)}) = HowMany(loads, {Load(u)})
  <2>1. \A u : HowMany(Append(loads, save), {Load(u)}) = HowMany(loads, {Load(u)})
    <3> SUFFICES ASSUME NEW u
                 PROVE  HowMany(Append(loads, save), {Load(u)}) = HowMany(loads, {Load(u)})
      OBVIOUS
    <3>1. LoadOf(save, u) = 0 /\ HowMany(loads, {Load(u)}) \in Nat
      BY <1>p, <1>6, CountType DEF LoadOf
    <3>2. HowMany(Append(loads, save), {Load(u)}) = HowMany(loads, {Load(u)}) + LoadOf(save, u)
      BY <1>p, <1>6, OrderIn
    <3> QED BY <3>1, <3>2
  <2>2. CASE loads' = loads
    BY <1>p, <2>2
  <2>3. CASE loads' = Append(loads, save)
    <3>1. Append(loads, save) \in Seq(Order) /\ Append(loads, save) # <<>>
      BY <1>p, <1>6
    <3> QED BY <2>1, <2>3, <3>1
  <2> QED BY <1>5, <2>2, <2>3
<1>9. TypeOK'
  <2>1. network' \in Seq(Tasks) /\ queue' \subseteq Tasks /\ refresh' \subseteq Tasks
    <3>1. Append(network, t) \in Seq(Tasks)
      BY <1>p, <1>6
    <3> QED BY <1>0, <1>p, <1>5, <1>6, <3>1 DEF TypeOK
  <2> QED BY <1>e, <1>0, <1>1, <1>3, <1>8, <2>1, SMTT(30) DEF TypeOK
<1>10. HandInv'
  <2> SUFFICES ASSUME NEW u \in Tasks PROVE Held(u)' = Has(given \ ended, u)'
    BY DEF HandInv
  <2> DEFINE one == Has({t}, u)
  <2>1. one \in Nat /\ Counts(u)
    BY <1>0, HasType, HeldParts
  <2>2. HowMany(results', Of(Result, u)) = HowMany(results, Of(Result, u)) - one
    BY <1>3, <1>4
  <2>3. /\ HowMany(Append(network, t), {u}) = HowMany(network, {u}) + one
        /\ Has(queue \cup {t}, u) = Has(queue, u) + one
    BY <1>p, <1>6, <1>7, HasChanges, TaskIn
  <2> HIDE DEF one
  <2>4. \/ Moves(u, 0, 0, 0, one, -one, 0, 0, 0, 0)
        \/ Moves(u, one, 0, 0, 0, -one, 0, 0, 0, 0)
    <3>0. HowMany(loads', {Load(u)}) = HowMany(loads, {Load(u)})
      BY <1>8
    <3>1. CASE network' = Append(network, t) /\ UNCHANGED queue
      <4>1. Moves(u, 0, 0, 0, one, -one, 0, 0, 0, 0)
        BY <1>1, <2>1, <2>2, <2>3, <3>0, <3>1, SMTT(30) DEF Moves, Counts
      <4> QED BY <4>1
    <3>2. CASE queue' = queue \cup {t} /\ UNCHANGED network
      <4>1. Moves(u, one, 0, 0, 0, -one, 0, 0, 0, 0)
        BY <1>1, <2>1, <2>2, <2>3, <3>0, <3>2, SMTT(30) DEF Moves, Counts
      <4> QED BY <4>1
    <3> QED BY <1>5, <3>1, <3>2, Zenon
  <2>5. /\ 0 + 0 + 0 + one + (-one) + 0 + 0 + 0 + 0 = 0
        /\ one + 0 + 0 + 0 + (-one) + 0 + 0 + 0 + 0 = 0
        /\ -one \in Int /\ one \in Int /\ 0 \in Int
    BY <2>1
  <2>6. Has(given' \ ended', u) = Has(given \ ended, u) + 0
    BY <1>1, HasType
  <2> QED BY <1>0, <2>4, <2>5, <2>6, Balance, Zenon
<1>11. LocalInv'
  <2>1. pc # "stopped"
    BY DEF ProcessResult
  <2> QED BY <1>0, <1>1, <1>8, <2>1 DEF LocalInv
<1>12. TriesInv' /\ FreshInv'
  <2>1. queue \subseteq queue'
    BY <1>5
  <2> QED BY <1>1, <2>1, FreshKept, TriesKept DEF Inv
<1> QED BY <1>9, <1>10, <1>11, <1>12 DEF Inv

(* All but the head of a queue stays in it when the head is taken.         *)
LEMMA TailKeeps ==
  ASSUME NEW S, NEW s \in Seq(S), s # <<>>
  PROVE  \A i \in DOMAIN s : s[i] = Head(s) \/ \E j \in DOMAIN Tail(s) : Tail(s)[j] = s[i]
<1> SUFFICES ASSUME NEW i \in DOMAIN s, i # 1 PROVE \E j \in DOMAIN Tail(s) : Tail(s)[j] = s[i]
  OBVIOUS
<1>1. i \in 2..Len(s) /\ Len(s) \in Nat
  OBVIOUS
<1>2. i - 1 \in DOMAIN Tail(s) /\ Tail(s)[i - 1] = s[i]
  BY <1>1
<1> QED BY <1>2

(* What the handlers yielded goes to the queue.  A clone is counted once   *)
(* more; it was within the limits, or it would not have come this far.     *)
LEMMA HandlerStep ==
  ASSUME Inv, ProcessHandlerResult
  PROVE  Inv'
<1>0. TypeOK /\ HandInv /\ LocalInv /\ TriesInv /\ FreshInv
  BY DEF Inv
<1>e. EndTypes'
  BY <1>0, EndTypesStep, Zenon DEF Inv, Next, Main
<1>1. /\ pc = "drain"
      /\ UNCHANGED <<cache, countdown, pending, active, results, network, parser, gen, loads, loaded,
                     cacher, given, ended>>
  BY DEF ProcessHandlerResult, genVars, cacheVars
<1>2. CASE parsed = <<>>
  <2>1. pc' = "top" /\ UNCHANGED <<queue, parsed, tries, refresh>>
    BY <1>2 DEF ProcessHandlerResult
  <2>2. TypeOK'
    BY <1>e, <1>0, <1>1, <2>1 DEF TypeOK
  <2>3. countdown' = 0 => pc' = "stopped"
    BY <1>0, <1>1 DEF LocalInv
  <2> QED BY <1>1, <2>1, <2>2, <2>3, QuietStep
<1>3. CASE parsed # <<>> /\ Head(parsed) # Raised
  <2>1. PICK r, t : r = Head(parsed) /\ t = r.task
    OBVIOUS
  <2>2. /\ queue' = queue \cup {t} /\ parsed' = Tail(parsed) /\ pc' = pc
        /\ \/ /\ r.clone
              /\ tries' = [tries EXCEPT ![t] = [network |-> 0, task |-> @.task + 1]]
              /\ refresh' = refresh \cup {t}
           \/ ~r.clone /\ UNCHANGED <<tries, refresh>>
    BY <1>3, <2>1 DEF ProcessHandlerResult, AddMade
  <2>3. /\ r \in Made /\ parsed' \in Seq(Made) /\ parsed \in Seq(Made)
        /\ \A u : HowMany(parsed', Of(Made, u)) = HowMany(parsed, Of(Made, u)) - Has({t}, u)
    BY <1>0, <1>3, <2>1, <2>2, Types, RecordOut
  <2>4. t \in Tasks
    BY <1>3, <2>1, <2>3 DEF Made
  <2>5. t \notin queue /\ t \in given /\ t \notin ended /\ HowMany(parsed', Of(Made, t)) = 0
    <3>1. Has({t}, t) = 1 /\ HowMany(parsed', Of(Made, t)) \in Nat
      BY <2>3, HasType, CountType
    <3>2. HowMany(parsed', Of(Made, t)) = HowMany(parsed, Of(Made, t)) - Has({t}, t) /\ Counts(t)
      BY <1>0, <2>3, HeldParts
    <3>3. HowMany(parsed, Of(Made, t)) > 0
      BY <3>1, <3>2 DEF Counts
    <3>4. Held(t) = 1 /\ t \in given /\ t \notin ended /\ t \notin queue
      BY <1>0, <2>4, <3>3, OnlyHand, NotTwice
    <3>5. HowMany(parsed, Of(Made, t)) = 1
      BY <3>2, <3>3, <3>4 DEF Held, Counts
    <3> QED BY <3>1, <3>2, <3>4, <3>5
  <2>6. \A i \in DOMAIN parsed : parsed[i] = r \/ \E j \in DOMAIN parsed' : parsed'[j] = parsed[i]
    BY <1>3, <2>1, <2>2, <2>3, TailKeeps
  <2>7. r.clone => tries[t].task <= TaskTryLimit
    <3> SUFFICES ASSUME r.clone, tries[t].task > TaskTryLimit PROVE FALSE
      BY <1>0, <2>4, SpiderConstants, SMTT(30) DEF TypeOK
    <3>1. PICK i \in DOMAIN parsed : parsed[i] = [task |-> t, clone |-> FALSE]
      BY <1>0, <2>4, <2>5 DEF TriesInv
    <3>2. parsed[i] # r
      BY <3>1
    <3>3. PICK j \in DOMAIN parsed' : parsed'[j] = parsed[i]
      BY <2>6, <3>2
    <3>4. parsed'[j] \in Of(Made, t)
      <4>1. parsed'[j] \in Made
        BY <2>3
      <4>2. parsed'[j].task = t
        BY <3>1, <3>3
      <4> QED BY <4>1, <4>2 DEF Of
    <3> QED BY <2>3, <2>5, <3>4, CountType
  <2>8. /\ tries' \in [Tasks -> [network : 0..(NetworkTryLimit + 1), task : 1..(TaskTryLimit + 1)]]
        /\ \A u \in Tasks : u # t => tries'[u] = tries[u]
        /\ tries'[t].network <= NetworkTryLimit
    <3>1. /\ tries \in [Tasks -> [network : 0..(NetworkTryLimit + 1), task : 1..(TaskTryLimit + 1)]]
          /\ tries[t].network <= NetworkTryLimit /\ NetworkTryLimit \in Nat /\ TaskTryLimit \in Nat
      BY <1>0, <2>4, <2>5, SpiderConstants DEF TypeOK, TriesInv
    <3>2. CASE r.clone /\ tries' = [tries EXCEPT ![t] = [network |-> 0, task |-> @.task + 1]]
      <4>1. [network |-> 0, task |-> tries[t].task + 1]
              \in [network : 0..(NetworkTryLimit + 1), task : 1..(TaskTryLimit + 1)]
        BY <2>4, <2>7, <3>1, <3>2
      <4> QED BY <2>4, <3>1, <3>2, <4>1
    <3>3. CASE tries' = tries
      BY <3>1, <3>3
    <3> QED BY <2>2, <3>2, <3>3
  <2>9. TypeOK'
    <3>1. /\ queue \subseteq Tasks /\ refresh \subseteq Tasks
          /\ queue' = queue \cup {t} /\ refresh' \in {refresh, refresh \cup {t}} /\ pc' = pc
      BY <1>0, <2>2 DEF TypeOK
    <3>2. queue' \subseteq Tasks /\ refresh' \subseteq Tasks /\ pc' = "drain"
      BY <1>1, <2>4, <3>1
    <3> QED BY <1>e, <1>0, <1>1, <2>3, <2>8, <3>2, SMTT(60) DEF TypeOK
  <2>10. HandInv'
    <3> SUFFICES ASSUME NEW u \in Tasks PROVE Held(u)' = Has(given \ ended, u)'
      BY DEF HandInv
    <3> DEFINE one == Has({t}, u)
    <3>1. one \in Nat /\ Counts(u)
      BY <1>0, HasType, HeldParts
    <3>2. /\ HowMany(parsed', Of(Made, u)) = HowMany(parsed, Of(Made, u)) - one
          /\ Has(queue', u) = Has(queue, u) + one
      <4>1. HowMany(parsed', Of(Made, u)) = HowMany(parsed, Of(Made, u)) - one
        BY <2>3
      <4>2. Has(queue \cup {t}, u) = Has(queue, u) + one
        BY <2>5, HasChanges
      <4> QED BY <2>2, <4>1, <4>2
    <3> HIDE DEF one
    <3>3. Moves(u, one, 0, 0, 0, 0, 0, 0, 0, -one)
      BY <1>1, <3>1, <3>2 DEF Moves, Counts
    <3>4. one + 0 + 0 + 0 + 0 + 0 + 0 + 0 + (-one) = 0 /\ -one \in Int /\ one \in Int /\ 0 \in Int
      BY <3>1
    <3>5. Has(given' \ ended', u) = Has(given \ ended, u) + 0
      BY <1>1, HasType
    <3> QED BY <1>0, <3>3, <3>4, <3>5, Balance, Zenon
  <2>11. TriesInv'
    <3> SUFFICES ASSUME NEW u \in Tasks
                 PROVE  /\ u \notin ended' => tries'[u].network <= NetworkTryLimit
                        /\ tries'[u].task > TaskTryLimit =>
                             \/ u \in queue' \/ u \in ended' \/ u \notin given'
                             \/ \E i \in DOMAIN parsed' : parsed'[i] = [task |-> u, clone |-> FALSE]
      BY DEF TriesInv
    <3>1. CASE u = t
      BY <2>2, <2>8, <3>1
    <3>2. CASE u # t
      <4>1. tries'[u] = tries[u] /\ ended' = ended /\ given' = given /\ queue \subseteq queue'
        BY <1>1, <2>2, <2>8, <3>2
      <4>2. ASSUME NEW i \in DOMAIN parsed, parsed[i] = [task |-> u, clone |-> FALSE]
            PROVE  \E j \in DOMAIN parsed' : parsed'[j] = [task |-> u, clone |-> FALSE]
        <5>1. parsed[i] # r
          BY <2>1, <3>2, <4>2
        <5> QED BY <2>6, <4>2, <5>1
      <4> QED BY <1>0, <4>1, <4>2 DEF TriesInv
    <3> QED BY <3>1, <3>2
  <2>12. LocalInv' /\ FreshInv'
    BY <1>0, <1>1, <2>2, FreshKept DEF LocalInv
  <2> QED BY <2>9, <2>10, <2>11, <2>12 DEF Inv
<1>4. CASE parsed # <<>> /\ Head(parsed) = Raised
  <2>1. /\ parsed' = Tail(parsed) /\ UNCHANGED <<queue, tries, refresh>>
        /\ pc' = pc \/ pc' = "stopped"
    BY <1>4 DEF ProcessHandlerResult
  <2>2. /\ parsed \in Seq(Made) /\ parsed' \in Seq(Made)
        /\ \A u : HowMany(parsed', Of(Made, u)) = HowMany(parsed, Of(Made, u)) - Has({None}, u)
    <3>1. Head(parsed).task = None
      BY <1>4 DEF Raised
    <3> QED BY <1>0, <1>4, <2>1, <3>1, Types, RecordOut
  <2>3. TypeOK'
    BY <1>e, <1>0, <1>1, <2>1, <2>2, SMTT(30) DEF TypeOK
  <2>4. HandInv'
    <3> SUFFICES ASSUME NEW u \in Tasks PROVE Held(u)' = Has(given \ ended, u)'
      BY DEF HandInv
    <3>1. HowMany(parsed', Of(Made, u)) = HowMany(parsed, Of(Made, u))
      <4>1. Has({None}, u) = 0
        BY SpiderConstants DEF Has
      <4>2. HowMany(parsed, Of(Made, u)) \in Nat
        BY <2>2, CountType
      <4>3. HowMany(parsed', Of(Made, u)) = HowMany(parsed, Of(Made, u)) - Has({None}, u)
        BY <2>2
      <4> QED BY <4>1, <4>2, <4>3
    <3> QED BY <1>0, <1>1, <2>1, <3>1 DEF HandInv, Held
  <2>5. TriesInv'
    <3>1. ASSUME NEW u \in Tasks, NEW i \in DOMAIN parsed, parsed[i] = [task |-> u, clone |-> FALSE]
          PROVE  \E j \in DOMAIN parsed' : parsed'[j] = [task |-> u, clone |-> FALSE]
      <4>1. parsed[i] # Head(parsed)
        BY <1>4, <3>1, SpiderConstants DEF Raised
      <4>2. PICK j \in DOMAIN Tail(parsed) : Tail(parsed)[j] = parsed[i]
        BY <1>4, <2>2, <4>1, TailKeeps
      <4> QED BY <2>1, <3>1, <4>2
    <3> QED BY <1>0, <1>1, <2>1, <3>1 DEF TriesInv
  <2>6. LocalInv' /\ FreshInv'
    BY <1>0, <1>1, <2>1, FreshKept DEF LocalInv
  <2> QED BY <2>3, <2>4, <2>5, <2>6 DEF Inv
<1> QED BY <1>2, <1>3, <1>4

(* A task in hand is looked up in the cache, goes to the network or ends.  *)
LEMMA TakeStep ==
  ASSUME Inv, TakeTask
  PROVE  Inv'
<1>0. TypeOK /\ HandInv /\ LocalInv /\ TriesInv /\ FreshInv
  BY DEF Inv
<1>e. EndTypes'
  BY <1>0, EndTypesStep, Zenon DEF Inv, Next, Main
<1>1. /\ pc = "top" /\ pc' \in {"work", "size"}
      /\ UNCHANGED <<cache, countdown, refresh, results, network, parser, parsed, gen, loaded, cacher,
                     given>>
  BY DEF TakeTask
<1>2. CASE UNCHANGED <<tries, queue, pending, active, loads, ended>>
  <2>1. TypeOK'
    BY <1>e, <1>0, <1>1, <1>2 DEF TypeOK
  <2>2. countdown' = 0 => pc' = "stopped"
    BY <1>0, <1>1 DEF LocalInv
  <2> QED BY <1>1, <1>2, <2>1, <2>2, QuietStep
<1>3. ASSUME NEW t, Free, Accept(t),
             \/ pending # <<>> /\ t = Head(pending) /\ pending' = Tail(pending) /\ queue' = queue
             \/ t \in queue /\ queue' = queue \ {t} /\ pending' = pending
      PROVE  Inv'
  <2>1. t \in Tasks /\ pending \in Seq(Tasks) /\ pending' \in Seq(Tasks) /\ queue' \subseteq Tasks
    <3>1. pending \in Seq(Tasks) /\ queue \subseteq Tasks
      BY <1>0 DEF TypeOK
    <3>2. pending # <<>> => Head(pending) \in Tasks /\ Tail(pending) \in Seq(Tasks)
      BY <3>1
    <3> QED BY <1>3, <3>1, <3>2
  <2>2. t \notin active /\ t \in given /\ t \notin ended
    <3>1. t \in queue \/ HowMany(pending, {t}) > 0
      <4>1. CASE pending # <<>> /\ t = Head(pending)
        <5>1. HowMany(pending, {t}) > 0
          BY <2>1, <4>1, CountTail
        <5> QED BY <5>1
      <4> QED BY <1>3, <4>1
    <3> QED BY <1>0, <2>1, <3>1, NotTwice, OnlyHand
  <2>l. PICK load : load = [do |-> "load", task |-> t]
    OBVIOUS
  <2>3. /\ tries' = [tries EXCEPT ![t].network = @ + 1]
        /\ \/ /\ check_task_limits(t) /\ ended' = ended
              /\ \/ loads' = Append(loads, load) /\ UNCHANGED active
                 \/ active' = active \cup {t} /\ UNCHANGED loads
           \/ ended' = ended \cup {t} /\ UNCHANGED <<active, loads>>
    BY <1>3, <2>l DEF Accept
  <2>4. /\ tries \in [Tasks -> [network : 0..(NetworkTryLimit + 1), task : 1..(TaskTryLimit + 1)]]
        /\ tries[t].network <= NetworkTryLimit /\ NetworkTryLimit \in Nat /\ TaskTryLimit \in Nat
    BY <1>0, <2>1, <2>2, SpiderConstants DEF TypeOK, TriesInv
  <2>5. /\ tries' \in [Tasks -> [network : 0..(NetworkTryLimit + 1), task : 1..(TaskTryLimit + 1)]]
        /\ \A u \in Tasks : u # t => tries'[u] = tries[u]
        /\ tries'[t].network = tries[t].network + 1 /\ tries'[t].task = tries[t].task
    <3>1. [tries[t] EXCEPT !.network = @ + 1]
            \in [network : 0..(NetworkTryLimit + 1), task : 1..(TaskTryLimit + 1)]
      <4>1. tries[t] \in [network : 0..(NetworkTryLimit + 1), task : 1..(TaskTryLimit + 1)]
        BY <2>1, <2>4
      <4>2. tries[t].network \in Nat /\ tries[t].network + 1 \in 0..(NetworkTryLimit + 1)
        BY <2>4, <4>1
      <4> QED BY <4>1, <4>2
    <3> QED BY <2>1, <2>3, <2>4, <3>1
  <2>6. loads \in Seq(Order) /\ load \in Order /\ loads' \in Seq(Order) /\ (loads # <<>> => loads' # <<>>)
    <3>1. loads \in Seq(Order) /\ load \in Order
      BY <1>0, <2>1, <2>l, Types DEF Order
    <3>2. Append(loads, load) \in Seq(Order) /\ Append(loads, load) # <<>>
      BY <3>1
    <3> QED BY <2>3, <3>1, <3>2
  <2>7. IsFiniteSet(active') /\ active' \subseteq Tasks /\ Cardinality(active') <= Threads
    <3>1. CASE active' = active
      BY <1>0, <3>1 DEF TypeOK, LocalInv
    <3>2. CASE active' = active \cup {t}
      BY <1>0, <1>3, <2>1, <2>2, <3>2, FreeHandle
    <3> QED BY <2>3, <3>1, <3>2
  <2>8. ended' \subseteq given' /\ ended \subseteq ended'
    BY <1>0, <1>1, <2>2, <2>3 DEF TypeOK
  <2>9. TypeOK'
    BY <1>e, <1>0, <1>1, <2>1, <2>5, <2>6, <2>7, <2>8, ZenonT(60) DEF TypeOK
  <2>10. HandInv'
    <3> SUFFICES ASSUME NEW u \in Tasks PROVE Held(u)' = Has(given \ ended, u)'
      BY DEF HandInv
    <3> DEFINE one == Has({t}, u)
    <3>1. one \in Nat /\ Counts(u)
      BY <1>0, HasType, HeldParts
    <3>2. \/ HowMany(pending', {u}) = HowMany(pending, {u}) - one /\ Has(queue', u) = Has(queue, u)
          \/ HowMany(pending', {u}) = HowMany(pending, {u}) /\ Has(queue', u) = Has(queue, u) - one
      <4>1. CASE pending # <<>> /\ t = Head(pending) /\ pending' = Tail(pending) /\ queue' = queue
        BY <2>1, <4>1, TaskOut
      <4>2. CASE t \in queue /\ queue' = queue \ {t} /\ pending' = pending
        <5>1. Has(queue, u) = Has(queue', u) + one /\ Has(queue', u) \in Nat
          BY <4>2, HasChanges, HasType
        <5> QED BY <3>1, <4>2, <5>1
      <4> QED BY <1>3, <4>1, <4>2
    <3>3. /\ HowMany(Append(loads, load), {Load(u)}) = HowMany(loads, {Load(u)}) + one
          /\ Has(active \cup {t}, u) = Has(active, u) + one
      <4>1. LoadOf(load, u) = one
        BY <2>l DEF LoadOf
      <4> QED BY <2>2, <2>6, <4>1, OrderIn, HasChanges
    <3>4. Has(given \ (ended \cup {t}), u) = Has(given \ ended, u) + (-one)
      BY <2>2 DEF Has
    <3> HIDE DEF one
    <3>5. ASSUME NEW q \in Int, NEW p \in Int, q + p = -one,
                 HowMany(pending', {u}) = HowMany(pending, {u}) + p, Has(queue', u) = Has(queue, u) + q
          PROVE  Held(u)' = Has(given \ ended, u)'
      <4>1. /\ q + 0 + p + 0 + 0 + 0 + one + 0 + 0 = 0
            /\ q + one + p + 0 + 0 + 0 + 0 + 0 + 0 = 0
            /\ q + 0 + p + 0 + 0 + 0 + 0 + 0 + 0 = -one
            /\ one \in Int /\ -one \in Int /\ 0 \in Int
        BY <3>1, <3>5
      <4>2. CASE ended' = ended /\ loads' = Append(loads, load) /\ UNCHANGED active
        <5>1. Moves(u, q, 0, p, 0, 0, 0, one, 0, 0)
          BY <1>1, <3>1, <3>3, <3>5, <4>2, SMTT(30) DEF Moves, Counts
        <5>2. Has(given' \ ended', u) = Has(given \ ended, u) + 0
          BY <1>1, <4>2, HasType
        <5> QED BY <1>0, <4>1, <5>1, <5>2, Balance, Zenon
      <4>3. CASE ended' = ended /\ active' = active \cup {t} /\ UNCHANGED loads
        <5>1. Moves(u, q, one, p, 0, 0, 0, 0, 0, 0)
          BY <1>1, <3>1, <3>3, <3>5, <4>3 DEF Moves, Counts
        <5>2. Has(given' \ ended', u) = Has(given \ ended, u) + 0
          BY <1>1, <4>3, HasType
        <5> QED BY <1>0, <4>1, <5>1, <5>2, Balance, Zenon
      <4>4. CASE ended' = ended \cup {t} /\ UNCHANGED <<active, loads>>
        <5>1. Moves(u, q, 0, p, 0, 0, 0, 0, 0, 0)
          BY <1>1, <3>1, <3>5, <4>4 DEF Moves, Counts
        <5>2. Has(given' \ ended', u) = Has(given \ ended, u) + (-one)
          BY <1>1, <3>4, <4>4
        <5> QED BY <1>0, <4>1, <5>1, <5>2, Balance, Zenon
      <4> QED BY <2>3, <4>2, <4>3, <4>4
    <3>6. /\ -one \in Int /\ 0 \in Int /\ 0 + (-one) = -one /\ (-one) + 0 = -one
          /\ HowMany(pending, {u}) - one = HowMany(pending, {u}) + (-one)
          /\ HowMany(pending, {u}) = HowMany(pending, {u}) + 0
          /\ Has(queue, u) - one = Has(queue, u) + (-one) /\ Has(queue, u) = Has(queue, u) + 0
      BY <3>1 DEF Counts
    <3> QED BY <3>2, <3>5, <3>6, Zenon
  <2>11. TriesInv'
    <3> SUFFICES ASSUME NEW u \in Tasks
                 PROVE  /\ u \notin ended' => tries'[u].network <= NetworkTryLimit
                        /\ tries'[u].task > TaskTryLimit =>
                             \/ u \in queue' \/ u \in ended' \/ u \notin given'
                             \/ \E i \in DOMAIN parsed' : parsed'[i] = [task |-> u, clone |-> FALSE]
      BY DEF TriesInv
    <3>1. CASE u = t
      <4>1. CASE check_task_limits(t)
        <5>1. tries'[t].network <= NetworkTryLimit /\ tries'[t].task <= TaskTryLimit
          BY <2>5, <4>1 DEF check_task_limits
        <5>2. tries'[t].task \in Nat
          BY <2>1, <2>5
        <5> QED BY <2>4, <3>1, <5>1, <5>2
      <4>2. CASE ended' = ended \cup {t}
        BY <3>1, <4>2
      <4> QED BY <2>3, <4>1, <4>2
    <3>2. CASE u # t
      <4>1. tries'[u] = tries[u] /\ ended \subseteq ended' /\ given' = given /\ parsed' = parsed
        BY <1>1, <2>5, <2>8, <3>2
      <4>2. u \in queue => u \in queue'
        BY <1>3, <3>2
      <4> QED BY <1>0, <4>1, <4>2 DEF TriesInv
    <3> QED BY <3>1, <3>2
  <2>12. LocalInv'
    BY <1>0, <1>1, <2>6, <2>7 DEF LocalInv
  <2>13. FreshInv'
    BY <1>0, <1>1, <2>8, FreshKept
  <2> QED BY <2>9, <2>10, <2>11, <2>12, <2>13 DEF Inv
<1>4. CASE Free /\ pending # <<>> /\ Accept(Head(pending)) /\ pending' = Tail(pending) /\ UNCHANGED queue
  BY <1>3, <1>4
<1>5. CASE Free /\ (\E t \in queue : Accept(t) /\ queue' = queue \ {t}) /\ UNCHANGED pending
  BY <1>3, <1>5
<1> QED BY <1>2, <1>4, <1>5 DEF TakeTask

(* The parser takes a result.                                              *)
LEMMA GetStep ==
  ASSUME Inv, ParserGet,
         UNCHANGED <<cache, mainVars, queue, genVars, cacheVars>>
  PROVE  Inv'
<1>0. TypeOK /\ HandInv /\ LocalInv /\ TriesInv /\ FreshInv
  BY DEF Inv
<1>e. EndTypes'
  BY <1>0, EndTypesStep, Zenon DEF Inv, Next, Parser
<1>1. /\ parser.at = "get"
      /\ UNCHANGED <<cache, pc, countdown, tries, refresh, queue, pending, active, results, parsed,
                     gen, loads, loaded, cacher, given, ended>>
  BY DEF ParserGet, mainVars, genVars, cacheVars
<1>2. parser.task = None /\ parser \in [at : {"get", "sleep", "gone"}, task : {None}]
  BY <1>0, <1>1 DEF TypeOK
<1>3. CASE network = <<>>
  <2>1. network' = network /\ parser' = [parser EXCEPT !.at = "sleep"]
    BY <1>3 DEF ParserGet
  <2>2. parser' \in [at : {"get", "sleep", "gone"}, task : {None}] /\ parser'.task = parser.task
    BY <1>2, <2>1
  <2>3. TypeOK'
    BY <1>e, <1>0, <1>1, <2>1, <2>2 DEF TypeOK
  <2> QED BY <1>0, <1>1, <2>1, <2>2, <2>3, QuietStep DEF LocalInv
<1>4. CASE network # <<>>
  <2>1. PICK t : t = Head(network)
    OBVIOUS
  <2>2. /\ parser' = [at |-> "handle", task |-> t] /\ network' = Tail(network)
        /\ network \in Seq(Tasks) /\ network' \in Seq(Tasks) /\ t \in Tasks
    <3>1. parser' = [at |-> "handle", task |-> t] /\ network' = Tail(network)
      BY <1>4, <2>1 DEF ParserGet
    <3>2. network \in Seq(Tasks)
      BY <1>0, Types
    <3> QED BY <1>4, <2>1, <3>1, <3>2
  <2>3. TypeOK'
    BY <1>e, <1>0, <1>1, <2>2, SMTT(30) DEF TypeOK
  <2>4. HandInv'
    <3> SUFFICES ASSUME NEW u \in Tasks PROVE Held(u)' = Has(given \ ended, u)'
      BY DEF HandInv
    <3> DEFINE one == Has({t}, u)
    <3>1. one \in Nat /\ Counts(u)
      BY <1>0, HasType, HeldParts
    <3>2. HowMany(network', {u}) = HowMany(network, {u}) - one
      BY <1>4, <2>1, <2>2, TaskOut
    <3>3. Has({parser.task}, u) = 0 /\ Has({parser'.task}, u) = one
      BY <1>2, <2>2, SpiderConstants DEF Has
    <3> HIDE DEF one
    <3>4. Moves(u, 0, 0, 0, -one, 0, one, 0, 0, 0)
      BY <1>1, <3>1, <3>2, <3>3 DEF Moves, Counts
    <3>5. 0 + 0 + 0 + (-one) + 0 + one + 0 + 0 + 0 = 0 /\ -one \in Int /\ one \in Int /\ 0 \in Int
      BY <3>1
    <3>6. Has(given' \ ended', u) = Has(given \ ended, u) + 0
      BY <1>1, HasType
    <3> QED BY <1>0, <3>4, <3>5, <3>6, Balance, Zenon
  <2>5. LocalInv' /\ TriesInv' /\ FreshInv'
    BY <1>0, <1>1, FreshKept, TriesKept DEF LocalInv
  <2> QED BY <2>3, <2>4, <2>5 DEF Inv
<1> QED BY <1>3, <1>4

(* A handler yields its tasks, each of them once.                          *)
LEMMA YieldedOnce ==
  ASSUME NEW T \in SUBSET Tasks, IsFiniteSet(T)
  PROVE  LET s == SetToSeq({[task |-> t, clone |-> FALSE] : t \in T})
         IN /\ s \in Seq(Made)
            /\ \A t \in T : \E i \in DOMAIN s : s[i] = [task |-> t, clone |-> FALSE]
            /\ \A u : HowMany(s, Of(Made, u)) = Has(T, u)
            /\ ToSet(s) \subseteq {[task |-> t, clone |-> FALSE] : t \in T}
<1> DEFINE K == {[task |-> t, clone |-> FALSE] : t \in T}
           f == [t \in T |-> [task |-> t, clone |-> FALSE]]
           s == SetToSeq(K)
<1>1. IsFiniteSet(K)
  <2>1. f \in Surjection(T, K)
    BY DEF Surjection
  <2> HIDE DEF f, K
  <2> QED BY <2>1, FS_Surjection
<1>2. K \subseteq Made
  <2> SUFFICES ASSUME NEW t \in T PROVE [task |-> t, clone |-> FALSE] \in Made
    OBVIOUS
  <2>1. t \in Tasks
    OBVIOUS
  <2> QED BY <2>1 DEF Made
<1>3. \A u : Cardinality(K \cap Of(Made, u)) = Has(T, u)
  <2> SUFFICES ASSUME NEW u PROVE Cardinality(K \cap Of(Made, u)) = Has(T, u)
    OBVIOUS
  <2>1. CASE u \in T
    <3>1. K \cap Of(Made, u) = {[task |-> u, clone |-> FALSE]}
      BY <1>2, <2>1 DEF Of
    <3> QED BY <2>1, <3>1, FS_Singleton DEF Has
  <2>2. CASE u \notin T
    <3>1. K \cap Of(Made, u) = {}
      BY <2>2 DEF Of
    <3> QED BY <2>2, <3>1, FS_EmptySet DEF Has
  <2> QED BY <2>1, <2>2
<1>4. \A t \in T : [task |-> t, clone |-> FALSE] \in K
  OBVIOUS
<1> HIDE DEF K
<1>5. /\ s \in Seq(K)
      /\ \A x \in K : \E i \in DOMAIN s : s[i] = x
      /\ \A u : HowMany(s, Of(Made, u)) = Cardinality(K \cap Of(Made, u))
  BY <1>1, CountSet
<1> HIDE DEF s
<1>6. s \in Seq(Made)
  BY <1>2, <1>5, SeqMonotonic
<1>7. /\ s \in Seq(Made)
      /\ \A t \in T : \E i \in DOMAIN s : s[i] = [task |-> t, clone |-> FALSE]
      /\ \A u : HowMany(s, Of(Made, u)) = Has(T, u)
  BY <1>3, <1>4, <1>5, <1>6
<1>8. ToSet(s) \subseteq K
  BY <1>5 DEF ToSet
<1> QED BY <1>7, <1>8 DEF s, K

(* An exception behind them makes no difference to the tasks.              *)
LEMMA Yielded ==
  ASSUME NEW T \in SUBSET Tasks, IsFiniteSet(T), NEW e \in {<<>>, <<Raised>>}
  PROVE  LET s == SetToSeq({[task |-> t, clone |-> FALSE] : t \in T}) \o e
         IN /\ s \in Seq(Made)
            /\ \A t \in T : \E i \in DOMAIN s : s[i] = [task |-> t, clone |-> FALSE]
            /\ \A u \in Tasks : HowMany(s, Of(Made, u)) = Has(T, u)
            /\ ToSet(s) \subseteq {[task |-> t, clone |-> FALSE] : t \in T} \cup {Raised}
<1>1. PICK q, K : q = SetToSeq(K) /\ K = {[task |-> t, clone |-> FALSE] : t \in T}
  OBVIOUS
<1>2. /\ q \in Seq(Made) /\ ToSet(q) \subseteq K
      /\ \A t \in T : \E i \in DOMAIN q : q[i] = [task |-> t, clone |-> FALSE]
      /\ \A u : HowMany(q, Of(Made, u)) = Has(T, u)
  BY <1>1, YieldedOnce, Zenon
<1>3. e \in Seq(Made) /\ (\A i \in DOMAIN e : e[i] = Raised)
  <2>1. Raised \in Made
    BY DEF Made
  <2>2. CASE e = <<>>
    BY <2>2
  <2>3. CASE e = <<Raised>>
    BY <2>1, <2>3
  <2> QED BY <2>2, <2>3
<1>4. \A u \in Tasks : HowMany(e, Of(Made, u)) = 0
  BY <1>3, CountType, SpiderConstants DEF Of, Raised
<1>5. PICK s : s = q \o e
  OBVIOUS
<1>6. /\ s \in Seq(Made) /\ Len(q) \in Nat /\ Len(e) \in Nat
      /\ DOMAIN q = 1..Len(q) /\ DOMAIN e = 1..Len(e) /\ DOMAIN s = 1..(Len(q) + Len(e))
      /\ \A i \in 1..(Len(q) + Len(e)) : s[i] = IF i <= Len(q) THEN q[i] ELSE e[i - Len(q)]
  BY <1>2, <1>3, <1>5, ConcatProperties
<1>7. \A u \in Tasks : HowMany(s, Of(Made, u)) = Has(T, u)
  <2> SUFFICES ASSUME NEW u \in Tasks PROVE HowMany(s, Of(Made, u)) = Has(T, u)
    OBVIOUS
  <2>1. HowMany(s, Of(Made, u)) = HowMany(q, Of(Made, u)) + HowMany(e, Of(Made, u))
    BY <1>2, <1>3, <1>5, CountConcat
  <2>2. Has(T, u) \in Nat
    BY HasType
  <2> QED BY <1>2, <1>4, <2>1, <2>2
<1>8. \A t \in T : \E i \in DOMAIN s : s[i] = [task |-> t, clone |-> FALSE]
  <2> SUFFICES ASSUME NEW t \in T PROVE \E i \in DOMAIN s : s[i] = [task |-> t, clone |-> FALSE]
    OBVIOUS
  <2>1. PICK i \in DOMAIN q : q[i] = [task |-> t, clone |-> FALSE]
    BY <1>2
  <2>2. i \in DOMAIN s /\ s[i] = q[i]
    BY <1>6
  <2> QED BY <2>1, <2>2
<1>9. ToSet(s) \subseteq K \cup {Raised}
  <2> SUFFICES ASSUME NEW i \in DOMAIN s PROVE s[i] \in K \cup {Raised}
    BY DEF ToSet
  <2>1. CASE i <= Len(q)
    BY <1>2, <1>6, <2>1 DEF ToSet
  <2>2. CASE ~(i <= Len(q))
    <3>1. i - Len(q) \in DOMAIN e /\ s[i] = e[i - Len(q)]
      BY <1>6, <2>2
    <3> QED BY <1>3, <3>1
  <2> QED BY <2>1, <2>2
<1> QED BY <1>1, <1>5, <1>6, <1>7, <1>8, <1>9, Zenon

LEMMA HandlesStep ==
  ASSUME Inv, ParserHandles,
         UNCHANGED <<cache, mainVars, queue, genVars, cacheVars>>
  PROVE  Inv'
<1>0. TypeOK /\ HandInv /\ LocalInv /\ TriesInv /\ FreshInv
  BY DEF Inv
<1>e. EndTypes'
  BY <1>0, EndTypesStep, Zenon DEF Inv, Next, Parser
<1>p. PICK p : p = parser.task
  OBVIOUS
<1>1. /\ parser.at = "handle" /\ parser' = [at |-> "get", task |-> None]
      /\ UNCHANGED <<cache, pc, countdown, tries, refresh, queue, pending, active, results, network,
                     gen, loads, loaded, cacher>>
  BY DEF ParserHandles, mainVars, genVars, cacheVars
<1>2. p \in Tasks /\ parsed \in Seq(Made)
  BY <1>0, <1>p, <1>1 DEF TypeOK
<1>3. p \in given /\ p \notin ended
  BY <1>0, <1>p, <1>2, OnlyHand
<1>4. LocalInv'
  BY <1>0, <1>1 DEF LocalInv
<1>5. \A u \in Tasks : Has({parser.task}, u) = Has({p}, u) /\ Has({parser'.task}, u) = 0
  BY <1>p, <1>1, SpiderConstants DEF Has
<1>6. ASSUME NEW T \in SUBSET Children[p], NEW e \in {<<>>, <<Raised>>},
             parsed' = parsed \o (SetToSeq({[task |-> t, clone |-> FALSE] : t \in T}) \o e),
             given' = given \cup T, ended' = ended \cup {p}
      PROVE  Inv'
  <2>1. T \subseteq Tasks /\ IsFiniteSet(T)
    BY <1>2, SpiderConstants, NewTasks, FS_Subset
  <2>2. PICK s \in Seq(Made) :
          /\ parsed' = parsed \o s
          /\ \A t \in T : \E i \in DOMAIN s : s[i] = [task |-> t, clone |-> FALSE]
          /\ \A u \in Tasks : HowMany(s, Of(Made, u)) = Has(T, u)
    BY <1>6, <2>1, Yielded, Zenon
  <2>3. /\ parsed' \in Seq(Made)
        /\ \A i \in DOMAIN parsed : i \in DOMAIN parsed' /\ parsed'[i] = parsed[i]
        /\ \A i \in DOMAIN s : Len(parsed) + i \in DOMAIN parsed' /\ parsed'[Len(parsed) + i] = s[i]
        /\ \A u \in Tasks : HowMany(parsed', Of(Made, u)) = HowMany(parsed, Of(Made, u)) + Has(T, u)
    <3>1. /\ parsed \o s \in Seq(Made)
          /\ Len(parsed \o s) = Len(parsed) + Len(s)
          /\ \A i \in 1..(Len(parsed) + Len(s)) :
               (parsed \o s)[i] = IF i <= Len(parsed) THEN parsed[i] ELSE s[i - Len(parsed)]
      BY <1>2, ConcatProperties, Zenon
    <3>2. /\ Len(parsed) \in Nat /\ Len(s) \in Nat
          /\ DOMAIN parsed = 1..Len(parsed) /\ DOMAIN s = 1..Len(s)
          /\ DOMAIN parsed' = 1..(Len(parsed) + Len(s))
      BY <1>2, <2>2, <3>1
    <3>3. \A u \in Tasks : HowMany(parsed', Of(Made, u)) = HowMany(parsed, Of(Made, u)) + Has(T, u)
      BY <1>2, <2>2, CountConcat
    <3>4. \A i \in DOMAIN parsed : i \in DOMAIN parsed' /\ parsed'[i] = parsed[i]
      BY <2>2, <3>1, <3>2
    <3>5. ASSUME NEW i \in DOMAIN s
          PROVE  Len(parsed) + i \in DOMAIN parsed' /\ parsed'[Len(parsed) + i] = s[i]
      <4> DEFINE k == Len(parsed) + i
      <4>1. k \in 1..(Len(parsed) + Len(s)) /\ ~(k <= Len(parsed)) /\ k - Len(parsed) = i
        BY <3>2
      <4>2. parsed'[k] = s[k - Len(parsed)]
        <5> HIDE DEF k
        <5> QED BY <2>2, <3>1, <4>1
      <4> QED BY <3>2, <4>1, <4>2
    <3> QED BY <2>2, <3>1, <3>3, <3>4, <3>5, Zenon
  <2>4. T \cap given = {}
    BY <1>0, <1>2, <1>3 DEF FreshInv
  <2>5. TypeOK'
    BY <1>e, <1>0, <1>1, <1>3, <1>6, <2>1, <2>3, SMTT(30) DEF TypeOK
  <2>6. HandInv'
    <3> SUFFICES ASSUME NEW u \in Tasks PROVE Held(u)' = Has(given \ ended, u)'
      BY DEF HandInv
    <3> DEFINE one == Has({p}, u)
               more == Has(T, u)
    <3>1. one \in Nat /\ more \in Nat /\ Counts(u) /\ Has(given \ ended, u) \in Nat
      BY <1>0, HasType, HeldParts
    <3>2. Has(given' \ ended', u) = Has(given \ ended, u) + (more - one)
      <4>1. ended \subseteq given
        BY <1>0 DEF TypeOK
      <4> QED BY <1>3, <1>6, <2>4, <4>1 DEF Has
    <3>3. HowMany(parsed', Of(Made, u)) = HowMany(parsed, Of(Made, u)) + more
      BY <2>3
    <3>4. Has({parser.task}, u) = one /\ Has({parser'.task}, u) = 0
      BY <1>5
    <3> HIDE DEF one, more
    <3>5. Moves(u, 0, 0, 0, 0, 0, -one, 0, 0, more)
      BY <1>1, <3>1, <3>3, <3>4, SMTT(60) DEF Moves, Counts
    <3>6. /\ 0 + 0 + 0 + 0 + 0 + (-one) + 0 + 0 + more = more - one
          /\ -one \in Int /\ more \in Int /\ more - one \in Int /\ 0 \in Int
      BY <3>1
    <3> QED BY <1>0, <3>2, <3>5, <3>6, Balance, Zenon
  <2>7. TriesInv'
    <3> SUFFICES ASSUME NEW u \in Tasks
                 PROVE  /\ u \notin ended' => tries'[u].network <= NetworkTryLimit
                        /\ tries'[u].task > TaskTryLimit =>
                             \/ u \in queue' \/ u \in ended' \/ u \notin given'
                             \/ \E i \in DOMAIN parsed' : parsed'[i] = [task |-> u, clone |-> FALSE]
      BY DEF TriesInv
    <3>1. u \in T => \E i \in DOMAIN parsed' : parsed'[i] = [task |-> u, clone |-> FALSE]
      BY <2>2, <2>3
    <3>2. (\E i \in DOMAIN parsed : parsed[i] = [task |-> u, clone |-> FALSE])
            => \E i \in DOMAIN parsed' : parsed'[i] = [task |-> u, clone |-> FALSE]
      BY <2>3
    <3>3. tries' = tries /\ queue' = queue /\ ended' = ended \cup {p} /\ given' = given \cup T
      BY <1>1, <1>6
    <3> QED BY <1>0, <3>1, <3>2, <3>3 DEF TriesInv
  <2>8. FreshInv'
    <3>1. gen' = gen
      BY <1>1
    <3>2. \A i \in DOMAIN gen.left : gen.left[i] \notin Children[p]
      BY <1>0, <1>2 DEF FreshInv
    <3>3. \A u \in Tasks : u # p => Children[u] \cap T = {}
      BY <1>2, <1>6, NewTasks
    <3> QED BY <1>0, <1>6, <3>1, <3>2, <3>3 DEF FreshInv
  <2> QED BY <1>4, <2>5, <2>6, <2>7, <2>8 DEF Inv
<1>7. ASSUME parsed' = Append(parsed, [task |-> p, clone |-> TRUE]), UNCHANGED <<given, ended>>
      PROVE  Inv'
  <2>1. PICK r : r = [task |-> p, clone |-> TRUE]
    OBVIOUS
  <2>2. r \in Made /\ r.task = p
    BY <1>2, <2>1 DEF Made
  <2>3. /\ parsed' = Append(parsed, r) /\ parsed' \in Seq(Made)
        /\ \A i \in DOMAIN parsed : i \in DOMAIN parsed' /\ parsed'[i] = parsed[i]
    BY <1>2, <1>7, <2>1, <2>2
  <2>4. TypeOK'
    BY <1>e, <1>0, <1>1, <1>7, <2>3, SMTT(30) DEF TypeOK
  <2>5. HandInv'
    <3> SUFFICES ASSUME NEW u \in Tasks PROVE Held(u)' = Has(given \ ended, u)'
      BY DEF HandInv
    <3> DEFINE one == Has({p}, u)
    <3>1. one \in Nat /\ Counts(u)
      BY <1>0, HasType, HeldParts
    <3>2. HowMany(parsed', Of(Made, u)) = HowMany(parsed, Of(Made, u)) + one
      BY <1>2, <2>2, <2>3, RecordIn
    <3>3. Has({parser.task}, u) = one /\ Has({parser'.task}, u) = 0
      BY <1>5
    <3> HIDE DEF one
    <3>4. Moves(u, 0, 0, 0, 0, 0, -one, 0, 0, one)
      BY <1>1, <3>1, <3>2, <3>3 DEF Moves, Counts
    <3>5. 0 + 0 + 0 + 0 + 0 + (-one) + 0 + 0 + one = 0 /\ -one \in Int /\ one \in Int /\ 0 \in Int
      BY <3>1
    <3>6. Has(given' \ ended', u) = Has(given \ ended, u) + 0
      BY <1>7, HasType
    <3> QED BY <1>0, <3>4, <3>5, <3>6, Balance, Zenon
  <2>6. TriesInv' /\ FreshInv'
    BY <1>0, <1>1, <1>7, <2>3, FreshKept DEF TriesInv
  <2> QED BY <1>4, <2>4, <2>5, <2>6 DEF Inv
<1> QED BY <1>p, <1>6, <1>7 DEF ParserHandles

(* The generator yields its next task, which nobody had yet.               *)
LEMMA GeneratorStep ==
  ASSUME Inv, Generator
  PROVE  Inv'
<1>0. TypeOK /\ HandInv /\ LocalInv /\ TriesInv /\ FreshInv
  BY DEF Inv
<1>e. EndTypes'
  BY <1>0, EndTypesStep, Zenon DEF Inv, Next
<1>1. UNCHANGED <<cache, pc, countdown, tries, refresh, pending, active, results, network, parser,
                  parsed, loads, loaded, cacher, ended>>
  BY DEF Generator, mainVars, cacheVars
<1>t. gen \in [at : {"top", "held", "look", "next", "dead"}, left : Seq(Tasks),
               paused : BOOLEAN, held : BOOLEAN]
  BY <1>0 DEF TypeOK
<1>2. CASE /\ gen' \in [at : {"top", "held", "look", "next", "dead"}, left : {gen.left},
                        paused : BOOLEAN, held : BOOLEAN]
           /\ UNCHANGED <<queue, given>>
  <2>1. TypeOK' /\ gen'.left = gen.left
    BY <1>e, <1>0, <1>t, <1>1, <1>2 DEF TypeOK
  <2> QED BY <1>0, <1>1, <1>2, <2>1, QuietStep DEF LocalInv
<1>3. CASE /\ gen.at = "next" /\ gen.left # <<>>
           /\ gen' = [gen EXCEPT !.at = "look", !.left = Tail(@)]
           /\ queue' = queue \cup {Head(gen.left)} /\ given' = given \cup {Head(gen.left)}
  <2>1. PICK t, s : t = Head(gen.left) /\ s = gen.left
    OBVIOUS
  <2>2. s \in Seq(Tasks) /\ s # <<>> /\ t = s[1] /\ 1 \in DOMAIN s /\ t \in Tasks
    BY <1>t, <1>3, <2>1
  <2>3. /\ gen' \in [at : {"look"}, left : Seq(Tasks), paused : BOOLEAN, held : BOOLEAN]
        /\ gen'.left = Tail(s)
    <3>1. gen' = [gen EXCEPT !.at = "look", !.left = Tail(s)] /\ Tail(s) \in Seq(Tasks)
      BY <1>3, <2>1, <2>2
    <3> QED BY <1>t, <3>1
  <2>4. t \notin given /\ t \notin ended /\ t \notin queue
    <3>1. t \notin given
      BY <1>0, <2>1, <2>2 DEF FreshInv
    <3> QED BY <1>0, <2>2, <3>1, NoHand DEF TypeOK
  <2>5. queue' = queue \cup {t} /\ given' = given \cup {t}
    BY <1>3, <2>1
  <2>6. TypeOK'
    BY <1>e, <1>0, <1>1, <2>2, <2>3, <2>5, SMTT(30) DEF TypeOK
  <2>7. HandInv'
    <3> SUFFICES ASSUME NEW u \in Tasks PROVE Held(u)' = Has(given \ ended, u)'
      BY DEF HandInv
    <3> DEFINE one == Has({t}, u)
    <3>1. one \in Nat /\ Counts(u) /\ Has(queue', u) = Has(queue, u) + one
      BY <1>0, <2>4, <2>5, HasType, HeldParts, HasChanges, SMTT(30)
    <3>2. Has(given' \ ended', u) = Has(given \ ended, u) + one
      BY <1>1, <2>4, <2>5 DEF Has
    <3> HIDE DEF one
    <3>3. Moves(u, one, 0, 0, 0, 0, 0, 0, 0, 0)
      BY <1>1, <3>1 DEF Moves, Counts
    <3>4. one + 0 + 0 + 0 + 0 + 0 + 0 + 0 + 0 = one /\ one \in Int /\ 0 \in Int
      BY <3>1
    <3> QED BY <1>0, <3>2, <3>3, <3>4, Balance, Zenon
  <2>8. FreshInv'
    <3>1. \A i \in DOMAIN Tail(s) : i + 1 \in DOMAIN s /\ i + 1 # 1 /\ Tail(s)[i] = s[i + 1]
      BY <2>2
    <3>2. \A i, j \in DOMAIN s : s[i] = s[j] => i = j
      BY <1>0, <2>1 DEF FreshInv
    <3>3. ASSUME NEW i \in DOMAIN Tail(s), NEW j \in DOMAIN Tail(s), Tail(s)[i] = Tail(s)[j]
          PROVE  i = j
      <4>1. i + 1 = j + 1 /\ i \in Nat /\ j \in Nat
        BY <2>2, <3>1, <3>2, <3>3
      <4> QED BY <4>1
    <3>4. \A i \in DOMAIN Tail(s) : /\ Tail(s)[i] \notin given'
                                    /\ \A u \in Tasks : Tail(s)[i] \notin Children[u]
      <4> SUFFICES ASSUME NEW i \in DOMAIN Tail(s)
                   PROVE  /\ Tail(s)[i] \notin given'
                          /\ \A u \in Tasks : Tail(s)[i] \notin Children[u]
        OBVIOUS
      <4>1. s[i + 1] # s[1]
        BY <2>2, <3>1, <3>2
      <4>2. s[i + 1] \notin given /\ \A u \in Tasks : s[i + 1] \notin Children[u]
        BY <1>0, <2>1, <3>1 DEF FreshInv
      <4> QED BY <2>2, <2>5, <3>1, <4>1, <4>2
    <3>5. \A u \in Tasks : t \notin Children[u]
      BY <1>0, <2>1, <2>2 DEF FreshInv
    <3>6. \A u \in Tasks : u \notin ended' => Children[u] \cap given' = {}
      BY <1>0, <1>1, <2>5, <3>5 DEF FreshInv
    <3> QED BY <2>3, <3>3, <3>4, <3>6 DEF FreshInv
  <2>9. LocalInv' /\ TriesInv'
    <3>1. LocalInv'
      BY <1>0, <1>1 DEF LocalInv
    <3>2. TriesInv'
      BY <1>0, <1>1, <2>5 DEF TriesInv
    <3> QED BY <3>1, <3>2
  <2> QED BY <2>6, <2>7, <2>8, <2>9 DEF Inv
<1> QED BY <1>t, <1>2, <1>3 DEF Generator

(* The cache pipeline passes a task on, or saves one, or pauses.           *)
LEMMA CacherStep ==
  ASSUME Inv, Cacher
  PROVE  Inv'
<1>0. TypeOK /\ HandInv /\ LocalInv /\ TriesInv /\ FreshInv
  BY DEF Inv
<1>e. EndTypes'
  BY <1>0, EndTypesStep, Zenon DEF Inv, Next
<1>1. UNCHANGED <<cache, pc, countdown, tries, refresh, queue, pending, active, results, network,
                  parser, parsed, gen, given, ended>>
  BY DEF Cacher, mainVars, genVars
<1>2. CASE /\ cacher.at = "get" /\ ~cacher.paused /\ loads # <<>>
           /\ cacher' = [cacher EXCEPT !.at = "work"]
           /\ UNCHANGED <<loads, loaded>>
  <2>1. cacher' \in [at : {"get", "work"}, paused : BOOLEAN]
    BY <1>0, <1>2 DEF TypeOK
  <2>2. TypeOK'
    BY <1>e, <1>0, <1>1, <1>2, <2>1 DEF TypeOK
  <2> QED BY <1>0, <1>1, <1>2, <2>2, QuietStep DEF LocalInv
<1>3. CASE cacher.at = "work"
  <2>1. PICK m, t : m = Head(loads) /\ t = m.task
    OBVIOUS
  <2>2. /\ loads' = Tail(loads) /\ loads # <<>> /\ loads \in Seq(Order) /\ loaded \in Seq(Found)
        /\ cacher' = [at |-> "get", paused |-> m.do = "pause"]
        /\ \/ m.do = "load" /\ loaded' = Append(loaded, [do |-> "task", task |-> t])
           \/ m.do = "load" /\ loaded' = Append(loaded, [do |-> "network_result", task |-> t])
           \/ m.do \in {"save", "pause"} /\ loaded' = loaded
    BY <1>0, <1>3, <2>1 DEF Cacher, LocalInv, TypeOK
  <2>3. /\ m \in Order /\ loads' \in Seq(Order)
        /\ \A u : HowMany(loads', {Load(u)}) = HowMany(loads, {Load(u)}) - LoadOf(m, u)
    BY <2>1, <2>2, OrderOut
  <2>4. PICK r : \/ m.do = "load" /\ loaded' = Append(loaded, r) /\ r \in Found /\ r.task = t
                 \/ m.do \in {"save", "pause"} /\ loaded' = loaded
    <3>1. CASE m.do = "load"
      <4>1. t \in Tasks
        BY <2>1, <2>3, <3>1 DEF Order
      <4> QED BY <2>2, <3>1, <4>1 DEF Found
    <3>2. CASE m.do \in {"save", "pause"} /\ loaded' = loaded
      BY <3>2
    <3> QED BY <2>2, <3>1, <3>2
  <2>5. loaded' \in Seq(Found)
    <3>1. r \in Found => Append(loaded, r) \in Seq(Found)
      BY <2>2
    <3> QED BY <2>2, <2>4, <3>1
  <2>6. cacher' \in [at : {"get"}, paused : BOOLEAN]
    <3>1. (m.do = "pause") \in BOOLEAN
      OBVIOUS
    <3> QED BY <2>2, <3>1
  <2>7. TypeOK'
    <3>1. parser' \in [at : {"get", "sleep", "gone"}, task : {None}]
                     \cup [at : {"handle"}, task : Tasks]
      BY <1>0, <1>1 DEF TypeOK
    <3>2. /\ gen' \in [at : {"top", "held", "look", "next", "dead"}, left : Seq(Tasks),
                      paused : BOOLEAN, held : BOOLEAN]
          /\ cacher' \in [at : {"get", "work"}, paused : BOOLEAN]
      BY <1>0, <1>1, <2>6 DEF TypeOK
    <3>3. tries' \in [Tasks -> [network : 0..(NetworkTryLimit + 1), task : 1..(TaskTryLimit + 1)]]
      BY <1>0, <1>1 DEF TypeOK
    <3>4. /\ results' \in Seq(Result) /\ pending' \in Seq(Tasks) /\ network' \in Seq(Tasks)
          /\ parsed' \in Seq(Made) /\ loads' \in Seq(Order) /\ loaded' \in Seq(Found)
      BY <1>0, <1>1, <2>3, <2>5 DEF TypeOK
    <3>5. /\ cache' \in BOOLEAN /\ countdown' \in 0..Countdown
          /\ queue' \subseteq Tasks /\ active' \subseteq Tasks /\ refresh' \subseteq Tasks
          /\ Cardinality(active') <= Threads
          /\ given' \subseteq Tasks /\ ended' \subseteq given'
      BY <1>0, <1>1 DEF TypeOK
    <3>6. pc' \in {"top", "size", "pause", "cache", "alive", "generator", "parsed", "idle", "rest",
                     "yes", "no", "resume", "work", "loaded", "results", "drain", "stopped"}
      BY <1>0, <1>1 DEF TypeOK
    <3> QED BY <1>e, <3>1, <3>2, <3>3, <3>4, <3>5, <3>6, Zenon DEF TypeOK
  <2>8. HandInv'
    <3> SUFFICES ASSUME NEW u \in Tasks PROVE Held(u)' = Has(given \ ended, u)'
      BY DEF HandInv
    <3> DEFINE one == LoadOf(m, u)
    <3>1. one \in Nat /\ Counts(u)
      BY <1>0, HasType, HeldParts DEF LoadOf
    <3>2. HowMany(loads', {Load(u)}) = HowMany(loads, {Load(u)}) - one
      BY <2>3
    <3>3. HowMany(loaded', Of(Found, u)) = HowMany(loaded, Of(Found, u)) + one
      <4>1. CASE m.do = "load" /\ loaded' = Append(loaded, r) /\ r \in Found /\ r.task = t
        <5>p. loaded \in Seq(Found) /\ r \in Found /\ r.task = t
          BY <2>2, <4>1
        <5>1. HowMany(Append(loaded, r), Of(Found, u)) = HowMany(loaded, Of(Found, u)) + Has({t}, u)
          BY <5>p, RecordIn
        <5>2. one = Has({t}, u)
          BY <2>1, <4>1 DEF LoadOf
        <5> QED BY <4>1, <5>1, <5>2
      <4>2. CASE m.do \in {"save", "pause"} /\ loaded' = loaded
        <5>1. one = 0
          BY <4>2 DEF LoadOf
        <5> QED BY <3>1, <4>2, <5>1 DEF Counts
      <4> QED BY <2>4, <4>1, <4>2
    <3> HIDE DEF one
    <3>4. Moves(u, 0, 0, 0, 0, 0, 0, -one, one, 0)
      BY <1>1, <3>1, <3>2, <3>3 DEF Moves, Counts
    <3>5. 0 + 0 + 0 + 0 + 0 + 0 + (-one) + one + 0 = 0 /\ -one \in Int /\ one \in Int /\ 0 \in Int
      BY <3>1
    <3>6. Has(given' \ ended', u) = Has(given \ ended, u) + 0
      BY <1>1, HasType
    <3> QED BY <1>0, <3>4, <3>5, <3>6, Balance, Zenon
  <2>9. LocalInv' /\ TriesInv' /\ FreshInv'
    <3>1. LocalInv'
      BY <1>0, <1>1, <2>6 DEF LocalInv
    <3> QED BY <1>0, <1>1, <3>1, FreshKept, TriesKept
  <2> QED BY <2>7, <2>8, <2>9 DEF Inv
<1> QED BY <1>2, <1>3 DEF Cacher

-----------------------------------------------------------------------------
(* The shutdown test and the ends of a round move nothing.                 *)
LEMMA CheckStep ==
  ASSUME Inv,
         \/ CheckPause \/ CheckRead \/ CheckEnd \/ CheckResumed
         \/ LoopEnds \/ QueueSize \/ RoundEnds
  PROVE  Inv'
<1>0. TypeOK /\ LocalInv
  BY DEF Inv
<1>e. EndTypes'
  BY <1>0, EndTypesStep, Zenon DEF Inv, Next, Main
<1>1. /\ UNCHANGED <<cache, tries, refresh, queue, pending, active, results, network, parser, parsed,
                     loaded, given, ended>>
      /\ loads' = loads \/ loads' = Append(loads, [do |-> "pause", task |-> None])
      /\ pc # "stopped"
  BY DEF CheckPause, CheckRead, CheckEnd, CheckResumed, LoopEnds, QueueSize, RoundEnds, Check, genVars, cacheVars
<1>t. /\ gen \in [at : {"top", "held", "look", "next", "dead"}, left : Seq(Tasks),
                  paused : BOOLEAN, held : BOOLEAN]
      /\ cacher \in [at : {"get", "work"}, paused : BOOLEAN]
      /\ countdown \in 0..Countdown /\ countdown # 0 /\ Countdown \in Nat
      /\ loads \in Seq(Order)
  BY <1>0, <1>1, SpiderConstants DEF TypeOK, LocalInv
<1>2. /\ gen' \in [at : {"top", "held", "look", "next", "dead"}, left : {gen.left},
                   paused : BOOLEAN, held : BOOLEAN]
      /\ cacher' \in [at : {cacher.at}, paused : BOOLEAN]
  <2>1. gen' = gen \/ gen' = [gen EXCEPT !.paused = FALSE] \/ gen' = [gen EXCEPT !.paused = Alive]
    BY DEF CheckPause, CheckRead, CheckEnd, CheckResumed, LoopEnds, QueueSize, RoundEnds, genVars
  <2>2. cacher' = cacher \/ cacher' = [cacher EXCEPT !.paused = FALSE]
    BY DEF CheckPause, CheckRead, CheckEnd, CheckResumed, LoopEnds, QueueSize, RoundEnds, cacheVars
  <2>3. Alive \in BOOLEAN
    BY DEF Alive
  <2> QED BY <1>t, <2>1, <2>2, <2>3
<1>3. /\ pc' \in {"size", "pause", "cache", "alive", "generator", "parsed", "idle", "rest",
                  "yes", "no", "resume", "work", "drain", "stopped"}
      /\ countdown' \in 0..Countdown
      /\ countdown' = 0 => pc' = "stopped"
  <2>1. CASE UNCHANGED countdown
    <3>1. pc' \in {"size", "pause", "cache", "alive", "generator", "parsed", "idle", "rest",
                   "yes", "no", "resume", "work", "drain", "stopped"}
      BY DEF CheckPause, CheckRead, CheckEnd, CheckResumed, LoopEnds, QueueSize, RoundEnds, Check
    <3> QED BY <1>t, <2>1, <3>1
  <2>2. CASE CheckEnd
    BY <1>t, <2>2, SpiderConstants DEF CheckEnd, Check
  <2> QED BY <2>1, <2>2 DEF CheckPause, CheckRead, CheckResumed, LoopEnds, QueueSize, RoundEnds
<1>4. loads' \in Seq(Order)
  <2>1. [do |-> "pause", task |-> None] \in Order
    BY DEF Order
  <2>2. Append(loads, [do |-> "pause", task |-> None]) \in Seq(Order)
    BY <1>t, <2>1
  <2> QED BY <1>t, <1>1, <2>2
<1>5. TypeOK'
  <2>1. parser' \in [at : {"get", "sleep", "gone"}, task : {None}]
                   \cup [at : {"handle"}, task : Tasks]
    BY <1>0, <1>1 DEF TypeOK
  <2>2. /\ gen' \in [at : {"top", "held", "look", "next", "dead"}, left : Seq(Tasks),
                    paused : BOOLEAN, held : BOOLEAN]
        /\ cacher' \in [at : {"get", "work"}, paused : BOOLEAN]
    BY <1>t, <1>2 DEF TypeOK
  <2>3. tries' \in [Tasks -> [network : 0..(NetworkTryLimit + 1), task : 1..(TaskTryLimit + 1)]]
    BY <1>0, <1>1 DEF TypeOK
  <2>4. /\ results' \in Seq(Result) /\ pending' \in Seq(Tasks) /\ network' \in Seq(Tasks)
        /\ parsed' \in Seq(Made) /\ loads' \in Seq(Order) /\ loaded' \in Seq(Found)
    BY <1>0, <1>1, <1>4 DEF TypeOK
  <2>5. /\ cache' \in BOOLEAN /\ countdown' \in 0..Countdown
        /\ queue' \subseteq Tasks /\ active' \subseteq Tasks /\ refresh' \subseteq Tasks
        /\ Cardinality(active') <= Threads
        /\ given' \subseteq Tasks /\ ended' \subseteq given'
    BY <1>0, <1>1, <1>3 DEF TypeOK
  <2>6. pc' \in {"top", "size", "pause", "cache", "alive", "generator", "parsed", "idle", "rest",
                   "yes", "no", "resume", "work", "loaded", "results", "drain", "stopped"}
    BY <1>3 DEF TypeOK
  <2> QED BY <1>e, <2>1, <2>2, <2>3, <2>4, <2>5, <2>6, Zenon DEF TypeOK
<1>6. gen'.left = gen.left /\ (cacher'.at = "work" => cacher.at = "work")
  BY <1>2
<1> QED BY <1>1, <1>3, <1>5, <1>6, QuietStep

LEMMA WakesStep ==
  ASSUME Inv, ParserWakes, UNCHANGED <<cache, mainVars, queue, genVars, cacheVars>>
  PROVE  Inv'
<1>0. TypeOK /\ LocalInv
  BY DEF Inv
<1>e. EndTypes'
  BY <1>0, EndTypesStep, Zenon DEF Inv, Next, Parser
<1>1. /\ parser.at = "sleep"
      /\ parser' = [parser EXCEPT !.at = IF pc = "stopped" THEN "gone" ELSE "get"]
      /\ UNCHANGED <<cache, pc, countdown, tries, refresh, queue, pending, active, results, network,
                     parsed, gen, loads, loaded, cacher, given, ended>>
  BY DEF ParserWakes, mainVars, genVars, cacheVars
<1>2. parser' \in [at : {"get", "sleep", "gone"}, task : {None}] /\ parser'.task = parser.task
  BY <1>0, <1>1 DEF TypeOK
<1>3. TypeOK'
  BY <1>e, <1>0, <1>1, <1>2 DEF TypeOK
<1> QED BY <1>0, <1>1, <1>2, <1>3, QuietStep DEF LocalInv

LEMMA StopStep ==
  ASSUME Inv, stop
  PROVE  Inv'
<1>1. UNCHANGED <<cache, pc, countdown, tries, refresh, queue, pending, active, results, network,
                  parser, parsed, gen, loads, loaded, cacher, given, ended>>
  BY DEF stop, genVars, cacheVars
<1>2. TypeOK /\ LocalInv /\ EndTypes'
  BY EndTypesStep DEF Inv, Next
<1>3. TypeOK'
  <2>1. parser' \in [at : {"get", "sleep", "gone"}, task : {None}]
                   \cup [at : {"handle"}, task : Tasks]
    BY <1>1, <1>2, Zenon DEF TypeOK
  <2>2. /\ gen' \in [at : {"top", "held", "look", "next", "dead"}, left : Seq(Tasks),
                    paused : BOOLEAN, held : BOOLEAN]
        /\ cacher' \in [at : {"get", "work"}, paused : BOOLEAN]
        /\ tries' \in [Tasks -> [network : 0..(NetworkTryLimit + 1), task : 1..(TaskTryLimit + 1)]]
    BY <1>1, <1>2, Zenon DEF TypeOK
  <2>3. /\ results' \in Seq(Result) /\ pending' \in Seq(Tasks) /\ network' \in Seq(Tasks)
        /\ parsed' \in Seq(Made) /\ loads' \in Seq(Order) /\ loaded' \in Seq(Found)
    BY <1>1, <1>2, Zenon DEF TypeOK
  <2>4. /\ cache' \in BOOLEAN /\ countdown' \in 0..Countdown
        /\ queue' \subseteq Tasks /\ active' \subseteq Tasks /\ refresh' \subseteq Tasks
        /\ Cardinality(active') <= Threads
        /\ given' \subseteq Tasks /\ ended' \subseteq given'
    BY <1>1, <1>2, Zenon DEF TypeOK
  <2> QED BY <1>1, <1>2, <2>1, <2>2, <2>3, <2>4, Zenon DEF TypeOK
<1> QED BY <1>1, <1>2, <1>3, QuietStep DEF LocalInv

LEMMA InvStep == Inv /\ [Next]_vars => Inv'
<1> SUFFICES ASSUME Inv, [Next]_vars PROVE Inv'
  OBVIOUS
<1>1. CASE Main
  BY <1>1, TakeStep, CheckStep, LoadedStep, ResultStep, HandlerStep DEF Main
<1>2. ASSUME NEW t \in Tasks, Collect(t) PROVE Inv'
  BY <1>2, CollectStep
<1>3. CASE Parser
  BY <1>3, GetStep, WakesStep, HandlesStep DEF Parser
<1>4. CASE Generator
  BY <1>4, GeneratorStep
<1>5. CASE Cacher
  BY <1>5, CacherStep
<1>7. CASE stop
  BY <1>7, StopStep
<1>6. CASE UNCHANGED vars
  <2>1. TypeOK'
    BY <1>6 DEF vars, Inv, TypeOK, EndTypes
  <2>2. countdown' = 0 => pc' = "stopped"
    BY <1>6 DEF vars, Inv, LocalInv
  <2> QED BY <1>6, <2>1, <2>2, QuietStep DEF vars
<1> QED BY <1>1, <1>2, <1>3, <1>4, <1>5, <1>6, <1>7 DEF Next

LEMMA InvInit == Init => Inv
<1> SUFFICES ASSUME Init PROVE Inv
  OBVIOUS
<1>1. /\ gen.left \in Generators /\ gen.left \in Seq(Tasks)
      /\ gen \in [at : {"top"}, left : Seq(Tasks), paused : {FALSE}, held : {FALSE}]
  BY SpiderConstants DEF Init
<1>2. IsFiniteSet({}) /\ Cardinality({}) = 0
  BY FS_EmptySet
<1>3. TypeOK
  <2>1. tries \in [Tasks -> [network : 0..(NetworkTryLimit + 1), task : 1..(TaskTryLimit + 1)]]
    BY SpiderConstants DEF Init
  <2>2. /\ pending \in Seq(Tasks) /\ network \in Seq(Tasks) /\ results \in Seq(Result)
        /\ loads \in Seq(Order) /\ loaded \in Seq(Found) /\ parsed \in Seq(Made)
    BY DEF Init
  <2>3. /\ parser \in [at : {"get", "sleep", "gone"}, task : {None}]
        /\ cacher \in [at : {"get", "work"}, paused : BOOLEAN]
        /\ countdown \in 0..Countdown /\ Cardinality(active) <= Threads
    BY <1>2, SpiderConstants DEF Init
  <2> QED BY <1>1, <2>1, <2>2, <2>3 DEF Init, TypeOK, EndTypes
<1>4. LocalInv
  BY <1>2, SpiderConstants DEF Init, LocalInv
<1>5. HandInv
  <2> SUFFICES ASSUME NEW t \in Tasks PROVE Held(t) = Has(given \ ended, t)
    BY DEF HandInv
  <2>1. \A S : HowMany(<<>>, S) = 0
    BY CountEmpty
  <2>2. Has({}, t) = 0 /\ Has({None}, t) = 0
    BY SpiderConstants DEF Has
  <2>3. {} \ {} = {}
    OBVIOUS
  <2> QED BY <2>1, <2>2, <2>3 DEF Init, Held
<1>6. TriesInv
  BY SpiderConstants DEF Init, TriesInv
<1>7. FreshInv
  BY <1>1, NewTasks DEF Init, FreshInv
<1> QED BY <1>3, <1>4, <1>5, <1>6, <1>7 DEF Inv

LEMMA HandsIs == TypeOK => \A t : Hands(t) = Held(t)
<1> SUFFICES ASSUME TypeOK, NEW t PROVE Hands(t) = Held(t)
  OBVIOUS
<1>1. \A s, e : HowOften(s, e) = HowMany(s, {e})
  BY DEF HowOften, HowMany, Where
<1>2. ASSUME NEW S, NEW s \in Seq(S)
      PROVE  Cardinality({i \in DOMAIN s : s[i].task = t}) = HowMany(s, Of(S, t))
  <2>1. \A i \in DOMAIN s : s[i] \in S
    BY <1>2
  <2>2. {i \in DOMAIN s : s[i].task = t} = Where(s, Of(S, t))
    BY <2>1 DEF Where, Of
  <2> QED BY <2>2 DEF HowMany
<1>3. /\ Cardinality({i \in DOMAIN results : results[i].task = t}) = HowMany(results, Of(Result, t))
      /\ Cardinality({i \in DOMAIN loaded : loaded[i].task = t}) = HowMany(loaded, Of(Found, t))
      /\ Cardinality({i \in DOMAIN parsed : parsed[i].task = t}) = HowMany(parsed, Of(Made, t))
  BY <1>2, Types
<1> QED BY <1>1, <1>3 DEF Hands, Held, Load

(* The spider keeps its types and limits: never more handles than the      *)
(* transport has, and no task is counted beyond the try that is refused.   *)
THEOREM TypeCorrect == Spec => []TypeOK
<1>1. Inv => TypeOK
  BY DEF Inv
<1> QED BY <1>1, InvInit, InvStep, PTL DEF Spec

(* No thread drops a task or hands it to two, whatever the generator, the  *)
(* parser, the cache and the transport do in between.                      *)
THEOREM OneHandCorrect == Spec => []OneHand
<1>1. Inv => OneHand
  BY HandsIs DEF Inv, HandInv, OneHand
<1> QED BY <1>1, InvInit, InvStep, PTL DEF Spec

-----------------------------------------------------------------------------
(* How early the loop can stop: by itself it stops after Countdown tests   *)
(* that were positive in a row; Tests counts those so far.  A test is      *)
(* positive although a task is open if it was fooled: a result was parsed  *)
(* while the test looked elsewhere, or the cache had it ready.  K bounds   *)
(* how many network tries of a task can fool a test on their way through   *)
(* the cache, none if there is no cache.  So a task can fool Pass(K) tests *)
(* before it is tried anew or ends, and Life(K) before it ends or yields   *)
(* others.  Age[t] bounds what went before t was made.                     *)

Pass(K) == K + 2
Life(K) == TaskTryLimit * Pass(K)

Ages(Age, K) ==
  /\ K \in Nat
  /\ Age \in [Tasks -> Nat]
  /\ \A t \in Tasks : \A c \in Children[t] : Age[t] + Life(K) <= Age[c]
  /\ \A t \in Tasks : Age[t] + Life(K) < Countdown

Tests == Countdown - countdown
Start(Age, K, t) == Age[t] + (tries[t].task - 1) * Pass(K)
Tried(Age, K, t) == Start(Age, K, t) + IF cache THEN tries[t].network ELSE 0
Limit(Age, K, r) == Start(Age, K, r.task) + IF r.clone THEN Pass(K) ELSE 0

(* The tasks in the places that the test looks at or that are empty when   *)
(* it begins; those the cache is to look for or has found; the parser's.   *)
Waiting ==
  queue \cup active \cup ToSet(pending) \cup ToSet(network) \cup {r.task : r \in ToSet(results)}
Ordered == {r.task : r \in {o \in ToSet(loads) : o.do = "load"}}
Ready == {r.task : r \in ToSet(loaded)}
Handling == {parser.task} \ {None}
Parsed == ToSet(parsed) \ {Raised}

(* Where the test has not begun yet; where it has looked at the parser; and  *)
(* where it has looked at what the parser has ready.                       *)
Between == {"work", "loaded", "stopped"}
Resting == {"rest", "yes"}
Parsing == {"idle", "rest", "yes"}
More(at) == IF pc \in at THEN 1 ELSE 0

InTime(Age, K) ==
  /\ cache => NetworkTryLimit <= K
  /\ \A t \in Waiting : Tests <= Tried(Age, K, t)
  /\ \A t \in Ordered : Tests + 1 <= Tried(Age, K, t)
  /\ \A t \in Ready : Tests + 1 <= Tried(Age, K, t) + More(Between)
  /\ \A t \in Handling :
       Tests + More(Resting) <= Start(Age, K, t) + K + 1
  /\ \A r \in Parsed : Tests + More(Parsing) <= Limit(Age, K, r)

(* What is empty when the main loop is at a certain point.                 *)
Testing == {"size", "pause", "cache", "alive", "generator", "parsed", "idle", "rest", "yes", "no"}

TestInv ==
  /\ pc \in Testing => pending = <<>>
  /\ pc \in Testing \cup {"drain", "top"} => results = <<>>
  /\ Alive => countdown = Countdown
  /\ ~cache => loads = <<>>
  /\ pc = "yes" => /\ ~Alive /\ queue = {} /\ active = {} /\ network = <<>> /\ loads = <<>>

(* Once it has stopped by itself, nothing is open and nothing will be.     *)
Over == pc = "stopped" /\ ~told => ~Alive /\ given \subseteq ended

LEMMA Times ==
  ASSUME NEW n \in Nat, NEW m \in Nat, n <= m, NEW k \in Nat
  PROVE  n * k \in Nat /\ m * k \in Nat /\ n * k <= m * k /\ (n + 1) * k = n * k + k
<1>1. m - n \in Nat /\ m = n + (m - n)
  OBVIOUS
<1>2. m * k = n * k + (m - n) * k /\ (m - n) * k \in Nat /\ n * k \in Nat
  BY <1>1
<1> QED BY <1>2

(* What is left of a task's life, before and after one more try.           *)
LEMMA StartType ==
  ASSUME TypeOK, NEW Age, NEW K, Ages(Age, K), NEW t \in Tasks
  PROVE  /\ Age[t] \in Nat /\ Pass(K) \in Nat /\ Life(K) \in Nat /\ K \in Nat /\ Pass(K) = K + 2
         /\ Start(Age, K, t) \in Nat /\ Tried(Age, K, t) \in Nat /\ tries[t].network \in Nat
         /\ Tried(Age, K, t) = Start(Age, K, t) + IF cache THEN tries[t].network ELSE 0
         /\ Age[t] <= Start(Age, K, t) /\ Start(Age, K, t) <= Age[t] + Life(K)
         /\ tries[t].task <= TaskTryLimit => Start(Age, K, t) + Pass(K) <= Age[t] + Life(K)
<1>1. Age[t] \in Nat /\ K \in Nat /\ TaskTryLimit \in Nat /\ NetworkTryLimit \in Nat
  BY SpiderConstants DEF Ages
<1>p. PICK P \in Nat : P = Pass(K)
  BY <1>1 DEF Pass
<1>2. tries[t].network \in Nat /\ tries[t].task \in 1..(TaskTryLimit + 1)
  <2>1. tries[t] \in [network : 0..(NetworkTryLimit + 1), task : 1..(TaskTryLimit + 1)]
    BY Zenon DEF TypeOK
  <2> QED BY <1>1, <2>1
<1>3. PICK n \in Nat : n <= TaskTryLimit /\ n = tries[t].task - 1 /\ tries[t].task = n + 1
  BY <1>1, <1>2
<1>4. PICK x \in Nat : x = n * P
  BY <1>3, Times
<1>5. PICK y \in Nat : y = TaskTryLimit * P
  BY <1>1, Times
<1>6. x <= y
  BY <1>1, <1>3, <1>4, <1>5, Times
<1>7. n + 1 <= TaskTryLimit => x + P <= y
  <2>1. (n + 1) * P = n * P + P
    BY <1>3, Times
  <2>2. n + 1 <= TaskTryLimit => (n + 1) * P <= TaskTryLimit * P
    BY <1>1, <1>3, Times
  <2> QED BY <1>4, <1>5, <2>1, <2>2
<1>8. Start(Age, K, t) = Age[t] + x /\ Life(K) = y
  BY <1>p, <1>3, <1>4, <1>5 DEF Start, Life
<1>9. Tried(Age, K, t) = Start(Age, K, t) + (IF cache THEN tries[t].network ELSE 0)
        /\ Pass(K) = K + 2
  BY DEF Tried, Pass
<1> QED BY <1>1, <1>p, <1>2, <1>3, <1>6, <1>7, <1>8, <1>9

LEMMA StartTypeNext ==
  ASSUME NEW Age, NEW K, Ages(Age, K), NEW t \in Tasks
  PROVE  TypeOK' => Start(Age, K, t)' \in Nat /\ Tried(Age, K, t)' \in Nat
<1>1. TypeOK => Start(Age, K, t) \in Nat /\ Tried(Age, K, t) \in Nat
  BY StartType
<1>2. (TypeOK => Start(Age, K, t) \in Nat /\ Tried(Age, K, t) \in Nat)'
  BY <1>1, PTL
<1> QED BY <1>2

LEMMA TestsType ==
  /\ TypeOK => Tests \in Nat /\ countdown \in Nat /\ countdown = Countdown - Tests
  /\ TypeOK' => Tests' \in Nat /\ countdown' \in Nat /\ countdown' = Countdown - Tests'
<1>1. TypeOK => Tests \in Nat /\ countdown \in Nat /\ countdown = Countdown - Tests
  BY SpiderConstants DEF TypeOK, Tests
<1>2. (TypeOK => Tests \in Nat /\ countdown \in Nat /\ countdown = Countdown - Tests)'
  BY <1>1, PTL
<1> QED BY <1>1, <1>2

-----------------------------------------------------------------------------
(* The elements of a sequence, as it changes at its ends.                  *)
LEMMA Elements ==
  ASSUME NEW T, NEW s \in Seq(T)
  PROVE  /\ ToSet(s) \subseteq T
         /\ s = <<>> <=> ToSet(s) = {}
         /\ s # <<>> => /\ Head(s) \in ToSet(s) /\ ToSet(Tail(s)) \subseteq ToSet(s)
                        /\ Tail(s) \in Seq(T)
<1>1. ToSet(s) \subseteq T
  BY DEF ToSet
<1>2. s = <<>> <=> ToSet(s) = {}
  <2>1. s # <<>> => 1 \in DOMAIN s
    OBVIOUS
  <2> QED BY <2>1 DEF ToSet
<1>3. ASSUME s # <<>>
      PROVE  /\ Head(s) \in ToSet(s) /\ ToSet(Tail(s)) \subseteq ToSet(s) /\ Tail(s) \in Seq(T)
  <2>1. Head(s) = s[1] /\ 1 \in DOMAIN s /\ Tail(s) \in Seq(T)
    BY <1>3
  <2>2. ASSUME NEW i \in DOMAIN Tail(s) PROVE i + 1 \in DOMAIN s /\ Tail(s)[i] = s[i + 1]
    BY <1>3, <2>1
  <2> QED BY <2>1, <2>2 DEF ToSet
<1> QED BY <1>1, <1>2, <1>3

LEMMA ElementsAppend ==
  ASSUME NEW T, NEW s \in Seq(T), NEW x \in T
  PROVE  ToSet(Append(s, x)) = ToSet(s) \cup {x}
<1>1. /\ DOMAIN Append(s, x) = DOMAIN s \cup {Len(s) + 1}
      /\ \A i \in DOMAIN s : Append(s, x)[i] = s[i]
      /\ Append(s, x)[Len(s) + 1] = x
  OBVIOUS
<1> QED BY <1>1, Zenon DEF ToSet

LEMMA ElementsConcat ==
  ASSUME NEW T, NEW s \in Seq(T), NEW u \in Seq(T)
  PROVE  ToSet(s \o u) \subseteq ToSet(s) \cup ToSet(u)
<1>1. /\ Len(s) \in Nat /\ Len(u) \in Nat /\ DOMAIN (s \o u) = 1..(Len(s) + Len(u))
      /\ DOMAIN s = 1..Len(s) /\ DOMAIN u = 1..Len(u)
      /\ \A i \in 1..(Len(s) + Len(u)) : (s \o u)[i] = IF i <= Len(s) THEN s[i] ELSE u[i - Len(s)]
  BY ConcatProperties
<1>2. ASSUME NEW i \in DOMAIN (s \o u)
      PROVE  (s \o u)[i] \in ToSet(s) \cup ToSet(u)
  <2>1. CASE i <= Len(s)
    BY <1>1, <2>1 DEF ToSet
  <2>2. CASE ~(i <= Len(s))
    <3>1. i - Len(s) \in DOMAIN u /\ (s \o u)[i] = u[i - Len(s)]
      BY <1>1, <2>2
    <3> QED BY <3>1 DEF ToSet
  <2> QED BY <2>1, <2>2
<1> QED BY <1>2 DEF ToSet

(* An element that is in S is counted.                                     *)
LEMMA ElementCounts ==
  ASSUME NEW T, NEW s \in Seq(T), NEW S, NEW x \in ToSet(s), x \in S
  PROVE  HowMany(s, S) > 0
<1>1. HowMany(s, S) # 0
  BY CountType DEF ToSet
<1> QED BY <1>1, CountType

-----------------------------------------------------------------------------
(* What is known of a task by the place it is in.                          *)

LEMMA InParsed ==
  ASSUME TypeOK, HandInv, NEW r \in Parsed
  PROVE  /\ r \in Made /\ r.task \in Tasks /\ HowMany(parsed, Of(Made, r.task)) > 0
         /\ r.clone => [task |-> r.task, clone |-> FALSE] \notin Parsed
<1>1. parsed \in Seq(Made)
  BY Types
<1>2. r \in Made
  BY <1>1, Elements DEF Parsed
<1> DEFINE t == r.task
           q == [task |-> t, clone |-> FALSE]
<1>3. t \in Tasks /\ r \in Of(Made, t) /\ q \in Of(Made, t) /\ (r.clone => r # q)
  BY <1>2 DEF Made, Of, Parsed
<1>4. HowMany(parsed, Of(Made, t)) > 0
  BY <1>1, <1>3, ElementCounts DEF Parsed
<1> HIDE DEF t, q
<1>5. ASSUME r.clone, q \in Parsed PROVE FALSE
  <2> DEFINE W == Where(parsed, Of(Made, t))
  <2>1. Counts(t) /\ Held(t) = 1
    BY <1>3, <1>4, OnlyHand, HeldParts
  <2>2. HowMany(parsed, Of(Made, t)) = 1
    BY <1>4, <2>1 DEF Held, Counts
  <2>3. IsFiniteSet(W) /\ Cardinality(W) = 1
    BY <1>1, <2>2, CountType DEF HowMany
  <2>4. PICK i \in DOMAIN parsed : parsed[i] = r
    BY DEF ToSet, Parsed
  <2>5. PICK k \in DOMAIN parsed : parsed[k] = q
    BY <1>5 DEF ToSet, Parsed
  <2>6. i # k
    BY <1>3, <1>5, <2>4, <2>5
  <2>7. i \in W /\ k \in W
    BY <1>3, <2>4, <2>5 DEF Where
  <2> HIDE DEF W
  <2>8. \E x : W = {x}
    BY <2>3, FS_Singleton
  <2> QED BY <2>6, <2>7, <2>8
<1> QED BY <1>2, <1>3, <1>4, <1>5 DEF t, q

(* A task is open as long as it is in some place; if that is not the queue *)
(* its tries are within their limits.                                      *)
LEMMA OpenTask ==
  ASSUME Inv, NEW t \in Tasks,
         \/ t \in Ready \/ t \in Handling \/ t \in ToSet(network)
         \/ \E r \in Parsed : r.task = t /\ r.clone
  PROVE  /\ t \in given /\ t \notin ended
         /\ tries[t].network <= NetworkTryLimit /\ tries[t].task <= TaskTryLimit
<1>0. TypeOK /\ HandInv /\ TriesInv
  BY DEF Inv
<1>1. \/ HowMany(loaded, Of(Found, t)) > 0 \/ t = parser.task \/ HowMany(network, {t}) > 0
      \/ HowMany(parsed, Of(Made, t)) > 0
  <2>1. CASE t \in Ready
    <3>1. PICK r \in ToSet(loaded) : r.task = t
      BY <2>1 DEF Ready
    <3>2. loaded \in Seq(Found) /\ r \in Of(Found, t)
      BY <1>0, <3>1, Types, Elements DEF Of
    <3> QED BY <3>1, <3>2, ElementCounts
  <2>2. CASE t \in Handling
    BY <2>2 DEF Handling
  <2>3. CASE t \in ToSet(network)
    BY <1>0, <2>3, Types, ElementCounts
  <2>4. CASE \E r \in Parsed : r.task = t /\ r.clone
    BY <1>0, <2>4, InParsed
  <2> QED BY <2>1, <2>2, <2>3, <2>4
<1>2. t \in given /\ t \notin ended /\ Held(t) = 1 /\ Counts(t)
  BY <1>0, <1>1, OnlyHand, HeldParts
<1>3. t \notin queue
  <2>1. t \in queue => Has(queue, t) = 1
    BY HasType
  <2>2. t = parser.task => Has({parser.task}, t) = 1
    BY DEF Has
  <2> QED BY <1>1, <1>2, <2>1, <2>2 DEF Held, Counts
<1>4. ~\E i \in DOMAIN parsed : parsed[i] = [task |-> t, clone |-> FALSE]
  <2> SUFFICES ASSUME NEW i \in DOMAIN parsed, parsed[i] = [task |-> t, clone |-> FALSE]
               PROVE  FALSE
    OBVIOUS
  <2>1. [task |-> t, clone |-> FALSE] \in Parsed
    BY SpiderConstants DEF ToSet, Parsed, Raised
  <2>2. HowMany(parsed, Of(Made, t)) > 0
    <3>1. [task |-> t, clone |-> FALSE] \in Of(Made, t) /\ parsed \in Seq(Made)
      BY <1>0, Types DEF Of, Made
    <3> QED BY <2>1, <3>1, ElementCounts DEF Parsed
  <2>3. ~\E r \in Parsed : r.task = t /\ r.clone
    BY <1>0, <2>1, InParsed
  <2>4. \/ HowMany(loaded, Of(Found, t)) > 0 \/ t = parser.task \/ HowMany(network, {t}) > 0
    <3>1. CASE t \in Ready
      <4>1. PICK r \in ToSet(loaded) : r.task = t
        BY <3>1 DEF Ready
      <4>2. loaded \in Seq(Found) /\ r \in Of(Found, t)
        BY <1>0, <4>1, Types, Elements DEF Of
      <4> QED BY <4>1, <4>2, ElementCounts
    <3>2. CASE t \in Handling
      BY <3>2 DEF Handling
    <3>3. CASE t \in ToSet(network)
      BY <1>0, <3>3, Types, ElementCounts
    <3> QED BY <2>3, <3>1, <3>2, <3>3
  <2>5. t = parser.task => Has({parser.task}, t) = 1
    BY DEF Has
  <2> QED BY <1>2, <2>2, <2>4, <2>5 DEF Held, Counts
<1>5. tries[t].task \in Nat /\ TaskTryLimit \in Nat
  BY <1>0, SpiderConstants, SMTT(30) DEF TypeOK
<1> QED BY <1>0, <1>2, <1>3, <1>4, <1>5 DEF TriesInv

(* Every place holds tasks.                                                *)
LEMMA PlacesHoldTasks ==
  ASSUME TypeOK
  PROVE  /\ Waiting \subseteq Tasks /\ Ordered \subseteq Tasks /\ Ready \subseteq Tasks
         /\ Handling \subseteq Tasks /\ ToSet(network) \subseteq Tasks
         /\ \A r \in Parsed : r.task \in Tasks
<1>1. /\ ToSet(pending) \subseteq Tasks /\ ToSet(network) \subseteq Tasks
      /\ ToSet(results) \subseteq Result /\ ToSet(loads) \subseteq Order
      /\ ToSet(loaded) \subseteq Found /\ Parsed \subseteq Made
  BY Types, Elements DEF Parsed
<1>2. queue \subseteq Tasks /\ active \subseteq Tasks
        /\ parser \in [at : {"get", "sleep", "gone"}, task : {None}]
                      \cup [at : {"handle"}, task : Tasks]
  BY DEF TypeOK
<1>3. Waiting \subseteq Tasks
  BY <1>1, <1>2 DEF Waiting, Result
<1>4. Ordered \subseteq Tasks
  BY <1>1 DEF Ordered, Order
<1>5. Ready \subseteq Tasks
  BY <1>1 DEF Ready, Found
<1>6. Handling \subseteq Tasks
  BY <1>2 DEF Handling
<1> QED BY <1>1, <1>3, <1>4, <1>5, <1>6 DEF Made, Parsed

LEMMA SameParsed == parsed' = parsed => Parsed' = Parsed
BY DEF Parsed

LEMMA ParsedTasksNext == TypeOK' => \A r \in Parsed' : r.task \in Tasks
<1>1. TypeOK => \A r \in Parsed : r.task \in Tasks
  BY PlacesHoldTasks
<1>2. (TypeOK => \A r \in Parsed : r.task \in Tasks)'
  BY <1>1, PTL
<1> QED BY <1>2

-----------------------------------------------------------------------------
(* What a step does that is no positive end of a test: tasks move from     *)
(* place to place, none grows younger, and those that come to a place from *)
(* elsewhere (X, Y, Z) come in time.                                       *)
Grows(Age, K) ==
  \A t \in Tasks : Start(Age, K, t) <= Start(Age, K, t)' /\ Tried(Age, K, t) <= Tried(Age, K, t)'

Stays(at) == pc \in at => pc' \in at
Comes(at) == pc' \in at => pc \in at

Onward(Age, K, X, Y, Z) ==
  /\ cache' = cache
  /\ countdown <= countdown' /\ Grows(Age, K)
  /\ \A t \in X : Tests' <= Tried(Age, K, t)'
  /\ \A t \in Y : Tests' + 1 <= Tried(Age, K, t)'
  /\ \A r \in Z : Tests' + 1 <= Limit(Age, K, r)'
  /\ Waiting' \subseteq Waiting \cup Ready \cup X
  /\ Ordered' \subseteq Ordered \cup Y
  /\ Ready' \subseteq Ready \cup Ordered
  /\ Handling' \subseteq Handling \cup ToSet(network)
  /\ Parsed' \subseteq Parsed \cup Z
  /\ Stays(Between) \/ Ready' = {}
  /\ Comes(Resting) \/ Handling' = {}
  /\ Comes(Parsing) \/ Parsed' = {}

LEMMA Moved ==
  ASSUME NEW Age, NEW K, Ages(Age, K), Inv, Inv', InTime(Age, K), NEW X, NEW Y, NEW Z, Onward(Age, K, X, Y, Z)
  PROVE  InTime(Age, K)'
<1>0. TypeOK /\ TypeOK'
  BY DEF Inv
<1>1. Tests \in Nat /\ Tests' \in Nat /\ Tests' <= Tests /\ NetworkTryLimit \in Nat
      /\ K \in Nat /\ cache' = cache /\ (cache => NetworkTryLimit <= K)
  <2>1. Tests \in Nat /\ countdown \in Nat /\ countdown = Countdown - Tests
    BY <1>0, TestsType
  <2>2. Tests' \in Nat /\ countdown' \in Nat /\ countdown' = Countdown - Tests'
    BY <1>0, TestsType
  <2>3. K \in Nat /\ cache' = cache /\ (cache => NetworkTryLimit <= K)
    BY DEF Ages, Onward, InTime
  <2> QED BY <2>1, <2>2, <2>3, SpiderConstants DEF Onward
<1>2. ASSUME NEW t \in Tasks
      PROVE  /\ Start(Age, K, t) \in Nat /\ Tried(Age, K, t) \in Nat /\ tries[t].network \in Nat
             /\ Tried(Age, K, t) = Start(Age, K, t) + IF cache THEN tries[t].network ELSE 0
             /\ Start(Age, K, t)' \in Nat /\ Tried(Age, K, t)' \in Nat /\ Pass(K) \in Nat
             /\ Start(Age, K, t) <= Start(Age, K, t)' /\ Tried(Age, K, t) <= Tried(Age, K, t)'
  <2>1. /\ Start(Age, K, t) \in Nat /\ Tried(Age, K, t) \in Nat /\ tries[t].network \in Nat /\ Pass(K) \in Nat
        /\ Tried(Age, K, t) = Start(Age, K, t) + IF cache THEN tries[t].network ELSE 0
    BY <1>0, StartType
  <2>2. Start(Age, K, t)' \in Nat /\ Tried(Age, K, t)' \in Nat
    BY <1>0, StartTypeNext
  <2> QED BY <2>1, <2>2 DEF Onward, Grows
<1>3. /\ Waiting \subseteq Tasks /\ Ordered \subseteq Tasks /\ Ready \subseteq Tasks
      /\ Handling \subseteq Tasks /\ ToSet(network) \subseteq Tasks
      /\ \A r \in Parsed : r.task \in Tasks
  BY <1>0, PlacesHoldTasks
<1>4. ASSUME NEW t \in Waiting' PROVE Tests' <= Tried(Age, K, t)'
  <2>1. t \in Waiting \/ t \in Ready \/ t \in X
    BY <1>4 DEF Onward
  <2>2. CASE t \in Waiting
    BY <1>1, <1>2, <1>3, <2>2 DEF InTime
  <2>3. CASE t \in Ready
    <3>1. t \in Tasks /\ Tests + 1 <= Tried(Age, K, t) + More(Between)
      BY <1>3, <2>3 DEF InTime
    <3>2. More(Between) \in {0, 1}
      BY DEF More
    <3> QED BY <1>1, <1>2, <3>1, <3>2
  <2>4. CASE t \in X
    BY <2>4 DEF Onward
  <2> QED BY <2>1, <2>2, <2>3, <2>4
<1>5. ASSUME NEW t \in Ordered' PROVE Tests' + 1 <= Tried(Age, K, t)'
  <2>1. t \in Ordered \/ t \in Y
    BY <1>5 DEF Onward
  <2>2. CASE t \in Ordered
    BY <1>1, <1>2, <1>3, <2>2 DEF InTime
  <2>3. CASE t \in Y
    BY <2>3 DEF Onward
  <2> QED BY <2>1, <2>2, <2>3
<1>6. ASSUME NEW t \in Ready'
      PROVE  Tests' + 1 <= Tried(Age, K, t)' + More(Between)'
  <2>1. (t \in Ready \/ t \in Ordered) /\ Stays(Between)
    BY <1>6 DEF Onward
  <2>2. /\ More(Between) \in {0, 1} /\ More(Between)' \in {0, 1}
        /\ More(Between) <= More(Between)'
    BY <2>1 DEF More, Stays
  <2>3. t \in Tasks /\ Tests + 1 <= Tried(Age, K, t) + More(Between)
    <3>1. CASE t \in Ready
      BY <1>3, <3>1 DEF InTime
    <3>2. CASE t \in Ordered
      <4>1. t \in Tasks /\ Tests + 1 <= Tried(Age, K, t)
        BY <1>3, <3>2 DEF InTime
      <4> QED BY <1>1, <1>2, <2>2, <4>1
    <3> QED BY <2>1, <3>1, <3>2
  <2> QED BY <1>1, <1>2, <2>2, <2>3
<1>7. ASSUME NEW t \in Handling'
      PROVE  Tests' + More(Resting)' <= Start(Age, K, t)' + K + 1
  <2>1. (t \in Handling \/ t \in ToSet(network)) /\ Comes(Resting)
    BY <1>7 DEF Onward
  <2>2. /\ More(Resting) \in {0, 1} /\ More(Resting)' \in {0, 1}
        /\ More(Resting)' <= More(Resting)
    BY <2>1 DEF More, Comes
  <2>3. CASE t \in Handling
    <3>1. t \in Tasks /\ Tests + More(Resting) <= Start(Age, K, t) + K + 1
      BY <1>3, <2>3 DEF InTime
    <3> QED BY <1>1, <1>2, <2>2, <3>1
  <2>4. CASE t \in ToSet(network)
    <3>1. t \in Tasks /\ t \in Waiting
      BY <1>3, <2>4 DEF Waiting
    <3>2. Tests <= Tried(Age, K, t) /\ tries[t].network <= NetworkTryLimit
      BY <2>4, <3>1, OpenTask DEF InTime
    <3> QED BY <1>1, <1>2, <2>2, <3>1, <3>2
  <2> QED BY <2>1, <2>3, <2>4
<1>8. ASSUME NEW r \in Parsed'
      PROVE  Tests' + More(Parsing)' <= Limit(Age, K, r)'
  <2>0. /\ r \in Parsed \/ r \in Z
        /\ Comes(Parsing)
    BY <1>8 DEF Onward
  <2>1. /\ More(Parsing) \in {0, 1} /\ More(Parsing)' \in {0, 1}
        /\ More(Parsing)' <= More(Parsing)
    BY <2>0 DEF More, Comes
  <2>2. r.task \in Tasks /\ \E b \in Nat : Limit(Age, K, r)' = Start(Age, K, r.task)' + b
                                    /\ Limit(Age, K, r) = Start(Age, K, r.task) + b
    <3>1. r.task \in Tasks
      BY <1>0, <1>8, ParsedTasksNext
    <3>2. (IF r.clone THEN Pass(K) ELSE 0) \in Nat
      BY <1>2, <3>1
    <3> QED BY <3>1, <3>2 DEF Limit
  <2>3. CASE r \in Parsed
    <3>1. Tests + More(Parsing) <= Limit(Age, K, r)
      BY <2>3 DEF InTime
    <3> QED BY <1>1, <1>2, <2>1, <2>2, <3>1
  <2>4. CASE r \in Z
    <3>1. Tests' + 1 <= Limit(Age, K, r)'
      BY <2>4 DEF Onward
    <3> QED BY <1>1, <1>2, <2>1, <2>2, <3>1
  <2> QED BY <2>0, <2>3, <2>4
<1> QED BY <1>1, <1>4, <1>5, <1>6, <1>7, <1>8 DEF InTime

(* The trivial case of Grows.                                              *)
LEMMA NotTried ==
  ASSUME TypeOK, NEW Age, NEW K, Ages(Age, K), tries' = tries, cache' = cache
  PROVE  Grows(Age, K)
<1>1. ASSUME NEW t \in Tasks PROVE Start(Age, K, t) \in Nat /\ Tried(Age, K, t) \in Nat
  BY StartType
<1>2. ASSUME NEW t \in Tasks PROVE Start(Age, K, t)' = Start(Age, K, t) /\ Tried(Age, K, t)' = Tried(Age, K, t)
  BY DEF Start, Tried
<1> QED BY <1>1, <1>2 DEF Grows

-----------------------------------------------------------------------------
(* The steps, one by one.  Those of the shutdown test move no task.        *)
StillAll == UNCHANGED <<cache, tries, queue, pending, active, results, network, parsed, loaded>>
StillOrders == loads' = loads \/ loads' = Append(loads, [do |-> "pause", task |-> None])

LEMMA OrderedAppend ==
  ASSUME TypeOK, NEW q \in Order, loads' = Append(loads, q)
  PROVE  Ordered' \subseteq Ordered \cup {q.task} /\ (q.do # "load" => Ordered' = Ordered)
<1>1. ToSet(loads') = ToSet(loads) \cup {q}
  BY Types, ElementsAppend
<1>2. Ordered' = {r.task : r \in {o \in ToSet(loads') : o.do = "load"}}
  BY DEF Ordered
<1>3. Ordered' \subseteq Ordered \cup {q.task}
  BY <1>1, <1>2 DEF Ordered
<1>4. ASSUME q.do # "load" PROVE Ordered' = Ordered
  <2>1. {o \in ToSet(loads') : o.do = "load"} = {o \in ToSet(loads) : o.do = "load"}
    BY <1>1, <1>4
  <2> QED BY <1>2, <2>1 DEF Ordered
<1> QED BY <1>3, <1>4

LEMMA SameOrders == TypeOK /\ StillOrders => Ordered' = Ordered
<1> SUFFICES ASSUME TypeOK, loads' = Append(loads, [do |-> "pause", task |-> None])
             PROVE  Ordered' = Ordered
  BY DEF StillOrders, Ordered
<1> DEFINE q == [do |-> "pause", task |-> None]
<1>1. q \in Order /\ q.do # "load"
  BY DEF Order
<1> HIDE DEF q
<1> QED BY <1>1, OrderedAppend DEF q

LEMMA QuietInTime ==
  ASSUME NEW Age, NEW K, Ages(Age, K), Inv, Inv', InTime(Age, K), StillAll, StillOrders,
         parser'.task \in {parser.task, None}, countdown <= countdown',
         Stays(Between) \/ loaded = <<>>,
         Comes(Resting) \/ parser.task = None,
         Comes(Parsing) \/ parsed = <<>>
  PROVE  InTime(Age, K)'
<1>0. TypeOK
  BY DEF Inv
<1>1. Grows(Age, K)
  BY <1>0, NotTried DEF StillAll
<1>2. Ordered' = Ordered
  BY <1>0, SameOrders
<1>3. /\ Waiting' = Waiting /\ Ready' = Ready /\ Parsed' = Parsed
      /\ Handling' \subseteq Handling
  BY DEF StillAll, Waiting, Ready, Handling, Parsed
<1>4. /\ loaded = <<>> => Ready' = {}
      /\ parsed = <<>> => Parsed' = {}
      /\ parser.task = None => Handling' = {}
  <2>1. loaded = <<>> => ToSet(loaded) = {}
    BY <1>0, Types, Elements
  <2>2. parsed = <<>> => Parsed = {}
    BY <1>0, Types, Elements DEF Parsed
  <2> QED BY <1>3, <2>1, <2>2 DEF Ready, Handling
<1>5. Onward(Age, K, {}, {}, {})
  BY <1>1, <1>2, <1>3, <1>4, Zenon DEF Onward, StillAll
<1> QED BY <1>5, Moved

(* A negative test begins the count anew.                                  *)
LEMMA CheckInTime ==
  ASSUME NEW Age, NEW K, Ages(Age, K), Inv, Inv', TestInv, InTime(Age, K), pc # "yes",
         \/ CheckPause \/ CheckRead \/ CheckEnd \/ CheckResumed \/ LoopEnds \/ QueueSize
         \/ RoundEnds
  PROVE  InTime(Age, K)'
<1>0. TypeOK
  BY DEF Inv
<1>1. StillAll /\ StillOrders /\ parser' = parser
  BY DEF CheckPause, CheckRead, CheckEnd, CheckResumed, LoopEnds, QueueSize, RoundEnds, Check, StillAll,
         StillOrders, genVars, cacheVars
<1>2. countdown <= countdown'
  <2>1. countdown \in 0..Countdown /\ Countdown \in Nat
    BY <1>0, SpiderConstants DEF TypeOK
  <2>2. countdown' = countdown \/ countdown' = Countdown
    BY DEF CheckPause, CheckRead, CheckEnd, CheckResumed, LoopEnds, QueueSize, RoundEnds, Check
  <2> QED BY <2>1, <2>2
<1>3. /\ Stays(Between) \/ loaded = <<>>
      /\ Comes(Resting) \/ parser.at = "sleep"
      /\ Comes(Parsing) \/ parsed = <<>>
  BY DEF CheckPause, CheckRead, CheckEnd, CheckResumed, LoopEnds, QueueSize, RoundEnds, Check, Stays, Comes,
         IsParserIdle, Between, Resting, Parsing
<1>4. parser.at = "sleep" => parser.task = None
  BY <1>0 DEF TypeOK
<1> QED BY <1>1, <1>2, <1>3, <1>4, QuietInTime

(* A positive one finds nothing where it looks; what it missed had a test  *)
(* left.                                                                   *)
LEMMA YesInTime ==
  ASSUME NEW Age, NEW K, Ages(Age, K), Inv, Inv', TestInv, InTime(Age, K), pc = "yes", CheckEnd
  PROVE  InTime(Age, K)'
<1>0. TypeOK /\ TypeOK'
  BY DEF Inv
<1>1. /\ StillAll /\ parser' = parser /\ loads' = loads
      /\ countdown' = countdown - 1 /\ pc' \in {"stopped", "work"}
  BY DEF CheckEnd, Check, StillAll
<1>2. Tests \in Nat /\ Tests' = Tests + 1
  <2>1. Tests \in Nat /\ countdown = Countdown - Tests /\ countdown' = Countdown - Tests'
          /\ Tests' \in Nat
    BY <1>0, TestsType
  <2> QED BY <1>1, <2>1, SpiderConstants
<1>3. /\ More(Resting) = 1 /\ More(Resting)' = 0
      /\ More(Parsing) = 1 /\ More(Parsing)' = 0
  BY <1>1 DEF More, Resting, Parsing
<1>4. Waiting' = {} /\ Ordered' = {}
  <2>1. queue = {} /\ active = {} /\ pending = <<>> /\ network = <<>> /\ results = <<>> /\ loads = <<>>
    BY DEF TestInv, Testing
  <2>2. ToSet(pending) = {} /\ ToSet(network) = {} /\ ToSet(results) = {} /\ ToSet(loads) = {}
    BY <1>0, <2>1, Types, Elements
  <2> QED BY <1>1, <2>1, <2>2 DEF Waiting, Ordered, StillAll
<1>5. Ready' = Ready /\ Handling' = Handling /\ Parsed' = Parsed
  BY <1>1 DEF StillAll, Ready, Handling, Parsed
<1>6. ASSUME NEW t \in Tasks
      PROVE  /\ Start(Age, K, t)' = Start(Age, K, t) /\ Start(Age, K, t) \in Nat
             /\ Tried(Age, K, t)' = Tried(Age, K, t) /\ Tried(Age, K, t) \in Nat
  <2>1. Start(Age, K, t) \in Nat /\ Tried(Age, K, t) \in Nat
    BY <1>0, StartType
  <2>2. Start(Age, K, t)' = Start(Age, K, t) /\ Tried(Age, K, t)' = Tried(Age, K, t)
    BY <1>1 DEF Start, Tried, StillAll
  <2> QED BY <2>1, <2>2
<1>p. /\ Ready \subseteq Tasks /\ Handling \subseteq Tasks
      /\ \A r \in Parsed : r.task \in Tasks
  BY <1>0, PlacesHoldTasks
<1>7. ASSUME NEW t \in Ready
      PROVE  Tests' + 1 <= Tried(Age, K, t)' + More(Between)'
  <2>1. More(Between) = 0 /\ More(Between)' = 1
    BY <1>1 DEF More, Between
  <2>2. t \in Tasks /\ Tests + 1 <= Tried(Age, K, t) + More(Between)
    BY <1>p DEF InTime
  <2> QED BY <1>2, <1>6, <2>1, <2>2
<1>8. ASSUME NEW t \in Handling
      PROVE  Tests' + More(Resting)' <= Start(Age, K, t)' + K + 1
  <2>1. t \in Tasks /\ Tests + More(Resting) <= Start(Age, K, t) + K + 1
    BY <1>p DEF InTime
  <2> QED BY <1>2, <1>3, <1>6, <2>1 DEF Ages
<1>9. ASSUME NEW r \in Parsed
      PROVE  Tests' + More(Parsing)' <= Limit(Age, K, r)'
  <2>1. r.task \in Tasks /\ Tests + More(Parsing) <= Limit(Age, K, r)
    BY <1>p DEF InTime
  <2>2. Limit(Age, K, r)' = Limit(Age, K, r)
    BY <1>6, <2>1 DEF Limit
  <2> QED BY <1>2, <1>3, <2>1, <2>2
<1> QED BY <1>1, <1>4, <1>5, <1>7, <1>8, <1>9 DEF InTime, StillAll

-----------------------------------------------------------------------------
(* The steps of a round.                                                   *)
LEMMA CollectInTime ==
  ASSUME NEW Age, NEW K, Ages(Age, K), Inv, Inv', InTime(Age, K), NEW t \in Tasks, Collect(t)
  PROVE  InTime(Age, K)'
<1> DEFINE r == [task |-> t, cached |-> FALSE]
<1>0. TypeOK
  BY DEF Inv
<1>1. /\ t \in active /\ active' = active \ {t} /\ results' = Append(results, r)
      /\ UNCHANGED <<cache, pc, countdown, tries, queue, pending, network, parser, parsed, loads, loaded>>
  BY DEF Collect, cacheVars
<1>2. r \in Result /\ r.task = t /\ results \in Seq(Result)
  BY <1>0, Types DEF Result
<1> HIDE DEF r
<1>3. ToSet(results') = ToSet(results) \cup {r}
  BY <1>1, <1>2, ElementsAppend
<1>4. Waiting' \subseteq Waiting
  BY <1>1, <1>2, <1>3 DEF Waiting
<1>5. Ordered' = Ordered /\ Ready' = Ready /\ Handling' = Handling /\ parsed' = parsed
  BY <1>1 DEF Ordered, Ready, Handling
<1>6. Grows(Age, K) /\ countdown <= countdown'
  BY <1>0, <1>1, NotTried, TestsType
<1>7. Stays(Between) /\ Comes(Resting) /\ Comes(Parsing)
  BY <1>1 DEF Stays, Comes
<1>8. Onward(Age, K, {}, {}, {})
  BY <1>1, <1>4, <1>5, <1>6, <1>7, SameParsed, Zenon DEF Onward
<1> QED BY <1>8, Moved

LEMMA LoadedInTime ==
  ASSUME NEW Age, NEW K, Ages(Age, K), Inv, Inv', InTime(Age, K), CollectLoaded
  PROVE  InTime(Age, K)'
<1> DEFINE h == Head(loaded)
<1>0. TypeOK
  BY DEF Inv
<1>1. /\ loaded # <<>> /\ pc \in {"work", "loaded"} /\ pc' = "loaded" /\ loaded' = Tail(loaded)
      /\ UNCHANGED <<cache, countdown, tries, queue, network, parser, parsed, loads>>
      /\ \/ results' = Append(results, [task |-> h.task, cached |-> TRUE])
              /\ UNCHANGED <<active, pending>>
         \/ active' = active \cup {h.task} /\ UNCHANGED <<results, pending>>
         \/ pending' = Append(pending, h.task) /\ UNCHANGED <<results, active>>
  BY DEF CollectLoaded
<1>2. /\ h \in ToSet(loaded) /\ ToSet(loaded') \subseteq ToSet(loaded) /\ h \in Found
      /\ h.task \in Tasks /\ h.task \in Ready
  <2>1. loaded \in Seq(Found)
    BY <1>0, Types
  <2>2. h \in ToSet(loaded) /\ ToSet(loaded') \subseteq ToSet(loaded) /\ ToSet(loaded) \subseteq Found
    BY <1>1, <2>1, Elements
  <2>3. h \in Found
    BY <2>2
  <2>4. h.task \in Tasks
    BY <2>3 DEF Found
  <2>5. h.task \in Ready
    BY <2>2 DEF Ready
  <2> QED BY <2>2, <2>3, <2>4, <2>5
<1> DEFINE t == h.task
           r == [task |-> t, cached |-> TRUE]
<1>3. r \in Result /\ r.task = t /\ results \in Seq(Result) /\ pending \in Seq(Tasks)
  BY <1>0, <1>2, Types DEF Result
<1> HIDE DEF r, h
<1>4. Waiting' \subseteq Waiting \cup Ready
  <2>1. CASE results' = Append(results, r) /\ UNCHANGED <<active, pending>>
    <3>1. ToSet(results') = ToSet(results) \cup {r}
      BY <1>3, <2>1, ElementsAppend
    <3> QED BY <1>1, <1>2, <1>3, <2>1, <3>1 DEF Waiting
  <2>2. CASE active' = active \cup {t} /\ UNCHANGED <<results, pending>>
    BY <1>1, <1>2, <2>2 DEF Waiting
  <2>3. CASE pending' = Append(pending, t) /\ UNCHANGED <<results, active>>
    <3>1. ToSet(pending') = ToSet(pending) \cup {t}
      BY <1>2, <1>3, <2>3, ElementsAppend
    <3> QED BY <1>1, <1>2, <2>3, <3>1 DEF Waiting
  <2> QED BY <1>1, <2>1, <2>2, <2>3 DEF r, h
<1>5. /\ Ordered' = Ordered /\ Handling' = Handling /\ parsed' = parsed
      /\ Ready' \subseteq Ready
  BY <1>1, <1>2 DEF Ordered, Ready, Handling
<1>6. Grows(Age, K) /\ countdown <= countdown'
  BY <1>0, <1>1, NotTried, TestsType
<1>7. Stays(Between) /\ Comes(Resting) /\ Comes(Parsing)
  BY <1>1 DEF Stays, Comes, Between, Resting, Parsing
<1>8. Onward(Age, K, {}, {}, {})
  BY <1>1, <1>4, <1>5, <1>6, <1>7, SameParsed, Zenon DEF Onward
<1> QED BY <1>8, Moved

LEMMA ResultInTime ==
  ASSUME NEW Age, NEW K, Ages(Age, K), Inv, Inv', InTime(Age, K), ProcessResult
  PROVE  InTime(Age, K)'
<1> DEFINE r == Head(results)
           t == r.task
           save == [do |-> "save", task |-> t]
<1>0. TypeOK
  BY DEF Inv
<1>1. /\ results # <<>> /\ results' = Tail(results) /\ pc' = "results"
      /\ pc = "results" \/ loaded = <<>>
      /\ UNCHANGED <<cache, countdown, tries, pending, active, parser, parsed, loaded>>
      /\ \/ network' = Append(network, t) /\ queue' = queue
         \/ queue' = queue \cup {t} /\ network' = network
      /\ loads' = loads \/ loads' = Append(loads, save)
  BY DEF ProcessResult, Processed, Valid, TryAgain
<1>2. /\ r \in ToSet(results) /\ ToSet(results') \subseteq ToSet(results)
      /\ t \in Tasks /\ network \in Seq(Tasks)
  <2>1. results \in Seq(Result) /\ network \in Seq(Tasks)
    BY <1>0, Types
  <2>2. r \in ToSet(results) /\ ToSet(results') \subseteq ToSet(results)
          /\ ToSet(results) \subseteq Result
    BY <1>1, <2>1, Elements
  <2>3. r \in Result
    BY <2>2
  <2> QED BY <2>1, <2>2, <2>3 DEF Result
<1>3. save \in Order /\ save.do # "load" /\ loads \in Seq(Order)
  BY <1>0, <1>2, Types DEF Order
<1> HIDE DEF r, save
<1>4. Waiting' \subseteq Waiting
  <2>1. ToSet(network') \subseteq ToSet(network) \cup {t} /\ queue' \subseteq queue \cup {t}
    <3>1. ToSet(Append(network, t)) = ToSet(network) \cup {t}
      BY <1>2, ElementsAppend
    <3> QED BY <1>1, <3>1
  <2>2. t \in Waiting
    BY <1>2 DEF Waiting
  <2> QED BY <1>1, <1>2, <2>1, <2>2 DEF Waiting
<1>5. Ordered' = Ordered
  <2>1. CASE loads' = loads
    BY <2>1 DEF Ordered
  <2>2. CASE loads' = Append(loads, save)
    BY <1>0, <1>3, <2>2, OrderedAppend
  <2> QED BY <1>1, <2>1, <2>2 DEF save
<1>6. /\ Ready' = Ready /\ Handling' = Handling /\ parsed' = parsed
      /\ loaded = <<>> => Ready' = {}
  <2>1. loaded = <<>> => ToSet(loaded) = {}
    BY <1>0, Types, Elements
  <2> QED BY <1>1, <2>1 DEF Ready, Handling
<1>7. Grows(Age, K) /\ countdown <= countdown'
  BY <1>0, <1>1, NotTried, TestsType
<1>8. (Stays(Between) \/ loaded = <<>>) /\ Comes(Resting) /\ Comes(Parsing)
  BY <1>1 DEF Stays, Comes, Between, Resting, Parsing
<1>9. Onward(Age, K, {}, {}, {})
  BY <1>1, <1>4, <1>5, <1>6, <1>7, <1>8, SameParsed, Zenon DEF Onward
<1> QED BY <1>9, Moved

(* The tries of one task change, and it grows older.                       *)
Older(Age, K, t) ==
  /\ cache' = cache
  /\ \A u \in Tasks : u # t => tries'[u] = tries[u]
  /\ Start(Age, K, t) <= Start(Age, K, t)' /\ Tried(Age, K, t) <= Tried(Age, K, t)'

LEMMA TriedOne ==
  ASSUME TypeOK, NEW Age, NEW K, Ages(Age, K), NEW t, Older(Age, K, t)
  PROVE  Grows(Age, K)
<1> SUFFICES ASSUME NEW u \in Tasks, u # t
             PROVE  Start(Age, K, u) <= Start(Age, K, u)' /\ Tried(Age, K, u) <= Tried(Age, K, u)'
  BY DEF Grows, Older
<1>1. Start(Age, K, u) \in Nat /\ Tried(Age, K, u) \in Nat
  BY StartType
<1>2. Start(Age, K, u)' = Start(Age, K, u) /\ Tried(Age, K, u)' = Tried(Age, K, u)
  BY DEF Start, Tried, Older
<1> QED BY <1>1, <1>2

LEMMA AcceptGrows ==
  ASSUME TypeOK, TypeOK', NEW Age, NEW K, Ages(Age, K), NEW t \in Tasks, Accept(t), cache' = cache
  PROVE  Grows(Age, K) /\ (cache => Tried(Age, K, t)' = Tried(Age, K, t) + 1)
<1>1. tries' = [tries EXCEPT ![t].network = @ + 1]
  BY DEF Accept
<1>2. /\ Start(Age, K, t) \in Nat /\ tries[t].network \in Nat /\ Tried(Age, K, t) \in Nat
      /\ Tried(Age, K, t) = Start(Age, K, t) + IF cache THEN tries[t].network ELSE 0
  BY StartType
<1>3. /\ \A u \in Tasks : u # t => tries'[u] = tries[u]
      /\ tries'[t].network = tries[t].network + 1 /\ tries'[t].task = tries[t].task
  BY <1>1 DEF TypeOK
<1>4. Start(Age, K, t)' = Start(Age, K, t)
  BY <1>3 DEF Start
<1>5. Tried(Age, K, t)' = Start(Age, K, t) + IF cache THEN tries[t].network + 1 ELSE 0
  BY <1>3, <1>4 DEF Tried
<1>6. Older(Age, K, t)
  BY <1>2, <1>3, <1>4, <1>5 DEF Older
<1> QED BY <1>2, <1>5, <1>6, TriedOne

LEMMA TakeInTime ==
  ASSUME NEW Age, NEW K, Ages(Age, K), Inv, Inv', InTime(Age, K), TakeTask
  PROVE  InTime(Age, K)'
<1>0. TypeOK /\ TypeOK'
  BY DEF Inv
<1>1. /\ pc = "top" /\ pc' \in {"work", "size"}
      /\ UNCHANGED <<cache, countdown, results, network, parser, parsed, loaded>>
  BY DEF TakeTask
<1>2. Stays(Between) /\ Comes(Resting) /\ Comes(Parsing)
  BY <1>1 DEF Stays, Comes, Between, Resting, Parsing
<1>3. Ready' = Ready /\ Handling' = Handling /\ parsed' = parsed /\ countdown <= countdown'
  BY <1>0, <1>1, TestsType DEF Ready, Handling
<1>4. CASE UNCHANGED <<tries, queue, pending, active, loads>>
  <2>1. Waiting' = Waiting /\ Ordered' = Ordered /\ Grows(Age, K)
    BY <1>0, <1>1, <1>4, NotTried DEF Waiting, Ordered
  <2>2. Onward(Age, K, {}, {}, {})
    BY <1>1, <1>2, <1>3, <2>1, SameParsed, Zenon DEF Onward
  <2> QED BY <2>2, Moved
<1>5. ASSUME NEW t \in Tasks, Accept(t), t \in Waiting, queue' \subseteq queue,
             ToSet(pending') \subseteq ToSet(pending)
      PROVE  InTime(Age, K)'
  <2>1. Grows(Age, K) /\ (cache => Tried(Age, K, t)' = Tried(Age, K, t) + 1)
    BY <1>0, <1>1, <1>5, AcceptGrows
  <2>y. PICK Y : Y = IF cache THEN {t} ELSE {}
    OBVIOUS
  <2>2. (cache => Tests + 1 <= Tried(Age, K, t)') /\ Tests' = Tests
    <3>1. Tests <= Tried(Age, K, t) /\ Tests \in Nat /\ Tried(Age, K, t) \in Nat /\ Tests' = Tests
      BY <1>0, <1>1, <1>5, StartType, TestsType DEF InTime, Tests
    <3> QED BY <2>1, <3>1
  <2>3. (active' = active \/ active' = active \cup {t}) /\ (loads' = loads \/ (cache /\ loads' = Append(loads, Load(t))))
    BY <1>5 DEF Accept, Load
  <2>4. Waiting' \subseteq Waiting
    BY <1>1, <1>5, <2>3 DEF Waiting
  <2>5. Ordered' \subseteq Ordered \cup Y
    <3>1. Load(t) \in Order /\ Load(t).task = t
      BY DEF Order, Load
    <3>2. CASE loads' = loads
      BY <3>2 DEF Ordered
    <3>3. CASE cache /\ loads' = Append(loads, Load(t))
      <4>1. Ordered' \subseteq Ordered \cup {Load(t).task}
        BY <1>0, <3>1, <3>3, OrderedAppend
      <4> QED BY <2>y, <3>1, <3>3, <4>1
    <3> QED BY <2>3, <3>2, <3>3
  <2>6. \A u \in Y : Tests' + 1 <= Tried(Age, K, u)'
    BY <2>y, <2>2
  <2>7. Onward(Age, K, {}, Y, {})
    BY <1>1, <1>2, <1>3, <2>1, <2>4, <2>5, <2>6, SameParsed, Zenon DEF Onward
  <2> QED BY <2>7, Moved
<1>6. CASE pending # <<>> /\ Accept(Head(pending)) /\ pending' = Tail(pending) /\ queue' = queue
  <2>1. Head(pending) \in ToSet(pending) /\ ToSet(pending') \subseteq ToSet(pending)
          /\ ToSet(pending) \subseteq Tasks
    BY <1>0, <1>6, Types, Elements
  <2> QED BY <1>5, <1>6, <2>1 DEF Waiting
<1>7. ASSUME NEW t \in queue, Accept(t), queue' = queue \ {t}, pending' = pending
      PROVE  InTime(Age, K)'
  <2>1. t \in Tasks /\ t \in Waiting
    BY <1>0 DEF TypeOK, Waiting
  <2> QED BY <1>5, <1>7, <2>1
<1> QED BY <1>4, <1>6, <1>7, Zenon DEF TakeTask

-----------------------------------------------------------------------------
(* The steps that make a task wait again, or for the first time.           *)
LEMMA HandlerInTime ==
  ASSUME NEW Age, NEW K, Ages(Age, K), Inv, Inv', InTime(Age, K), ProcessHandlerResult
  PROVE  InTime(Age, K)'
<1>0. TypeOK /\ TypeOK'
  BY DEF Inv
<1>r. PICK r : r = Head(parsed)
  OBVIOUS
<1>t. PICK t : t = r.task
  OBVIOUS
<1>1. /\ pc = "drain" /\ pc' \in {"drain", "top", "stopped"}
      /\ UNCHANGED <<cache, countdown, pending, active, results, network, parser, loads, loaded>>
  BY DEF ProcessHandlerResult, AddMade, cacheVars
<1>2. Stays(Between) /\ Comes(Resting) /\ Comes(Parsing)
  BY <1>1 DEF Stays, Comes, Between, Resting, Parsing
<1>3. Ready' = Ready /\ Handling' = Handling /\ Ordered' = Ordered /\ countdown <= countdown'
  BY <1>0, <1>1, TestsType DEF Ready, Handling, Ordered
<1>4. CASE UNCHANGED <<queue, tries>> /\ (parsed' = parsed \/ (parsed # <<>> /\ parsed' = Tail(parsed)))
  <2>1. Waiting' = Waiting /\ Grows(Age, K)
    BY <1>0, <1>1, <1>4, NotTried DEF Waiting
  <2>p. Parsed' \subseteq Parsed
    <3>1. ToSet(parsed') \subseteq ToSet(parsed)
      BY <1>0, <1>4, Types, Elements
    <3> QED BY <3>1 DEF Parsed
  <2>2. Onward(Age, K, {}, {}, {})
    BY <1>1, <1>2, <1>3, <2>p, <2>1, Zenon DEF Onward
  <2> QED BY <2>2, Moved
<1>5. CASE /\ parsed # <<>> /\ Head(parsed) # Raised /\ parsed' = Tail(parsed) /\ queue' = queue \cup {t}
           /\ IF r.clone
                THEN tries' = [tries EXCEPT ![t] = [network |-> 0, task |-> @.task + 1]]
                ELSE tries' = tries
  <2>1. r \in Parsed /\ Parsed' \subseteq Parsed /\ t \in Tasks
    <3>1. r \in Parsed /\ Parsed' \subseteq Parsed
      <4>1. r \in ToSet(parsed) /\ ToSet(parsed') \subseteq ToSet(parsed)
        BY <1>0, <1>r, <1>5, Types, Elements
      <4> QED BY <1>r, <1>5, <4>1 DEF Parsed
    <3>2. t \in Tasks
      BY <1>0, <1>t, <3>1, PlacesHoldTasks
    <3> QED BY <3>1, <3>2
  <2>2. /\ Start(Age, K, t) \in Nat /\ tries[t].network \in Nat /\ Pass(K) = K + 2
        /\ Tried(Age, K, t) = Start(Age, K, t) + IF cache THEN tries[t].network ELSE 0
        /\ K \in Nat /\ (cache => tries[t].network <= K + 1)
        /\ tries[t].task \in Nat /\ tries[t].task >= 1
    <3>1. /\ Start(Age, K, t) \in Nat /\ tries[t].network \in Nat /\ Pass(K) = K + 2
          /\ Tried(Age, K, t) = Start(Age, K, t) + IF cache THEN tries[t].network ELSE 0
      BY <1>0, <2>1, StartType
    <3>2. /\ tries[t].network \in 0..(NetworkTryLimit + 1) /\ tries[t].task \in 1..(TaskTryLimit + 1)
          /\ NetworkTryLimit \in Nat /\ TaskTryLimit \in Nat
          /\ K \in Nat /\ (cache => NetworkTryLimit <= K)
      BY <1>0, <2>1, SpiderConstants DEF TypeOK, Ages, InTime
    <3> QED BY <3>1, <3>2
  <2>3. Tests \in Nat /\ Tests' = Tests /\ Tests <= Limit(Age, K, r)
    <3>1. Tests \in Nat /\ Tests' = Tests
      BY <1>0, <1>1, TestsType DEF Tests
    <3>2. Tests + More(Parsing) <= Limit(Age, K, r) /\ More(Parsing) = 0
      BY <1>1, <2>1 DEF InTime, More, Parsing
    <3> QED BY <3>1, <3>2
  <2>4. Grows(Age, K) /\ Tests' <= Tried(Age, K, t)'
    <3>1. CASE r.clone
      <4>1. /\ \A u \in Tasks : u # t => tries'[u] = tries[u]
            /\ tries'[t].network = 0 /\ tries'[t].task = tries[t].task + 1
        BY <1>0, <1>5, <2>1, <3>1 DEF TypeOK
      <4>2. Start(Age, K, t)' = Start(Age, K, t) + Pass(K)
        <5> DEFINE n == tries[t].task - 1
        <5>1. n \in Nat /\ Pass(K) \in Nat /\ tries'[t].task - 1 = n + 1
          BY <2>2, <4>1
        <5>2. Start(Age, K, t) = Age[t] + n * Pass(K) /\ Start(Age, K, t)' = Age[t] + (n + 1) * Pass(K)
          BY <5>1 DEF Start
        <5> HIDE DEF n
        <5>p. PICK P \in Nat : P = Pass(K)
          BY <5>1
        <5>3. (n + 1) * P = n * P + P /\ n * P \in Nat /\ Age[t] \in Nat
          BY <1>0, <2>1, <5>1, Times, StartType
        <5>4. PICK x \in Nat : x = n * P
          BY <5>3
        <5> QED BY <5>p, <5>2, <5>3, <5>4
      <4>3. Tried(Age, K, t)' = Start(Age, K, t) + Pass(K)
        BY <2>2, <4>1, <4>2 DEF Tried
      <4>4. Older(Age, K, t)
        BY <1>1, <2>2, <4>1, <4>2, <4>3 DEF Older
      <4>5. Limit(Age, K, r) = Start(Age, K, t) + Pass(K)
        BY <1>t, <3>1 DEF Limit
      <4> QED BY <1>0, <2>3, <4>3, <4>4, <4>5, TriedOne
    <3>2. CASE ~r.clone
      <4>1. tries' = tries /\ Limit(Age, K, r) = Start(Age, K, t)
        BY <1>t, <1>5, <2>2, <3>2 DEF Limit
      <4>2. Tried(Age, K, t)' = Tried(Age, K, t)
        BY <1>1, <4>1 DEF Tried, Start
      <4> QED BY <1>0, <1>1, <2>2, <2>3, <4>1, <4>2, NotTried
    <3> QED BY <3>1, <3>2
  <2>5. Waiting' \subseteq Waiting \cup {t}
    BY <1>1, <1>5 DEF Waiting
  <2>6. Onward(Age, K, {t}, {}, {})
    BY <1>1, <1>2, <1>3, <2>1, <2>4, <2>5, Zenon DEF Onward
  <2> QED BY <2>6, Moved
<1>6. CASE Head(parsed) # Raised /\ AddMade(Head(parsed)) /\ parsed # <<>> /\ parsed' = Tail(parsed)
  BY <1>r, <1>t, <1>5, <1>6, Zenon DEF AddMade
<1>7. CASE ~(Head(parsed) # Raised /\ AddMade(Head(parsed)) /\ parsed # <<>> /\ parsed' = Tail(parsed))
  <2>1. UNCHANGED <<queue, tries>> /\ (parsed' = parsed \/ (parsed # <<>> /\ parsed' = Tail(parsed)))
    BY <1>7 DEF ProcessHandlerResult
  <2> QED BY <1>4, <2>1
<1> QED BY <1>6, <1>7

(* A generator that is alive has made every test fail.                     *)
LEMMA GeneratorInTime ==
  ASSUME NEW Age, NEW K, Ages(Age, K), Inv, Inv', TestInv, InTime(Age, K), Generator
  PROVE  InTime(Age, K)'
<1>0. TypeOK /\ TypeOK'
  BY DEF Inv
<1>1. UNCHANGED <<cache, pc, countdown, tries, pending, active, results, network, parser, parsed, loads,
                  loaded>>
  BY DEF Generator, mainVars, cacheVars
<1>2. Stays(Between) /\ Comes(Resting) /\ Comes(Parsing)
  BY <1>1 DEF Stays, Comes
<1>3. /\ Ready' = Ready /\ Handling' = Handling /\ Ordered' = Ordered /\ countdown <= countdown'
      /\ Grows(Age, K) /\ parsed' = parsed
  BY <1>0, <1>1, TestsType, NotTried DEF Ready, Handling, Ordered
<1>4. CASE queue' = queue
  <2>1. Waiting' = Waiting
    BY <1>1, <1>4 DEF Waiting
  <2>2. Onward(Age, K, {}, {}, {})
    BY <1>1, <1>2, <1>3, <2>1, SameParsed, Zenon DEF Onward
  <2> QED BY <2>2, Moved
<1>5. CASE gen.at = "next" /\ gen.left # <<>> /\ queue' = queue \cup {Head(gen.left)}
  <2>t. PICK t : t = Head(gen.left)
    OBVIOUS
  <2>1. t \in Tasks
    <3>1. gen.left \in Seq(Tasks)
      BY <1>0 DEF TypeOK
    <3> QED BY <1>5, <2>t, <3>1
  <2>2. Tests' = 0 /\ Tried(Age, K, t)' \in Nat
    <3>1. countdown = Countdown
      BY <1>5 DEF TestInv, Alive
    <3>2. Tests' = 0
      BY <1>1, <3>1, SpiderConstants DEF Tests
    <3> QED BY <1>0, <2>1, <3>2, StartTypeNext
  <2>3. Waiting' \subseteq Waiting \cup {t}
    BY <1>1, <1>5, <2>t DEF Waiting
  <2>4. \A u \in {t} : Tests' <= Tried(Age, K, u)'
    BY <2>2
  <2>5. Onward(Age, K, {t}, {}, {})
    BY <1>1, <1>2, <1>3, <2>3, <2>4, SameParsed, Zenon DEF Onward
  <2> QED BY <2>5, Moved
<1> QED BY <1>4, <1>5, Zenon DEF Generator

-----------------------------------------------------------------------------
(* The parser and the cache.  The parser may have taken a result behind    *)
(* the test's back; what it makes of it is then one test late.             *)
LEMMA GetInTime ==
  ASSUME NEW Age, NEW K, Ages(Age, K), Inv, Inv', InTime(Age, K), ParserGet \/ ParserWakes,
         UNCHANGED <<cache, mainVars, queue, genVars, cacheVars>>
  PROVE  InTime(Age, K)'
<1>0. TypeOK /\ TypeOK'
  BY DEF Inv
<1>1. UNCHANGED <<cache, pc, countdown, tries, queue, pending, active, results, parsed, loads, loaded>>
  BY DEF ParserGet, ParserWakes, mainVars, cacheVars
<1>2. Stays(Between) /\ Comes(Resting) /\ Comes(Parsing)
  BY <1>1 DEF Stays, Comes
<1>3. /\ Ready' = Ready /\ Ordered' = Ordered /\ countdown <= countdown'
      /\ Grows(Age, K) /\ parsed' = parsed
  BY <1>0, <1>1, TestsType, NotTried DEF Ready, Ordered
<1>4. /\ ToSet(network') \subseteq ToSet(network)
      /\ parser'.task = parser.task \/ parser'.task \in ToSet(network)
  <2>1. CASE network' = network /\ parser'.task = parser.task
    BY <2>1
  <2>2. CASE /\ network # <<>> /\ network' = Tail(network)
             /\ parser' = [at |-> "handle", task |-> Head(network)]
    BY <1>0, <2>2, Types, Elements
  <2>3. ASSUME NEW x, parser' = [parser EXCEPT !.at = x] PROVE parser'.task = parser.task
    BY <1>0, <2>3 DEF TypeOK
  <2> QED BY <2>1, <2>2, <2>3 DEF ParserGet, ParserWakes
<1>5. Waiting' \subseteq Waiting
  BY <1>1, <1>4 DEF Waiting
<1>6. Handling' \subseteq Handling \cup ToSet(network)
  BY <1>4 DEF Handling
<1>7. Onward(Age, K, {}, {}, {})
  BY <1>1, <1>2, <1>3, <1>5, <1>6, SameParsed, Zenon DEF Onward
<1> QED BY <1>7, Moved

LEMMA HandlesInTime ==
  ASSUME NEW Age, NEW K, Ages(Age, K), Inv, Inv', InTime(Age, K), ParserHandles,
         UNCHANGED <<cache, mainVars, queue, genVars, cacheVars>>
  PROVE  InTime(Age, K)'
<1>0. TypeOK /\ TypeOK'
  BY DEF Inv
<1>p. PICK p : p = parser.task
  OBVIOUS
<1>1. /\ parser.at = "handle" /\ parser' = [at |-> "get", task |-> None]
      /\ UNCHANGED <<cache, pc, countdown, tries, queue, pending, active, results, network, loads, loaded>>
  BY DEF ParserHandles, mainVars, cacheVars
<1>2. p \in Tasks /\ p \in Handling /\ parsed \in Seq(Made)
  BY <1>0, <1>p, <1>1, SpiderConstants DEF TypeOK, Handling
<1>3. Stays(Between) /\ Comes(Resting) /\ Comes(Parsing)
  BY <1>1 DEF Stays, Comes
<1>4. /\ Ready' = Ready /\ Ordered' = Ordered /\ countdown <= countdown'
      /\ Grows(Age, K) /\ Waiting' = Waiting /\ Handling' = {}
  BY <1>0, <1>1, TestsType, NotTried DEF Ready, Ordered, Waiting, Handling
<1>5. /\ Start(Age, K, p) + Pass(K) <= Age[p] + Life(K) /\ Start(Age, K, p) \in Nat /\ Pass(K) \in Nat
      /\ Age[p] \in Nat /\ Life(K) \in Nat
      /\ Tests' \in Nat /\ Tests' + 1 <= Start(Age, K, p) + Pass(K)
  <2>1. /\ Start(Age, K, p) + Pass(K) <= Age[p] + Life(K) /\ Start(Age, K, p) \in Nat
        /\ Pass(K) \in Nat /\ Pass(K) = K + 2 /\ K \in Nat /\ Age[p] \in Nat /\ Life(K) \in Nat
    BY <1>0, <1>2, OpenTask, StartType
  <2>2. Tests + More(Resting) <= Start(Age, K, p) + K + 1 /\ More(Resting) \in {0, 1}
    BY <1>2 DEF InTime, More
  <2>3. Tests \in Nat /\ Tests' = Tests
    BY <1>0, <1>1, TestsType DEF Tests
  <2> QED BY <2>1, <2>2, <2>3, SpiderConstants
<1>6. ASSUME NEW t \in Tasks
      PROVE  Start(Age, K, t)' = Start(Age, K, t) /\ Start(Age, K, t) \in Nat /\ Age[t] <= Start(Age, K, t)
  <2>1. Start(Age, K, t)' = Start(Age, K, t)
    BY <1>1 DEF Start
  <2> QED BY <1>0, <2>1, StartType
<1>a. ASSUME NEW t \in Tasks, Age[p] + Life(K) <= Age[t], Age[t] \in Nat
      PROVE  Tests' + 1 <= Start(Age, K, t)
  BY <1>5, <1>6, <1>a
<1>7. ASSUME NEW Z, \A r \in Z : Tests' + 1 <= Limit(Age, K, r)',
             Parsed' \subseteq Parsed \cup Z
      PROVE  InTime(Age, K)'
  <2>1. Onward(Age, K, {}, {}, Z)
    BY <1>1, <1>3, <1>4, <1>7, Zenon DEF Onward
  <2> QED BY <2>1, Moved
<1>8. ASSUME NEW T \in SUBSET Tasks, T \subseteq Children[p],
             NEW s \in Seq(Made), parsed' = parsed \o s,
             ToSet(s) \subseteq {[task |-> t, clone |-> FALSE] : t \in T} \cup {Raised}
      PROVE  InTime(Age, K)'
  <2> DEFINE Z == {[task |-> t, clone |-> FALSE] : t \in T}
  <2>3. Parsed' \subseteq Parsed \cup Z
    <3>1. ToSet(parsed \o s) \subseteq ToSet(parsed) \cup ToSet(s)
      BY <1>2, ElementsConcat
    <3> QED BY <1>8, <3>1 DEF Parsed
  <2>4. ASSUME NEW r \in Z PROVE Tests' + 1 <= Limit(Age, K, r)'
    <3>1. PICK t \in T : r = [task |-> t, clone |-> FALSE]
      OBVIOUS
    <3>2. t \in Tasks /\ Age[p] + Life(K) <= Age[t] /\ Age[t] \in Nat
      BY <1>2, <1>8 DEF Ages
    <3>3. Limit(Age, K, r)' = Start(Age, K, t)
      <4>1. Limit(Age, K, r)' = Start(Age, K, t)' + 0
        BY <3>1 DEF Limit
      <4> QED BY <1>6, <3>2, <4>1
    <3> QED BY <1>a, <3>2, <3>3, Zenon
  <2> QED BY <1>7, <2>3, <2>4
<1>9. ASSUME parsed' = Append(parsed, [task |-> p, clone |-> TRUE])
      PROVE  InTime(Age, K)'
  <2>r. PICK r : r = [task |-> p, clone |-> TRUE]
    OBVIOUS
  <2>1. r \in Made
    BY <1>2, <2>r DEF Made
  <2>z. PICK Z : Z = {r}
    OBVIOUS
  <2>2. Parsed' \subseteq Parsed \cup Z
    <3>1. ToSet(parsed') \subseteq ToSet(parsed) \cup {r}
      BY <1>2, <1>9, <2>r, <2>1, ElementsAppend
    <3> QED BY <2>z, <3>1 DEF Parsed
  <2>3. Limit(Age, K, r)' = Start(Age, K, p) + Pass(K)
    <3>1. Limit(Age, K, r)' = Start(Age, K, p)' + Pass(K)
      BY <2>r DEF Limit
    <3> QED BY <1>2, <1>6, <3>1
  <2>4. \A q \in Z : Tests' + 1 <= Limit(Age, K, q)'
    BY <1>5, <2>z, <2>3
  <2> QED BY <1>7, <2>2, <2>4
<1>10. ASSUME NEW T \in SUBSET Children[p], NEW e \in {<<>>, <<Raised>>},
              parsed' = parsed \o (SetToSeq({[task |-> t, clone |-> FALSE] : t \in T}) \o e)
       PROVE  InTime(Age, K)'
  <2>1. T \in SUBSET Tasks /\ T \subseteq Children[p] /\ IsFiniteSet(T)
    BY <1>2, SpiderConstants, NewTasks, FS_Subset
  <2>2. PICK s \in Seq(Made) :
          /\ parsed' = parsed \o s
          /\ ToSet(s) \subseteq {[task |-> t, clone |-> FALSE] : t \in T} \cup {Raised}
    BY <1>10, <2>1, Yielded, Zenon
  <2> QED BY <1>8, <2>1, <2>2, Zenon
<1> QED BY <1>p, <1>9, <1>10, Zenon DEF ParserHandles

LEMMA CacherInTime ==
  ASSUME NEW Age, NEW K, Ages(Age, K), Inv, Inv', InTime(Age, K), Cacher
  PROVE  InTime(Age, K)'
<1>0. TypeOK /\ TypeOK'
  BY DEF Inv
<1>1. UNCHANGED <<cache, pc, countdown, tries, queue, pending, active, results, network, parser, parsed>>
  BY DEF Cacher, mainVars
<1>2. Stays(Between) /\ Comes(Resting) /\ Comes(Parsing)
  BY <1>1 DEF Stays, Comes
<1>3. /\ Waiting' = Waiting /\ Handling' = Handling /\ countdown <= countdown'
      /\ Grows(Age, K) /\ parsed' = parsed
  BY <1>0, <1>1, TestsType, NotTried DEF Waiting, Handling
<1>4. ASSUME Ordered' \subseteq Ordered, Ready' \subseteq Ready \cup Ordered
      PROVE  InTime(Age, K)'
  <2>1. Onward(Age, K, {}, {}, {})
    BY <1>1, <1>2, <1>3, <1>4, SameParsed, Zenon DEF Onward
  <2> QED BY <2>1, Moved
<1>5. CASE UNCHANGED <<loads, loaded>>
  <2>1. Ordered' = Ordered /\ Ready' = Ready
    BY <1>5 DEF Ordered, Ready
  <2> QED BY <1>4, <2>1
<1>6. CASE /\ cacher.at = "work" /\ loads' = Tail(loads)
           /\ \/ /\ Head(loads).do = "load"
                 /\ \E d \in {"task", "network_result"} :
                      loaded' = Append(loaded, [do |-> d, task |-> Head(loads).task])
              \/ loaded' = loaded
  <2>o. PICK o : o = Head(loads)
    OBVIOUS
  <2>1. loads \in Seq(Order) /\ loads # <<>> /\ loaded \in Seq(Found)
    BY <1>0, <1>6, Types DEF Inv, LocalInv
  <2>2. o \in ToSet(loads) /\ o \in Order /\ ToSet(loads') \subseteq ToSet(loads)
    BY <1>6, <2>o, <2>1, Elements
  <2>3. Ordered' \subseteq Ordered
    BY <2>2 DEF Ordered
  <2>4. Ready' \subseteq Ready \cup Ordered
    <3>1. CASE loaded' = loaded
      BY <3>1 DEF Ready
    <3>2. ASSUME o.do = "load", NEW d \in {"task", "network_result"},
                 loaded' = Append(loaded, [do |-> d, task |-> o.task])
          PROVE  Ready' \subseteq Ready \cup Ordered
      <4>q. PICK q : q = [do |-> d, task |-> o.task]
        OBVIOUS
      <4>1. o.task \in Tasks
        BY <2>2, <3>2 DEF Order
      <4>2. q \in Found /\ q.task = o.task
        BY <4>q, <4>1 DEF Found
      <4>3. ToSet(loaded') = ToSet(loaded) \cup {q}
        BY <2>1, <3>2, <4>q, <4>2, ElementsAppend
      <4>4. o.task \in Ordered
        BY <2>2, <3>2 DEF Ordered
      <4> QED BY <4>2, <4>3, <4>4 DEF Ready
    <3> QED BY <1>6, <2>o, <3>1, <3>2, Zenon
  <2> QED BY <1>4, <2>3, <2>4
<1> QED BY <1>5, <1>6, Zenon DEF Cacher

LEMMA InTimeStep ==
  ASSUME NEW Age, NEW K, Ages(Age, K), Inv, TestInv, InTime(Age, K), [Next]_vars
  PROVE  InTime(Age, K)'
<1>0. Inv'
  BY InvStep
<1>1. CASE Main
  <2>1. CASE CheckPause \/ CheckRead \/ CheckEnd \/ CheckResumed \/ LoopEnds \/ QueueSize \/ RoundEnds
    <3>1. CASE pc = "yes"
      <4>1. CheckEnd
        BY <2>1, <3>1 DEF CheckPause, CheckRead, CheckResumed, LoopEnds, QueueSize, RoundEnds, Check
      <4> QED BY <1>0, <3>1, <4>1, YesInTime
    <3>2. CASE pc # "yes"
      BY <1>0, <2>1, <3>2, CheckInTime
    <3> QED BY <3>1, <3>2
  <2> QED BY <1>0, <1>1, <2>1, TakeInTime, LoadedInTime, ResultInTime, HandlerInTime DEF Main
<1>2. ASSUME NEW t \in Tasks, Collect(t) PROVE InTime(Age, K)'
  BY <1>0, <1>2, CollectInTime
<1>3. CASE Parser
  BY <1>0, <1>3, GetInTime, HandlesInTime DEF Parser
<1>4. CASE Generator
  BY <1>0, <1>4, GeneratorInTime
<1>5. CASE Cacher
  BY <1>0, <1>5, CacherInTime
<1>6. CASE stop \/ UNCHANGED vars
  <2>1. /\ StillAll /\ StillOrders /\ parser' = parser /\ countdown <= countdown'
        /\ Stays(Between) /\ Comes(Resting) /\ Comes(Parsing)
    BY <1>6, TestsType DEF stop, cacheVars, vars, StillAll, StillOrders, Stays, Comes, Inv
  <2> QED BY <1>0, <2>1, QuietInTime
<1> QED BY <1>1, <1>2, <1>3, <1>4, <1>5, <1>6 DEF Next

-----------------------------------------------------------------------------
(* What is empty when, and that the spider stops with nothing open.        *)
LEMMA TestMain ==
  ASSUME Inv, TestInv, Main
  PROVE  TestInv'
<1>0. TypeOK /\ gen.at \in {"top", "held", "look", "next", "dead"}
  BY DEF Inv, TypeOK
<1>1. CASE TakeTask
  <2>1. /\ pc = "top" /\ pc' \in {"work", "size"} /\ (pc' = "size" => pending' = <<>>)
        /\ UNCHANGED <<cache, countdown, results, gen>>
        /\ ~cache => loads' = loads
    BY <1>1 DEF TakeTask, Accept
  <2> QED BY <2>1 DEF TestInv, Testing, Alive
<1>2. CASE CheckPause \/ CheckRead \/ CheckEnd \/ CheckResumed \/ LoopEnds \/ QueueSize
  <2>1. /\ pc \in Testing \cup {"resume", "top"} /\ pc' \notin {"drain", "top"}
        /\ pc' \in Testing => pc \in Testing
        /\ UNCHANGED <<cache, pending, results, queue, active, network>>
        /\ ~cache => loads' = loads
        /\ pc' = "yes" =>
             /\ ~Alive /\ queue = {} /\ active = {} /\ network = <<>> /\ (cache => loads = <<>>)
             /\ loads' = loads
    BY <1>2 DEF CheckPause, CheckRead, CheckEnd, CheckResumed, LoopEnds, QueueSize, Check, Testing, genVars,
                cacheVars
  <2>2. gen'.at = gen.at
    <3>1. gen' = gen \/ \E x : gen' = [gen EXCEPT !.paused = x]
      BY <1>2 DEF CheckPause, CheckRead, CheckEnd, CheckResumed, LoopEnds, QueueSize, genVars
    <3> QED BY <1>0, <3>1 DEF TypeOK
  <2>3. countdown' = countdown \/ pc = "yes" \/ countdown' = Countdown
    BY <1>2 DEF CheckPause, CheckRead, CheckEnd, CheckResumed, LoopEnds, QueueSize, Check
  <2> QED BY <2>1, <2>2, <2>3 DEF TestInv, Alive
<1>3. CASE RoundEnds
  BY <1>3 DEF RoundEnds, TestInv, Testing, Alive, genVars, cacheVars
<1>4. CASE CollectLoaded
  <2>1. pc' = "loaded" /\ UNCHANGED <<cache, countdown, gen, loads>>
    BY <1>4 DEF CollectLoaded
  <2> QED BY <2>1 DEF TestInv, Testing, Alive
<1>5. CASE ProcessResult
  <2>1. pc' = "results" /\ UNCHANGED <<cache, countdown, gen>> /\ (~cache => loads' = loads)
    BY <1>5 DEF ProcessResult
  <2> QED BY <2>1 DEF TestInv, Testing, Alive
<1>6. CASE ProcessHandlerResult
  <2>1. /\ pc = "drain" /\ pc' \in {"drain", "top", "stopped"}
        /\ UNCHANGED <<cache, countdown, results, gen, loads>>
    BY <1>6 DEF ProcessHandlerResult, AddMade, genVars, cacheVars
  <2> QED BY <2>1 DEF TestInv, Testing, Alive
<1> QED BY <1>1, <1>2, <1>3, <1>4, <1>5, <1>6 DEF Main

LEMMA TestStep ==
  ASSUME Inv, TestInv, [Next]_vars
  PROVE  TestInv'
<1>0. TypeOK /\ LocalInv
  BY DEF Inv
<1>1. ASSUME NEW t \in Tasks, Collect(t) PROVE TestInv'
  <2>1. pc = "work" /\ UNCHANGED <<cache, pc, countdown, gen, loads>>
    BY <1>1 DEF Collect, genVars, cacheVars
  <2> QED BY <2>1 DEF TestInv, Testing, Alive
<1>2. CASE Parser
  <2>1. /\ UNCHANGED <<cache, pc, countdown, pending, active, results, queue, gen, loads>>
        /\ network = <<>> => network' = network
    BY <1>2 DEF Parser, ParserGet, ParserWakes, ParserHandles, mainVars, genVars, cacheVars
  <2> QED BY <2>1 DEF TestInv, Testing, Alive
<1>3. CASE Generator
  <2>1. /\ UNCHANGED <<cache, pc, countdown, pending, active, results, network, loads>>
        /\ Alive
    BY <1>3 DEF Generator, Alive, mainVars, cacheVars
  <2> QED BY <2>1 DEF TestInv, Testing
<1>4. CASE Cacher
  <2>1. /\ UNCHANGED <<cache, pc, countdown, pending, active, results, network, queue, gen>>
        /\ loads = <<>> => loads' = loads
    BY <1>0, <1>4 DEF Cacher, LocalInv, mainVars, genVars
  <2> QED BY <2>1 DEF TestInv, Testing, Alive
<1>5. CASE stop \/ UNCHANGED vars
  BY <1>5 DEF stop, genVars, cacheVars, vars, TestInv, Testing, Alive
<1> QED BY <1>1, <1>2, <1>3, <1>4, <1>5, TestMain DEF Next

(* The last test cannot have been fooled: no task is as old as that.       *)
LEMMA NothingOpen ==
  ASSUME NEW Age, NEW K, Ages(Age, K), Inv, TestInv, InTime(Age, K), pc = "yes", countdown = 1
  PROVE  given \subseteq ended
<1> SUFFICES ASSUME NEW t \in given, t \notin ended PROVE FALSE
  OBVIOUS
<1>0. TypeOK /\ HandInv /\ t \in Tasks
  BY DEF Inv, TypeOK
<1>1. Held(t) = 1 /\ Counts(t)
  BY <1>0, HeldParts, HasType DEF HandInv
<1>2. Tests + 1 = Countdown /\ Tests \in Nat /\ Countdown \in Nat
  <2>1. Tests \in Nat /\ countdown = Countdown - Tests
    BY <1>0, TestsType
  <2> QED BY <2>1, SpiderConstants
<1>3. /\ Age[t] \in Nat /\ Life(K) \in Nat /\ Pass(K) \in Nat /\ Pass(K) = K + 2 /\ K \in Nat
      /\ NetworkTryLimit \in Nat /\ (cache => NetworkTryLimit <= K)
      /\ Start(Age, K, t) \in Nat /\ tries[t].network \in Nat
      /\ Tried(Age, K, t) = Start(Age, K, t) + IF cache THEN tries[t].network ELSE 0
      /\ Start(Age, K, t) <= Age[t] + Life(K)
      /\ tries[t].task <= TaskTryLimit => Start(Age, K, t) + Pass(K) <= Age[t] + Life(K)
      /\ Age[t] + Life(K) < Countdown
  BY <1>0, StartType, SpiderConstants DEF Ages, InTime
<1>4. t \in Ready \/ t \in Handling \/ \E r \in Parsed : r.task = t
  <2>1. queue = {} /\ active = {} /\ pending = <<>> /\ network = <<>> /\ results = <<>> /\ loads = <<>>
    BY DEF TestInv, Testing
  <2>2. /\ Has(queue, t) = 0 /\ Has(active, t) = 0
        /\ HowMany(pending, {t}) = 0 /\ HowMany(network, {t}) = 0
        /\ HowMany(results, Of(Result, t)) = 0 /\ HowMany(loads, {Load(t)}) = 0
    BY <2>1, CountEmpty DEF Has
  <2>3. \/ Has({parser.task}, t) = 1
        \/ HowMany(loaded, Of(Found, t)) # 0 \/ HowMany(parsed, Of(Made, t)) # 0
    BY <1>1, <2>2 DEF Held, Counts
  <2>4. ASSUME NEW S, NEW s \in Seq(S), HowMany(s, Of(S, t)) # 0
        PROVE  \E r \in ToSet(s) : r.task = t
    <3>1. PICK i \in DOMAIN s : s[i] \in Of(S, t)
      BY <2>4, CountType
    <3> QED BY <3>1 DEF Of, ToSet
  <2>5. loaded \in Seq(Found) /\ parsed \in Seq(Made) /\ Raised.task # t
    BY <1>0, Types, SpiderConstants DEF Raised
  <2>6. CASE Has({parser.task}, t) = 1
    BY <1>0, <2>6, SpiderConstants DEF Has, Handling
  <2>7. CASE HowMany(loaded, Of(Found, t)) # 0
    <3>1. \E r \in ToSet(loaded) : r.task = t
      BY <2>4, <2>5, <2>7
    <3> QED BY <3>1 DEF Ready
  <2>8. CASE HowMany(parsed, Of(Made, t)) # 0
    <3>1. PICK r \in ToSet(parsed) : r.task = t
      BY <2>4, <2>5, <2>8
    <3> QED BY <2>5, <3>1 DEF Parsed
  <2> QED BY <2>3, <2>6, <2>7, <2>8
<1>5. CASE t \in Ready
  <2>1. Tests + 1 <= Tried(Age, K, t)
    <3>1. More(Between) = 0
      BY DEF More, Between
    <3> QED BY <1>3, <1>5, <3>1 DEF InTime
  <2>2. tries[t].network <= NetworkTryLimit /\ tries[t].task <= TaskTryLimit
    BY <1>0, <1>5, OpenTask
  <2> QED BY <1>2, <1>3, <2>1, <2>2
<1>6. CASE t \in Handling
  <2>1. Tests + 1 <= Start(Age, K, t) + K + 1
    <3>1. More(Resting) = 1
      BY DEF More, Resting
    <3> QED BY <1>3, <1>6, <3>1 DEF InTime
  <2>2. tries[t].task <= TaskTryLimit
    BY <1>0, <1>6, OpenTask
  <2> QED BY <1>2, <1>3, <2>1, <2>2
<1>7. ASSUME NEW r \in Parsed, r.task = t PROVE FALSE
  <2>1. Tests + 1 <= Limit(Age, K, r)
    <3>1. More(Parsing) = 1
      BY DEF More, Parsing
    <3> QED BY <1>3, <3>1 DEF InTime
  <2>2. CASE r.clone
    <3>1. tries[t].task <= TaskTryLimit
      BY <1>0, <1>7, <2>2, OpenTask
    <3>2. Limit(Age, K, r) = Start(Age, K, t) + Pass(K)
      BY <1>7, <2>2 DEF Limit
    <3> QED BY <1>2, <1>3, <2>1, <3>1, <3>2
  <2>3. CASE ~r.clone
    <3>1. Limit(Age, K, r) = Start(Age, K, t)
      BY <1>3, <1>7, <2>3 DEF Limit
    <3> QED BY <1>2, <1>3, <2>1, <3>1
  <2> QED BY <2>2, <2>3
<1> QED BY <1>4, <1>5, <1>6, <1>7

(* Where the loop stays as long as it is not over.                         *)
LEMMA StopsOnce ==
  ASSUME Inv, [Next]_vars, pc = "stopped"
  PROVE  /\ pc' = "stopped" /\ UNCHANGED <<told, countdown, fooled>>
         /\ Generator \/ (gen' = gen /\ (ParserHandles \/ UNCHANGED <<given, ended>>))
<1>1. ~Main /\ ~stop /\ ~\E t \in Tasks : Collect(t)
  BY DEF Main, TakeTask, LoopEnds, CheckPause, CheckRead, CheckEnd, CheckResumed, QueueSize, RoundEnds,
         CollectLoaded, ProcessResult, ProcessHandlerResult, Check, Collect, stop
<1>2. Parser \/ Generator \/ Cacher \/ UNCHANGED vars
  BY <1>1, Zenon DEF Next
<1> QED BY <1>2 DEF Parser, ParserGet, ParserWakes, Generator, Cacher, mainVars, genVars, vars

LEMMA OverStep ==
  ASSUME NEW Age, NEW K, Ages(Age, K), Inv, TestInv, InTime(Age, K), Over, [Next]_vars
  PROVE  Over'
<1> SUFFICES ASSUME pc' = "stopped", ~told' PROVE ~Alive' /\ given' \subseteq ended'
  BY DEF Over
<1>1. CASE pc = "stopped"
  <2>1. ~told /\ ~Alive /\ given \subseteq ended
    BY <1>1, StopsOnce DEF Over
  <2>2. ~Generator
    BY <2>1 DEF Generator, Alive
  <2>3. ~ParserHandles
    <3> SUFFICES ASSUME ParserHandles PROVE FALSE
      OBVIOUS
    <3>1. TypeOK /\ HandInv /\ parser.task \in Tasks
      BY DEF Inv, ParserHandles, TypeOK
    <3> QED BY <2>1, <3>1, OnlyHand
  <2> QED BY <1>1, <2>1, <2>2, <2>3, StopsOnce DEF Alive
<1>2. CASE pc # "stopped"
  <2>1. CheckEnd /\ pc = "yes" /\ countdown = 1
    <3>1. pc' = pc \/ Main
      BY DEF Next, Collect, stop, Parser, Generator, Cacher, mainVars, vars
    <3> QED BY <1>2, <3>1 DEF Main, TakeTask, LoopEnds, CheckPause, CheckRead, CheckEnd, CheckResumed,
                              QueueSize, RoundEnds, CollectLoaded, ProcessResult,
                              ProcessHandlerResult, AddMade, Check
  <2>2. given \subseteq ended /\ ~Alive
    BY <2>1, NothingOpen DEF TestInv
  <2>3. given' = given /\ ended' = ended /\ gen' = [gen EXCEPT !.paused = FALSE]
    BY <2>1 DEF CheckEnd, Check
  <2>4. gen'.at = gen.at
    BY <2>3 DEF Inv, TypeOK
  <2> QED BY <2>2, <2>3, <2>4 DEF Alive
<1> QED BY <1>1, <1>2

(* All of it together.                                                     *)
AgeInv(Age, K) == Inv /\ TestInv /\ InTime(Age, K) /\ Over

LEMMA AgeInit ==
  ASSUME NEW Age, NEW K, Ages(Age, K)
  PROVE  Init /\ (cache => NetworkTryLimit <= K) => AgeInv(Age, K)
<1> SUFFICES ASSUME Init, cache => NetworkTryLimit <= K PROVE AgeInv(Age, K)
  OBVIOUS
<1>1. Inv
  BY InvInit
<1>2. TestInv /\ Over
  BY DEF Init, TestInv, Over, Testing
<1>3. ToSet(<<>>) = {}
  BY DEF ToSet
<1>4. InTime(Age, K)
  BY <1>3, SpiderConstants DEF Init, InTime, Waiting, Ordered, Ready, Handling, Parsed
<1> QED BY <1>1, <1>2, <1>4 DEF AgeInv

LEMMA AgeStep ==
  ASSUME NEW Age, NEW K, Ages(Age, K)
  PROVE  AgeInv(Age, K) /\ [Next]_vars => AgeInv(Age, K)'
BY InvStep, TestStep, InTimeStep, OverStep DEF AgeInv

(* Tasks that are at most D steps from the generator, if each makes only   *)
(* tasks that are further away.                                            *)
Deeper(D, Depth) ==
  /\ D \in Nat /\ Depth \in [Tasks -> 0..D]
  /\ \A t \in Tasks : \A c \in Children[t] : Depth[t] < Depth[c]

AgeOf(Depth, K) == [t \in Tasks |-> Depth[t] * Life(K)]

LEMMA AgesByDepth ==
  ASSUME NEW D, NEW Depth, Deeper(D, Depth), NEW K \in Nat, (D + 1) * Life(K) < Countdown
  PROVE  Ages(AgeOf(Depth, K), K)
<1>1. PICK L \in Nat : L = Life(K)
  <2>1. Pass(K) \in Nat /\ TaskTryLimit \in Nat
    BY SpiderConstants DEF Pass
  <2> QED BY <2>1, Times DEF Life
<1>2. ASSUME NEW n \in Nat, NEW m \in Nat, n + 1 <= m
      PROVE  n * L \in Nat /\ m * L \in Nat /\ n * L + L <= m * L
  <2>1. (n + 1) * L = n * L + L /\ n * L \in Nat
    BY Times
  <2>2. (n + 1) * L <= m * L /\ m * L \in Nat
    BY <1>2, Times
  <2> QED BY <2>1, <2>2
<1>3. PICK Age : Age = AgeOf(Depth, K)
  OBVIOUS
<1>4. \A t \in Tasks : Depth[t] \in 0..D
  BY DEF Deeper
<1>5. ASSUME NEW t \in Tasks PROVE Age[t] = Depth[t] * L /\ Age[t] \in Nat
  <2>1. Age[t] = Depth[t] * L
    BY <1>1, <1>3 DEF AgeOf
  <2> QED BY <1>4, <2>1, Times
<1>6. Age \in [Tasks -> Nat]
  <2>1. Age = [t \in Tasks |-> Age[t]]
    BY <1>3 DEF AgeOf
  <2> QED BY <1>5, <2>1
<1>7. ASSUME NEW t \in Tasks, NEW c \in Children[t] PROVE Age[t] + L <= Age[c]
  <2>1. c \in Tasks /\ Depth[t] \in Nat /\ Depth[c] \in Nat /\ Depth[t] + 1 <= Depth[c]
    BY <1>4, SpiderConstants DEF Deeper
  <2> QED BY <1>2, <1>5, <2>1
<1>8. ASSUME NEW t \in Tasks PROVE Age[t] + L < Countdown
  <2>1. Depth[t] \in Nat /\ D + 1 \in Nat /\ Depth[t] + 1 <= D + 1
    BY <1>4 DEF Deeper
  <2>2. Depth[t] * L + L <= (D + 1) * L /\ (D + 1) * L \in Nat
    BY <1>2, <2>1
  <2>3. PICK y \in Nat : y = (D + 1) * L
    BY <2>2
  <2> QED BY <1>1, <1>5, <2>2, <2>3, SpiderConstants
<1> QED BY <1>1, <1>3, <1>6, <1>7, <1>8 DEF Ages

(* How long a countdown would have to be.  If the loop ends by itself      *)
(* while a task is open, then Countdown is at most the number of tests     *)
(* that the tasks of a chain, each yielded by the one before, can fool,    *)
(* one after the other, in all their tries; however many tasks there are   *)
(* beside each other.                                                      *)
THEOREM EarlyEndBound ==
  ASSUME NEW D, NEW Depth, Deeper(D, Depth)
  PROVE  Spec => [](NeverEarly \/ Countdown <= (D + 1) * (TaskTryLimit * (NetworkTryLimit + 2)))
<1>1. CASE Countdown <= (D + 1) * (TaskTryLimit * (NetworkTryLimit + 2))
  BY <1>1, PTL
<1>2. CASE ~(Countdown <= (D + 1) * (TaskTryLimit * (NetworkTryLimit + 2)))
  <2>1. PICK Age : Ages(Age, NetworkTryLimit)
    <3>1. (D + 1) * Life(NetworkTryLimit) < Countdown
      <4>1. PICK x \in Nat : x = (D + 1) * Life(NetworkTryLimit)
        <5>1. NetworkTryLimit + 2 \in Nat /\ TaskTryLimit \in Nat /\ D + 1 \in Nat
          BY SpiderConstants DEF Deeper
        <5>2. TaskTryLimit * (NetworkTryLimit + 2) \in Nat
          BY <5>1, Times
        <5> QED BY <5>1, <5>2, Times DEF Life, Pass
      <4> QED BY <1>2, <4>1, SpiderConstants DEF Life, Pass
    <3> QED BY <3>1, AgesByDepth, SpiderConstants
  <2>2. Init => AgeInv(Age, NetworkTryLimit)
    BY <2>1, AgeInit, SpiderConstants
  <2>3. AgeInv(Age, NetworkTryLimit) /\ [Next]_vars => AgeInv(Age, NetworkTryLimit)'
    BY <2>1, AgeStep
  <2>4. AgeInv(Age, NetworkTryLimit) => NeverEarly
    BY DEF AgeInv, Over, NeverEarly
  <2> QED BY <2>2, <2>3, <2>4, PTL DEF Spec
<1> QED BY <1>1, <1>2

(* Without a cache a task can fool two tests each time its handler is      *)
(* called, and none while the network is tried: the bound does not depend  *)
(* on the network tries.                                                   *)
THEOREM UncachedEarlyEndBound ==
  ASSUME NEW D, NEW Depth, Deeper(D, Depth)
  PROVE  Spec /\ ~cache => [](NeverEarly \/ Countdown <= (D + 1) * (TaskTryLimit * 2))
<1>1. CASE Countdown <= (D + 1) * (TaskTryLimit * 2)
  BY <1>1, PTL
<1>2. CASE ~(Countdown <= (D + 1) * (TaskTryLimit * 2))
  <2>1. PICK Age : Ages(Age, 0)
    <3>1. (D + 1) * Life(0) < Countdown
      <4>1. PICK x \in Nat : x = (D + 1) * Life(0)
        <5>1. TaskTryLimit \in Nat /\ D + 1 \in Nat
          BY SpiderConstants DEF Deeper
        <5>2. TaskTryLimit * (0 + 2) \in Nat
          BY <5>1
        <5> QED BY <5>1, <5>2, Times DEF Life, Pass
      <4> QED BY <1>2, <4>1, SpiderConstants DEF Life, Pass
    <3> QED BY <3>1, AgesByDepth
  <2>2. Init /\ ~cache => AgeInv(Age, 0)
    BY <2>1, AgeInit
  <2>3. AgeInv(Age, 0) /\ [Next]_vars => AgeInv(Age, 0)'
    BY <2>1, AgeStep
  <2>4. AgeInv(Age, 0) => NeverEarly
    BY DEF AgeInv, Over, NeverEarly
  <2> QED BY <2>2, <2>3, <2>4, PTL DEF Spec
<1> QED BY <1>1, <1>2

-----------------------------------------------------------------------------
(* The refinement of SpiderJob, for any limits and any countdown.  What a  *)
(* test misses has moved since the loop took what the cache had ready: the *)
(* cache had it ready after that, or the parser took it, or put it down,   *)
(* while the test looked elsewhere.                                        *)
MovedInv ==
  /\ loaded # <<>> => moved \/ pc \in Between
  /\ pc \in Parsing /\ parsed # <<>> => moved
  /\ pc \in Resting /\ parser.at = "handle" => moved

(* So, while a task is open, each positive test has been counted.          *)
FooledInv ==
  /\ fooled <= Tests
  /\ ~(given \subseteq ended) => fooled = Tests
  /\ pc # "stopped" => countdown # 0
  /\ pc = "stopped" /\ ~told => ~Alive

LEMMA MovedStep ==
  ASSUME Inv, MovedInv, [Next]_vars
  PROVE  MovedInv'
<1>0. TypeOK
  BY DEF Inv
<1>1. CASE TakeTask \/ LoopEnds \/ QueueSize
  <2>1. UNCHANGED <<loaded, parsed, parser, moved>> /\ pc' \notin Parsing /\ pc \notin Between
    BY <1>1 DEF TakeTask, LoopEnds, QueueSize, Parsing, Between, cacheVars, testVars
  <2> QED BY <2>1 DEF MovedInv, Parsing, Resting
<1>2. CASE CheckPause \/ CheckRead \/ CheckEnd \/ CheckResumed
  <2>1. /\ UNCHANGED <<loaded, parsed, parser, moved>> /\ pc \notin Between
        /\ pc' \in Parsing => pc \in Parsing \/ parsed = <<>>
        /\ pc' \in Resting => pc \in Resting \/ parser.at = "sleep"
    BY <1>2 DEF CheckPause, CheckRead, CheckEnd, CheckResumed, Check, Parsing, Resting, Between,
                IsParserIdle
  <2> QED BY <2>1 DEF MovedInv
<1>3. CASE CollectLoaded
  <2>1. pc' = "loaded"
    BY <1>3 DEF CollectLoaded
  <2> QED BY <2>1 DEF MovedInv, Parsing, Resting, Between
<1>8. CASE ProcessHandlerResult
  <2>1. pc = "drain" /\ pc' \in {"drain", "top", "stopped"} /\ loaded' = loaded /\ moved' = moved
    BY <1>8 DEF ProcessHandlerResult, AddMade, cacheVars, testVars
  <2> QED BY <2>1 DEF MovedInv, Parsing, Resting, Between
<1>4. CASE ProcessResult \/ RoundEnds
  <2>1. /\ pc' \notin Parsing /\ pc' \notin Resting /\ loaded' = loaded
        /\ \/ loaded = <<>>
           \/ moved' = moved /\ pc \notin Between
    BY <1>0, <1>4 DEF ProcessResult, RoundEnds, NoneReady, Parsing, Resting, Between, cacheVars, TypeOK,
                EndTypes
  <2> QED BY <2>1 DEF MovedInv
<1>5. CASE (\E t \in Tasks : Collect(t)) \/ stop \/ Generator \/ UNCHANGED vars
  <2>1. UNCHANGED <<loaded, parsed, parser, pc, moved>>
    BY <1>5 DEF Collect, stop, Generator, cacheVars, mainVars, testVars, vars
  <2> QED BY <2>1 DEF MovedInv, Between, Parsing, Resting
<1>6. CASE Parser
  <2>1. UNCHANGED <<loaded, pc>>
    BY <1>6 DEF Parser, mainVars, cacheVars
  <2>2. CASE moved'
    BY <2>1, <2>2 DEF MovedInv
  <2>3. CASE ~moved'
    <3>1. UNCHANGED <<parsed, moved>> /\ parser' = [parser EXCEPT !.at = parser'.at]
            /\ parser'.at # "handle"
      BY <1>0, <1>6, <2>3 DEF Parser, ParserGet, ParserWakes, ParserHandles, TypeOK
    <3> QED BY <2>1, <3>1 DEF MovedInv, Between, Parsing, Resting
  <2> QED BY <2>2, <2>3
<1>7. CASE Cacher
  <2>1. UNCHANGED <<pc, parsed, parser>> /\ (moved' \/ (loaded' = loaded /\ (moved => moved')))
    <3>1. CASE UNCHANGED <<loads, loaded, moved>>
      BY <1>7, <3>1 DEF Cacher, mainVars
    <3>2. PICK r : r = Head(loads)
      OBVIOUS
    <3>3. CASE /\ r.do = "load" \/ loaded' = loaded
               /\ moved' = (moved \/ r.do = "load")
      BY <1>7, <3>3 DEF Cacher, mainVars
    <3>4. r.do = "load" \/ loaded' = loaded \/ UNCHANGED <<loads, loaded, moved>>
      BY <1>7, <3>2 DEF Cacher
    <3>5. moved' = (moved \/ r.do = "load") \/ UNCHANGED <<loads, loaded, moved>>
      BY <1>7, <3>2, Zenon DEF Cacher
    <3> QED BY <3>1, <3>3, <3>4, <3>5
  <2> QED BY <2>1 DEF MovedInv, Between, Parsing, Resting
<1> QED BY <1>1, <1>2, <1>3, <1>4, <1>5, <1>6, <1>7, <1>8, Zenon DEF Next, Main

(* A positive test that missed a task is counted.                          *)
LEMMA MissedMoved ==
  ASSUME Inv, TestInv, MovedInv, pc = "yes", ~(given \subseteq ended)
  PROVE  moved
<1>0. TypeOK /\ HandInv
  BY DEF Inv
<1>1. PICK t \in Tasks : t \in given /\ t \notin ended
  BY <1>0 DEF TypeOK
<1>2. Held(t) = 1 /\ Counts(t)
  BY <1>0, <1>1, HeldParts, HasType DEF HandInv
<1>3. queue = {} /\ active = {} /\ pending = <<>> /\ network = <<>> /\ results = <<>> /\ loads = <<>>
  BY DEF TestInv, Testing
<1>4. /\ Has(queue, t) = 0 /\ Has(active, t) = 0
      /\ HowMany(pending, {t}) = 0 /\ HowMany(network, {t}) = 0
      /\ HowMany(results, Of(Result, t)) = 0 /\ HowMany(loads, {Load(t)}) = 0
  BY <1>3, CountEmpty DEF Has
<1>5. \/ Has({parser.task}, t) = 1
      \/ HowMany(loaded, Of(Found, t)) # 0 \/ HowMany(parsed, Of(Made, t)) # 0
  BY <1>2, <1>4 DEF Held, Counts
<1>6. CASE Has({parser.task}, t) = 1
  <2>1. parser.task = t
    BY <1>6 DEF Has
  <2>2. parser.at = "handle"
    BY <1>0, <2>1, SpiderConstants DEF TypeOK
  <2> QED BY <2>2 DEF MovedInv, Resting
<1>7. CASE HowMany(loaded, Of(Found, t)) # 0
  <2>1. loaded # <<>>
    BY <1>7, CountEmpty
  <2> QED BY <2>1 DEF MovedInv, Between
<1>8. CASE HowMany(parsed, Of(Made, t)) # 0
  <2>1. parsed # <<>>
    BY <1>8, CountEmpty
  <2> QED BY <2>1 DEF MovedInv, Parsing
<1> QED BY <1>5, <1>6, <1>7, <1>8

(* What a step does to the tasks that are given and ended, if anything:    *)
(* one that is open ends, with those its handler yields; or the generator, *)
(* while it is alive, yields one.  The loop does not stop in such a step.  *)
Same == given' = given /\ ended' = ended

Ends(t, T) ==
  /\ t \in given /\ t \notin ended
  /\ given' = given \cup T /\ ended' = ended \cup {t}

Generated(t) == Alive /\ given' = given \cup {t} /\ ended' = ended

Goes == UNCHANGED <<countdown, fooled, told>> /\ (pc' = "stopped" <=> pc = "stopped")

LEMMA TaskSteps ==
  ASSUME Inv, [Next]_vars
  PROVE  \/ Same
         \/ Goes /\ \E t \in Tasks, T \in SUBSET Tasks : Ends(t, T)
         \/ Goes /\ \E t \in Tasks : Generated(t)
<1> DEFINE Ending == Goes /\ \E t \in Tasks, T \in SUBSET Tasks : Ends(t, T)
<1>0. TypeOK /\ HandInv
  BY DEF Inv
<1>1. CASE TakeTask
  <2>1. given' = given /\ Goes
    BY <1>1 DEF TakeTask, Goes, testVars
  <2>2. ASSUME NEW t \in Tasks, t \in given, t \notin ended, Accept(t) PROVE Same \/ Ending
    <3>1. PICK T \in SUBSET Tasks : T = {}
      OBVIOUS
    <3>2. ended' = ended \/ ended' = ended \cup {t}
      BY <2>2 DEF Accept
    <3>3. given' = given \cup T
      BY <2>1, <3>1
    <3>4. Same \/ Ends(t, T)
      BY <2>1, <2>2, <3>2, <3>3 DEF Same, Ends
    <3> QED BY <2>1, <3>4
  <2>3. ASSUME pending # <<>>, Accept(Head(pending)) PROVE Same \/ Ending
    <3>1. Head(pending) \in ToSet(pending) /\ Head(pending) \in Tasks
      BY <1>0, <2>3, Types, Elements
    <3>2. HowMany(pending, {Head(pending)}) > 0
      BY <1>0, <3>1, Types, ElementCounts
    <3>3. Head(pending) \in given /\ Head(pending) \notin ended
      BY <1>0, <3>1, <3>2, OnlyHand
    <3> QED BY <2>2, <2>3, <3>1, <3>3
  <2>4. ASSUME NEW t \in queue, Accept(t) PROVE Same \/ Ending
    <3>1. t \in Tasks
      BY <1>0 DEF TypeOK
    <3>2. t \in given /\ t \notin ended
      BY <1>0, <3>1, OnlyHand
    <3> QED BY <2>2, <2>4, <3>1, <3>2
  <2>5. Same \/ Ending \/ ~UNCHANGED <<tries, queue, pending, active, loads, ended>>
    BY <2>1 DEF Same
  <2>6. Same \/ Ending
    <3> HIDE DEF Ending
    <3> QED BY <1>1, <2>3, <2>4, <2>5, Zenon DEF TakeTask
  <2> QED BY <2>6
<1>2. CASE \/ LoopEnds \/ QueueSize \/ CheckPause \/ CheckRead \/ CheckEnd \/ CheckResumed
           \/ CollectLoaded \/ ProcessResult \/ RoundEnds \/ ProcessHandlerResult
           \/ stop \/ \E t \in Tasks : Collect(t)
  BY <1>2 DEF LoopEnds, QueueSize, CheckPause, CheckRead, CheckEnd, CheckResumed, Check, CollectLoaded,
              ProcessResult, RoundEnds, ProcessHandlerResult, stop, Collect, Same
<1>3. CASE Parser
  <2>1. Goes
    BY <1>3 DEF Parser, mainVars, Goes
  <2>2. CASE ParserGet \/ ParserWakes
    BY <2>2 DEF ParserGet, ParserWakes, Same
  <2>3. CASE ParserHandles
    <3>p. PICK p : p = parser.task
      OBVIOUS
    <3>1. p \in Tasks
      BY <1>0, <2>3, <3>p DEF ParserHandles, TypeOK
    <3>2. p \in given /\ p \notin ended
      BY <1>0, <3>p, <3>1, OnlyHand
    <3>3. ASSUME NEW T \in SUBSET Children[p], given' = given \cup T, ended' = ended \cup {p}
          PROVE  Ending
      <4>1. T \in SUBSET Tasks
        BY <3>1, SpiderConstants
      <4> QED BY <2>1, <3>1, <3>2, <3>3, <4>1 DEF Ends
    <3>4. Same \/ \E T \in SUBSET Children[p] : given' = given \cup T /\ ended' = ended \cup {p}
      BY <2>3, <3>p, Zenon DEF ParserHandles, Same
    <3> QED BY <3>3, <3>4
  <2> QED BY <1>3, <2>2, <2>3 DEF Parser
<1>4. CASE Generator
  <2>1. Goes /\ ended' = ended /\ Alive
    BY <1>4 DEF Generator, Alive, mainVars, Goes
  <2>2. CASE gen.left # <<>> /\ given' = given \cup {Head(gen.left)}
    <3>1. Head(gen.left) \in Tasks
      <4>1. gen.left \in Seq(Tasks)
        BY <1>0 DEF TypeOK
      <4> QED BY <2>2, <4>1
    <3> QED BY <2>1, <2>2, <3>1 DEF Generated
  <2>3. CASE given' = given
    BY <2>1, <2>3 DEF Same
  <2> QED BY <1>4, <2>2, <2>3, Zenon DEF Generator
<1>5. CASE Cacher \/ UNCHANGED vars
  BY <1>5 DEF Cacher, vars, Same
<1> QED BY <1>1, <1>2, <1>3, <1>4, <1>5, Zenon DEF Next, Main

(* The generator does not begin again.                                     *)
LEMMA Dead ==
  ASSUME Inv, [Next]_vars, ~Alive
  PROVE  ~Alive'
<1>1. gen' = gen \/ \E x : gen' = [gen EXCEPT !.paused = x]
  <2>1. ~Generator
    BY DEF Generator, Alive
  <2>2. CASE Main
    BY <2>2 DEF Main, TakeTask, LoopEnds, QueueSize, CheckPause, CheckRead, CheckEnd, CheckResumed,
                CollectLoaded, ProcessResult, RoundEnds, ProcessHandlerResult, genVars
  <2> QED BY <2>1, <2>2 DEF Next, stop, Collect, Parser, Cacher, genVars, vars
<1> QED BY <1>1 DEF Alive, Inv, TypeOK

(* How the loop stops.                                                     *)
LEMMA HowStopped ==
  ASSUME Inv, TestInv, [Next]_vars, pc # "stopped", pc' = "stopped"
  PROVE  /\ Same
         /\ \/ told' /\ UNCHANGED <<countdown, fooled>>
            \/ CheckEnd /\ pc = "yes" /\ countdown = 1 /\ ~Alive
<1>1. LoopEnds \/ ProcessHandlerResult \/ CheckEnd
  <2>1. pc' = pc \/ Main
    BY DEF Next, Collect, stop, Parser, Generator, Cacher, mainVars, vars
  <2> QED BY <2>1 DEF Main, TakeTask, QueueSize, CheckPause, CheckRead, CheckResumed, Check,
                      CollectLoaded, ProcessResult, RoundEnds
<1>2. CASE LoopEnds
  BY <1>2 DEF LoopEnds, testVars, Same
<1>3. CASE ProcessHandlerResult
  BY <1>3 DEF ProcessHandlerResult, AddMade, testVars, Same
<1>4. CASE CheckEnd
  <2>1. pc = "yes" /\ countdown = 1 /\ Same
    BY <1>4 DEF CheckEnd, Check, Same
  <2> QED BY <1>4, <2>1 DEF TestInv
<1> QED BY <1>1, <1>2, <1>3, <1>4

LEMMA FooledStep ==
  ASSUME Inv, TestInv, MovedInv, FooledInv, [Next]_vars
  PROVE  FooledInv'
<1>0. /\ TypeOK /\ Countdown \in Nat \ {0} /\ countdown \in 0..Countdown /\ fooled \in Nat
      /\ Tests \in Nat
  BY TestsType, SpiderConstants DEF Inv, TypeOK, EndTypes
<1>1. CASE CheckEnd
  <2>1. Same /\ pc # "stopped"
    BY <1>1 DEF CheckEnd, Check, Same
  <2>2. CASE pc = "yes"
    <3>1. /\ countdown' = countdown - 1 /\ (pc' # "stopped" => countdown # 1)
          /\ fooled' = IF moved THEN fooled + 1 ELSE 0
      BY <1>1, <2>2 DEF CheckEnd, Check, CountFooled
    <3>2. ~(given \subseteq ended) => moved
      BY <2>2, MissedMoved
    <3>3. Tests = Countdown - countdown /\ Tests' = Countdown - countdown'
      BY DEF Tests
    <3>4. pc' = "stopped" => ~Alive'
      BY <2>2, Dead DEF TestInv
    <3>5. Tests' = Tests + 1 /\ (countdown' # 0 \/ pc' = "stopped")
      BY <1>0, <2>1, <3>1, <3>3 DEF FooledInv
    <3>6. fooled' <= Tests'
      BY <1>0, <3>1, <3>5 DEF FooledInv
    <3>7. ~(given' \subseteq ended') => fooled' = Tests'
      BY <1>0, <2>1, <3>1, <3>2, <3>5 DEF FooledInv, Same
    <3> QED BY <3>4, <3>5, <3>6, <3>7 DEF FooledInv
  <2>3. CASE pc = "no"
    <3>1. countdown' = Countdown /\ fooled' = 0 /\ pc' # "stopped"
      BY <1>1, <2>3 DEF CheckEnd, Check, CountFooled
    <3>2. Tests' = 0
      BY <1>0, <3>1 DEF Tests
    <3> QED BY <1>0, <3>1, <3>2 DEF FooledInv
  <2> QED BY <1>1, <2>2, <2>3 DEF CheckEnd, Check
<1>2. CASE ~CheckEnd
  <2>1. UNCHANGED <<countdown, fooled>>
    <3>1. CASE Main
      BY <1>2, <3>1 DEF Main, TakeTask, LoopEnds, QueueSize, CheckPause, CheckRead, CheckResumed, Check,
                        CollectLoaded, ProcessResult, RoundEnds, ProcessHandlerResult, testVars
    <3> QED BY <3>1 DEF Next, stop, Collect, Parser, Generator, Cacher, mainVars, testVars, vars
  <2>2. Tests' = Tests
    BY <2>1 DEF Tests
  <2>3. ~(given' \subseteq ended') => fooled' = Tests'
    <3>1. CASE Same
      BY <2>1, <2>2, <3>1 DEF Same, FooledInv
    <3>2. ASSUME NEW t, NEW T, Ends(t, T) PROVE fooled' = Tests'
      BY <2>1, <2>2, <3>2 DEF Ends, FooledInv
    <3>3. ASSUME NEW t, Generated(t) PROVE fooled' = Tests'
      <4>1. Tests = 0
        BY <1>0, <3>3 DEF Generated, TestInv, Tests
      <4> QED BY <1>0, <2>1, <2>2, <4>1 DEF FooledInv
    <3> QED BY <3>1, <3>2, <3>3, TaskSteps
  <2>4. pc' = "stopped" /\ ~told' => ~Alive'
    <3>1. CASE pc = "stopped"
      BY <3>1, StopsOnce, Dead DEF FooledInv
    <3>2. CASE pc # "stopped"
      BY <1>2, <3>2, HowStopped
    <3> QED BY <3>1, <3>2
  <2>5. pc' # "stopped" => countdown' # 0
    BY <2>1, StopsOnce DEF FooledInv
  <2> QED BY <2>1, <2>2, <2>3, <2>4, <2>5 DEF FooledInv
<1> QED BY <1>1, <1>2

LEMMA JobStep ==
  ASSUME Inv, TestInv, MovedInv, FooledInv, FooledInv', [Next]_vars
  PROVE  [Job!Next]_(Job!vars)
<1>0. /\ TypeOK /\ ended \subseteq given /\ Countdown \in Nat \ {0}
      /\ countdown \in 0..Countdown /\ fooled \in Nat
  BY SpiderConstants DEF Inv, TypeOK, EndTypes
<1>1. CASE pc # "stopped" /\ pc' = "stopped"
  <2>1. Same
    BY <1>1, HowStopped
  <2>2. given \subseteq ended \/ told' \/ fooled' = Countdown
    <3>1. CASE told'
      BY <3>1
    <3>2. CASE ~told'
      <4>1. CheckEnd /\ pc = "yes" /\ countdown = 1
        BY <1>1, <3>2, HowStopped
      <4>2. countdown' = 0
        BY <4>1 DEF CheckEnd, Check
      <4>3. Tests' = Countdown
        BY <1>0, <4>2 DEF Tests
      <4> QED BY <2>1, <4>3 DEF FooledInv, Same
    <3> QED BY <3>1, <3>2
  <2>3. Job!Stop
    BY <1>1, <2>1, <2>2, Zenon DEF Job!Stop, Same
  <2> QED BY <2>3, Zenon DEF Job!Next
<1>2. CASE pc = "stopped" \/ pc' # "stopped"
  <2>1. (pc' = "stopped") = (pc = "stopped") /\ (fooled' = Countdown) = (fooled = Countdown)
    <3>1. CASE pc = "stopped"
      BY <3>1, StopsOnce
    <3>2. CASE pc # "stopped"
      <4>1. fooled # Countdown
        BY <1>0, <3>2 DEF FooledInv, Tests
      <4>2. countdown' \in 0..Countdown /\ fooled' \in Nat
        BY InvStep DEF Inv, TypeOK, EndTypes
      <4>3. fooled' <= Countdown - countdown' /\ countdown' # 0
        BY <1>2, <3>2 DEF FooledInv, Tests
      <4>4. Countdown \in Nat /\ countdown' \in Nat /\ fooled' \in Nat
        BY <1>0, <4>2
      <4>5. fooled' # Countdown
        <5>1. \A a, b, c \in Nat : a <= c - b /\ b # 0 => a # c
          OBVIOUS
        <5> QED BY <4>3, <4>4, <5>1, Zenon
      <4> QED BY <1>2, <3>2, <4>1, <4>5
    <3> QED BY <3>1, <3>2
  <2>2. CASE Same /\ told' = told
    BY <2>1, <2>2, Zenon DEF Same, Job!vars
  <2>3. CASE Same /\ told' # told
    <3>1. pc # "stopped" /\ told'
      <4>1. stop \/ ProcessHandlerResult
        BY <2>3 DEF Next, Main, TakeTask, LoopEnds, QueueSize, CheckPause, CheckRead, CheckEnd,
                    CheckResumed, Check, Collect, CollectLoaded, ProcessResult, RoundEnds, Parser,
                    Generator, Cacher, mainVars, vars
      <4> QED BY <2>3, <4>1 DEF stop, ProcessHandlerResult, AddMade
    <3>2. Job!Tell
      BY <2>1, <2>3, <3>1, Zenon DEF Job!Tell, Same
    <3> QED BY <3>2, Zenon DEF Job!Next
  <2>4. ASSUME NEW t \in Tasks, NEW T \in SUBSET Tasks, Ends(t, T), Goes PROVE Job!Next
    <3>1. t \in given \ ended
      BY <2>4 DEF Ends
    <3>2. given' \ ended' = ((given \ ended) \cup (T \ given)) \ {t}
      BY <1>0, <2>4 DEF Ends
    <3>3. Job!End(t, T)
      BY <2>1, <2>4, <3>1, <3>2, Zenon DEF Job!End, Ends, Goes
    <3> QED BY <3>1, <3>3, Zenon DEF Job!Next
  <2>5. ASSUME NEW t \in Tasks, Generated(t), Goes PROVE Job!Next
    <3>1. pc = "stopped" => told
      BY <2>5 DEF FooledInv, Generated
    <3>2. given' \ ended' = (given \ ended) \cup ({t} \ given)
      BY <1>0, <2>5 DEF Generated
    <3>3. Job!Give({t})
      BY <2>1, <2>5, <3>1, <3>2, Zenon DEF Job!Give, Generated, Goes
    <3>4. {t} \in SUBSET Tasks
      OBVIOUS
    <3> QED BY <3>3, <3>4, Zenon DEF Job!Next
  <2> QED BY <2>2, <2>3, <2>4, <2>5, TaskSteps
<1> QED BY <1>1, <1>2

LEMMA JobInit == Init => TestInv /\ MovedInv /\ FooledInv /\ Job!Init
<1> SUFFICES ASSUME Init PROVE TestInv /\ MovedInv /\ FooledInv /\ Job!Init
  OBVIOUS
<1>1. TestInv
  BY DEF Init, TestInv, Testing
<1>2. MovedInv
  BY DEF Init, MovedInv, Parsing, Resting
<1>3. FooledInv
  BY SpiderConstants DEF Init, FooledInv, Tests
<1>4. Job!Init
  BY SpiderConstants DEF Init, Job!Init
<1> QED BY <1>1, <1>2, <1>3, <1>4

(* The spider does what SpiderJob promises, whatever the limits and the    *)
(* countdown: if it was not told to stop, it stops with a task open only   *)
(* when tasks moved in the rounds of all the last Countdown tests.         *)
THEOREM JobCorrect == Spec => ImplementsJob
<1> DEFINE I == Inv /\ TestInv /\ MovedInv /\ FooledInv
<1>1. Init => I /\ Job!Init
  BY InvInit, JobInit
<1>2. I /\ [Next]_vars => I'
  BY InvStep, TestStep, MovedStep, FooledStep
<1>3. I /\ [Next]_vars => [Job!Next]_(Job!vars)
  BY FooledStep, JobStep
<1> QED BY <1>1, <1>2, <1>3, PTL DEF Spec, ImplementsJob, Job!Spec
=============================================================================
