------------------------ MODULE ServiceRegistry_proofs ------------------------
(***************************************************************************)
(* Proofs about ServiceRegistry, for any services, handlers and calls: a   *)
(* waiting call has its one listener and is answered once, and the         *)
(* registry is the remote call that ServiceCall specifies.                 *)
(***************************************************************************)
EXTENDS ServiceRegistry, SequenceTheorems, FiniteSetTheorems,
        WellFoundedInduction, TLAPS

-----------------------------------------------------------------------------
(* Taking job i out, as the loop and the executor do when they run it,     *)
(* leaves every other job, in the order they had.                          *)
LEMMA RemoveAtProperties ==
  ASSUME NEW S, NEW s \in Seq(S), NEW i \in 1..Len(s)
  PROVE  /\ RemoveAt(s, i) \in Seq(S)
         /\ Len(RemoveAt(s, i)) = Len(s) - 1
         /\ \A k \in 1..(Len(s) - 1) :
              RemoveAt(s, i)[k] = IF k < i THEN s[k] ELSE s[k + 1]
<1> DEFINE a == SubSeq(s, 1, i - 1)
           b == SubSeq(s, i + 1, Len(s))
<1>1. /\ a \in Seq(S)
      /\ Len(a) = i - 1
      /\ \A k \in 1..(i - 1) : a[k] = s[k]
  OBVIOUS
<1>2. /\ b \in Seq(S)
      /\ Len(b) = Len(s) - i
      /\ \A k \in 1..(Len(s) - i) : b[k] = s[i + k]
  OBVIOUS
<1>3. RemoveAt(s, i) = a \o b
  BY DEF RemoveAt
<1> HIDE DEF a, b
<1>4. /\ a \o b \in Seq(S)
      /\ Len(a \o b) = Len(a) + Len(b)
      /\ \A k \in 1..(Len(a) + Len(b)) :
           (a \o b)[k] = IF k <= Len(a) THEN a[k] ELSE b[k - Len(a)]
  BY <1>1, <1>2, ConcatProperties, Zenon
<1>5. ASSUME NEW k \in 1..(Len(s) - 1)
      PROVE  (a \o b)[k] = IF k < i THEN s[k] ELSE s[k + 1]
  <2>1. (a \o b)[k] = IF k <= i - 1 THEN a[k] ELSE b[k - (i - 1)]
    BY <1>1, <1>2, <1>4, SMTT(30)
  <2>2. CASE k < i
    BY <1>1, <2>1, <2>2
  <2>3. CASE ~(k < i)
    BY <1>2, <2>1, <2>3, SMTT(30)
  <2> QED BY <2>2, <2>3
<1> QED BY <1>1, <1>2, <1>3, <1>4, <1>5

(* A nonempty set of naturals has a least element.                         *)
LEMMA LeastElement ==
  ASSUME NEW T \in SUBSET Nat, T # {}
  PROVE  Min(T) \in T
<1>1. IsWellFoundedOn(OpToRel(<, Nat), Nat)
  BY NatLessThanWellFounded
<1> DEFINE R == {ss \in Nat \X Nat : ss[1] < ss[2]}
<1>2. OpToRel(<, Nat) = R
  BY Zenon DEF OpToRel
<1>3. \E x \in T : \A y \in T : ~(<<y, x>> \in R)
  BY <1>1, <1>2, WFMin, ZenonT(60)
<1>4. \E x \in T : \A y \in T : x <= y
  <2>1. PICK x \in T : \A y \in T : ~(<<y, x>> \in R)
    BY <1>3
  <2>2. ASSUME NEW y \in T PROVE x <= y
    <3>1. <<y, x>> \in R <=> y < x
      OBVIOUS
    <3> QED BY <2>1, <3>1
  <2> QED BY <2>2
<1> QED BY <1>4 DEF Min

-----------------------------------------------------------------------------
(* Sequences of jobs.                                                      *)

(* What carries a call: there is at most one of these for each at a time.  *)
Token(j) ==
  \/ j.stage \in {"dispatch", "handler", "fire"}
  \/ j.stage = "executed" /\ j.x = j.call

Unique(s) ==
  \A m, n \in 1..Len(s) : Token(s[m]) /\ Token(s[n]) /\ s[m].call = s[n].call => m = n

NoToken(s, c) == \A n \in 1..Len(s) : Token(s[n]) => s[n].call # c

(* The job taken out was the only one to carry its call.                   *)
LEMMA WithoutUnique ==
  ASSUME NEW s \in Seq(Jobs), NEW i \in 1..Len(s), Unique(s)
  PROVE  /\ Without(s, i) \in Seq(Jobs)
         /\ Unique(Without(s, i))
         /\ Token(s[i]) => NoToken(Without(s, i), s[i].call)
         /\ \A n \in 1..Len(Without(s, i)) :
              \E m \in 1..Len(s) : m # i /\ Without(s, i)[n] = s[m]
<1> DEFINE w == Without(s, i)
<1>1. /\ w \in Seq(Jobs) /\ Len(w) = Len(s) - 1
      /\ \A k \in 1..(Len(s) - 1) : w[k] = IF k < i THEN s[k] ELSE s[k + 1]
  BY RemoveAtProperties DEF Without
<1> HIDE DEF w
<1>2. Len(s) \in Nat
  OBVIOUS
<1>3. ASSUME NEW n \in 1..Len(w)
      PROVE  (IF n < i THEN n ELSE n + 1) \in (1..Len(s)) \ {i}
             /\ w[n] = s[IF n < i THEN n ELSE n + 1]
  BY <1>1, <1>2
<1>4. Unique(w)
  <2>1. SUFFICES ASSUME NEW m \in 1..Len(w), NEW n \in 1..Len(w),
                        Token(w[m]), Token(w[n]), w[m].call = w[n].call
                 PROVE  m = n
    BY DEF Unique
  <2>2. (IF m < i THEN m ELSE m + 1) = (IF n < i THEN n ELSE n + 1)
    BY <1>3, <2>1 DEF Unique
  <2> QED BY <1>1, <1>2, <2>2
<1>5. Token(s[i]) => NoToken(w, s[i].call)
  BY <1>3 DEF Unique, NoToken
<1>6. \A n \in 1..Len(w) : \E m \in 1..Len(s) : m # i /\ w[n] = s[m]
  <2>1. SUFFICES ASSUME NEW n \in 1..Len(w)
                 PROVE  \E m \in 1..Len(s) : m # i /\ w[n] = s[m]
    OBVIOUS
  <2> QED BY <1>3
<1> QED BY <1>1, <1>4, <1>5, <1>6 DEF w

(* Jobs put behind, for calls that nothing carries yet.                    *)
LEMMA BehindUnique ==
  ASSUME NEW s \in Seq(Jobs), NEW t \in Seq(Jobs), Unique(s), Unique(t),
         \A n \in 1..Len(t) : Token(t[n]) => NoToken(s, t[n].call)
  PROVE  /\ s \o t \in Seq(Jobs)
         /\ Unique(s \o t)
         /\ \A k \in 1..Len(s \o t) : \/ \E m \in 1..Len(s) : (s \o t)[k] = s[m]
                                      \/ \E n \in 1..Len(t) : (s \o t)[k] = t[n]
<1> DEFINE u == s \o t
<1>1. /\ u \in Seq(Jobs) /\ Len(u) = Len(s) + Len(t)
      /\ \A k \in 1..(Len(s) + Len(t)) :
           u[k] = IF k <= Len(s) THEN s[k] ELSE t[k - Len(s)]
  BY ConcatProperties, Zenon
<1>2. Len(s) \in Nat /\ Len(t) \in Nat
  OBVIOUS
<1> HIDE DEF u
<1>3. ASSUME NEW k \in 1..Len(u)
      PROVE  \/ k \in 1..Len(s) /\ u[k] = s[k]
             \/ k - Len(s) \in 1..Len(t) /\ u[k] = t[k - Len(s)]
  BY <1>1, <1>2
<1>4. Unique(u)
  <2>1. SUFFICES ASSUME NEW m \in 1..Len(u), NEW n \in 1..Len(u),
                        Token(u[m]), Token(u[n]), u[m].call = u[n].call
                 PROVE  m = n
    BY DEF Unique
  <2>2. CASE m \in 1..Len(s) /\ u[m] = s[m] /\ n \in 1..Len(s) /\ u[n] = s[n]
    BY <2>1, <2>2 DEF Unique
  <2>3. CASE /\ m - Len(s) \in 1..Len(t) /\ u[m] = t[m - Len(s)]
             /\ n - Len(s) \in 1..Len(t) /\ u[n] = t[n - Len(s)]
    <3>1. m - Len(s) = n - Len(s)
      BY <2>1, <2>3 DEF Unique
    <3> QED BY <1>1, <1>2, <3>1
  <2>4. CASE /\ m \in 1..Len(s) /\ u[m] = s[m]
             /\ n - Len(s) \in 1..Len(t) /\ u[n] = t[n - Len(s)]
    BY <2>1, <2>4 DEF NoToken
  <2>5. CASE /\ n \in 1..Len(s) /\ u[n] = s[n]
             /\ m - Len(s) \in 1..Len(t) /\ u[m] = t[m - Len(s)]
    BY <2>1, <2>5 DEF NoToken
  <2> QED BY <1>3, <2>2, <2>3, <2>4, <2>5
<1> QED BY <1>1, <1>3, <1>4 DEF u

LEMMA OneJob ==
  ASSUME NEW j \in Jobs
  PROVE  /\ <<j>> \in Seq(Jobs) /\ Unique(<<j>>) /\ \A n \in 1..Len(<<j>>) : <<j>>[n] = j
         /\ \A s \in Seq(Jobs) : Append(s, j) = s \o <<j>>
<1>1. <<j>> \in Seq(Jobs) /\ Len(<<j>>) = 1 /\ <<j>>[1] = j
  OBVIOUS
<1>2. Unique(<<j>>)
  BY <1>1 DEF Unique
<1> QED BY <1>1, <1>2

(* Removing a call's only listener.                                        *)
LEMMA RemoveFirstIs ==
  ASSUME NEW S, NEW s \in Seq(S), NEW i \in 1..Len(s)
  PROVE  \E m \in 1..Len(s) : s[m] = s[i] /\ RemoveFirst(s, s[i]) = Without(s, m)
<1> DEFINE e == s[i]
           I == {k \in 1..Len(s) : s[k] = e}
<1>1. I # {} /\ I \in SUBSET Nat
  OBVIOUS
<1>2. Min(I) \in I
  BY <1>1, LeastElement
<1>3. SelectInSeq(s, LAMBDA v : v = e) = Min(I)
  BY <1>1 DEF SelectInSeq
<1>4. RemoveFirst(s, e) = Without(s, Min(I))
  BY <1>1, <1>3 DEF RemoveFirst, Without
<1> QED BY <1>2, <1>4

-----------------------------------------------------------------------------
(* The inductive invariant.                                                *)

(* What is known of a call while a job carries it, or reports it.          *)
Good(j, who, resolved, told, runs) ==
  /\ Token(j) => who[j.call] # "new" /\ j.call \notin resolved
  /\ j.stage \in {"dispatch", "handler"} => j.call \notin told
  /\ j.stage \in {"fire", "executed"} => j.call \in told
  /\ j.stage = "dispatch" => runs[j.call] = 0

GoodNow(j) == Good(j, caller, fut, answered, begun)
GoodNext(j) == Good(j, caller', fut', answered', begun')

JobsInv == Unique(jobs) /\ \A n \in 1..Len(jobs) : GoodNow(jobs[n])

Listens(c) == caller[c] \in {"waiting", "leaving", "cancelled"}

WaitersInv ==
  /\ \A m, n \in 1..Len(waiters) : waiters[m] = waiters[n] => m = n
  /\ \A c \in Calls : Listens(c) <=> \E n \in 1..Len(waiters) : waiters[n] = c

CallInv ==
  /\ fut \subseteq answered
  /\ \A c \in Calls : caller[c] = "new" => begun[c] = 0 /\ c \notin answered

(* A step on behalf of call c leaves the others as they are.               *)
Concerns(c) ==
  /\ \A d \in Calls : caller'[d] = "new" => caller[d] = "new"
  /\ \A d \in Calls : d # c => /\ d \in fut' <=> d \in fut
                               /\ d \in answered' <=> d \in answered
                               /\ begun'[d] = begun[d]
  /\ answered \subseteq answered'

LEMMA StaysGood ==
  ASSUME NEW j \in Jobs, GoodNow(j), NEW c, Concerns(c),
         (Token(j) => j.call # c) \/ UNCHANGED <<fut, answered, begun>>
  PROVE  GoodNext(j)
<1>1. j.call \in Calls
  BY DEF Jobs
<1> QED BY <1>1 DEF GoodNow, GoodNext, Good, Concerns, Token

(* The jobs after one has run and put others behind.                       *)
LEMMA RunStep ==
  ASSUME JobsInv, jobs \in Seq(Jobs), NEW i \in 1..Len(jobs), NEW c, c = jobs[i].call,
         Concerns(c), Token(jobs[i]) \/ UNCHANGED <<fut, answered, begun>>,
         NEW t \in Seq(Jobs), Unique(t), jobs' = Without(jobs, i) \o t,
         \A n \in 1..Len(t) : /\ GoodNext(t[n])
                              /\ Token(t[n]) => Token(jobs[i]) /\ t[n].call = c
  PROVE  JobsInv' /\ jobs' \in Seq(Jobs)
<1> DEFINE w == Without(jobs, i)
<1>1. /\ w \in Seq(Jobs) /\ Unique(w)
      /\ Token(jobs[i]) => NoToken(w, c)
      /\ \A n \in 1..Len(w) : \E m \in 1..Len(jobs) : m # i /\ w[n] = jobs[m]
  BY WithoutUnique DEF JobsInv
<1>2. ASSUME NEW n \in 1..Len(w) PROVE GoodNext(w[n])
  <2>1. PICK m \in 1..Len(jobs) : w[n] = jobs[m]
    BY <1>1
  <2>2. jobs[m] \in Jobs /\ GoodNow(jobs[m])
    BY DEF JobsInv
  <2>3. (Token(w[n]) => w[n].call # c) \/ UNCHANGED <<fut, answered, begun>>
    BY <1>1 DEF NoToken
  <2> HIDE DEF w
  <2>4. w[n] \in Jobs /\ GoodNow(w[n])
    BY <2>1, <2>2
  <2> QED BY <2>3, <2>4, StaysGood
<1>3. \A n \in 1..Len(t) : Token(t[n]) => NoToken(w, t[n].call)
  BY <1>1
<1> HIDE DEF w
<1>4. /\ w \o t \in Seq(Jobs) /\ Unique(w \o t)
      /\ \A k \in 1..Len(w \o t) : \/ \E m \in 1..Len(w) : (w \o t)[k] = w[m]
                                   \/ \E n \in 1..Len(t) : (w \o t)[k] = t[n]
  BY <1>1, <1>3, BehindUnique, Zenon
<1>5. jobs' = w \o t
  BY DEF w
<1>6. \A k \in 1..Len(jobs') : GoodNext(jobs'[k])
  BY <1>2, <1>4, <1>5
<1> QED BY <1>4, <1>5, <1>6 DEF JobsInv, GoodNow, GoodNext, Unique

(* The jobs after something was put behind that carries no call, or one    *)
(* that is new.                                                            *)
LEMMA PutStep ==
  ASSUME JobsInv, jobs \in Seq(Jobs), NEW c \in Calls, Concerns(c),
         UNCHANGED <<fut, answered, begun>>,
         NEW t \in Seq(Jobs), Unique(t), jobs' = jobs \o t,
         \A n \in 1..Len(t) : /\ GoodNext(t[n])
                              /\ Token(t[n]) => caller[c] = "new" /\ t[n].call = c
  PROVE  JobsInv' /\ jobs' \in Seq(Jobs)
<1>1. \A n \in 1..Len(jobs) : jobs[n] \in Jobs /\ GoodNow(jobs[n])
  BY DEF JobsInv
<1>2. \A n \in 1..Len(jobs) : GoodNext(jobs[n])
  BY <1>1, StaysGood
<1>3. ASSUME NEW n \in 1..Len(t), Token(t[n]) PROVE NoToken(jobs, t[n].call)
  BY <1>1, <1>3 DEF NoToken, GoodNow, Good
<1>4. /\ jobs \o t \in Seq(Jobs) /\ Unique(jobs \o t)
      /\ \A k \in 1..Len(jobs \o t) : \/ \E m \in 1..Len(jobs) : (jobs \o t)[k] = jobs[m]
                                      \/ \E n \in 1..Len(t) : (jobs \o t)[k] = t[n]
  BY <1>3, BehindUnique, Zenon DEF JobsInv
<1>5. \A k \in 1..Len(jobs') : GoodNext(jobs'[k])
  BY <1>2, <1>4
<1> QED BY <1>4, <1>5 DEF JobsInv, GoodNow, GoodNext, Unique

-----------------------------------------------------------------------------
(* What the steps put behind.                                              *)

LEMMA NoJob ==
  \E t \in Seq(Jobs) : Unique(t) /\ 1..Len(t) = {} /\ \A s \in Seq(Jobs) : s \o t = s
<1>1. <<>> \in Seq(Jobs) /\ 1..Len(<<>>) = {} /\ \A s \in Seq(Jobs) : s \o <<>> = s
  OBVIOUS
<1>2. Unique(<<>>)
  BY <1>1 DEF Unique
<1> QED BY <1>1, <1>2, Zenon

(* A job that runs and puts nothing behind, and one that puts one behind.  *)
LEMMA RunAlone ==
  ASSUME JobsInv, jobs \in Seq(Jobs), NEW i \in 1..Len(jobs), NEW c, c = jobs[i].call,
         Concerns(c), Token(jobs[i]) \/ UNCHANGED <<fut, answered, begun>>,
         jobs' = Without(jobs, i)
  PROVE  JobsInv' /\ jobs' \in Seq(Jobs)
<1>1. PICK t \in Seq(Jobs) : Unique(t) /\ 1..Len(t) = {} /\ \A s \in Seq(Jobs) : s \o t = s
  BY NoJob, Zenon
<1>2. Without(jobs, i) \in Seq(Jobs)
  BY RemoveAtProperties DEF Without
<1>3. jobs' = Without(jobs, i) \o t
  BY <1>1, <1>2, Zenon
<1>4. \A n \in 1..Len(t) : /\ GoodNext(t[n])
                           /\ Token(t[n]) => Token(jobs[i]) /\ t[n].call = c
  BY <1>1, Zenon
<1> QED BY <1>1, <1>3, <1>4, RunStep, Zenon

LEMMA RunAndPut ==
  ASSUME JobsInv, jobs \in Seq(Jobs), NEW i \in 1..Len(jobs), NEW c, c = jobs[i].call,
         Concerns(c), Token(jobs[i]) \/ UNCHANGED <<fut, answered, begun>>,
         NEW j \in Jobs, jobs' = Append(Without(jobs, i), j),
         GoodNext(j), Token(j) => Token(jobs[i]) /\ j.call = c
  PROVE  JobsInv' /\ jobs' \in Seq(Jobs)
<1> DEFINE t == <<j>>
<1>1. /\ t \in Seq(Jobs) /\ Unique(t) /\ \A n \in 1..Len(t) : t[n] = j
      /\ \A s \in Seq(Jobs) : Append(s, j) = s \o t
  BY OneJob, Zenon
<1> HIDE DEF t
<1>2. Without(jobs, i) \in Seq(Jobs)
  BY RemoveAtProperties DEF Without
<1>3. jobs' = Without(jobs, i) \o t
  BY <1>1, <1>2, Zenon
<1>4. \A n \in 1..Len(t) : /\ GoodNext(t[n])
                           /\ Token(t[n]) => Token(jobs[i]) /\ t[n].call = c
  BY <1>1, Zenon
<1> QED BY <1>1, <1>3, <1>4, RunStep, Zenon

LEMMA FunctionIsSeq ==
  ASSUME NEW S, NEW n \in Nat, NEW f \in [1..n -> S]
  PROVE  f \in Seq(S) /\ Len(f) = n
OBVIOUS

(* The answer to a call is heard by every waiter, and is of use to one.    *)
LEMMA AnswersAre ==
  ASSUME TypeOK, WaitersInv, NEW c \in Calls
  PROVE  /\ Answers(c) \in Seq(Jobs) /\ Unique(Answers(c))
         /\ \A n \in 1..Len(Answers(c)) : /\ Answers(c)[n].stage = "executed"
                                          /\ Answers(c)[n].call = c
<1>1. waiters \in Seq(Calls) /\ Len(waiters) \in Nat
  BY DEF TypeOK
<1>2. \A k \in 1..Len(waiters) : Job("executed", c, waiters[k], TRUE) \in Jobs
  BY <1>1 DEF Job, Jobs
<1>3. /\ Answers(c) \in Seq(Jobs) /\ Len(Answers(c)) = Len(waiters)
      /\ \A n \in 1..Len(waiters) : Answers(c)[n] = Job("executed", c, waiters[n], TRUE)
  <2> DEFINE f == [k \in 1..Len(waiters) |-> Job("executed", c, waiters[k], TRUE)]
  <2>1. f \in [1..Len(waiters) -> Jobs]
    BY <1>2, Zenon
  <2>2. \A n \in 1..Len(waiters) : f[n] = Job("executed", c, waiters[n], TRUE)
    BY Zenon
  <2>3. Answers(c) = f
    BY Zenon DEF Answers
  <2> HIDE DEF f
  <2>4. f \in Seq(Jobs) /\ Len(f) = Len(waiters)
    BY <1>1, <2>1, FunctionIsSeq, Zenon
  <2> QED BY <2>2, <2>3, <2>4, Zenon
<1>4. \A n \in 1..Len(waiters) : /\ Answers(c)[n].stage = "executed"
                                 /\ Answers(c)[n].call = c /\ Answers(c)[n].x = waiters[n]
  <2>1. SUFFICES ASSUME NEW n \in 1..Len(waiters)
                 PROVE  /\ Answers(c)[n].stage = "executed"
                        /\ Answers(c)[n].call = c /\ Answers(c)[n].x = waiters[n]
    OBVIOUS
  <2>2. Answers(c)[n] = [stage |-> "executed", call |-> c, x |-> waiters[n], loop |-> TRUE]
    BY <1>3, Zenon DEF Job
  <2> QED BY <2>2
<1>5. Unique(Answers(c))
  BY <1>3, <1>4 DEF Unique, Token, WaitersInv
<1> QED BY <1>3, <1>4, <1>5

LEMMA FiredAre ==
  ASSUME TypeOK, WaitersInv, NEW c \in Calls, NEW h \in Handlers \cup Calls \cup {NoHandler}
  PROVE  /\ FireExecuted(c, h) \in Seq(Jobs) /\ Unique(FireExecuted(c, h))
         /\ \A n \in 1..Len(FireExecuted(c, h)) :
              /\ FireExecuted(c, h)[n].stage \in {"fire", "executed"}
              /\ FireExecuted(c, h)[n].call = c
<1>1. Job("fire", c, h, TRUE) \in Jobs
  BY DEF Job, Jobs
<1>2. CASE InLoop(h)
  BY <1>2, AnswersAre DEF FireExecuted
<1>3. CASE ~InLoop(h)
  <2>1. FireExecuted(c, h) = <<Job("fire", c, h, TRUE)>>
    BY <1>3 DEF FireExecuted
  <2>2. /\ FireExecuted(c, h) \in Seq(Jobs) /\ Unique(FireExecuted(c, h))
        /\ \A n \in 1..Len(FireExecuted(c, h)) : FireExecuted(c, h)[n] = Job("fire", c, h, TRUE)
    BY <1>1, <2>1, OneJob, Zenon
  <2>3. Job("fire", c, h, TRUE).stage = "fire" /\ Job("fire", c, h, TRUE).call = c
    BY DEF Job
  <2> QED BY <2>2, <2>3, Zenon
<1> QED BY <1>2, <1>3

-----------------------------------------------------------------------------
(* The steps, one by one.                                                  *)

IInv == TypeOK /\ JobsInv /\ WaitersInv /\ CallInv

LEMMA RegisterStep ==
  ASSUME IInv, NEW n \in Names,
         async_remove(n) \/ \E h \in Handlers : async_register(n, h)
  PROVE  IInv'
<1>1. /\ UNCHANGED <<waiters, caller, fut, result, jobs, begun, answered, executed>>
      /\ services' \in [Names -> Handlers \cup {NoHandler}]
      /\ subs' \in {0, 1} /\ changes' \in 0..MaxChanges
  <2>1. TypeOK /\ MaxChanges \in Nat
    BY RegistryConstants DEF IInv
  <2>2. CASE async_remove(n)
    BY <2>1, <2>2 DEF TypeOK, async_remove
  <2>3. ASSUME NEW h \in Handlers, async_register(n, h)
        PROVE  /\ UNCHANGED <<waiters, caller, fut, result, jobs, begun, answered, executed>>
               /\ services' \in [Names -> Handlers \cup {NoHandler}]
               /\ subs' \in {0, 1} /\ changes' \in 0..MaxChanges
    BY <2>1, <2>3 DEF TypeOK, async_register
  <2> QED BY <2>2, <2>3
<1> QED BY <1>1 DEF IInv, TypeOK, JobsInv, GoodNow, Unique, WaitersInv, Listens, CallInv

LEMMA CallStep ==
  ASSUME IInv, NEW c \in Calls, NEW blocking \in BOOLEAN, async_call(c, blocking)
  PROVE  IInv'
<1> DEFINE j == Job("dispatch", c, NoHandler, TRUE)
           t == [k \in 1..subs |-> j]
<1>1. /\ caller[c] = "new" /\ caller' = [caller EXCEPT ![c] = caller'[c]]
      /\ caller'[c] \in {"waiting", "returned"}
      /\ \/ caller'[c] = "waiting" /\ waiters' = Append(waiters, c)
         \/ caller'[c] = "returned" /\ waiters' = waiters
      /\ jobs' = jobs \o t
      /\ UNCHANGED <<services, subs, fut, result, begun, answered, executed, changes>>
  <2>1. caller \in [Calls -> {"new", "waiting", "leaving", "returned", "cancelled"}]
    BY DEF IInv, TypeOK
  <2>2. /\ caller[c] = "new"
        /\ caller' = [caller EXCEPT ![c] = IF blocking THEN "waiting" ELSE "returned"]
        /\ waiters' = IF blocking THEN Append(waiters, c) ELSE waiters
        /\ jobs' = jobs \o t
        /\ UNCHANGED <<services, subs, fut, result, begun, answered, executed, changes>>
    BY Zenon DEF async_call
  <2>3. caller'[c] = IF blocking THEN "waiting" ELSE "returned"
    BY <2>1, <2>2
  <2> HIDE DEF t
  <2>4. /\ caller'[c] \in {"waiting", "returned"}
        /\ \/ caller'[c] = "waiting" /\ waiters' = Append(waiters, c)
           \/ caller'[c] = "returned" /\ waiters' = waiters
    <3>1. CASE blocking
      <4>1. caller'[c] = "waiting" /\ waiters' = Append(waiters, c)
        BY <2>2, <2>3, <3>1, Zenon
      <4> QED BY <4>1
    <3>2. CASE ~blocking
      <4>1. caller'[c] = "returned" /\ waiters' = waiters
        BY <2>2, <2>3, <3>2, Zenon
      <4> QED BY <4>1, Zenon
    <3> QED BY <3>1, <3>2
  <2>5. caller' = [caller EXCEPT ![c] = caller'[c]]
    BY <2>2, <2>3, Zenon
  <2> QED BY <2>2, <2>4, <2>5, Zenon
<1>2. c \notin answered /\ c \notin fut /\ begun[c] = 0
  BY <1>1 DEF IInv, CallInv
<1>3. j \in Jobs /\ j.stage = "dispatch" /\ j.call = c
  BY DEF Job, Jobs
<1>4. subs \in {0, 1}
  BY DEF IInv, TypeOK
<1> HIDE DEF j
<1>5. t \in Seq(Jobs) /\ Len(t) = subs /\ \A n \in 1..Len(t) : t[n] = j
  BY <1>3, <1>4
<1>6. Unique(t)
  BY <1>4, <1>5 DEF Unique
<1>7. Concerns(c)
  BY <1>1 DEF Concerns, IInv, TypeOK
<1>8. GoodNext(j)
  BY <1>1, <1>2, <1>3 DEF GoodNext, Good
<1> HIDE DEF t
<1>9. JobsInv' /\ jobs' \in Seq(Jobs)
  <2>1. \A n \in 1..Len(t) : /\ GoodNext(t[n])
                             /\ Token(t[n]) => caller[c] = "new" /\ t[n].call = c
    BY <1>1, <1>3, <1>5, <1>8, Zenon
  <2>2. UNCHANGED <<fut, answered, begun>> /\ jobs' = jobs \o t
    BY <1>1
  <2>3. jobs \in Seq(Jobs) /\ JobsInv
    BY DEF IInv, TypeOK
  <2> QED BY <1>5, <1>6, <1>7, <2>1, <2>2, <2>3, PutStep, Zenon
<1>10. WaitersInv'
  <2>1. waiters \in Seq(Calls)
    BY DEF IInv, TypeOK
  <2>2. \A n \in 1..Len(waiters) : waiters[n] # c
    BY <1>1 DEF IInv, WaitersInv, Listens
  <2>3. CASE caller'[c] = "returned" /\ waiters' = waiters
    BY <1>1, <2>2, <2>3 DEF IInv, TypeOK, WaitersInv, Listens
  <2>4. CASE caller'[c] = "waiting" /\ waiters' = Append(waiters, c)
    <3>1. /\ Len(waiters') = Len(waiters) + 1 /\ waiters'[Len(waiters) + 1] = c
          /\ Len(waiters) \in Nat
          /\ \A n \in 1..Len(waiters) : waiters'[n] = waiters[n]
      BY <2>1, <2>4
    <3>2. \A m, n \in 1..Len(waiters') : waiters'[m] = waiters'[n] => m = n
      BY <2>2, <3>1 DEF IInv, WaitersInv
    <3>3. \A d \in Calls : (\E n \in 1..Len(waiters') : waiters'[n] = d) <=>
                             d = c \/ \E n \in 1..Len(waiters) : waiters[n] = d
      BY <3>1
    <3>4. \A d \in Calls : Listens(d)' <=> d = c \/ Listens(d)
      BY <1>1, <2>4 DEF Listens, IInv, TypeOK
    <3> QED BY <3>2, <3>3, <3>4 DEF IInv, WaitersInv
  <2> QED BY <1>1, <2>3, <2>4
<1>11. CallInv'
  BY <1>1 DEF IInv, TypeOK, CallInv
<1>12. TypeOK'
  <2>1. waiters' \in Seq(Calls)
    <3>1. waiters \in Seq(Calls)
      BY DEF IInv, TypeOK
    <3>2. waiters' = waiters \/ waiters' = Append(waiters, c)
      BY <1>1, Zenon
    <3> QED BY <3>1, <3>2
  <2>2. caller' \in [Calls -> {"new", "waiting", "leaving", "returned", "cancelled"}]
    <3>1. caller \in [Calls -> {"new", "waiting", "leaving", "returned", "cancelled"}]
      BY DEF IInv, TypeOK
    <3>2. PICK v \in {"waiting", "returned"} : caller' = [caller EXCEPT ![c] = v]
      BY <1>1, Zenon
    <3> QED BY <3>1, <3>2
  <2> QED BY <1>1, <1>9, <2>1, <2>2 DEF IInv, TypeOK
<1> QED BY <1>9, <1>10, <1>11, <1>12 DEF IInv

(* The caller's state changes, and a "resume" may be put behind: what it   *)
(* waits for remains.                                                      *)
LEMMA CallerStep ==
  ASSUME IInv, NEW c \in Calls, CallTimeout(c) \/ Cancel(c)
  PROVE  IInv'
<1> DEFINE j == Job("resume", c, NoHandler, TRUE)
<1>1. /\ Listens(c) /\ caller' = [caller EXCEPT ![c] = caller'[c]]
      /\ caller'[c] \in {"leaving", "cancelled"}
      /\ jobs' = Append(jobs, j) \/ jobs' = jobs
      /\ UNCHANGED <<services, subs, waiters, fut, result, begun, answered, executed, changes>>
  BY DEF CallTimeout, Cancel, IInv, TypeOK, Listens
<1>2. j \in Jobs /\ j.stage = "resume"
  BY DEF Job, Jobs
<1> HIDE DEF j
<1>3. ~Token(j) /\ GoodNext(j)
  BY <1>2 DEF Token, GoodNext, Good
<1>4. Concerns(c)
  BY <1>1 DEF Concerns, IInv, TypeOK
<1>5. jobs \in Seq(Jobs) /\ JobsInv
  BY DEF IInv, TypeOK
<1>6. JobsInv' /\ jobs' \in Seq(Jobs)
  <2>1. CASE jobs' = jobs
    <3>1. PICK t \in Seq(Jobs) : Unique(t) /\ 1..Len(t) = {} /\ \A s \in Seq(Jobs) : s \o t = s
      BY NoJob, Zenon
    <3>2. jobs' = jobs \o t
      BY <1>5, <2>1, <3>1, Zenon
    <3>3. \A n \in 1..Len(t) : /\ GoodNext(t[n])
                               /\ Token(t[n]) => caller[c] = "new" /\ t[n].call = c
      BY <3>1, Zenon
    <3> QED BY <1>1, <1>4, <1>5, <3>1, <3>2, <3>3, PutStep, Zenon
  <2>2. CASE jobs' = Append(jobs, j)
    <3> DEFINE t == <<j>>
    <3>1. /\ t \in Seq(Jobs) /\ Unique(t) /\ \A n \in 1..Len(t) : t[n] = j
          /\ jobs' = jobs \o t
      BY <1>2, <1>5, <2>2, OneJob, Zenon
    <3> HIDE DEF t
    <3>2. \A n \in 1..Len(t) : /\ GoodNext(t[n])
                               /\ Token(t[n]) => caller[c] = "new" /\ t[n].call = c
      BY <1>3, <3>1, Zenon
    <3> QED BY <1>1, <1>4, <1>5, <3>1, <3>2, PutStep, Zenon
  <2> QED BY <1>1, <2>1, <2>2
<1>7. WaitersInv'
  <2>1. \A d \in Calls : Listens(d)' <=> Listens(d)
    BY <1>1 DEF Listens, IInv, TypeOK
  <2> QED BY <1>1, <2>1 DEF IInv, WaitersInv
<1>8. CallInv'
  BY <1>1 DEF IInv, TypeOK, CallInv
<1>9. TypeOK'
  BY <1>1, <1>6 DEF IInv, TypeOK
<1> QED BY <1>6, <1>7, <1>8, <1>9 DEF IInv

(* An answer is heard: by another call's waiter, or by the call's own.     *)
LEMMA ExecutedStep ==
  ASSUME IInv, NEW i \in 1..Len(jobs), RunExecuted(i)
  PROVE  IInv'
<1> DEFINE c == jobs[i].call
           j == Job("resume", c, NoHandler, TRUE)
<1>0. /\ jobs \in Seq(Jobs) /\ JobsInv /\ jobs[i] \in Jobs /\ c \in Calls
      /\ GoodNow(jobs[i]) /\ jobs[i].stage = "executed"
  <2>1. jobs \in Seq(Jobs) /\ JobsInv /\ jobs[i] \in Jobs
    BY DEF IInv, TypeOK
  <2> QED BY <2>1 DEF Jobs, JobsInv, RunExecuted
<1>1. c \in answered
  BY <1>0 DEF GoodNow, Good
<1>2. j \in Jobs /\ j.stage = "resume"
  BY <1>0 DEF Job, Jobs
<1>3. CASE jobs[i].x # c /\ jobs' = Without(jobs, i) /\ UNCHANGED <<caller, fut>>
  <2>1. UNCHANGED <<services, subs, waiters, result, begun, answered, executed, changes>>
    BY DEF RunExecuted
  <2>2. Concerns(c)
    BY <1>3, <2>1 DEF Concerns
  <2>3. JobsInv' /\ jobs' \in Seq(Jobs)
    <3> HIDE DEF c
    <3> QED BY <1>0, <1>3, <2>1, <2>2, RunAlone, Zenon DEF c
  <2> QED BY <1>3, <2>1, <2>3 DEF IInv, TypeOK, WaitersInv, Listens, CallInv
<1>4. CASE /\ jobs[i].x = c /\ fut' = fut \cup {c}
           /\ \/ /\ caller[c] = "waiting" /\ caller' = [caller EXCEPT ![c] = "leaving"]
                 /\ jobs' = Append(Without(jobs, i), j)
              \/ jobs' = Without(jobs, i) /\ UNCHANGED caller
  <2>1. UNCHANGED <<services, subs, waiters, result, begun, answered, executed, changes>>
    BY DEF RunExecuted
  <2>2. Token(jobs[i])
    BY <1>0, <1>4 DEF Token
  <2>3. Concerns(c)
    BY <1>0, <1>4, <2>1 DEF Concerns, IInv, TypeOK
  <2>4. Without(jobs, i) \in Seq(Jobs)
    BY <1>0, RemoveAtProperties DEF Without
  <2>5. ~Token(j) /\ GoodNext(j)
    BY <1>2 DEF Token, GoodNext, Good
  <2>6. JobsInv' /\ jobs' \in Seq(Jobs)
    <3> HIDE DEF c, j
    <3>1. CASE jobs' = Without(jobs, i)
      BY <1>0, <2>2, <2>3, <3>1, RunAlone, Zenon DEF c
    <3>2. CASE jobs' = Append(Without(jobs, i), j)
      BY <1>0, <1>2, <2>2, <2>3, <2>5, <3>2, RunAndPut, Zenon DEF c
    <3> QED BY <1>4, <3>1, <3>2
  <2>7. WaitersInv'
    <3>1. \A d \in Calls : Listens(d)' <=> Listens(d)
      BY <1>4 DEF Listens, IInv, TypeOK
    <3> QED BY <2>1, <3>1 DEF IInv, WaitersInv
  <2>8. CallInv'
    BY <1>1, <1>4, <2>1 DEF IInv, TypeOK, CallInv
  <2>9. TypeOK'
    BY <1>0, <1>4, <2>1, <2>6 DEF IInv, TypeOK
  <2> QED BY <2>6, <2>7, <2>8, <2>9 DEF IInv
<1> QED BY <1>3, <1>4 DEF RunExecuted

(* The caller returns, and takes its listener with it.                     *)
LEMMA ResumeStep ==
  ASSUME IInv, NEW i \in 1..Len(jobs), RunResume(i)
  PROVE  IInv'
<1> DEFINE c == jobs[i].call
<1>0. /\ jobs \in Seq(Jobs) /\ JobsInv /\ jobs[i] \in Jobs /\ c \in Calls
      /\ jobs' = Without(jobs, i)
      /\ UNCHANGED <<services, subs, fut, begun, answered, executed, changes>>
  <2>1. jobs \in Seq(Jobs) /\ JobsInv /\ jobs[i] \in Jobs
    BY DEF IInv, TypeOK
  <2> QED BY <2>1 DEF Jobs, RunResume
<1>1. \/ /\ caller[c] = "leaving" /\ caller' = [caller EXCEPT ![c] = "returned"]
         /\ result' \in [Calls -> {"none", "success", "failure"}]
         /\ waiters' = RemoveFirst(waiters, c)
      \/ UNCHANGED <<caller, result, waiters>>
  BY DEF RunResume, IInv, TypeOK
<1> HIDE DEF c
<1>2. Concerns(c)
  BY <1>0, <1>1 DEF Concerns, IInv, TypeOK
<1>3. JobsInv' /\ jobs' \in Seq(Jobs)
  BY <1>0, <1>2, RunAlone, Zenon DEF c
<1>4. WaitersInv' /\ waiters' \in Seq(Calls)
  <2>0. waiters \in Seq(Calls) /\ Len(waiters) \in Nat
    BY DEF IInv, TypeOK
  <2>1. CASE UNCHANGED <<caller, result, waiters>>
    BY <2>0, <2>1 DEF IInv, WaitersInv, Listens
  <2>2. CASE /\ caller[c] = "leaving" /\ caller' = [caller EXCEPT ![c] = "returned"]
             /\ waiters' = RemoveFirst(waiters, c)
    <3>1. PICK k \in 1..Len(waiters) : waiters[k] = c
      BY <1>0, <2>2 DEF IInv, WaitersInv, Listens
    <3>2. PICK m \in 1..Len(waiters) : waiters[m] = c /\ waiters' = Without(waiters, m)
      BY <2>0, <2>2, <3>1, RemoveFirstIs
    <3>3. /\ waiters' \in Seq(Calls) /\ Len(waiters') = Len(waiters) - 1
          /\ \A n \in 1..(Len(waiters) - 1) :
               waiters'[n] = IF n < m THEN waiters[n] ELSE waiters[n + 1]
      BY <2>0, <3>2, RemoveAtProperties DEF Without
    <3>4. \A p, q \in 1..Len(waiters) : waiters[p] = waiters[q] => p = q
      BY DEF IInv, WaitersInv
    <3>5. ASSUME NEW p \in 1..Len(waiters')
          PROVE  (IF p < m THEN p ELSE p + 1) \in (1..Len(waiters)) \ {m}
                 /\ waiters'[p] = waiters[IF p < m THEN p ELSE p + 1]
      BY <2>0, <3>3, SMTT(30)
    <3>6. \A p, q \in 1..Len(waiters') : waiters'[p] = waiters'[q] => p = q
      <4>1. SUFFICES ASSUME NEW p \in 1..Len(waiters'), NEW q \in 1..Len(waiters'),
                            waiters'[p] = waiters'[q]
                     PROVE  p = q
        OBVIOUS
      <4>2. (IF p < m THEN p ELSE p + 1) = (IF q < m THEN q ELSE q + 1)
        BY <3>4, <3>5, <4>1
      <4> QED BY <2>0, <3>3, <4>2
    <3>7. ASSUME NEW d \in Calls
          PROVE  (\E p \in 1..Len(waiters') : waiters'[p] = d) <=>
                   d # c /\ \E p \in 1..Len(waiters) : waiters[p] = d
      <4>1. ASSUME NEW p \in 1..Len(waiters'), waiters'[p] = d
            PROVE  d # c /\ \E q \in 1..Len(waiters) : waiters[q] = d
        BY <3>2, <3>4, <3>5, <4>1
      <4>2. ASSUME d # c, NEW p \in 1..Len(waiters), waiters[p] = d
            PROVE  \E q \in 1..Len(waiters') : waiters'[q] = d
        <5>1. CASE p < m
          BY <2>0, <3>3, <4>2, <5>1, SMTT(30)
        <5>2. CASE p > m
          <6>1. p - 1 \in 1..(Len(waiters) - 1) /\ ~(p - 1 < m) /\ (p - 1) + 1 = p
            BY <2>0, <5>2
          <6>2. waiters'[p - 1] = waiters[(p - 1) + 1]
            BY <3>3, <6>1
          <6> QED BY <3>3, <4>2, <6>1, <6>2
        <5>3. p # m
          BY <3>2, <4>2
        <5> QED BY <2>0, <5>1, <5>2, <5>3
      <4> QED BY <4>1, <4>2
    <3>8. \A d \in Calls : Listens(d)' <=> d # c /\ Listens(d)
      BY <1>0, <2>2 DEF Listens, IInv, TypeOK
    <3> QED BY <3>3, <3>6, <3>7, <3>8 DEF IInv, WaitersInv
  <2> QED BY <1>1, <2>1, <2>2
<1>5. CallInv'
  BY <1>0, <1>1 DEF IInv, TypeOK, CallInv
<1>6. TypeOK'
  BY <1>0, <1>1, <1>3, <1>4 DEF IInv, TypeOK
<1> QED BY <1>3, <1>4, <1>5, <1>6 DEF IInv

(* What carries a call goes on: to its handler, or with the answer.        *)
LEMMA Passes ==
  ASSUME IInv, NEW i \in 1..Len(jobs), NEW c, c = jobs[i].call, Token(jobs[i]),
         NEW t \in Seq(Jobs), Unique(t), jobs' = Without(jobs, i) \o t,
         \A n \in 1..Len(t) :
           /\ t[n].call = c
           /\ \/ t[n].stage = "handler" /\ c \notin answered'
              \/ t[n].stage \in {"fire", "executed"} /\ c \in answered',
         answered' \in {answered, answered \cup {c}}, executed' \subseteq answered',
         begun' \in [Calls -> Nat], \A d \in Calls : d # c => begun'[d] = begun[d],
         UNCHANGED <<services, subs, waiters, caller, fut, result, changes>>
  PROVE  IInv'
<1>0. /\ jobs \in Seq(Jobs) /\ JobsInv /\ jobs[i] \in Jobs /\ c \in Calls
      /\ caller[c] # "new" /\ c \notin fut
  <2>1. jobs \in Seq(Jobs) /\ JobsInv /\ jobs[i] \in Jobs
    BY DEF IInv, TypeOK
  <2> QED BY <2>1 DEF Jobs, JobsInv, GoodNow, Good
<1>1. Concerns(c)
  BY <1>0 DEF Concerns
<1>2. \A n \in 1..Len(t) : /\ GoodNext(t[n])
                           /\ Token(t[n]) => Token(jobs[i]) /\ t[n].call = c
  BY <1>0 DEF GoodNext, Good
<1>3. JobsInv' /\ jobs' \in Seq(Jobs)
  BY <1>0, <1>1, <1>2, RunStep, Zenon
<1>4. WaitersInv'
  BY DEF IInv, WaitersInv, Listens
<1>5. CallInv'
  BY <1>0 DEF IInv, CallInv
<1>6. TypeOK'
  <2>1. answered' \subseteq Calls
    BY <1>0 DEF IInv, TypeOK
  <2> QED BY <1>3, <2>1 DEF IInv, TypeOK
<1> QED BY <1>3, <1>4, <1>5, <1>6 DEF IInv

(* What a job that carries a call tells about it.                          *)
LEMMA Carries ==
  ASSUME IInv, NEW i \in 1..Len(jobs)
  PROVE  /\ jobs \in Seq(Jobs) /\ jobs[i] \in Jobs /\ jobs[i].call \in Calls
         /\ jobs[i].x \in Handlers \cup Calls \cup {NoHandler}
         /\ Token(jobs[i]) => caller[jobs[i].call] # "new" /\ jobs[i].call \notin fut
         /\ jobs[i].stage \in {"dispatch", "handler"} => jobs[i].call \notin answered
         /\ jobs[i].stage = "fire" => jobs[i].call \in answered
         /\ jobs[i].stage = "dispatch" => begun[jobs[i].call] = 0
<1>1. jobs \in Seq(Jobs) /\ JobsInv /\ jobs[i] \in Jobs
  BY DEF IInv, TypeOK
<1> QED BY <1>1 DEF Jobs, JobsInv, GoodNow, Good

(* Nothing is put behind; a handler; or the answer.                        *)
LEMMA PassesOn ==
  ASSUME IInv, NEW i \in 1..Len(jobs), NEW c, c = jobs[i].call,
         jobs[i].stage \in {"dispatch", "handler"},
         NEW h \in Handlers \cup Calls \cup {NoHandler}, NEW b \in BOOLEAN,
         \/ /\ jobs' = Without(jobs, i) \/ jobs' = Append(Without(jobs, i), Job("handler", c, h, b))
            /\ UNCHANGED <<answered, executed>>
         \/ /\ jobs' = Without(jobs, i) \o FireExecuted(c, h)
            /\ answered' = answered \cup {c}
            /\ executed' \in {executed, executed \cup {c}},
         begun' \in [Calls -> Nat], \A d \in Calls : d # c => begun'[d] = begun[d],
         UNCHANGED <<services, subs, waiters, caller, fut, result, changes>>
  PROVE  IInv'
<1>1. /\ Token(jobs[i]) /\ c \in Calls /\ c \notin answered
      /\ executed \subseteq answered
      /\ Without(jobs, i) \in Seq(Jobs)
  <2>1. Token(jobs[i])
    BY DEF Token
  <2>2. c \in Calls /\ c \notin answered /\ jobs \in Seq(Jobs)
    BY Carries, Zenon
  <2>3. Without(jobs, i) \in Seq(Jobs)
    BY <2>2, RemoveAtProperties DEF Without
  <2> QED BY <2>1, <2>2, <2>3 DEF IInv, TypeOK
<1>2. CASE jobs' = Without(jobs, i) /\ UNCHANGED <<answered, executed>>
  <2>1. PICK t \in Seq(Jobs) : Unique(t) /\ 1..Len(t) = {} /\ \A s \in Seq(Jobs) : s \o t = s
    BY NoJob, Zenon
  <2>2. jobs' = Without(jobs, i) \o t
    BY <1>1, <1>2, <2>1, Zenon
  <2>3. answered' = answered /\ executed' \subseteq answered'
    BY <1>1, <1>2
  <2>4. \A n \in 1..Len(t) :
           /\ t[n].call = c
           /\ \/ t[n].stage = "handler" /\ c \notin answered'
              \/ t[n].stage \in {"fire", "executed"} /\ c \in answered'
    BY <2>1, Zenon
  <2>5. answered' \in {answered, answered \cup {c}}
    BY <2>3
  <2> QED BY <1>1, <2>1, <2>2, <2>3, <2>4, <2>5, Passes, Zenon
<1>3. CASE /\ jobs' = Append(Without(jobs, i), Job("handler", c, h, b))
           /\ UNCHANGED <<answered, executed>>
  <2> DEFINE j == Job("handler", c, h, b)
             t == <<j>>
  <2>1. j \in Jobs /\ j.stage = "handler" /\ j.call = c
    BY <1>1 DEF Job, Jobs
  <2> HIDE DEF j
  <2>2. /\ t \in Seq(Jobs) /\ Unique(t) /\ \A n \in 1..Len(t) : t[n] = j
        /\ \A s \in Seq(Jobs) : Append(s, j) = s \o t
    BY <2>1, OneJob, Zenon
  <2> HIDE DEF t
  <2>3. jobs' = Without(jobs, i) \o t
    BY <1>1, <1>3, <2>2, Zenon DEF j
  <2>4. answered' = answered /\ executed' \subseteq answered'
    BY <1>1, <1>3
  <2>5. \A n \in 1..Len(t) :
           /\ t[n].call = c
           /\ \/ t[n].stage = "handler" /\ c \notin answered'
              \/ t[n].stage \in {"fire", "executed"} /\ c \in answered'
    BY <1>1, <2>1, <2>2, <2>4
  <2>6. answered' \in {answered, answered \cup {c}}
    BY <2>4
  <2> QED BY <1>1, <2>2, <2>3, <2>4, <2>5, <2>6, Passes, Zenon
<1>4. CASE /\ jobs' = Without(jobs, i) \o FireExecuted(c, h)
           /\ answered' = answered \cup {c}
           /\ executed' \in {executed, executed \cup {c}}
  <2> DEFINE t == FireExecuted(c, h)
  <2>1. /\ t \in Seq(Jobs) /\ Unique(t)
        /\ \A n \in 1..Len(t) : t[n].stage \in {"fire", "executed"} /\ t[n].call = c
    <3>1. TypeOK /\ WaitersInv
      BY DEF IInv
    <3> QED BY <1>1, <3>1, FiredAre
  <2>2. jobs' = Without(jobs, i) \o t
    BY <1>4
  <2> HIDE DEF t
  <2>3. executed' \subseteq answered' /\ c \in answered'
        /\ answered' \in {answered, answered \cup {c}}
    BY <1>1, <1>4
  <2>4. \A n \in 1..Len(t) :
           /\ t[n].call = c
           /\ \/ t[n].stage = "handler" /\ c \notin answered'
              \/ t[n].stage \in {"fire", "executed"} /\ c \in answered'
    BY <2>1, <2>3
  <2> QED BY <1>1, <2>1, <2>2, <2>3, <2>4, Passes, Zenon
<1> QED BY <1>2, <1>3, <1>4

LEMMA FireStep ==
  ASSUME IInv, NEW i \in 1..Len(jobs), RunFire(i)
  PROVE  IInv'
<1> DEFINE c == jobs[i].call
           t == Answers(c)
<1>1. /\ jobs[i].stage = "fire" /\ jobs' = Without(jobs, i) \o t
      /\ UNCHANGED <<services, subs, waiters, caller, fut, result, begun, answered, executed,
                     changes>>
  BY DEF RunFire
<1>2. c \in Calls /\ c \in answered
  BY <1>1, Carries, Zenon
<1>3. Token(jobs[i])
  BY <1>1 DEF Token
<1> HIDE DEF c
<1>4. /\ t \in Seq(Jobs) /\ Unique(t)
      /\ \A n \in 1..Len(t) : t[n].stage = "executed" /\ t[n].call = c
  BY <1>2, AnswersAre, Zenon DEF IInv
<1> HIDE DEF t
<1>5. /\ c \in answered' /\ answered' \in {answered, answered \cup {c}}
      /\ executed' \subseteq answered' /\ begun' \in [Calls -> Nat]
      /\ \A d \in Calls : d # c => begun'[d] = begun[d]
  BY <1>1, <1>2 DEF IInv, TypeOK
<1>6. \A n \in 1..Len(t) :
         /\ t[n].call = c
         /\ \/ t[n].stage = "handler" /\ c \notin answered'
            \/ t[n].stage \in {"fire", "executed"} /\ c \in answered'
  BY <1>4, <1>5
<1>7. UNCHANGED <<services, subs, waiters, caller, fut, result, changes>>
  BY <1>1
<1>8. c = jobs[i].call
  BY DEF c
<1> QED BY <1>1, <1>3, <1>4, <1>5, <1>6, <1>7, <1>8, Passes, ZenonT(60)

LEMMA HandlerStep ==
  ASSUME IInv, NEW i \in 1..Len(jobs), RunHandler(i)
  PROVE  IInv'
<1> DEFINE c == jobs[i].call
           h == jobs[i].x
<1>1. /\ jobs[i].stage = "handler"
      /\ \/ /\ jobs' = Append(Without(jobs, i), Job("handler", c, h, TRUE))
            /\ UNCHANGED <<answered, executed>>
         \/ Finish(c, h, Without(jobs, i))
      /\ UNCHANGED <<services, subs, waiters, caller, fut, result, begun, changes>>
  BY Zenon DEF RunHandler
<1>2. h \in Handlers \cup Calls \cup {NoHandler} /\ TRUE \in BOOLEAN
  BY Carries, Zenon
<1> HIDE DEF c, h
<1>3. \/ /\ \/ jobs' = Without(jobs, i)
            \/ jobs' = Append(Without(jobs, i), Job("handler", c, h, TRUE))
         /\ UNCHANGED <<answered, executed>>
      \/ /\ jobs' = Without(jobs, i) \o FireExecuted(c, h)
         /\ answered' = answered \cup {c}
         /\ executed' \in {executed, executed \cup {c}}
  BY <1>1 DEF Finish
<1>4. begun' \in [Calls -> Nat] /\ \A d \in Calls : d # c => begun'[d] = begun[d]
  BY <1>1 DEF IInv, TypeOK
<1>5. /\ jobs[i].stage \in {"dispatch", "handler"} /\ c = jobs[i].call
      /\ UNCHANGED <<services, subs, waiters, caller, fut, result, changes>>
  BY <1>1 DEF c
<1> QED BY <1>2, <1>3, <1>4, <1>5, PassesOn, Zenon

LEMMA DispatchStep ==
  ASSUME IInv, NEW i \in 1..Len(jobs), RunDispatch(i)
  PROVE  IInv'
<1> DEFINE c == jobs[i].call
           h == services[Name[c]]
<1>1. /\ jobs[i].stage = "dispatch"
      /\ \/ /\ jobs' = Without(jobs, i)
            /\ UNCHANGED <<begun, answered, executed>>
         \/ /\ jobs' = Without(jobs, i) \o FireExecuted(c, h)
            /\ answered' = answered \cup {c}
            /\ UNCHANGED <<begun, executed>>
         \/ /\ begun' = [begun EXCEPT ![c] = @ + 1]
            /\ \/ Finish(c, h, Without(jobs, i))
               \/ /\ jobs' = Append(Without(jobs, i), Job("handler", c, h, FALSE))
                  /\ UNCHANGED <<answered, executed>>
      /\ UNCHANGED <<services, subs, waiters, caller, fut, result, changes>>
  BY Zenon DEF RunDispatch
<1>2. c \in Calls
  BY Carries, Zenon
<1> HIDE DEF c
<1>3. h \in Handlers \cup Calls \cup {NoHandler} /\ FALSE \in BOOLEAN
  BY <1>2, RegistryConstants DEF IInv, TypeOK
<1> HIDE DEF h
<1>4. \/ /\ \/ jobs' = Without(jobs, i)
            \/ jobs' = Append(Without(jobs, i), Job("handler", c, h, FALSE))
         /\ UNCHANGED <<answered, executed>>
      \/ /\ jobs' = Without(jobs, i) \o FireExecuted(c, h)
         /\ answered' = answered \cup {c}
         /\ executed' \in {executed, executed \cup {c}}
  BY <1>1 DEF Finish
<1>5. begun' \in [Calls -> Nat] /\ \A d \in Calls : d # c => begun'[d] = begun[d]
  <2>1. begun' = begun \/ begun' = [begun EXCEPT ![c] = @ + 1]
    BY <1>1
  <2>2. begun \in [Calls -> Nat]
    BY DEF IInv, TypeOK
  <2> QED BY <1>2, <2>1, <2>2
<1>6. /\ jobs[i].stage \in {"dispatch", "handler"} /\ c = jobs[i].call
      /\ UNCHANGED <<services, subs, waiters, caller, fut, result, changes>>
  BY <1>1 DEF c
<1> QED BY <1>3, <1>4, <1>5, <1>6, PassesOn, Zenon

-----------------------------------------------------------------------------
LEMMA InvInit == Init => IInv
<1> SUFFICES ASSUME Init PROVE IInv
  OBVIOUS
<1>1. TypeOK
  BY RegistryConstants DEF Init, TypeOK
<1>2. 1..Len(jobs) = {} /\ 1..Len(waiters) = {}
  BY DEF Init
<1>3. JobsInv
  BY <1>2 DEF JobsInv, Unique
<1>4. WaitersInv
  BY <1>2 DEF Init, WaitersInv, Listens
<1>5. CallInv
  BY DEF Init, CallInv
<1> QED BY <1>1, <1>3, <1>4, <1>5 DEF IInv

LEMMA InvStep == IInv /\ [Next]_vars => IInv'
<1> SUFFICES ASSUME IInv, [Next]_vars PROVE IInv'
  OBVIOUS
<1>1. ASSUME NEW n \in Names, async_remove(n) \/ \E h \in Handlers : async_register(n, h)
      PROVE  IInv'
  BY <1>1, RegisterStep
<1>2. ASSUME NEW c \in Calls, NEW blocking \in BOOLEAN, async_call(c, blocking)
      PROVE  IInv'
  BY <1>2, CallStep
<1>3. ASSUME NEW c \in Calls, CallTimeout(c) \/ Cancel(c) PROVE IInv'
  BY <1>3, CallerStep
<1>4. ASSUME NEW i \in DOMAIN jobs, RunJob(i) PROVE IInv'
  <2>1. i \in 1..Len(jobs)
    BY <1>4 DEF IInv, TypeOK
  <2> QED BY <1>4, <2>1, DispatchStep, HandlerStep, FireStep, ExecutedStep, ResumeStep DEF RunJob
<1>5. CASE UNCHANGED vars
  BY <1>5 DEF vars, IInv, TypeOK, JobsInv, GoodNow, Good, Unique, WaitersInv, Listens, CallInv
<1> QED BY <1>1, <1>2, <1>3, <1>4, <1>5 DEF Next, RunLoopJob, RunOtherJob

(* In every state of the registry each call is carried by at most one job, *)
(* and each waiting caller has one listener: IInv is invariant.            *)
THEOREM Invariance == Spec => []IInv
BY InvInit, InvStep, PTL DEF Spec

(* Every variable holds what core.py keeps in it.                          *)
THEOREM TypeCorrect == Spec => []TypeOK
<1>1. IInv => TypeOK
  BY DEF IInv
<1> QED BY <1>1, Invariance, PTL

-----------------------------------------------------------------------------
LEMMA CardinalityOfOne ==
  ASSUME NEW S, \A a, b \in S : a = b
  PROVE  Cardinality(S) = IF S = {} THEN 0 ELSE 1
<1>1. CASE S = {}
  BY <1>1, FS_EmptySet
<1>2. CASE S # {}
  <2>1. PICK a \in S : S = {a}
    BY <1>2
  <2> QED BY <1>2, <2>1, FS_Singleton
<1> QED BY <1>1, <1>2

(* A call has one listener of SERVICE_EXECUTED while somebody waits for    *)
(* it, and its future is resolved at most once, whatever is answered when. *)
THEOREM OneListenerCorrect == Spec => []OneListener
<1>1. IInv => OneListener
  <2> SUFFICES ASSUME IInv, NEW c \in Calls
               PROVE  LET own == {i \in DOMAIN jobs : /\ jobs[i].stage = "executed"
                                                      /\ jobs[i].call = c /\ jobs[i].x = c}
                      IN /\ Cardinality({i \in DOMAIN waiters : waiters[i] = c})
                              = IF caller[c] \in {"waiting", "leaving", "cancelled"} THEN 1 ELSE 0
                         /\ Cardinality(own) <= IF c \in fut THEN 0 ELSE 1
    BY DEF OneListener
  <2> DEFINE own == {i \in DOMAIN jobs : /\ jobs[i].stage = "executed"
                                         /\ jobs[i].call = c /\ jobs[i].x = c}
             ear == {i \in DOMAIN waiters : waiters[i] = c}
  <2>0. DOMAIN jobs = 1..Len(jobs) /\ DOMAIN waiters = 1..Len(waiters)
    BY DEF IInv, TypeOK
  <2>1. \A a, b \in ear : a = b
    BY <2>0 DEF IInv, WaitersInv
  <2>2. ear # {} <=> Listens(c)
    BY <2>0 DEF IInv, WaitersInv
  <2>3. \A a \in own : a \in 1..Len(jobs) /\ Token(jobs[a]) /\ jobs[a].call = c
    BY <2>0 DEF Token
  <2>4. \A a, b \in own : a = b
    BY <2>3 DEF IInv, JobsInv, Unique
  <2>5. c \in fut => own = {}
    BY <2>3 DEF IInv, JobsInv, GoodNow, Good
  <2> HIDE DEF own, ear
  <2>6. Cardinality(ear) = IF Listens(c) THEN 1 ELSE 0
    BY <2>1, <2>2, CardinalityOfOne
  <2>7. Cardinality(own) <= IF c \in fut THEN 0 ELSE 1
    BY <2>4, <2>5, CardinalityOfOne
  <2> QED BY <2>6, <2>7 DEF own, ear, Listens
<1> QED BY <1>1, Invariance, PTL

-----------------------------------------------------------------------------
(* The registry is the remote call.                                        *)

LEMMA RemoteInit == Init => Remote!Init
BY DEF Init, Remote!Init

LEMMA RemoteActs ==
  ASSUME NEW c \in Calls,
         \/ Remote!Issue(c) \/ Remote!Start(c) \/ Remote!Answer(c)
         \/ Remote!Return(c) \/ Remote!Leave(c)
  PROVE  Remote!Next
BY Zenon DEF Remote!Next

LEMMA RemoteStep == IInv /\ IInv' /\ [Next]_vars => [Remote!Next]_(Remote!vars)
<1> SUFFICES ASSUME IInv, [Next]_vars PROVE [Remote!Next]_(Remote!vars)
  OBVIOUS
<1>0. /\ caller \in [Calls -> {"new", "waiting", "leaving", "returned", "cancelled"}]
      /\ begun \in [Calls -> Nat] /\ fut \subseteq answered
      /\ result \in [Calls -> {"none", "success", "failure"}]
  BY DEF IInv, TypeOK, CallInv
<1>1. ASSUME NEW n \in Names, async_remove(n) \/ \E h \in Handlers : async_register(n, h)
      PROVE  UNCHANGED Remote!vars
  BY <1>1 DEF async_remove, async_register, Remote!vars
<1>2. ASSUME NEW c \in Calls, NEW blocking \in BOOLEAN, async_call(c, blocking)
      PROVE  Remote!Next
  <2>1. CASE blocking
    <3>1. Remote!Issue(c)
      BY <1>0, <1>2, <2>1 DEF async_call, Remote!Issue
    <3> QED BY <3>1 DEF Remote!Next
  <2>2. CASE ~blocking
    <3>1. Remote!Leave(c)
      BY <1>0, <1>2, <2>2 DEF async_call, Remote!Leave
    <3> QED BY <3>1 DEF Remote!Next
  <2> QED BY <2>1, <2>2
<1>3. ASSUME NEW c \in Calls, CallTimeout(c) PROVE UNCHANGED Remote!vars
  BY <1>0, <1>3 DEF CallTimeout, Remote!vars
<1>4. ASSUME NEW c \in Calls, Cancel(c) PROVE Remote!Next
  <2>1. Remote!Leave(c)
    BY <1>0, <1>4 DEF Cancel, Remote!Leave
  <2> QED BY <2>1 DEF Remote!Next
<1>5. ASSUME NEW i \in DOMAIN jobs, RunJob(i) PROVE [Remote!Next]_(Remote!vars)
  <2> DEFINE c == jobs[i].call
             h == services[Name[c]]
  <2>0. /\ c \in Calls
        /\ Token(jobs[i]) => caller[c] # "new"
        /\ jobs[i].stage \in {"dispatch", "handler"} => caller[c] # "new" /\ c \notin answered
        /\ jobs[i].stage = "dispatch" => begun[c] = 0
    <3>1. i \in 1..Len(jobs)
      BY DEF IInv, TypeOK
    <3> QED BY <3>1, Carries DEF Token
  <2>1. CASE RunDispatch(i)
    <3>1. CASE UNCHANGED <<begun, answered>>
      BY <2>1, <3>1 DEF RunDispatch, Remote!vars
    <3>2. CASE answered' = answered \cup {c} /\ UNCHANGED begun
      <4>1. Remote!Answer(c)
        BY <2>0, <2>1, <3>2, <1>0 DEF RunDispatch, Remote!Answer
      <4> QED BY <2>0, <4>1, RemoteActs, Zenon
    <3>3. CASE begun' = [begun EXCEPT ![c] = @ + 1] /\ answered' \in {answered, answered \cup {c}}
      <4>1. UNCHANGED <<caller, result>> /\ jobs[i].stage = "dispatch"
        BY <2>1, Zenon DEF RunDispatch
      <4>2. begun' = [begun EXCEPT ![c] = 1]
        <5>1. begun[c] + 1 = 1
          BY <2>0, <4>1
        <5> QED BY <3>3, <5>1, Zenon
      <4>3. caller[c] # "new" /\ begun[c] = 0 /\ c \notin answered
        BY <2>0, <4>1
      <4> HIDE DEF c
      <4>4. Remote!Start(c)
        BY <1>0, <2>0, <3>3, <4>1, <4>2, <4>3 DEF Remote!Start
      <4> QED BY <2>0, <4>4, RemoteActs, Zenon
    <3> QED BY <2>1, <3>1, <3>2, <3>3 DEF RunDispatch, Finish
  <2>2. CASE RunHandler(i)
    <3>1. CASE UNCHANGED answered
      BY <2>2, <3>1 DEF RunHandler, Remote!vars
    <3>2. CASE answered' = answered \cup {c}
      <4>1. Remote!Answer(c)
        BY <2>0, <2>2, <3>2, <1>0 DEF RunHandler, Remote!Answer
      <4> QED BY <2>0, <4>1, RemoteActs, Zenon
    <3> QED BY <2>2, <3>1, <3>2 DEF RunHandler, Finish
  <2>3. CASE RunFire(i)
    BY <2>3 DEF RunFire, Remote!vars
  <2>4. CASE RunExecuted(i)
    BY <1>0, <2>0, <2>4 DEF RunExecuted, Remote!vars
  <2>5. CASE RunResume(i)
    <3>1. CASE UNCHANGED <<caller, result>>
      BY <2>5, <3>1 DEF RunResume, Remote!vars
    <3>2. CASE /\ caller[c] = "leaving" /\ caller' = [caller EXCEPT ![c] = "returned"]
               /\ result' = [result EXCEPT ![c] = IF c \in fut THEN "success" ELSE "failure"]
      <4>1. PICK d \in Calls : d = c
        BY <2>0
      <4>2. Remote!Return(d)
        BY <1>0, <2>5, <3>2, <4>1 DEF RunResume, Remote!Return
      <4>3. Remote!Next
        BY <4>2, RemoteActs, Zenon
      <4> QED BY <4>3
    <3> QED BY <2>5, <3>1, <3>2 DEF RunResume
  <2> QED BY <1>5, <2>1, <2>2, <2>3, <2>4, <2>5 DEF RunJob
<1>6. CASE UNCHANGED vars
  BY <1>6 DEF vars, Remote!vars
<1> QED BY <1>1, <1>2, <1>3, <1>4, <1>5, <1>6 DEF Next, RunLoopJob, RunOtherJob

(* At most one run of a handler for a call, and success is reported only   *)
(* for one's own answer, whatever the services and the handlers are.       *)
THEOREM ServiceCallCorrect == Spec => ImplementsServiceCall
BY RemoteInit, RemoteStep, Invariance, PTL DEF Spec, ImplementsServiceCall, Remote!Spec
=============================================================================
