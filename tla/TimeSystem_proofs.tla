-------------------------- MODULE TimeSystem_proofs --------------------------
(***************************************************************************)
(* Proofs about TimeSystem: an interval, a same-state tracker and a timer, *)
(* whatever their periods, however far time goes and whoever calls what.   *)
(***************************************************************************)
EXTENDS TimeSystem, SequenceTheorems, FiniteSetTheorems, TLAPS

-----------------------------------------------------------------------------
(* What registering, unsubscribing and running do to the listeners.        *)

LEMMA TrackIs ==
  ASSUME NEW ps \in Seq(Pit), NEW who \in Users, NEW at \in Int
  PROVE  /\ async_track_point_in_utc_time(ps, who, at) \in Seq(Pit)
         /\ Len(async_track_point_in_utc_time(ps, who, at)) = Len(ps) + 1
         /\ \A k \in 1..Len(ps) : async_track_point_in_utc_time(ps, who, at)[k] = ps[k]
         /\ async_track_point_in_utc_time(ps, who, at)[Len(ps) + 1]
              = [who |-> who, at |-> at, sub |-> TRUE, run |-> FALSE]
BY DEF async_track_point_in_utc_time, Pit

LEMMA PitFields ==
  ASSUME NEW p \in Pit
  PROVE  /\ [p EXCEPT !.sub = FALSE] \in Pit
         /\ [p EXCEPT !.run = TRUE, !.sub = FALSE] \in Pit
BY DEF Pit

LEMMA UnsubIs ==
  ASSUME NEW ps \in Seq(Pit), NEW k \in {0} \cup DOMAIN ps
  PROVE  /\ Unsub(ps, k) \in Seq(Pit)
         /\ Len(Unsub(ps, k)) = Len(ps)
         /\ \A j \in 1..Len(ps) :
              Unsub(ps, k)[j] = IF j = k THEN [ps[j] EXCEPT !.sub = FALSE] ELSE ps[j]
<1>1. ASSUME NEW j \in 1..Len(ps)
      PROVE  ps[j] \in Pit /\ [ps[j] EXCEPT !.sub = FALSE] \in Pit
  <2>1. ps[j] \in Pit
    OBVIOUS
  <2> QED BY <2>1, PitFields, Zenon
<1>2. CASE k = 0
  BY <1>2 DEF Unsub
<1>3. CASE k # 0
  <2>1. Unsub(ps, k) = [ps EXCEPT ![k] = [ps[k] EXCEPT !.sub = FALSE]]
    BY <1>3, Zenon DEF Unsub
  <2> DEFINE p == [ps[k] EXCEPT !.sub = FALSE]
  <2>2. p \in Pit
    BY <1>1, <1>3
  <2> HIDE DEF p
  <2>3. /\ [ps EXCEPT ![k] = p] \in Seq(Pit)
        /\ Len([ps EXCEPT ![k] = p]) = Len(ps)
        /\ \A j \in 1..Len(ps) : [ps EXCEPT ![k] = p][j] = IF j = k THEN p ELSE ps[j]
    BY <1>3, <2>2
  <2> QED BY <2>1, <2>3, Zenon DEF p
<1> QED BY <1>2, <1>3

LEMMA ConsumedIs ==
  ASSUME TypeOK, NEW who, PitRuns(who)
  PROVE  /\ Head(jobs).k \in 1..Len(pits)
         /\ pits[Head(jobs).k].who = who /\ ~pits[Head(jobs).k].run
         /\ Consumed \in Seq(Pit)
         /\ Len(Consumed) = Len(pits)
         /\ \A j \in 1..Len(pits) :
              Consumed[j] = IF j = Head(jobs).k THEN [pits[j] EXCEPT !.run = TRUE, !.sub = FALSE]
                            ELSE pits[j]
<1>1. Head(jobs) \in Job /\ Head(jobs).stage = "pit"
  BY DEF PitRuns, Next_job, TypeOK
<1>2. Head(jobs).k \in 1..Len(pits)
  BY <1>1 DEF Job, TypeOK
<1>3. pits[Head(jobs).k] \in Pit
  BY <1>2 DEF TypeOK
<1> DEFINE k == Head(jobs).k
           p == [pits[k] EXCEPT !.run = TRUE, !.sub = FALSE]
<1>4. p \in Pit
  BY <1>3, PitFields, Zenon
<1>5. Consumed = [pits EXCEPT ![k] = p]
  BY Zenon DEF Consumed
<1>6. pits[k].who = who /\ ~pits[k].run
  BY DEF PitRuns, Due
<1> HIDE DEF p
<1>7. /\ [pits EXCEPT ![k] = p] \in Seq(Pit)
      /\ Len([pits EXCEPT ![k] = p]) = Len(pits)
      /\ \A j \in 1..Len(pits) : [pits EXCEPT ![k] = p][j] = IF j = k THEN p ELSE pits[j]
  BY <1>2, <1>4 DEF TypeOK
<1> QED BY <1>2, <1>5, <1>6, <1>7, Zenon DEF p

-----------------------------------------------------------------------------
(* Types.                                                                  *)

LEMMA JobGrows ==
  ASSUME TypeOK, pits' \in Seq(Pit), Len(pits) <= Len(pits'), sent' \in Nat, sent <= sent'
  PROVE  Job \subseteq Job'
<1>1. DOMAIN pits \subseteq DOMAIN pits' /\ 0..sent \subseteq 0..sent'
  BY DEF TypeOK
<1> QED BY <1>1, Zenon DEF Job

(* What the loop has ready, with its head taken off and others put behind. *)
LEMMA TailIs ==
  ASSUME NEW S, NEW s \in Seq(S), s # <<>>
  PROVE  /\ Tail(s) \in Seq(S) /\ Head(s) \in S
         /\ Len(s) \in Nat \ {0} /\ Len(Tail(s)) = Len(s) - 1
         /\ \A i \in 1..(Len(s) - 1) : Tail(s)[i] = s[i + 1]
OBVIOUS

(* Whatever a step does to the listeners, it keeps this.                   *)
Sound(ps) == ps \in Seq(Pit) /\ \A k \in 1..Len(ps) : ~(ps[k].sub /\ ps[k].run)

LEMMA TrackSound ==
  ASSUME NEW ps, Sound(ps), NEW who \in Users, NEW at \in Int
  PROVE  Sound(async_track_point_in_utc_time(ps, who, at))
<1> DEFINE qs == async_track_point_in_utc_time(ps, who, at)
<1>1. /\ qs \in Seq(Pit) /\ Len(qs) = Len(ps) + 1
      /\ \A k \in 1..Len(ps) : qs[k] = ps[k]
      /\ qs[Len(ps) + 1] = [who |-> who, at |-> at, sub |-> TRUE, run |-> FALSE]
  BY TrackIs, Zenon DEF Sound
<1> HIDE DEF qs
<1>2. Len(ps) \in Nat
  BY DEF Sound
<1> QED BY <1>1, <1>2 DEF Sound, qs

LEMMA NewListener ==
  ASSUME NEW ps, Sound(ps), NEW who \in Users, NEW at \in Int,
         pits' = async_track_point_in_utc_time(ps, who, at)
  PROVE  Sound(pits') /\ Len(pits') = Len(ps) + 1 /\ Len(pits') \in DOMAIN pits'
<1>1. Sound(pits') /\ Len(pits') = Len(ps) + 1
  BY TrackSound, TrackIs, Zenon DEF Sound
<1>2. pits' \in Seq(Pit) /\ Len(ps) \in Nat
  BY <1>1 DEF Sound
<1> QED BY <1>1, <1>2

LEMMA UnsubSound ==
  ASSUME NEW ps, Sound(ps), NEW k \in {0} \cup DOMAIN ps
  PROVE  Sound(Unsub(ps, k))
<1>1. /\ Unsub(ps, k) \in Seq(Pit)
      /\ Len(Unsub(ps, k)) = Len(ps)
      /\ \A j \in 1..Len(ps) :
           Unsub(ps, k)[j] = IF j = k THEN [ps[j] EXCEPT !.sub = FALSE] ELSE ps[j]
  BY UnsubIs DEF Sound
<1>2. ASSUME NEW p \in Pit PROVE ~[p EXCEPT !.sub = FALSE].sub
  BY DEF Pit
<1>3. \A j \in 1..Len(ps) : ps[j] \in Pit
  BY DEF Sound
<1>4. ASSUME NEW j \in 1..Len(ps) PROVE ~(Unsub(ps, k)[j].sub /\ Unsub(ps, k)[j].run)
  <2>1. CASE j = k
    <3>1. Unsub(ps, k)[j] = [ps[j] EXCEPT !.sub = FALSE]
      BY <1>1, <2>1
    <3> QED BY <1>2, <1>3, <3>1
  <2>2. CASE j # k
    BY <1>1, <2>2 DEF Sound
  <2> QED BY <2>1, <2>2
<1> QED BY <1>1, <1>4 DEF Sound

LEMMA ConsumedSound ==
  ASSUME TypeOK, NEW who, PitRuns(who)
  PROVE  Sound(Consumed)
<1>1. /\ Consumed \in Seq(Pit) /\ Len(Consumed) = Len(pits)
      /\ \A j \in 1..Len(pits) :
           Consumed[j] = IF j = Head(jobs).k THEN [pits[j] EXCEPT !.run = TRUE, !.sub = FALSE]
                         ELSE pits[j]
  BY ConsumedIs, Zenon
<1>2. ASSUME NEW p \in Pit PROVE ~[p EXCEPT !.run = TRUE, !.sub = FALSE].sub
  BY DEF Pit
<1>3. \A j \in 1..Len(pits) : pits[j] \in Pit /\ ~(pits[j].sub /\ pits[j].run)
  BY DEF TypeOK
<1>4. ASSUME NEW j \in 1..Len(pits) PROVE ~(Consumed[j].sub /\ Consumed[j].run)
  <2>1. CASE j = Head(jobs).k
    BY <1>1, <1>2, <1>3, <2>1
  <2>2. CASE j # Head(jobs).k
    BY <1>1, <1>3, <2>2
  <2> QED BY <2>1, <2>2
<1> QED BY <1>1, <1>4 DEF Sound

LEMMA JobsType ==
  ASSUME TypeOK, Sound(pits'), Len(pits) <= Len(pits'), sent' = sent,
         \/ jobs' = jobs
         \/ \E x \in Job' : jobs' = Append(jobs, x)
         \/ jobs # <<>> /\ jobs' = Tail(jobs)
         \/ jobs # <<>> /\ \E x \in Job' : jobs' = Append(Tail(jobs), x)
  PROVE  jobs' \in Seq(Job')
<1>1. Job \subseteq Job'
  BY JobGrows DEF Sound, TypeOK
<1>2. jobs \in Seq(Job') /\ (jobs # <<>> => Tail(jobs) \in Seq(Job'))
  BY <1>1, TailIs DEF TypeOK
<1>3. ASSUME NEW s \in Seq(Job'), NEW x \in Job' PROVE Append(s, x) \in Seq(Job')
  BY AppendProperties, Zenon
<1> QED BY <1>2, <1>3, Zenon

(* The timer's record, with listeners out of D.                            *)
TimerRecord(D) ==
  [state : {"idle", "active", "paused"}, listener : {0} \cup D, dur : Nat, rem : Int]

(* What a step leaves alone stays well typed although listeners are added. *)
LEMMA OthersType ==
  ASSUME TypeOK, Sound(pits'), Len(pits) <= Len(pits')
  PROVE  /\ timer \in TimerRecord(DOMAIN pits')
         /\ interval \in [on : BOOLEAN, removed : BOOLEAN, lined : BOOLEAN,
                          remove : {0} \cup DOMAIN pits']
         /\ same \in [tracked : BOOLEAN, cancel : BOOLEAN, acted : BOOLEAN,
                      listener : {0} \cup DOMAIN pits']
<1>1. DOMAIN pits \subseteq DOMAIN pits'
  BY DEF TypeOK, Sound
<1> QED BY <1>1 DEF TypeOK, TimerRecord

LEMMA CallsType == TypeOK /\ Called => calls' \in 0..MaxCalls
BY TimeConstants DEF TypeOK, Called

(* The types of a step that neither moves the clock nor fires.             *)
Same == UNCHANGED <<clock, sent>> /\ Len(pits) <= Len(pits') /\ Sound(pits')

LEMMA HelperType ==
  TypeOK /\ (HelperJob \/ HelperCall) /\ UNCHANGED timerVars => TypeOK'
<1> SUFFICES ASSUME TypeOK, HelperJob \/ HelperCall, UNCHANGED timerVars PROVE TypeOK'
  OBVIOUS
<1>0. Sound(pits) /\ Len(pits) \in Nat
  BY DEF Sound, TypeOK
<1>a. ASSUME Same, jobs' \in Seq(Job'), calls' \in 0..MaxCalls,
             interval' \in [on : BOOLEAN, removed : BOOLEAN, lined : BOOLEAN,
                            remove : {0} \cup DOMAIN pits'],
             same' \in [tracked : BOOLEAN, cancel : BOOLEAN, acted : BOOLEAN,
                        listener : {0} \cup DOMAIN pits']
      PROVE  TypeOK'
  <2>1. timer' \in TimerRecord(DOMAIN pits')
    BY <1>a, OthersType DEF Same, timerVars
  <2>2. pits' \in Seq(Pit) /\ \A k \in DOMAIN pits' : ~(pits'[k].sub /\ pits'[k].run)
    BY <1>a DEF Same, Sound
  <2> QED BY <1>a, <2>1, <2>2 DEF Same, TypeOK, timerVars
<1>1. CASE async_track_time_interval
  <2>0. clock + Interval \in Int
    BY HelperConstants DEF TypeOK
  <2>1. Sound(pits') /\ Len(pits') = Len(pits) + 1 /\ Len(pits') \in DOMAIN pits'
    <3>1. pits' = async_track_point_in_utc_time(pits, "interval", clock + Interval)
      BY <1>1 DEF async_track_time_interval
    <3>2. "interval" \in Users
      BY DEF Users
    <3> QED BY <1>0, <2>0, <3>1, <3>2, NewListener, Zenon
  <2>2. Same
    BY <1>0, <1>1, <2>1 DEF async_track_time_interval, Same
  <2>3. jobs' \in Seq(Job') /\ calls' \in 0..MaxCalls
    BY <1>1, <2>2, JobsType, CallsType DEF async_track_time_interval, Same
  <2>4. interval' \in [on : BOOLEAN, removed : BOOLEAN, lined : BOOLEAN,
                       remove : {0} \cup DOMAIN pits']
    BY <1>1, <2>1 DEF async_track_time_interval, TypeOK
  <2>5. same' = same
    BY <1>1 DEF async_track_time_interval
  <2> QED BY <1>a, <2>2, <2>3, <2>4, <2>5, OthersType DEF Same
<1>2. CASE interval_listener
  <2>0. /\ clock + Interval \in Int /\ jobs # <<>>
        /\ pits' = async_track_point_in_utc_time(Consumed, "interval", clock + Interval)
    BY <1>2, HelperConstants DEF interval_listener, PitRuns, Next_job, TypeOK
  <2>1. Sound(Consumed) /\ Len(Consumed) = Len(pits)
    BY <1>2, ConsumedSound, ConsumedIs, Zenon DEF interval_listener
  <2>2. Sound(pits') /\ Len(pits') = Len(Consumed) + 1 /\ Len(pits') \in DOMAIN pits'
    <3>1. "interval" \in Users
      BY DEF Users
    <3> QED BY <2>0, <2>1, <3>1, NewListener, Zenon
  <2>3. Same
    BY <1>0, <1>2, <2>1, <2>2 DEF interval_listener, Same
  <2>4. jobs' \in Seq(Job') /\ calls' \in 0..MaxCalls
    BY <1>2, <2>0, <2>3, JobsType DEF interval_listener, Same, TypeOK
  <2>5. interval' \in [on : BOOLEAN, removed : BOOLEAN, lined : BOOLEAN,
                       remove : {0} \cup DOMAIN pits']
    BY <1>2, <2>2 DEF interval_listener, TypeOK
  <2>6. same' = same
    BY <1>2 DEF interval_listener
  <2> QED BY <1>a, <2>3, <2>4, <2>5, <2>6, OthersType DEF Same
<1>3. CASE remove_listener
  <2>1. Sound(pits') /\ Len(pits') = Len(pits)
    BY <1>0, <1>3, UnsubSound, UnsubIs DEF remove_listener, TypeOK
  <2>2. Same
    BY <1>0, <1>3, <2>1 DEF remove_listener, Same
  <2>3. jobs' \in Seq(Job') /\ calls' \in 0..MaxCalls
    BY <1>3, <2>2, JobsType, CallsType DEF remove_listener, Same
  <2>4. interval' \in [on : BOOLEAN, removed : BOOLEAN, lined : BOOLEAN,
                       remove : {0} \cup DOMAIN pits']
    BY <1>3 DEF remove_listener, Queued
  <2>5. same' = same
    BY <1>3 DEF remove_listener
  <2> QED BY <1>a, <2>2, <2>3, <2>4, <2>5, OthersType DEF Same
<1>4. CASE async_track_same_state
  <2>0. clock + Period \in Int
    BY HelperConstants DEF TypeOK
  <2>1. Sound(pits') /\ Len(pits') = Len(pits) + 1 /\ Len(pits') \in DOMAIN pits'
    <3>1. pits' = async_track_point_in_utc_time(pits, "same", clock + Period)
      BY <1>4 DEF async_track_same_state
    <3>2. "same" \in Users
      BY DEF Users
    <3> QED BY <1>0, <2>0, <3>1, <3>2, NewListener, Zenon
  <2>2. Same
    BY <1>0, <1>4, <2>1 DEF async_track_same_state, Same
  <2>3. jobs' \in Seq(Job') /\ calls' \in 0..MaxCalls
    BY <1>4, <2>2, JobsType, CallsType DEF async_track_same_state, Same
  <2>4. same' \in [tracked : BOOLEAN, cancel : BOOLEAN, acted : BOOLEAN,
                   listener : {0} \cup DOMAIN pits']
    BY <1>4, <2>1 DEF async_track_same_state, Sound
  <2>5. interval' = interval
    BY <1>4 DEF async_track_same_state
  <2> QED BY <1>a, <2>2, <2>3, <2>4, <2>5, OthersType DEF Same
<1>5. CASE clear_listener
  <2>1. Sound(pits') /\ Len(pits') = Len(pits)
    BY <1>0, <1>5, UnsubSound, UnsubIs DEF clear_listener, TypeOK
  <2>2. Same
    BY <1>0, <1>5, <2>1 DEF clear_listener, Same
  <2>3. jobs' \in Seq(Job') /\ calls' \in 0..MaxCalls
    BY <1>5, <2>2, JobsType, CallsType DEF clear_listener, Same
  <2>4. same' \in [tracked : BOOLEAN, cancel : BOOLEAN, acted : BOOLEAN,
                   listener : {0} \cup DOMAIN pits']
    BY <1>5 DEF clear_listener, Cleared, TypeOK
  <2>5. interval' = interval
    BY <1>5 DEF clear_listener
  <2> QED BY <1>a, <2>2, <2>3, <2>4, <2>5, OthersType DEF Same
<1>6. CASE state_for_listener
  <2>1. Sound(pits') /\ Len(pits') = Len(pits) /\ jobs # <<>>
    BY <1>6, ConsumedSound, ConsumedIs DEF state_for_listener, PitRuns, Next_job
  <2>2. Same
    BY <1>0, <1>6, <2>1 DEF state_for_listener, Same
  <2>3. jobs' \in Seq(Job') /\ calls' \in 0..MaxCalls
    BY <1>6, <2>1, <2>2, JobsType DEF state_for_listener, Same, TypeOK
  <2>4. same' \in [tracked : BOOLEAN, cancel : BOOLEAN, acted : BOOLEAN,
                   listener : {0} \cup DOMAIN pits']
    BY <1>6 DEF state_for_listener, Cleared, TypeOK
  <2>5. interval' = interval
    BY <1>6 DEF state_for_listener
  <2> QED BY <1>a, <2>2, <2>3, <2>4, <2>5, OthersType DEF Same
<1>7. ASSUME NEW isSame \in BOOLEAN, StateChange(isSame) PROVE TypeOK'
  <2>1. Same /\ UNCHANGED <<interval, same>>
    BY <1>0, <1>7 DEF StateChange, Same, Sound
  <2>2. [stage |-> "state", same |-> isSame] \in Job'
    BY DEF Job
  <2>3. jobs' \in Seq(Job') /\ calls' \in 0..MaxCalls
    BY <1>7, <2>1, <2>2, JobsType, CallsType DEF StateChange, Same
  <2> QED BY <1>a, <2>1, <2>3, OthersType DEF Same
<1>8. CASE state_for_cancel_listener
  <2>a. same.listener \in {0} \cup DOMAIN pits /\ jobs # <<>>
    BY <1>8 DEF state_for_cancel_listener, Next_job, TypeOK
  <2>b. pits' = pits \/ pits' = Unsub(pits, same.listener)
    BY <1>8 DEF state_for_cancel_listener
  <2>1. Sound(pits') /\ Len(pits') = Len(pits) /\ jobs # <<>>
    <3>1. /\ Sound(Unsub(pits, same.listener))
          /\ Len(Unsub(pits, same.listener)) = Len(pits)
      BY <1>0, <2>a, UnsubSound, UnsubIs DEF Sound
    <3> QED BY <1>0, <2>a, <2>b, <3>1
  <2>2. Same
    BY <1>0, <1>8, <2>1 DEF state_for_cancel_listener, Same
  <2>3. jobs' \in Seq(Job') /\ calls' \in 0..MaxCalls
    BY <1>8, <2>1, <2>2, JobsType DEF state_for_cancel_listener, Same, TypeOK
  <2>4. same' \in [tracked : BOOLEAN, cancel : BOOLEAN, acted : BOOLEAN,
                   listener : {0} \cup DOMAIN pits']
    BY <1>8, <2>2, OthersType DEF state_for_cancel_listener, Cleared, TypeOK, Same
  <2>5. interval' = interval
    BY <1>8 DEF state_for_cancel_listener
  <2> QED BY <1>a, <2>2, <2>3, <2>4, <2>5, OthersType DEF Same
<1> QED BY <1>1, <1>2, <1>3, <1>4, <1>5, <1>6, <1>7, <1>8 DEF HelperJob, HelperCall

(* How long a run is: what start has to add to the clock.                  *)
LEMMA DurationType ==
  ASSUME TypeOK, NEW d \in Durations \cup {0}
  PROVE  /\ (IF d # 0 THEN d ELSE timer.dur) \in Nat
         /\ (IF d = 0 /\ timer.rem # 0 THEN timer.rem ELSE IF d # 0 THEN d ELSE timer.dur) \in Int
BY TimerConstants DEF TypeOK

LEMMA StoppedType ==
  ASSUME NEW D, NEW t \in TimerRecord(D)
  PROVE  [t EXCEPT !.state = "idle", !.listener = 0, !.rem = 0] \in TimerRecord(D)
<1>1. ASSUME NEW r \in Int
      PROVE  [t EXCEPT !.state = "idle", !.listener = 0, !.rem = r] \in TimerRecord(D)
  BY DEF TimerRecord
<1>2. 0 \in Int
  OBVIOUS
<1> QED BY <1>1, <1>2, Zenon

LEMMA ServedType ==
  TypeOK => /\ clock \in Nat /\ clock \in 0..clock
            /\ served \in Nat /\ served + clock - begun \in Nat
BY DEF TypeOK

LEMMA TimerType ==
  TypeOK /\ (TimerJob \/ TimerCall) /\ UNCHANGED helperVars => TypeOK'
<1> SUFFICES ASSUME TypeOK, TimerJob \/ TimerCall, UNCHANGED helperVars PROVE TypeOK'
  OBVIOUS
<1>0. Sound(pits) /\ Len(pits) \in Nat
  BY DEF Sound, TypeOK
<1>a. ASSUME Same, jobs' \in Seq(Job'), calls' \in 0..MaxCalls,
             timer' \in TimerRecord(DOMAIN pits'),
             served' \in Nat, begun' \in 0..clock, tidy' \in BOOLEAN
      PROVE  TypeOK'
  <2>1. /\ interval' \in [on : BOOLEAN, removed : BOOLEAN, lined : BOOLEAN,
                          remove : {0} \cup DOMAIN pits']
        /\ same' \in [tracked : BOOLEAN, cancel : BOOLEAN, acted : BOOLEAN,
                      listener : {0} \cup DOMAIN pits']
    BY <1>a, OthersType DEF Same, helperVars
  <2>2. pits' \in Seq(Pit) /\ \A k \in DOMAIN pits' : ~(pits'[k].sub /\ pits'[k].run)
    BY <1>a DEF Same, Sound
  <2> QED BY <1>a, <2>1, <2>2 DEF Same, TypeOK, TimerRecord
<1>b. ASSUME NEW k \in {0} \cup DOMAIN pits
      PROVE  Sound(Unsub(pits, k)) /\ Len(Unsub(pits, k)) = Len(pits)
  BY <1>0, UnsubSound, UnsubIs DEF Sound
<1>c. timer.listener \in {0} \cup DOMAIN pits /\ tidy \in BOOLEAN
  BY DEF TypeOK
<1>1. ASSUME NEW d \in Durations \cup {0}, async_start(d) PROVE TypeOK'
  <2> DEFINE dur == IF d # 0 THEN d ELSE timer.dur
             rem == IF d = 0 /\ timer.rem # 0 THEN timer.rem ELSE dur
             old == Unsub(pits, timer.listener)
  <2>1. dur \in Nat /\ rem \in Int
    BY DurationType, Zenon
  <2>2. Sound(old) /\ Len(old) = Len(pits)
    BY <1>b, <1>c, Zenon
  <2>3. /\ Call
        /\ pits' = async_track_point_in_utc_time(old, "timer", clock + rem)
        /\ timer' = [state |-> "active", listener |-> Len(pits'), dur |-> dur, rem |-> rem]
        /\ begun' = clock
        /\ served' \in {0, served, served + clock - begun}
    BY <1>1 DEF async_start
  <2> HIDE DEF dur, rem, old
  <2>4. Sound(pits') /\ Len(pits') = Len(old) + 1 /\ Len(pits') \in DOMAIN pits'
    <3>1. "timer" \in Users
      BY DEF Users
    <3>2. clock + rem \in Int
      BY <2>1, ServedType
    <3> QED BY <2>2, <2>3, <3>1, <3>2, NewListener, Zenon
  <2>5. Same
    BY <1>0, <2>2, <2>3, <2>4 DEF Same, Call
  <2>6. jobs' \in Seq(Job') /\ calls' \in 0..MaxCalls
    BY <2>3, <2>5, JobsType, CallsType DEF Call, Same
  <2>7. timer' \in TimerRecord(DOMAIN pits')
    BY <2>1, <2>3, <2>4 DEF TimerRecord
  <2>8. served' \in Nat /\ begun' \in 0..clock /\ tidy' \in BOOLEAN
    BY <2>3, ServedType DEF Call
  <2> QED BY <1>a, <2>5, <2>6, <2>7, <2>8
<1>2. CASE async_pause
  <2>1. /\ Call /\ UNCHANGED begun
        /\ pits' = Unsub(pits, timer.listener)
        /\ timer.listener \in DOMAIN pits
        /\ timer' = [timer EXCEPT !.state = "paused", !.listener = 0,
                                  !.rem = pits[timer.listener].at - clock]
        /\ served' = served + clock - begun
    BY <1>2, <1>c DEF async_pause
  <2>2. Same
    BY <1>0, <1>b, <1>c, <2>1 DEF Same, Call
  <2>3. jobs' \in Seq(Job') /\ calls' \in 0..MaxCalls
    BY <2>1, <2>2, JobsType, CallsType DEF Call, Same
  <2>4. pits[timer.listener].at - clock \in Int
    <3>1. pits[timer.listener] \in Pit
      BY <2>1 DEF TypeOK
    <3> QED BY <3>1, ServedType DEF Pit
  <2>5. timer' \in TimerRecord(DOMAIN pits')
    BY <2>1, <2>4 DEF TypeOK, TimerRecord
  <2>6. served' \in Nat /\ begun' \in 0..clock /\ tidy' \in BOOLEAN
    BY <2>1, ServedType DEF Call, TypeOK
  <2> QED BY <1>a, <2>2, <2>3, <2>5, <2>6
<1>3. CASE async_cancel
  <2>1. Same
    BY <1>0, <1>3, <1>b, <1>c DEF Same, Call, async_cancel
  <2>2. jobs' \in Seq(Job') /\ calls' \in 0..MaxCalls
    BY <1>3, <2>1, JobsType, CallsType DEF Call, Same, async_cancel
  <2>3. timer' = [timer EXCEPT !.state = "idle", !.listener = 0, !.rem = 0] \/ timer' = timer
    BY <1>3 DEF async_cancel
  <2>4. timer' \in TimerRecord(DOMAIN pits')
    <3>1. timer \in TimerRecord(DOMAIN pits')
      BY <2>1, OthersType, Zenon DEF Same
    <3>2. [timer EXCEPT !.state = "idle", !.listener = 0, !.rem = 0] \in TimerRecord(DOMAIN pits')
      BY <3>1, StoppedType, Zenon
    <3> QED BY <2>3, <3>1, <3>2, Zenon
  <2>5. served' \in Nat /\ begun' \in 0..clock /\ tidy' \in BOOLEAN
    BY <1>3 DEF TypeOK, async_cancel, Call
  <2> QED BY <1>a, <2>1, <2>2, <2>4, <2>5
<1>4. CASE async_finish
  <2>1. Same
    BY <1>0, <1>4 DEF Same, async_finish
  <2>2. jobs' \in Seq(Job') /\ calls' \in 0..MaxCalls
    BY <1>4, <2>1, JobsType, CallsType DEF Same, async_finish
  <2>3. timer' = [timer EXCEPT !.state = "idle", !.listener = 0, !.rem = 0] \/ timer' = timer
    BY <1>4 DEF async_finish, Finished
  <2>4. timer' \in TimerRecord(DOMAIN pits')
    <3>1. timer \in TimerRecord(DOMAIN pits')
      BY <2>1, OthersType, Zenon DEF Same
    <3>2. [timer EXCEPT !.state = "idle", !.listener = 0, !.rem = 0] \in TimerRecord(DOMAIN pits')
      BY <3>1, StoppedType, Zenon
    <3> QED BY <2>3, <3>1, <3>2, Zenon
  <2>5. served' \in Nat /\ begun' \in 0..clock /\ tidy' \in BOOLEAN
    BY <1>4 DEF TypeOK, async_finish, Call
  <2> QED BY <1>a, <2>1, <2>2, <2>4, <2>5
<1>5. CASE PointInTime
  <2>1. Sound(pits') /\ Len(pits') = Len(pits) /\ jobs # <<>>
    BY <1>5, ConsumedSound, ConsumedIs DEF PointInTime, PitRuns, Next_job
  <2>2. Same
    BY <1>0, <1>5, <2>1 DEF Same, PointInTime
  <2>3. [stage |-> "finished"] \in Job'
    BY DEF Job
  <2>4. jobs' \in Seq(Job') /\ calls' \in 0..MaxCalls
    BY <1>5, <2>1, <2>2, <2>3, JobsType DEF Same, PointInTime, TypeOK
  <2>5. /\ timer' \in TimerRecord(DOMAIN pits')
        /\ served' \in Nat /\ begun' \in 0..clock /\ tidy' \in BOOLEAN
    BY <1>5, <2>2, OthersType DEF TypeOK, PointInTime, timerVars, Same
  <2> QED BY <1>a, <2>2, <2>4, <2>5
<1>6. CASE async_finished
  <2>1. Same /\ jobs # <<>>
    BY <1>0, <1>6 DEF Same, async_finished, Next_job
  <2>2. jobs' \in Seq(Job') /\ calls' \in 0..MaxCalls
    BY <1>6, <2>1, JobsType DEF Same, async_finished, TypeOK
  <2>3. timer' = [timer EXCEPT !.state = "idle", !.listener = 0, !.rem = 0] \/ timer' = timer
    BY <1>6 DEF async_finished, Finished
  <2>4. timer' \in TimerRecord(DOMAIN pits')
    <3>1. timer \in TimerRecord(DOMAIN pits')
      BY <2>1, OthersType, Zenon DEF Same
    <3>2. [timer EXCEPT !.state = "idle", !.listener = 0, !.rem = 0] \in TimerRecord(DOMAIN pits')
      BY <3>1, StoppedType, Zenon
    <3> QED BY <2>3, <3>1, <3>2, Zenon
  <2>5. served' \in Nat /\ begun' \in 0..clock /\ tidy' \in BOOLEAN
    BY <1>6 DEF TypeOK, async_finished, Call
  <2> QED BY <1>a, <2>1, <2>2, <2>4, <2>5
<1> QED BY <1>1, <1>2, <1>3, <1>4, <1>5, <1>6 DEF TimerJob, TimerCall

(* The jobs of a time event refer to listeners that are there.             *)
LEMMA OrderIs ==
  ASSUME NEW n \in Nat, NEW K \in SUBSET (1..n), NEW ks \in InOrderOf(K)
  PROVE  ks \in Seq(K) /\ DOMAIN ks = 1..Len(ks)
<1>1. Cardinality(K) \in Nat
  <2>1. IsFiniteSet(1..n)
    BY FS_Interval
  <2>2. IsFiniteSet(K)
    BY <2>1, FS_Subset
  <2> QED BY <2>2, FS_CardinalityType
<1>2. ks \in [1..Cardinality(K) -> K]
  BY DEF InOrderOf
<1> QED BY <1>1, <1>2

LEMMA TimeType ==
  TypeOK /\ (Time \/ PitLapses) /\ UNCHANGED <<helperVars, timerVars>> => TypeOK'
<1> SUFFICES ASSUME TypeOK, Time \/ PitLapses, UNCHANGED <<helperVars, timerVars>>
             PROVE  TypeOK'
  OBVIOUS
<1>0. Sound(pits) /\ Len(pits) \in Nat /\ clock \in Nat /\ sent \in Nat
  BY DEF Sound, TypeOK
<1>1. CASE PassTime
  <2>1. clock' \in 0..MaxClock /\ sent' \in 0..clock' /\ begun' \in 0..clock'
    BY <1>1, TimeConstants DEF PassTime, TypeOK, timerVars
  <2>2. Job' = Job
    BY <1>1 DEF PassTime, Job
  <2> QED BY <1>1, <2>1, <2>2 DEF PassTime, TypeOK, helperVars, timerVars
<1>2. CASE fire_time_event
  <2> DEFINE K == {k \in DOMAIN pits : pits[k].sub}
  <2>1. PICK ks \in InOrderOf(K) :
          jobs' = jobs \o [n \in DOMAIN ks |-> [stage |-> "pit", k |-> ks[n], now |-> clock]]
    BY <1>2 DEF fire_time_event
  <2>2. ks \in Seq(K) /\ DOMAIN ks = 1..Len(ks)
    <3>1. K \in SUBSET (1..Len(pits))
      BY DEF TypeOK
    <3> HIDE DEF K
    <3> QED BY <1>0, <3>1, OrderIs
  <2> DEFINE new == [n \in DOMAIN ks |-> [stage |-> "pit", k |-> ks[n], now |-> clock]]
  <2>3. new \in Seq(Job')
    <3>1. sent' = clock /\ pits' = pits
      BY <1>2 DEF fire_time_event
    <3>2. \A n \in 1..Len(ks) : [stage |-> "pit", k |-> ks[n], now |-> clock] \in Job'
      BY <1>0, <2>2, <3>1 DEF Job
    <3> QED BY <2>2, <3>2
  <2>4. jobs \in Seq(Job')
    <3>1. Job \subseteq Job'
      BY <1>0, <1>2, JobGrows DEF fire_time_event, Sound
    <3> QED BY <3>1 DEF TypeOK
  <2> HIDE DEF new
  <2>5. jobs' \in Seq(Job')
    BY <2>1, <2>3, <2>4, ConcatProperties DEF new
  <2> QED BY <1>0, <1>2, <2>5 DEF fire_time_event, TypeOK, helperVars, timerVars
<1>3. CASE PitLapses
  <2>1. jobs # <<>>
    BY <1>3 DEF PitLapses, Next_job
  <2>2. jobs' \in Seq(Job')
    BY <1>0, <1>3, <2>1, JobsType DEF PitLapses
  <2> QED BY <1>3, <2>2 DEF PitLapses, TypeOK, helperVars, timerVars
<1> QED BY <1>1, <1>2, <1>3 DEF Time

LEMMA TypeStep == TypeOK /\ [Next]_vars => TypeOK'
<1>1. TypeOK /\ UNCHANGED vars => TypeOK'
  BY DEF vars, timeVars, helperVars, timerVars, TypeOK, Job
<1>2. TypeOK /\ Next => TypeOK'
  BY HelperType, TimerType, TimeType, Zenon DEF Next, RunJob, helperVars, timerVars
<1> QED BY <1>1, <1>2

LEMMA TypeInit == Init => TypeOK
BY TimeConstants, TimerConstants DEF Init, TimeInit, HelperInit, TimerInit, TypeOK

(* The types hold in every behaviour.                                      *)
THEOREM TypeCorrect == Spec => []TypeOK
BY TypeInit, TypeStep, PTL DEF Spec

-----------------------------------------------------------------------------
(* The inductive invariant.                                                *)

(* Of an interval's listeners only the newest has not run; remove removes  *)
(* it; and if no job was queued at its removal, nothing can renew it.      *)
IntervalInv ==
  /\ \A j, k \in 1..Len(pits) :
       pits[j].who = "interval" /\ pits[k].who = "interval" /\ ~pits[j].run /\ ~pits[k].run
         => j = k
  /\ interval.on =>
       /\ interval.remove \in 1..Len(pits)
       /\ pits[interval.remove].who = "interval" /\ pits[interval.remove].sub
  /\ ~interval.on /\ ~interval.removed => \A k \in 1..Len(pits) : pits[k].who # "interval"
  /\ interval.removed /\ ~interval.lined =>
       /\ \A k \in 1..Len(pits) : ~(pits[k].who = "interval" /\ pits[k].sub)
       /\ \A i \in 1..Len(jobs) : jobs[i].stage = "pit" => pits[jobs[i].k].who # "interval"

(* The tracker has one listener for its period, and it is there to be      *)
(* removed as long as the other one is.                                    *)
SameInv ==
  /\ \A j, k \in 1..Len(pits) : pits[j].who = "same" /\ pits[k].who = "same" => j = k
  /\ ~same.tracked => same.listener = 0 /\ \A k \in 1..Len(pits) : pits[k].who # "same"
  /\ same.listener # 0 => /\ ~same.acted /\ same.listener \in 1..Len(pits)
                          /\ pits[same.listener].who = "same"
  /\ same.listener = 0 => /\ ~same.cancel
                          /\ \A k \in 1..Len(pits) : ~(pits[k].who = "same" /\ pits[k].sub)

TimerInv ==
  /\ timer.listener # 0 => timer.listener \in 1..Len(pits) /\ pits[timer.listener].who = "timer"
  /\ ActiveWillEnd

(* A listener of the timer that is registered, or queued and has not run.  *)
Awaited(k) ==
  /\ pits[k].who = "timer"
  /\ \/ pits[k].sub
     \/ ~pits[k].run /\ \E i \in 1..Len(jobs) : jobs[i].stage = "pit" /\ jobs[i].k = k

FinishedQueued == \E i \in 1..Len(jobs) : jobs[i].stage = "finished"

(* How far the present run is.  What was served and what remains make up   *)
(* the duration at any moment; only the listener of the present run is     *)
(* awaited, and none any more once it has scheduled the coroutine.         *)
RunInv ==
  /\ timer.listener # 0 <=> Active
  /\ timer.state = "idle" => timer.rem \in {0, timer.dur}
  /\ tidy =>
       /\ timer.state # "idle" => served + timer.rem >= timer.dur
       /\ Active => pits[timer.listener].at = begun + timer.rem
       /\ \A k \in 1..Len(pits) : Awaited(k) => k = timer.listener
       /\ FinishedQueued => /\ \A k \in 1..Len(pits) : ~Awaited(k)
                            /\ Active => clock >= begun + timer.rem

(* What a step does that concerns others: to who's listeners nothing ...   *)
Spares(who) ==
  /\ Len(pits) <= Len(pits')
  /\ \A k \in 1..Len(pits) : /\ pits'[k].who = pits[k].who
                             /\ pits[k].who = who => pits'[k] = pits[k]
  /\ \A k \in 1..Len(pits') : pits'[k].who = who => k \in 1..Len(pits)

(* ... it queues jobs only for registered listeners ...                    *)
QueuesRegistered ==
  \A i \in 1..Len(jobs') : jobs'[i].stage = "pit" =>
    \/ \E m \in 1..Len(jobs) : jobs[m] = jobs'[i]
    \/ jobs'[i].k \in 1..Len(pits) /\ pits[jobs'[i].k].sub

(* ... and forgets no coroutine that is scheduled.                         *)
KeepsFinished ==
  \A i \in 1..Len(jobs) : jobs[i].stage = "finished" =>
    \E m \in 1..Len(jobs') : jobs'[m].stage = "finished"

(* A step that schedules no coroutine to end a run.                        *)
NoFinish ==
  \A i \in 1..Len(jobs') : jobs'[i].stage = "finished" => \E m \in 1..Len(jobs) : jobs[m] = jobs'[i]

LEMMA PitJob ==
  ASSUME TypeOK
  PROVE  /\ Len(pits) \in Nat /\ Len(jobs) \in Nat
         /\ DOMAIN pits = 1..Len(pits) /\ DOMAIN jobs = 1..Len(jobs)
         /\ \A k \in 1..Len(pits) : pits[k] \in Pit /\ ~(pits[k].sub /\ pits[k].run)
         /\ \A i \in 1..Len(jobs) : jobs[i].stage = "pit" => jobs[i].k \in 1..Len(pits)
<1>1. /\ Len(pits) \in Nat /\ Len(jobs) \in Nat
      /\ DOMAIN pits = 1..Len(pits) /\ DOMAIN jobs = 1..Len(jobs)
      /\ \A k \in 1..Len(pits) : pits[k] \in Pit /\ ~(pits[k].sub /\ pits[k].run)
      /\ \A i \in 1..Len(jobs) : jobs[i] \in Job
  BY DEF TypeOK
<1>2. \A j \in Job : j.stage = "pit" => j.k \in DOMAIN pits
  BY DEF Job
<1> QED BY <1>1, <1>2

LEMMA IntervalSpared ==
  ASSUME TypeOK, TypeOK', IntervalInv, Spares("interval"), QueuesRegistered, UNCHANGED interval
  PROVE  IntervalInv'
<1>0. Len(pits) \in Nat /\ Len(pits') \in Nat /\ Len(pits) <= Len(pits')
  BY PitJob DEF TypeOK, Spares
<1>1. \A k \in 1..Len(pits') : pits'[k].who = "interval" =>
        k \in 1..Len(pits) /\ pits'[k] = pits[k] /\ pits[k].who = "interval"
  BY DEF Spares
<1>2. \A k \in 1..Len(pits) : k \in 1..Len(pits') /\ pits'[k].who = pits[k].who
                              /\ (pits[k].who = "interval" => pits'[k] = pits[k])
  BY <1>0 DEF Spares
<1>3. \A j, k \in 1..Len(pits') :
        pits'[j].who = "interval" /\ pits'[k].who = "interval" /\ ~pits'[j].run /\ ~pits'[k].run
          => j = k
  BY <1>1 DEF IntervalInv
<1>4. interval.on => /\ interval.remove \in 1..Len(pits')
                     /\ pits'[interval.remove].who = "interval" /\ pits'[interval.remove].sub
  BY <1>2 DEF IntervalInv
<1>5. ~interval.on /\ ~interval.removed => \A k \in 1..Len(pits') : pits'[k].who # "interval"
  BY <1>1 DEF IntervalInv
<1>6. ASSUME interval.removed, ~interval.lined
      PROVE  /\ \A k \in 1..Len(pits') : ~(pits'[k].who = "interval" /\ pits'[k].sub)
             /\ \A i \in 1..Len(jobs') : jobs'[i].stage = "pit" => pits'[jobs'[i].k].who # "interval"
  <2>1. \A k \in 1..Len(pits) : ~(pits[k].who = "interval" /\ pits[k].sub)
    BY <1>6 DEF IntervalInv
  <2>2. \A k \in 1..Len(pits') : ~(pits'[k].who = "interval" /\ pits'[k].sub)
    BY <1>1, <2>1
  <2>3. ASSUME NEW i \in 1..Len(jobs'), jobs'[i].stage = "pit"
        PROVE  jobs'[i].k \in 1..Len(pits) /\ pits[jobs'[i].k].who # "interval"
    <3>1. CASE \E m \in 1..Len(jobs) : jobs[m] = jobs'[i]
      BY <1>6, <2>3, <3>1, PitJob DEF IntervalInv
    <3>2. CASE jobs'[i].k \in 1..Len(pits) /\ pits[jobs'[i].k].sub
      BY <2>1, <3>2
    <3> QED BY <2>3, <3>1, <3>2 DEF QueuesRegistered
  <2> QED BY <1>2, <2>2, <2>3
<1> QED BY <1>3, <1>4, <1>5, <1>6 DEF IntervalInv

LEMMA SameSpared ==
  ASSUME TypeOK, TypeOK', SameInv, Spares("same"), UNCHANGED same
  PROVE  SameInv'
<1>0. Len(pits) \in Nat /\ Len(pits') \in Nat /\ Len(pits) <= Len(pits')
  BY PitJob DEF TypeOK, Spares
<1>1. \A k \in 1..Len(pits') : pits'[k].who = "same" =>
        k \in 1..Len(pits) /\ pits'[k] = pits[k] /\ pits[k].who = "same"
  BY DEF Spares
<1>2. \A k \in 1..Len(pits) : k \in 1..Len(pits') /\ pits'[k].who = pits[k].who
  BY <1>0 DEF Spares
<1> QED BY <1>1, <1>2 DEF SameInv

LEMMA TimerSpared ==
  ASSUME TypeOK, TypeOK', TimerInv, Spares("timer"), KeepsFinished, UNCHANGED timer
  PROVE  TimerInv'
<1>0. Len(pits) \in Nat /\ Len(pits') \in Nat /\ Len(pits) <= Len(pits')
      /\ DOMAIN jobs = 1..Len(jobs) /\ DOMAIN jobs' = 1..Len(jobs')
  BY PitJob DEF TypeOK, Spares
<1>1. \A k \in 1..Len(pits) : k \in 1..Len(pits') /\ pits'[k].who = pits[k].who
                              /\ (pits[k].who = "timer" => pits'[k] = pits[k])
  BY <1>0 DEF Spares
<1>2. timer.listener # 0 => timer.listener \in 1..Len(pits) /\ pits[timer.listener].who = "timer"
  BY DEF TimerInv
<1>3. ActiveWillEnd'
  <2>1. CASE timer.listener # 0 /\ pits[timer.listener].sub
    BY <1>1, <1>2, <2>1 DEF ActiveWillEnd, Active
  <2>2. CASE \E i \in DOMAIN jobs : jobs[i].stage = "finished"
    BY <1>0, <2>2 DEF KeepsFinished, ActiveWillEnd, Active
  <2>3. CASE ~Active
    BY <2>3 DEF ActiveWillEnd, Active
  <2> QED BY <2>1, <2>2, <2>3 DEF TimerInv, ActiveWillEnd
<1> QED BY <1>1, <1>2, <1>3 DEF TimerInv

LEMMA RunSpared ==
  ASSUME TypeOK, TypeOK', TimerInv, RunInv, Spares("timer"), QueuesRegistered, NoFinish,
         UNCHANGED timerVars, clock <= clock'
  PROVE  RunInv'
<1>0. /\ Len(pits) \in Nat /\ Len(pits') \in Nat /\ Len(pits) <= Len(pits')
      /\ UNCHANGED <<timer, served, begun, tidy>>
  BY PitJob DEF TypeOK, Spares, timerVars
<1>1. \A k \in 1..Len(pits) : k \in 1..Len(pits') /\ pits'[k].who = pits[k].who
                              /\ (pits[k].who = "timer" => pits'[k] = pits[k])
  BY <1>0 DEF Spares
<1>2. FinishedQueued' => FinishedQueued
  BY DEF FinishedQueued, NoFinish
<1>3. ASSUME NEW k \in 1..Len(pits'), Awaited(k)'
      PROVE  k \in 1..Len(pits) /\ Awaited(k)
  <2>1. k \in 1..Len(pits) /\ pits'[k] = pits[k] /\ pits[k].who = "timer"
    BY <1>1, <1>3 DEF Awaited, Spares
  <2>2. CASE pits[k].sub
    BY <2>1, <2>2 DEF Awaited
  <2>3. ASSUME ~pits[k].sub PROVE Awaited(k)
    <3>1. ~pits[k].run /\ \E i \in 1..Len(jobs') : jobs'[i].stage = "pit" /\ jobs'[i].k = k
      BY <1>3, <2>1, <2>3 DEF Awaited
    <3>2. PICK i \in 1..Len(jobs') : jobs'[i].stage = "pit" /\ jobs'[i].k = k
      BY <3>1
    <3>3. \E m \in 1..Len(jobs) : jobs[m] = jobs'[i]
      BY <2>3, <3>2 DEF QueuesRegistered
    <3> QED BY <2>1, <3>1, <3>2, <3>3 DEF Awaited
  <2> QED BY <2>1, <2>2, <2>3
<1>4. Active' = Active
  BY <1>0 DEF Active
<1>5. ASSUME tidy, Active PROVE pits'[timer.listener].at = begun + timer.rem
  <2>1. timer.listener \in 1..Len(pits) /\ pits[timer.listener].who = "timer"
    BY <1>5 DEF RunInv, TimerInv
  <2> QED BY <1>1, <1>5, <2>1 DEF RunInv
<1>6. ASSUME tidy, FinishedQueued', Active PROVE clock' >= begun + timer.rem
  <2>1. clock >= begun + timer.rem
    BY <1>2, <1>6 DEF RunInv
  <2>2. clock \in Nat /\ clock' \in Nat /\ begun \in Nat /\ timer.rem \in Int
    BY TimeConstants DEF TypeOK
  <2> QED BY <2>1, <2>2
<1>7. tidy => /\ \A k \in 1..Len(pits') : Awaited(k)' => k = timer.listener
              /\ FinishedQueued' => \A k \in 1..Len(pits') : ~Awaited(k)'
  BY <1>2, <1>3 DEF RunInv
<1> QED BY <1>0, <1>4, <1>5, <1>6, <1>7 DEF RunInv

(* The three ways to change the listeners concern one user each.           *)
LEMMA NewSpares ==
  ASSUME TypeOK, NEW ps, Sound(ps), NEW u \in Users, NEW at \in Int, NEW who, who # u,
         Len(ps) = Len(pits),
         \A k \in 1..Len(pits) : /\ ps[k].who = pits[k].who
                                 /\ pits[k].who = who => ps[k] = pits[k],
         pits' = async_track_point_in_utc_time(ps, u, at)
  PROVE  Spares(who)
<1>1. /\ Len(pits') = Len(ps) + 1 /\ Len(pits) \in Nat
      /\ \A k \in 1..Len(ps) : pits'[k] = ps[k]
      /\ pits'[Len(ps) + 1] = [who |-> u, at |-> at, sub |-> TRUE, run |-> FALSE]
  BY TrackIs, PitJob, Zenon DEF Sound
<1>2. pits'[Len(pits) + 1].who = u
  BY <1>1
<1> QED BY <1>1, <1>2 DEF Spares

LEMMA UnsubSpares ==
  ASSUME TypeOK, NEW l \in {0} \cup DOMAIN pits, NEW who,
         l # 0 => pits[l].who # who
  PROVE  /\ Len(Unsub(pits, l)) = Len(pits)
         /\ \A k \in 1..Len(pits) : /\ Unsub(pits, l)[k].who = pits[k].who
                                    /\ pits[k].who = who => Unsub(pits, l)[k] = pits[k]
<1>0. pits \in Seq(Pit)
  BY DEF TypeOK
<1>1. /\ Len(Unsub(pits, l)) = Len(pits)
      /\ \A j \in 1..Len(pits) :
           Unsub(pits, l)[j] = IF j = l THEN [pits[j] EXCEPT !.sub = FALSE] ELSE pits[j]
  BY <1>0, UnsubIs, Zenon
<1>2. \A p \in Pit : [p EXCEPT !.sub = FALSE].who = p.who
  BY DEF Pit
<1>3. ASSUME NEW k \in 1..Len(pits)
      PROVE  /\ Unsub(pits, l)[k].who = pits[k].who
             /\ pits[k].who = who => Unsub(pits, l)[k] = pits[k]
  <2>1. CASE k = l
    <3>1. Unsub(pits, l)[k] = [pits[k] EXCEPT !.sub = FALSE]
      BY <1>1, <2>1, Zenon
    <3>2. pits[k] \in Pit /\ k # 0
      BY <1>0
    <3> QED BY <1>2, <2>1, <3>1, <3>2
  <2>2. CASE k # l
    BY <1>1, <2>2
  <2> QED BY <2>1, <2>2
<1> QED BY <1>1, <1>3

LEMMA SameLength ==
  ASSUME TypeOK, NEW who, Len(pits') = Len(pits),
         \A k \in 1..Len(pits) : /\ pits'[k].who = pits[k].who
                                 /\ pits[k].who = who => pits'[k] = pits[k]
  PROVE  Spares(who)
BY PitJob DEF Spares

LEMMA ConsumedSpares ==
  ASSUME TypeOK, NEW u, PitRuns(u)
  PROVE  /\ Len(Consumed) = Len(pits)
         /\ \A k \in 1..Len(pits) : /\ Consumed[k].who = pits[k].who
                                    /\ pits[k].who # u => Consumed[k] = pits[k]
<1>1. /\ Len(Consumed) = Len(pits) /\ pits[Head(jobs).k].who = u
      /\ \A j \in 1..Len(pits) :
           Consumed[j] = IF j = Head(jobs).k THEN [pits[j] EXCEPT !.run = TRUE, !.sub = FALSE]
                         ELSE pits[j]
  BY ConsumedIs, Zenon
<1>2. \A p \in Pit : [p EXCEPT !.run = TRUE, !.sub = FALSE].who = p.who
  BY DEF Pit
<1> QED BY <1>1, <1>2, PitJob

(* What is put into the queue by anything but a time event is no listener. *)
LEMMA Queues ==
  ASSUME TypeOK,
         \/ jobs' = jobs
         \/ jobs # <<>> /\ jobs' = Tail(jobs)
         \/ \E x : x.stage # "pit" /\ jobs' = Append(jobs, x)
         \/ jobs # <<>> /\ \E x : x.stage # "pit" /\ jobs' = Append(Tail(jobs), x)
  PROVE  QueuesRegistered
<1>1. jobs \in Seq(Job)
  BY DEF TypeOK
<1>2. jobs # <<>> => /\ Tail(jobs) \in Seq(Job) /\ Len(Tail(jobs)) = Len(jobs) - 1
                     /\ Len(jobs) \in Nat
                     /\ \A i \in 1..(Len(jobs) - 1) : Tail(jobs)[i] = jobs[i + 1]
  BY <1>1, TailIs, Zenon
<1>3. CASE jobs' = jobs
  BY <1>3 DEF QueuesRegistered
<1>4. CASE jobs # <<>> /\ jobs' = Tail(jobs)
  BY <1>2, <1>4 DEF QueuesRegistered
<1>5. ASSUME NEW x, x.stage # "pit", jobs' = Append(jobs, x) PROVE QueuesRegistered
  <2>1. Len(jobs') = Len(jobs) + 1 /\ jobs'[Len(jobs) + 1] = x
        /\ \A i \in 1..Len(jobs) : jobs'[i] = jobs[i]
    BY <1>1, <1>5
  <2> QED BY <1>1, <1>5, <2>1 DEF QueuesRegistered
<1>6. ASSUME jobs # <<>>, NEW x, x.stage # "pit", jobs' = Append(Tail(jobs), x)
      PROVE  QueuesRegistered
  <2>1. Len(jobs') = Len(jobs) /\ jobs'[Len(jobs)] = x
        /\ \A i \in 1..(Len(jobs) - 1) : jobs'[i] = jobs[i + 1]
    BY <1>2, <1>6
  <2>2. Len(jobs) \in 1..Len(jobs) /\ Len(jobs) \in Nat
    BY <1>2, <1>6
  <2>3. ASSUME NEW i \in 1..Len(jobs'), jobs'[i].stage = "pit"
        PROVE  \E m \in 1..Len(jobs) : jobs[m] = jobs'[i]
    <3>1. i # Len(jobs)
      BY <1>6, <2>1, <2>3, Zenon
    <3>2. i \in 1..(Len(jobs) - 1) /\ i + 1 \in 1..Len(jobs)
      BY <2>1, <2>2, <2>3, <3>1
    <3>3. jobs'[i] = jobs[i + 1]
      BY <2>1, <3>2, Zenon
    <3> QED BY <3>2, <3>3, Zenon
  <2> QED BY <2>3, Zenon DEF QueuesRegistered
<1> QED BY <1>3, <1>4, <1>5, <1>6

LEMMA Keeps ==
  ASSUME TypeOK,
         \/ jobs' = jobs
         \/ jobs # <<>> /\ Head(jobs).stage # "finished" /\ jobs' = Tail(jobs)
         \/ \E x : jobs' = Append(jobs, x)
  PROVE  KeepsFinished
<1>1. jobs \in Seq(Job)
  BY DEF TypeOK
<1>2. CASE jobs' = jobs
  BY <1>2 DEF KeepsFinished
<1>3. CASE jobs # <<>> /\ Head(jobs).stage # "finished" /\ jobs' = Tail(jobs)
  <2>1. /\ Len(jobs') = Len(jobs) - 1 /\ Len(jobs) \in Nat \ {0}
        /\ \A i \in 1..(Len(jobs) - 1) : jobs'[i] = jobs[i + 1]
    BY <1>1, <1>3, TailIs, Zenon
  <2>2. jobs[1].stage # "finished"
    BY <1>1, <1>3
  <2>3. ASSUME NEW i \in 1..Len(jobs), jobs[i].stage = "finished"
        PROVE  i - 1 \in 1..Len(jobs') /\ jobs'[i - 1].stage = "finished"
    <3>1. i - 1 \in 1..(Len(jobs) - 1)
      BY <2>1, <2>2, <2>3
    <3>2. jobs'[i - 1] = jobs[(i - 1) + 1] /\ (i - 1) + 1 = i
      BY <2>1, <3>1
    <3> QED BY <2>1, <2>3, <3>1, <3>2
  <2> QED BY <2>3 DEF KeepsFinished
<1>4. ASSUME NEW x, jobs' = Append(jobs, x) PROVE KeepsFinished
  <2>1. Len(jobs') = Len(jobs) + 1 /\ Len(jobs) \in Nat
        /\ \A i \in 1..Len(jobs) : jobs'[i] = jobs[i]
    BY <1>1, <1>4
  <2> QED BY <2>1 DEF KeepsFinished
<1> QED BY <1>2, <1>3, <1>4

LEMMA ConcatIs ==
  ASSUME NEW S, NEW T, NEW s \in Seq(S), NEW t \in Seq(T)
  PROVE  /\ Len(s \o t) = Len(s) + Len(t) /\ Len(s) \in Nat /\ Len(t) \in Nat
         /\ \A i \in 1..Len(s) : (s \o t)[i] = s[i]
         /\ \A i \in 1..Len(s \o t) : i > Len(s) => (s \o t)[i] = t[i - Len(s)]
OBVIOUS

(* A time event queues the registered listeners behind what is there.      *)
LEMMA FireQueues ==
  ASSUME TypeOK, fire_time_event
  PROVE  QueuesRegistered /\ KeepsFinished
<1> DEFINE K == {k \in DOMAIN pits : pits[k].sub}
<1>0. jobs \in Seq(Job) /\ pits \in Seq(Pit)
  BY DEF TypeOK
<1>1. PICK ks \in InOrderOf(K) :
        jobs' = jobs \o [n \in DOMAIN ks |-> [stage |-> "pit", k |-> ks[n], now |-> clock]]
  BY DEF fire_time_event
<1>2. ks \in Seq(K) /\ DOMAIN ks = 1..Len(ks)
  <2>1. K \in SUBSET (1..Len(pits)) /\ Len(pits) \in Nat
    BY <1>0
  <2> HIDE DEF K
  <2> QED BY <2>1, OrderIs
<1> DEFINE new == [n \in DOMAIN ks |-> [stage |-> "pit", k |-> ks[n], now |-> clock]]
<1>3. /\ new \in Seq([stage : {"pit"}, k : K, now : {clock}]) /\ Len(new) = Len(ks)
      /\ \A n \in 1..Len(ks) : new[n].k \in K
  BY <1>2
<1> HIDE DEF new
<1>4. jobs' = jobs \o new
  BY <1>1 DEF new
<1>5. /\ Len(jobs') = Len(jobs) + Len(new) /\ Len(jobs) \in Nat /\ Len(new) \in Nat
      /\ \A i \in 1..Len(jobs) : jobs'[i] = jobs[i]
      /\ \A i \in 1..Len(jobs') : i > Len(jobs) => jobs'[i] = new[i - Len(jobs)]
  <2> DEFINE S == [stage : {"pit"}, k : K, now : {clock}]
  <2>1. new \in Seq(S) /\ jobs \in Seq(Job)
    BY <1>0, <1>3, Zenon
  <2> HIDE DEF S
  <2>2. /\ Len(jobs \o new) = Len(jobs) + Len(new) /\ Len(jobs) \in Nat /\ Len(new) \in Nat
        /\ \A i \in 1..Len(jobs) : (jobs \o new)[i] = jobs[i]
        /\ \A i \in 1..Len(jobs \o new) : i > Len(jobs) => (jobs \o new)[i] = new[i - Len(jobs)]
    BY <2>1, ConcatIs
  <2> QED BY <1>4, <2>2, Zenon
<1>6. KeepsFinished
  BY <1>5 DEF KeepsFinished
<1>7. ASSUME NEW i \in 1..Len(jobs')
      PROVE  \/ \E m \in 1..Len(jobs) : jobs[m] = jobs'[i]
             \/ jobs'[i].k \in 1..Len(pits) /\ pits[jobs'[i].k].sub
  <2>1. CASE i <= Len(jobs)
    BY <1>5, <2>1
  <2>2. CASE i > Len(jobs)
    <3>1. i - Len(jobs) \in 1..Len(ks) /\ jobs'[i] = new[i - Len(jobs)]
      BY <1>3, <1>5, <2>2
    <3>2. jobs'[i].k \in K
      BY <1>3, <3>1
    <3> QED BY <1>0, <3>2
  <2> QED BY <1>5, <2>1, <2>2
<1> QED BY <1>6, <1>7 DEF QueuesRegistered

LEMMA FireNoFinish ==
  ASSUME TypeOK, fire_time_event
  PROVE  NoFinish
<1> DEFINE K == {k \in DOMAIN pits : pits[k].sub}
<1>0. jobs \in Seq(Job) /\ pits \in Seq(Pit)
  BY DEF TypeOK
<1>1. PICK ks \in InOrderOf(K) :
        jobs' = jobs \o [n \in DOMAIN ks |-> [stage |-> "pit", k |-> ks[n], now |-> clock]]
  BY DEF fire_time_event
<1>2. ks \in Seq(K) /\ DOMAIN ks = 1..Len(ks)
  <2>1. K \in SUBSET (1..Len(pits)) /\ Len(pits) \in Nat
    BY <1>0
  <2> HIDE DEF K
  <2> QED BY <2>1, OrderIs
<1> DEFINE S == [stage : {"pit"}, k : K, now : {clock}]
           new == [n \in DOMAIN ks |-> [stage |-> "pit", k |-> ks[n], now |-> clock]]
<1>3. new \in Seq(S)
  BY <1>2
<1>4. \A x \in S : x.stage = "pit"
  OBVIOUS
<1> HIDE DEF new, S
<1>5. /\ Len(jobs \o new) = Len(jobs) + Len(new) /\ Len(jobs) \in Nat /\ Len(new) \in Nat
      /\ \A i \in 1..Len(jobs) : (jobs \o new)[i] = jobs[i]
      /\ \A i \in 1..Len(jobs \o new) : i > Len(jobs) => (jobs \o new)[i] = new[i - Len(jobs)]
  BY <1>0, <1>3, ConcatIs
<1>6. jobs' = jobs \o new
  BY <1>1 DEF new
<1>7. ASSUME NEW i \in 1..Len(jobs'), jobs'[i].stage = "finished"
      PROVE  \E m \in 1..Len(jobs) : jobs[m] = jobs'[i]
  <2>1. CASE i <= Len(jobs)
    BY <1>5, <1>6, <2>1
  <2>2. CASE i > Len(jobs)
    <3>1. i - Len(jobs) \in 1..Len(new) /\ jobs'[i] = new[i - Len(jobs)]
      BY <1>5, <1>6, <2>2
    <3>2. new[i - Len(jobs)] \in S
      BY <1>3, <3>1
    <3> QED BY <1>4, <1>7, <3>1, <3>2
  <2> QED BY <1>5, <1>6, <2>1, <2>2
<1> QED BY <1>7 DEF NoFinish

-----------------------------------------------------------------------------
(* The steps, by whom they concern.                                        *)
TimeAct == Time \/ PitLapses
IntervalAct == async_track_time_interval \/ interval_listener \/ remove_listener
SameAct ==
  \/ async_track_same_state \/ clear_listener \/ state_for_listener
  \/ state_for_cancel_listener \/ \E isSame \in BOOLEAN : StateChange(isSame)
TimerAct == TimerJob \/ TimerCall

LEMMA Concerns ==
  Next => \/ TimeAct /\ UNCHANGED <<interval, same, timerVars>>
          \/ IntervalAct /\ UNCHANGED <<same, timerVars>>
          \/ SameAct /\ UNCHANGED <<interval, timerVars>>
          \/ TimerAct /\ UNCHANGED <<interval, same>>
<1>1. (HelperJob \/ HelperCall) /\ UNCHANGED timerVars =>
        \/ IntervalAct /\ UNCHANGED <<same, timerVars>>
        \/ SameAct /\ UNCHANGED <<interval, timerVars>>
  <2>1. IntervalAct => UNCHANGED same
    BY DEF IntervalAct, async_track_time_interval, interval_listener, remove_listener
  <2>2. SameAct => UNCHANGED interval
    BY DEF SameAct, async_track_same_state, clear_listener, state_for_listener,
           state_for_cancel_listener, StateChange
  <2> QED BY <2>1, <2>2 DEF HelperJob, HelperCall, IntervalAct, SameAct, timerVars
<1> QED BY <1>1 DEF Next, RunJob, TimeAct, TimerAct, helperVars, timerVars

(* What a step leaves alone: the queue ...                                 *)
LEMMA StepKeeps ==
  ASSUME TypeOK, TimeAct \/ IntervalAct \/ SameAct
  PROVE  QueuesRegistered /\ KeepsFinished
<1>1. CASE fire_time_event
  BY <1>1, FireQueues
<1>2. CASE PassTime \/ PitLapses \/ IntervalAct
  <2>1. \/ jobs' = jobs
        \/ jobs # <<>> /\ Head(jobs).stage # "finished" /\ jobs' = Tail(jobs)
    BY <1>2 DEF PassTime, PitLapses, IntervalAct, async_track_time_interval,
                interval_listener, remove_listener, PitRuns, Next_job
  <2> QED BY <2>1, Queues, Keeps
<1>3. ASSUME NEW isSame \in BOOLEAN, StateChange(isSame)
      PROVE  QueuesRegistered /\ KeepsFinished
  <2>1. jobs' = jobs \/ jobs' = Append(jobs, [stage |-> "state", same |-> isSame])
    BY <1>3 DEF StateChange
  <2>2. [stage |-> "state", same |-> isSame].stage # "pit"
    OBVIOUS
  <2> QED BY <2>1, <2>2, Queues, Keeps
<1>4. CASE \/ async_track_same_state \/ clear_listener \/ state_for_listener
           \/ state_for_cancel_listener
  <2>1. \/ jobs' = jobs
        \/ jobs # <<>> /\ Head(jobs).stage # "finished" /\ jobs' = Tail(jobs)
    BY <1>4 DEF async_track_same_state, clear_listener, state_for_listener,
                state_for_cancel_listener, PitRuns, Next_job
  <2> QED BY <2>1, Queues, Keeps
<1> QED BY <1>1, <1>2, <1>3, <1>4 DEF TimeAct, Time, SameAct

LEMMA StepNoFinish ==
  ASSUME TypeOK, TimeAct \/ IntervalAct \/ SameAct
  PROVE  NoFinish
<1>0. jobs \in Seq(Job)
  BY DEF TypeOK
<1>a. CASE jobs' = jobs
  BY <1>a DEF NoFinish
<1>b. CASE jobs # <<>> /\ jobs' = Tail(jobs)
  <2>1. Len(jobs') = Len(jobs) - 1 /\ \A i \in 1..(Len(jobs) - 1) : jobs'[i] = jobs[i + 1]
    BY <1>0, <1>b, TailIs, Zenon
  <2> QED BY <1>0, <2>1 DEF NoFinish
<1>1. CASE fire_time_event
  BY <1>1, FireNoFinish
<1>2. CASE PassTime \/ PitLapses \/ IntervalAct
  <2>1. jobs' = jobs \/ (jobs # <<>> /\ jobs' = Tail(jobs))
    BY <1>2 DEF PassTime, PitLapses, IntervalAct, async_track_time_interval,
                interval_listener, remove_listener, PitRuns, Next_job
  <2> QED BY <1>a, <1>b, <2>1
<1>3. ASSUME NEW isSame \in BOOLEAN, StateChange(isSame) PROVE NoFinish
  <2> DEFINE x == [stage |-> "state", same |-> isSame]
  <2>1. jobs' = jobs \/ jobs' = Append(jobs, x)
    BY <1>3 DEF StateChange
  <2>2. x.stage = "state"
    OBVIOUS
  <2> HIDE DEF x
  <2>3. CASE jobs' = Append(jobs, x)
    <3>1. Len(jobs') = Len(jobs) + 1 /\ jobs'[Len(jobs) + 1] = x
          /\ \A i \in 1..Len(jobs) : jobs'[i] = jobs[i]
      BY <1>0, <2>3
    <3> QED BY <1>0, <2>2, <3>1 DEF NoFinish
  <2> QED BY <1>a, <2>1, <2>3
<1>4. CASE \/ async_track_same_state \/ clear_listener \/ state_for_listener
           \/ state_for_cancel_listener
  <2>1. jobs' = jobs \/ (jobs # <<>> /\ jobs' = Tail(jobs))
    BY <1>4 DEF async_track_same_state, clear_listener, state_for_listener,
                state_for_cancel_listener, PitRuns, Next_job
  <2> QED BY <1>a, <1>b, <2>1
<1> QED BY <1>1, <1>2, <1>3, <1>4 DEF TimeAct, Time, SameAct

LEMMA TimerQueues == TypeOK /\ TimerAct => QueuesRegistered
<1> SUFFICES ASSUME TypeOK, TimerAct PROVE QueuesRegistered
  OBVIOUS
<1>1. CASE TimerCall
  <2>1. jobs' = jobs
    BY <1>1 DEF TimerCall, async_start, async_pause, async_cancel, async_finish, Call
  <2> QED BY <2>1, Queues
<1>2. CASE PointInTime
  <2>1. /\ jobs # <<>> /\ jobs' = Append(Tail(jobs), [stage |-> "finished"])
        /\ [stage |-> "finished"].stage # "pit"
    BY <1>2 DEF PointInTime, PitRuns, Next_job
  <2> QED BY <2>1, Queues
<1>3. CASE async_finished
  BY <1>3, Queues DEF async_finished, Next_job
<1> QED BY <1>1, <1>2, <1>3 DEF TimerAct, TimerJob

(* ... and the listeners of the others.                                    *)
LEMMA PitsSound ==
  ASSUME TypeOK
  PROVE  /\ Sound(pits) /\ pits \in Seq(Pit) /\ Len(pits) \in Nat
         /\ \A k \in 1..Len(pits) : pits[k] \in Pit /\ ~(pits[k].sub /\ pits[k].run)
<1>1. pits \in Seq(Pit) /\ \A k \in DOMAIN pits : ~(pits[k].sub /\ pits[k].run)
  BY Zenon DEF TypeOK
<1>2. DOMAIN pits = 1..Len(pits) /\ Len(pits) \in Nat /\ \A k \in 1..Len(pits) : pits[k] \in Pit
  BY <1>1
<1> QED BY <1>1, <1>2, Zenon DEF Sound

LEMMA UsersAre == {"interval", "same", "timer"} \subseteq Users
BY DEF Users

LEMMA Listeners ==
  ASSUME TypeOK
  PROVE  /\ interval.remove \in {0} \cup DOMAIN pits
         /\ same.listener \in {0} \cup DOMAIN pits
         /\ timer.listener \in {0} \cup DOMAIN pits
BY DEF TypeOK

LEMMA Untouched == TypeOK /\ UNCHANGED pits => \A who \in Users : Spares(who)
BY PitJob DEF Spares

LEMMA IntervalSpares ==
  ASSUME TypeOK, TypeOK', IntervalInv, IntervalAct, NEW who \in Users, who # "interval"
  PROVE  Spares(who)
<1>0. Sound(pits) /\ "interval" \in Users
  BY PitsSound, UsersAre, Listeners, Zenon
<1>1. CASE async_track_time_interval
  <2>1. /\ clock + Interval \in Int
        /\ pits' = async_track_point_in_utc_time(pits, "interval", clock + Interval)
    BY <1>1, HelperConstants, SMTT(30) DEF async_track_time_interval, TypeOK
  <2> QED BY <1>0, <2>1, NewSpares, Zenon
<1>2. CASE interval_listener
  <2>1. /\ clock + Interval \in Int /\ PitRuns("interval")
        /\ pits' = async_track_point_in_utc_time(Consumed, "interval", clock + Interval)
    BY <1>2, HelperConstants, SMTT(30) DEF interval_listener, TypeOK
  <2>2. Sound(Consumed)
    BY <2>1, ConsumedSound
  <2>3. /\ Len(Consumed) = Len(pits)
        /\ \A k \in 1..Len(pits) : /\ Consumed[k].who = pits[k].who
                                   /\ pits[k].who = who => Consumed[k] = pits[k]
    <3>1. /\ Len(Consumed) = Len(pits)
          /\ \A k \in 1..Len(pits) : /\ Consumed[k].who = pits[k].who
                                     /\ pits[k].who # "interval" => Consumed[k] = pits[k]
      BY <2>1, ConsumedSpares, Zenon
    <3> HIDE DEF Consumed
    <3> QED BY <3>1
  <2> HIDE DEF Consumed
  <2> QED BY <1>0, <2>1, <2>2, <2>3, NewSpares, Zenon
<1>3. CASE remove_listener
  <2>1. pits' = Unsub(pits, interval.remove) /\ interval.remove \in DOMAIN pits
        /\ pits[interval.remove].who # who
    BY <1>3, PitJob DEF remove_listener, IntervalInv
  <2>2. /\ Len(pits') = Len(pits)
        /\ \A k \in 1..Len(pits) : /\ pits'[k].who = pits[k].who
                                   /\ pits[k].who = who => pits'[k] = pits[k]
    BY <2>1, UnsubSpares, ZenonT(60)
  <2> QED BY <2>2, SameLength, Zenon
<1> QED BY <1>1, <1>2, <1>3 DEF IntervalAct

LEMMA SameSpares ==
  ASSUME TypeOK, TypeOK', SameInv, SameAct, NEW who \in Users, who # "same"
  PROVE  Spares(who)
<1>0. Sound(pits) /\ "same" \in Users
  BY PitsSound, UsersAre, Listeners, Zenon
<1>1. CASE async_track_same_state
  <2>1. /\ clock + Period \in Int
        /\ pits' = async_track_point_in_utc_time(pits, "same", clock + Period)
    BY <1>1, HelperConstants DEF async_track_same_state, TypeOK
  <2> QED BY <1>0, <2>1, NewSpares, Zenon
<1>2. CASE state_for_listener
  <2>1. pits' = Consumed /\ PitRuns("same")
    BY <1>2 DEF state_for_listener
  <2>2. /\ Len(Consumed) = Len(pits)
        /\ \A k \in 1..Len(pits) : /\ Consumed[k].who = pits[k].who
                                   /\ pits[k].who = who => Consumed[k] = pits[k]
    <3>1. /\ Len(Consumed) = Len(pits)
          /\ \A k \in 1..Len(pits) : /\ Consumed[k].who = pits[k].who
                                     /\ pits[k].who # "same" => Consumed[k] = pits[k]
      BY <2>1, ConsumedSpares, Zenon
    <3> HIDE DEF Consumed
    <3> QED BY <3>1
  <2> HIDE DEF Consumed
  <2> QED BY <2>1, <2>2, SameLength, Zenon
<1>3. CASE pits' = Unsub(pits, same.listener)
  <2>1. /\ same.listener \in {0} \cup DOMAIN pits
        /\ same.listener # 0 => pits[same.listener].who # who
    BY DEF SameInv, TypeOK
  <2>2. /\ Len(pits') = Len(pits)
        /\ \A k \in 1..Len(pits) : /\ pits'[k].who = pits[k].who
                                   /\ pits[k].who = who => pits'[k] = pits[k]
    BY <1>3, <2>1, UnsubSpares, Zenon
  <2> QED BY <2>2, SameLength, Zenon
<1>4. CASE UNCHANGED pits
  BY <1>4, Untouched
<1> QED BY <1>1, <1>2, <1>3, <1>4
        DEF SameAct, clear_listener, state_for_cancel_listener, StateChange

LEMMA TimerSpares ==
  ASSUME TypeOK, TypeOK', TimerInv, TimerAct, NEW who \in Users, who # "timer"
  PROVE  Spares(who)
<1>0. Sound(pits) /\ "timer" \in Users
  BY PitsSound, UsersAre, Listeners, Zenon
<1>a. /\ timer.listener \in {0} \cup DOMAIN pits
      /\ timer.listener # 0 => pits[timer.listener].who # who
  BY DEF TimerInv, TypeOK
<1>b. /\ Len(Unsub(pits, timer.listener)) = Len(pits)
      /\ \A k \in 1..Len(pits) :
           /\ Unsub(pits, timer.listener)[k].who = pits[k].who
           /\ pits[k].who = who => Unsub(pits, timer.listener)[k] = pits[k]
  BY <1>a, UnsubSpares, Zenon
<1>1. ASSUME NEW d \in Durations \cup {0}, async_start(d) PROVE Spares(who)
  <2> DEFINE dur == IF d # 0 THEN d ELSE timer.dur
             rem == IF d = 0 /\ timer.rem # 0 THEN timer.rem ELSE dur
             old == Unsub(pits, timer.listener)
  <2>1. pits' = async_track_point_in_utc_time(old, "timer", clock + rem)
    BY <1>1 DEF async_start
  <2>2. rem \in Int
    BY DurationType, Zenon
  <2>3. Sound(old) /\ Len(old) = Len(pits)
    BY <1>0, <1>a, <1>b, UnsubSound, Zenon
  <2>4. \A k \in 1..Len(pits) : /\ old[k].who = pits[k].who
                                /\ pits[k].who = who => old[k] = pits[k]
    BY <1>b
  <2> HIDE DEF old, rem
  <2>5. clock + rem \in Int
    BY <2>2 DEF TypeOK
  <2> QED BY <1>0, <2>1, <2>3, <2>4, <2>5, NewSpares, Zenon
<1>2. CASE pits' = Unsub(pits, timer.listener)
  BY <1>2, <1>b, SameLength, Zenon
<1>3. CASE PointInTime
  <2>1. pits' = Consumed /\ PitRuns("timer")
    BY <1>3 DEF PointInTime
  <2>2. /\ Len(Consumed) = Len(pits)
        /\ \A k \in 1..Len(pits) : /\ Consumed[k].who = pits[k].who
                                   /\ pits[k].who = who => Consumed[k] = pits[k]
    <3>1. /\ Len(Consumed) = Len(pits)
          /\ \A k \in 1..Len(pits) : /\ Consumed[k].who = pits[k].who
                                     /\ pits[k].who # "timer" => Consumed[k] = pits[k]
      BY <2>1, ConsumedSpares, Zenon
    <3> HIDE DEF Consumed
    <3> QED BY <3>1
  <2> HIDE DEF Consumed
  <2> QED BY <2>1, <2>2, SameLength, Zenon
<1>4. CASE UNCHANGED pits
  BY <1>4, Untouched
<1> QED BY <1>1, <1>2, <1>3, <1>4
        DEF TimerAct, TimerJob, TimerCall, async_pause, async_cancel, async_finish, async_finished

(* What the steps of each do to its own part of the invariant.             *)
LEMMA IntervalOwn ==
  ASSUME TypeOK, TypeOK', IntervalInv, IntervalAct
  PROVE  IntervalInv'
<1>0. /\ Sound(pits) /\ pits \in Seq(Pit) /\ "interval" \in Users /\ Len(pits) \in Nat
      /\ \A k \in 1..Len(pits) : pits[k] \in Pit /\ ~(pits[k].sub /\ pits[k].run)
  BY PitsSound, UsersAre, Listeners, Zenon
<1>1. CASE async_track_time_interval
  <2>1. /\ clock + Interval \in Int
        /\ pits' = async_track_point_in_utc_time(pits, "interval", clock + Interval)
        /\ interval.on = FALSE /\ interval.removed = FALSE
        /\ interval' = [interval EXCEPT !.on = TRUE, !.remove = Len(pits')]
    BY <1>1, HelperConstants, SMTT(30) DEF async_track_time_interval, TypeOK
  <2>2. /\ Len(pits') = Len(pits) + 1
        /\ \A k \in 1..Len(pits) : pits'[k] = pits[k]
        /\ pits'[Len(pits) + 1]
             = [who |-> "interval", at |-> clock + Interval, sub |-> TRUE, run |-> FALSE]
    BY <1>0, <2>1, TrackIs, Zenon
  <2>3. interval'.on /\ ~interval'.removed /\ interval'.remove = Len(pits) + 1
    BY <2>1, <2>2 DEF TypeOK
  <2>4. \A k \in 1..Len(pits) : pits'[k].who # "interval"
    BY <2>1, <2>2 DEF IntervalInv
  <2>5. /\ Len(pits) + 1 \in 1..Len(pits')
        /\ pits'[Len(pits) + 1].who = "interval" /\ pits'[Len(pits) + 1].sub
    BY <1>0, <2>2
  <2>6. \A k \in 1..Len(pits') : pits'[k].who = "interval" => k = Len(pits) + 1
    BY <1>0, <2>2, <2>4
  <2> QED BY <2>3, <2>5, <2>6 DEF IntervalInv
<1>2. CASE interval_listener
  <2> DEFINE n == Len(pits) + 1
  <2>1. /\ clock + Interval \in Int /\ PitRuns("interval")
        /\ jobs # <<>> /\ Head(jobs).stage = "pit"
        /\ pits' = async_track_point_in_utc_time(Consumed, "interval", clock + Interval)
        /\ interval' = [interval EXCEPT !.remove = Len(pits')]
    BY <1>2, HelperConstants, SMTT(30) DEF interval_listener, TypeOK, PitRuns, Next_job
  <2>2. /\ Head(jobs).k \in 1..Len(pits) /\ pits[Head(jobs).k].who = "interval"
        /\ ~pits[Head(jobs).k].run /\ Consumed \in Seq(Pit) /\ Len(Consumed) = Len(pits)
        /\ \A j \in 1..Len(pits) :
             Consumed[j] = IF j = Head(jobs).k
                             THEN [pits[j] EXCEPT !.run = TRUE, !.sub = FALSE]
                             ELSE pits[j]
    BY <2>1, ConsumedIs, Zenon
  <2>3. \A p \in Pit : /\ [p EXCEPT !.run = TRUE, !.sub = FALSE].who = p.who
                       /\ [p EXCEPT !.run = TRUE, !.sub = FALSE].run
    BY DEF Pit
  <2>4. \A j \in 1..Len(pits) : Consumed[j].who = "interval" => Consumed[j].run
    <3>1. SUFFICES ASSUME NEW j \in 1..Len(pits), Consumed[j].who = "interval"
                   PROVE  Consumed[j].run
      OBVIOUS
    <3>2. CASE j = Head(jobs).k
      BY <1>0, <2>2, <2>3, <3>2
    <3>3. CASE j # Head(jobs).k
      BY <2>2, <3>1, <3>3 DEF IntervalInv
    <3> QED BY <3>2, <3>3
  <2>5. /\ Len(pits') = n
        /\ \A k \in 1..Len(pits) : pits'[k] = Consumed[k]
        /\ pits'[n]
             = [who |-> "interval", at |-> clock + Interval, sub |-> TRUE, run |-> FALSE]
    <3>1. /\ Len(pits') = Len(Consumed) + 1
          /\ \A k \in 1..Len(Consumed) : pits'[k] = Consumed[k]
          /\ pits'[Len(Consumed) + 1]
               = [who |-> "interval", at |-> clock + Interval, sub |-> TRUE, run |-> FALSE]
      <4> DEFINE old == Consumed
      <4>1. old \in Seq(Pit) /\ pits' = async_track_point_in_utc_time(old, "interval", clock + Interval)
        BY <2>1, <2>2, Zenon
      <4>2. "interval" \in Users /\ clock + Interval \in Int
        BY <1>0, <2>1, Zenon
      <4> HIDE DEF old
      <4>3. /\ Len(pits') = Len(old) + 1
            /\ \A k \in 1..Len(old) : pits'[k] = old[k]
            /\ pits'[Len(old) + 1]
                 = [who |-> "interval", at |-> clock + Interval, sub |-> TRUE, run |-> FALSE]
        BY <4>1, <4>2, TrackIs, Zenon
      <4> QED BY <4>3, Zenon DEF old
    <3> QED BY <2>2, <3>1
  <2>6. /\ interval'.on = interval.on /\ interval'.removed = interval.removed
        /\ interval'.lined = interval.lined /\ interval'.remove = n
    BY <2>1, <2>5 DEF TypeOK
  <2>7. interval.on \/ interval.removed
    BY <2>2 DEF IntervalInv
  <2>8. interval.removed => interval.lined
    <3>1. 1 \in 1..Len(jobs) /\ jobs[1] = Head(jobs)
      BY <2>1 DEF TypeOK
    <3> QED BY <2>1, <2>2, <3>1, ZenonT(60) DEF IntervalInv
  <2>9. \A k \in 1..Len(pits') : pits'[k].who = "interval" /\ ~pits'[k].run => k = n
    BY <1>0, <2>4, <2>5
  <2>10. n \in 1..Len(pits') /\ pits'[n].who = "interval" /\ pits'[n].sub
    BY <1>0, <2>5
  <2> QED BY <2>6, <2>7, <2>8, <2>9, <2>10 DEF IntervalInv
<1>3. CASE remove_listener
  <2>1. /\ interval.on /\ interval.remove \in 1..Len(pits)
        /\ pits' = Unsub(pits, interval.remove) /\ jobs' = jobs
        /\ interval' = [on |-> FALSE, removed |-> TRUE, remove |-> 0,
                        lined |-> Queued("interval")]
    BY <1>3 DEF remove_listener, IntervalInv
  <2>2. /\ Len(pits') = Len(pits)
        /\ \A j \in 1..Len(pits) :
             pits'[j] = IF j = interval.remove THEN [pits[j] EXCEPT !.sub = FALSE] ELSE pits[j]
    <3>1. interval.remove \in {0} \cup DOMAIN pits
      BY DEF TypeOK
    <3> QED BY <1>0, <2>1, <3>1, UnsubIs, ZenonT(60)
  <2>3. \A p \in Pit : /\ [p EXCEPT !.sub = FALSE].who = p.who
                       /\ [p EXCEPT !.sub = FALSE].run = p.run
                       /\ ~[p EXCEPT !.sub = FALSE].sub
    BY DEF Pit
  <2>4. \A j \in 1..Len(pits) : /\ pits'[j].who = pits[j].who /\ pits'[j].run = pits[j].run
                                /\ pits'[j].sub => pits[j].sub /\ j # interval.remove
    <3>1. SUFFICES ASSUME NEW j \in 1..Len(pits)
                   PROVE  /\ pits'[j].who = pits[j].who /\ pits'[j].run = pits[j].run
                          /\ pits'[j].sub => pits[j].sub /\ j # interval.remove
      OBVIOUS
    <3>2. CASE j = interval.remove
      <4>1. pits'[j] = [pits[j] EXCEPT !.sub = FALSE] /\ pits[j] \in Pit
        BY <1>0, <2>2, <3>2
      <4> QED BY <2>3, <4>1
    <3>3. CASE j # interval.remove
      BY <2>2, <3>3
    <3> QED BY <3>2, <3>3
  <2>5. \A k \in 1..Len(pits') : ~(pits'[k].who = "interval" /\ pits'[k].sub)
    <3>1. SUFFICES ASSUME NEW k \in 1..Len(pits'), pits'[k].who = "interval", pits'[k].sub
                   PROVE  FALSE
      OBVIOUS
    <3>2. k \in 1..Len(pits) /\ pits[k].who = "interval" /\ pits[k].sub /\ k # interval.remove
      BY <2>2, <2>4, <3>1
    <3>3. ~pits[k].run /\ ~pits[interval.remove].run
      BY <1>0, <2>1, <3>2 DEF IntervalInv
    <3> QED BY <2>1, <3>2, <3>3 DEF IntervalInv
  <2>6. ~interval'.lined => \A i \in 1..Len(jobs') : jobs'[i].stage = "pit" =>
                              pits'[jobs'[i].k].who # "interval"
    BY <2>1, <2>4, PitJob DEF Queued
  <2>7. \A j, k \in 1..Len(pits') :
          pits'[j].who = "interval" /\ pits'[k].who = "interval"
            /\ ~pits'[j].run /\ ~pits'[k].run => j = k
    BY <2>2, <2>4 DEF IntervalInv
  <2>8. ~interval'.on /\ interval'.removed
    BY <2>1
  <2> QED BY <2>5, <2>6, <2>7, <2>8 DEF IntervalInv
<1> QED BY <1>1, <1>2, <1>3 DEF IntervalAct

LEMMA SameOwn ==
  ASSUME TypeOK, TypeOK', SameInv, SameAct
  PROVE  SameInv'
<1>0. /\ Sound(pits) /\ pits \in Seq(Pit) /\ "same" \in Users /\ Len(pits) \in Nat
      /\ \A k \in 1..Len(pits) : pits[k] \in Pit
      /\ same.listener \in {0} \cup DOMAIN pits
  BY PitsSound, UsersAre, Listeners, Zenon
<1>1. CASE async_track_same_state
  <2>1. /\ clock + Period \in Int /\ ~same.tracked
        /\ pits' = async_track_point_in_utc_time(pits, "same", clock + Period)
        /\ same' = [tracked |-> TRUE, listener |-> Len(pits'), cancel |-> TRUE, acted |-> FALSE]
    BY <1>1, HelperConstants, SMTT(30) DEF async_track_same_state, TypeOK
  <2>2. /\ Len(pits') = Len(pits) + 1
        /\ \A k \in 1..Len(pits) : pits'[k] = pits[k]
        /\ pits'[Len(pits) + 1]
             = [who |-> "same", at |-> clock + Period, sub |-> TRUE, run |-> FALSE]
    BY <1>0, <2>1, TrackIs, Zenon
  <2>3. \A k \in 1..Len(pits') : pits'[k].who = "same" => k = Len(pits) + 1
    BY <1>0, <2>1, <2>2 DEF SameInv
  <2>4. /\ same'.tracked /\ same'.listener = Len(pits) + 1 /\ ~same'.acted
        /\ Len(pits) + 1 # 0 /\ Len(pits) + 1 \in 1..Len(pits')
        /\ pits'[Len(pits) + 1].who = "same"
    BY <1>0, <2>1, <2>2
  <2> QED BY <2>3, <2>4 DEF SameInv
<1>2. CASE state_for_listener
  <2>1. /\ pits' = Consumed /\ PitRuns("same")
        /\ same' = [same EXCEPT !.listener = 0, !.cancel = FALSE, !.acted = TRUE]
    BY <1>2 DEF state_for_listener, Cleared, TypeOK
  <2>2. /\ Head(jobs).k \in 1..Len(pits) /\ pits[Head(jobs).k].who = "same"
        /\ Len(pits') = Len(pits)
        /\ \A j \in 1..Len(pits) :
             pits'[j] = IF j = Head(jobs).k THEN [pits[j] EXCEPT !.run = TRUE, !.sub = FALSE]
                        ELSE pits[j]
    BY <2>1, ConsumedIs, Zenon
  <2>3. \A p \in Pit : /\ [p EXCEPT !.run = TRUE, !.sub = FALSE].who = p.who
                       /\ ~[p EXCEPT !.run = TRUE, !.sub = FALSE].sub
    BY DEF Pit
  <2>4. \A j \in 1..Len(pits) : /\ pits'[j].who = pits[j].who
                                /\ pits'[j].sub => j # Head(jobs).k
    <3>1. SUFFICES ASSUME NEW j \in 1..Len(pits)
                   PROVE  /\ pits'[j].who = pits[j].who
                          /\ pits'[j].sub => j # Head(jobs).k
      OBVIOUS
    <3>2. CASE j = Head(jobs).k
      <4>1. pits'[j] = [pits[j] EXCEPT !.run = TRUE, !.sub = FALSE] /\ pits[j] \in Pit
        BY <1>0, <2>2, <3>2, Zenon
      <4> QED BY <2>3, <4>1, Zenon
    <3>3. CASE j # Head(jobs).k
      BY <2>2, <3>3, Zenon
    <3> QED BY <3>2, <3>3, Zenon
  <2>5. /\ same'.listener = 0 /\ ~same'.cancel /\ same'.tracked = same.tracked
    BY <2>1 DEF TypeOK
  <2> QED BY <2>2, <2>4, <2>5, ZenonT(60) DEF SameInv
<1>3. CASE /\ pits' = Unsub(pits, same.listener)
           /\ same' = [same EXCEPT !.listener = 0, !.cancel = FALSE]
  <2>1. /\ Len(pits') = Len(pits)
        /\ \A j \in 1..Len(pits) :
             pits'[j] = IF j = same.listener THEN [pits[j] EXCEPT !.sub = FALSE] ELSE pits[j]
    BY <1>0, <1>3, UnsubIs, Zenon
  <2>2. \A p \in Pit : /\ [p EXCEPT !.sub = FALSE].who = p.who
                       /\ ~[p EXCEPT !.sub = FALSE].sub
    BY DEF Pit
  <2>3. \A j \in 1..Len(pits) : /\ pits'[j].who = pits[j].who
                                /\ pits'[j].sub => pits[j].sub /\ j # same.listener
    <3>1. SUFFICES ASSUME NEW j \in 1..Len(pits)
                   PROVE  /\ pits'[j].who = pits[j].who
                          /\ pits'[j].sub => pits[j].sub /\ j # same.listener
      OBVIOUS
    <3>2. CASE j = same.listener
      <4>1. pits'[j] = [pits[j] EXCEPT !.sub = FALSE] /\ pits[j] \in Pit
        BY <1>0, <2>1, <3>2
      <4> QED BY <2>2, <4>1
    <3>3. CASE j # same.listener
      BY <2>1, <3>3
    <3> QED BY <3>2, <3>3
  <2>4. \A k \in 1..Len(pits) : ~(pits[k].who = "same" /\ pits[k].sub /\ k # same.listener)
    BY DEF SameInv
  <2>5. same'.listener = 0 /\ ~same'.cancel /\ same'.tracked = same.tracked
    BY <1>3 DEF TypeOK
  <2> QED BY <2>1, <2>3, <2>4, <2>5 DEF SameInv
<1>4. CASE UNCHANGED <<pits, same>>
  BY <1>4 DEF SameInv
<1> QED BY <1>1, <1>2, <1>3, <1>4
        DEF SameAct, clear_listener, state_for_cancel_listener, StateChange, Cleared

LEMMA TimerOwn ==
  ASSUME TypeOK, TypeOK', TimerInv, TimerAct
  PROVE  TimerInv'
<1>0. /\ Sound(pits) /\ pits \in Seq(Pit) /\ "timer" \in Users /\ Len(pits) \in Nat
      /\ timer.listener \in {0} \cup DOMAIN pits
  BY PitsSound, UsersAre, Listeners, Zenon
<1>1. ASSUME NEW d \in Durations \cup {0}, async_start(d) PROVE TimerInv'
  <2> DEFINE dur == IF d # 0 THEN d ELSE timer.dur
             rem == IF d = 0 /\ timer.rem # 0 THEN timer.rem ELSE dur
             old == Unsub(pits, timer.listener)
  <2>1. /\ pits' = async_track_point_in_utc_time(old, "timer", clock + rem)
        /\ timer' = [state |-> "active", listener |-> Len(pits'), dur |-> dur, rem |-> rem]
    BY <1>1 DEF async_start
  <2>2. rem \in Int
    BY DurationType, Zenon
  <2>3. old \in Seq(Pit)
    BY <1>0, UnsubIs, Zenon
  <2> HIDE DEF old, rem, dur
  <2>4. clock + rem \in Int /\ Len(old) \in Nat
    BY <2>2, <2>3 DEF TypeOK
  <2>5. /\ Len(pits') = Len(old) + 1
        /\ pits'[Len(old) + 1]
             = [who |-> "timer", at |-> clock + rem, sub |-> TRUE, run |-> FALSE]
    BY <1>0, <2>1, <2>3, <2>4, TrackIs, Zenon
  <2>6. /\ timer'.listener \in 1..Len(pits') /\ pits'[timer'.listener].who = "timer"
        /\ timer'.listener # 0 /\ pits'[timer'.listener].sub
    BY <2>1, <2>4, <2>5
  <2> QED BY <2>6 DEF TimerInv, ActiveWillEnd
<1>2. CASE timer'.listener = 0 /\ timer'.state # "active"
  BY <1>2 DEF TimerInv, ActiveWillEnd, Active
<1>3. CASE PointInTime
  <2>1. /\ pits' = Consumed /\ PitRuns("timer") /\ jobs # <<>>
        /\ jobs' = Append(Tail(jobs), [stage |-> "finished"]) /\ timer' = timer
    BY <1>3 DEF PointInTime, PitRuns, Next_job, timerVars
  <2>2. Len(jobs) \in DOMAIN jobs' /\ jobs'[Len(jobs)].stage = "finished"
    <3>1. Tail(jobs) \in Seq(Job) /\ Len(Tail(jobs)) = Len(jobs) - 1 /\ Len(jobs) \in Nat \ {0}
      BY <2>1, TailIs, Zenon DEF TypeOK
    <3>2. /\ Len(jobs') = Len(jobs) /\ DOMAIN jobs' = 1..Len(jobs')
          /\ jobs'[Len(jobs)] = [stage |-> "finished"]
      BY <2>1, <3>1
    <3> QED BY <3>1, <3>2
  <2>3. /\ Len(Consumed) = Len(pits)
        /\ \A k \in 1..Len(pits) : Consumed[k].who = pits[k].who
    BY <2>1, ConsumedSpares, Zenon
  <2>4. timer'.listener # 0 =>
          timer'.listener \in 1..Len(pits') /\ pits'[timer'.listener].who = "timer"
    BY <2>1, <2>3 DEF TimerInv
  <2> QED BY <2>2, <2>4 DEF TimerInv, ActiveWillEnd
<1>4. CASE async_finished /\ ~Active
  BY <1>4 DEF async_finished, TimerInv, ActiveWillEnd, Active
<1>5. async_pause \/ async_cancel \/ async_finish \/ (async_finished /\ Active) =>
        timer'.listener = 0 /\ timer'.state # "active"
  BY DEF async_pause, async_cancel, async_finish, async_finished, Finished, TypeOK
<1> QED BY <1>1, <1>2, <1>3, <1>4, <1>5 DEF TimerAct, TimerJob, TimerCall

(* A call that finds nothing pending leaves only a listener made by it.    *)
LEMMA NotPending ==
  ASSUME TypeOK, tidy', Call
  PROVE  /\ tidy /\ ~FinishedQueued /\ clock' = clock /\ jobs' = jobs
         /\ \A i \in 1..Len(jobs) : jobs[i].stage = "pit" => pits[jobs[i].k].who # "timer"
BY PitJob DEF Call, Pending, FinishedQueued

LEMMA RunCall ==
  ASSUME TypeOK, TypeOK', TimerInv, TimerInv', RunInv, Call, tidy',
         \A k \in 1..Len(pits') : pits'[k].who = "timer" /\ pits'[k].sub /\ k # timer'.listener
           => k \in 1..Len(pits) /\ pits[k].who = "timer" /\ pits[k].sub /\ k # timer.listener,
         \A k \in 1..Len(pits) : k \in 1..Len(pits') => pits'[k].who = pits[k].who
  PROVE  /\ \A k \in 1..Len(pits') : Awaited(k)' => k = timer'.listener
         /\ ~FinishedQueued'
<1>1. /\ tidy /\ ~FinishedQueued /\ jobs' = jobs
      /\ \A i \in 1..Len(jobs) : jobs[i].stage = "pit" => pits[jobs[i].k].who # "timer"
  BY NotPending
<1>2. ~FinishedQueued'
  BY <1>1 DEF FinishedQueued
<1>3. ASSUME NEW k \in 1..Len(pits'), Awaited(k)', k # timer'.listener
      PROVE  FALSE
  <2>1. CASE pits'[k].sub
    <3>1. k \in 1..Len(pits) /\ pits[k].who = "timer" /\ pits[k].sub /\ k # timer.listener
      BY <1>3, <2>1 DEF Awaited
    <3> QED BY <1>1, <3>1 DEF RunInv, Awaited
  <2>2. CASE ~pits'[k].sub
    <3>1. PICK i \in 1..Len(jobs) : jobs[i].stage = "pit" /\ jobs[i].k = k
      BY <1>1, <1>3, <2>2 DEF Awaited
    <3>2. k \in 1..Len(pits) /\ pits[k].who # "timer"
      BY <1>1, <3>1, PitJob
    <3> QED BY <1>3, <3>2 DEF Awaited
  <2> QED BY <2>1, <2>2
<1> QED BY <1>2, <1>3

LEMMA RunOwn ==
  ASSUME TypeOK, TypeOK', TimerInv, TimerInv', RunInv, TimerAct
  PROVE  RunInv'
<1>0. /\ pits \in Seq(Pit) /\ Len(pits) \in Nat /\ "timer" \in Users
      /\ timer.listener \in {0} \cup DOMAIN pits
      /\ clock \in Nat /\ begun \in Nat /\ begun <= clock /\ served \in Nat
      /\ timer.dur \in Nat /\ timer.rem \in Int /\ timer.state \in {"idle", "active", "paused"}
  <2>1. clock \in Nat /\ begun \in Nat /\ begun <= clock
    BY TimeConstants DEF TypeOK
  <2> QED BY <2>1, PitsSound, UsersAre, Listeners DEF TypeOK
<1>u. /\ Unsub(pits, timer.listener) \in Seq(Pit)
      /\ Len(Unsub(pits, timer.listener)) = Len(pits)
      /\ \A j \in 1..Len(pits) :
           /\ Unsub(pits, timer.listener)[j].who = pits[j].who
           /\ j # timer.listener => Unsub(pits, timer.listener)[j] = pits[j]
           /\ j = timer.listener => ~Unsub(pits, timer.listener)[j].sub
  <2>1. /\ Unsub(pits, timer.listener) \in Seq(Pit)
        /\ Len(Unsub(pits, timer.listener)) = Len(pits)
        /\ \A j \in 1..Len(pits) : Unsub(pits, timer.listener)[j]
             = IF j = timer.listener THEN [pits[j] EXCEPT !.sub = FALSE] ELSE pits[j]
    BY <1>0, UnsubIs, Zenon
  <2>2. \A p \in Pit : [p EXCEPT !.sub = FALSE].who = p.who /\ ~[p EXCEPT !.sub = FALSE].sub
    BY DEF Pit
  <2>3. \A j \in 1..Len(pits) : pits[j] \in Pit
    BY <1>0
  <2> HIDE DEF Unsub
  <2>4. ASSUME NEW j \in 1..Len(pits)
        PROVE  /\ Unsub(pits, timer.listener)[j].who = pits[j].who
               /\ j # timer.listener => Unsub(pits, timer.listener)[j] = pits[j]
               /\ j = timer.listener => ~Unsub(pits, timer.listener)[j].sub
    <3>1. CASE j = timer.listener
      <4>1. Unsub(pits, timer.listener)[j] = [pits[j] EXCEPT !.sub = FALSE]
        BY <2>1, <3>1, Zenon
      <4> QED BY <2>2, <2>3, <3>1, <4>1, Zenon
    <3>2. CASE j # timer.listener
      BY <2>1, <3>2
    <3> QED BY <3>1, <3>2
  <2> QED BY <2>1, <2>4, Zenon
<1>1. ASSUME NEW d \in Durations \cup {0}, async_start(d) PROVE RunInv'
  <2> DEFINE dur == IF d # 0 THEN d ELSE timer.dur
             rem == IF d = 0 /\ timer.rem # 0 THEN timer.rem ELSE dur
             old == Unsub(pits, timer.listener)
  <2>1. /\ pits' = async_track_point_in_utc_time(old, "timer", clock + rem)
        /\ timer' = [state |-> "active", listener |-> Len(pits'), dur |-> dur, rem |-> rem]
        /\ begun' = clock /\ Call
        /\ served' = CASE d # 0 \/ timer.state = "idle" -> 0
                       [] timer.state = "paused"        -> served
                       [] OTHER                         -> served + clock - begun
    BY <1>1 DEF async_start
  <2>2. rem \in Int /\ clock + rem \in Int /\ dur \in Nat
    BY <1>0, DurationType, TimerConstants
  <2>3. /\ Len(pits') = Len(pits) + 1
        /\ \A k \in 1..Len(pits) : pits'[k] = old[k]
        /\ pits'[Len(pits) + 1]
             = [who |-> "timer", at |-> clock + rem, sub |-> TRUE, run |-> FALSE]
    <3>1. old \in Seq(Pit) /\ Len(old) = Len(pits)
      BY <1>u, Zenon
    <3> HIDE DEF old, rem
    <3>2. /\ Len(pits') = Len(old) + 1
          /\ \A k \in 1..Len(old) : pits'[k] = old[k]
          /\ pits'[Len(old) + 1]
               = [who |-> "timer", at |-> clock + rem, sub |-> TRUE, run |-> FALSE]
      BY <1>0, <2>1, <2>2, <3>1, TrackIs, Zenon
    <3> QED BY <3>1, <3>2
  <2>4. timer'.listener # 0 /\ Active'
    BY <1>0, <2>1, <2>3 DEF Active
  <2>5. ASSUME tidy' PROVE served' + rem >= dur /\ pits'[timer'.listener].at = clock + rem
    <3>1. tidy
      BY <2>1, <2>5, NotPending
    <3>2. timer.state # "idle" => served + timer.rem >= timer.dur
      BY <3>1 DEF RunInv
    <3>3. timer.state = "idle" => timer.rem \in {0, timer.dur}
      BY DEF RunInv
    <3>4. served' + rem >= dur
      BY <1>0, <2>1, <2>2, <3>2, <3>3, SMTT(30)
    <3> QED BY <2>1, <2>3, <3>4
  <2>6. ASSUME tidy'
        PROVE  /\ \A k \in 1..Len(pits') : Awaited(k)' => k = timer'.listener
               /\ ~FinishedQueued'
    <3>1. timer'.listener = Len(pits) + 1
      BY <2>1, <2>3
    <3>2. \A k \in 1..Len(pits) : pits'[k].who = pits[k].who
      BY <1>u, <2>3
    <3>3. ASSUME NEW k \in 1..Len(pits'), pits'[k].who = "timer", pits'[k].sub, k # timer'.listener
          PROVE  k \in 1..Len(pits) /\ pits[k].who = "timer" /\ pits[k].sub /\ k # timer.listener
      <4>1. k \in 1..Len(pits)
        BY <1>0, <2>3, <3>1, <3>3
      <4> QED BY <1>u, <2>3, <3>3, <4>1
    <3> QED BY <2>1, <2>6, <3>2, <3>3, RunCall
  <2> HIDE DEF rem, dur, old
  <2>7. timer'.state = "active" /\ timer'.dur = dur /\ timer'.rem = rem
    BY <2>1
  <2> QED BY <2>1, <2>4, <2>5, <2>6, <2>7 DEF RunInv
<1>2. CASE async_pause
  <2>1. /\ timer.listener # 0 /\ Call /\ pits' = Unsub(pits, timer.listener)
        /\ timer'.state = "paused" /\ timer'.listener = 0 /\ timer'.dur = timer.dur
        /\ timer'.rem = pits[timer.listener].at - clock
        /\ served' = served + clock - begun
    BY <1>2 DEF async_pause, TypeOK
  <2>2. ASSUME tidy' PROVE served' + timer'.rem >= timer'.dur
    <3>1. tidy
      BY <2>1, <2>2, NotPending
    <3>2. Active
      BY <2>1 DEF RunInv
    <3>3. pits[timer.listener].at = begun + timer.rem /\ served + timer.rem >= timer.dur
      BY <3>1, <3>2 DEF RunInv, Active
    <3> QED BY <1>0, <2>1, <3>3
  <2>3. ASSUME tidy'
        PROVE  /\ \A k \in 1..Len(pits') : Awaited(k)' => k = timer'.listener
               /\ ~FinishedQueued'
    <3>1. Len(pits') = Len(pits) /\ \A k \in 1..Len(pits) : pits'[k].who = pits[k].who
      BY <1>u, <2>1
    <3>2. ASSUME NEW k \in 1..Len(pits'), pits'[k].sub
          PROVE  k # timer.listener /\ pits'[k] = pits[k]
      BY <1>u, <2>1, <3>1, <3>2
    <3> QED BY <2>1, <2>3, <3>1, <3>2, RunCall
  <2> QED BY <2>1, <2>2, <2>3 DEF RunInv, Active
<1>3. CASE async_cancel
  <2>1. /\ Call /\ pits' = Unsub(pits, timer.listener)
        /\ timer'.state = "idle" /\ timer'.listener = 0 /\ timer'.rem = 0
    BY <1>3 DEF async_cancel, TypeOK
  <2>3. ASSUME tidy'
        PROVE  /\ \A k \in 1..Len(pits') : Awaited(k)' => k = timer'.listener
               /\ ~FinishedQueued'
    <3>1. Len(pits') = Len(pits) /\ \A k \in 1..Len(pits) : pits'[k].who = pits[k].who
      BY <1>u, <2>1
    <3>2. ASSUME NEW k \in 1..Len(pits'), pits'[k].sub
          PROVE  k # timer.listener /\ pits'[k] = pits[k]
      BY <1>u, <2>1, <3>1, <3>2
    <3> QED BY <2>1, <2>3, <3>1, <3>2, RunCall
  <2> QED BY <2>1, <2>3 DEF RunInv, Active
<1>4. CASE async_finish
  <2>1. timer'.state = "idle" /\ timer'.listener = 0 /\ timer'.rem = 0 /\ tidy' = FALSE
    BY <1>4 DEF async_finish, Finished, TypeOK
  <2> QED BY <2>1 DEF RunInv, Active
<1>5. CASE PointInTime
  <2>0. /\ PitRuns("timer") /\ pits' = Consumed /\ jobs # <<>>
        /\ jobs' = Append(Tail(jobs), [stage |-> "finished"])
        /\ UNCHANGED <<clock, timer, served, begun, tidy>>
    BY <1>5 DEF PointInTime, PitRuns, Next_job, timerVars
  <2> DEFINE h == Head(jobs).k
  <2>1. /\ h \in 1..Len(pits) /\ pits[h].who = "timer" /\ ~pits[h].run
        /\ Len(pits') = Len(pits)
        /\ \A j \in 1..Len(pits) :
             pits'[j] = IF j = h THEN [pits[j] EXCEPT !.run = TRUE, !.sub = FALSE] ELSE pits[j]
    BY <2>0, ConsumedIs, Zenon
  <2>2. Head(jobs) \in Job /\ Head(jobs).stage = "pit" /\ Head(jobs) = jobs[1]
        /\ Len(jobs) \in Nat /\ 1 \in 1..Len(jobs)
    BY <2>0 DEF TypeOK, PitRuns, Next_job
  <2>3. Head(jobs).now <= clock /\ Head(jobs).now \in Int /\ Head(jobs).now >= pits[h].at
    <3>1. Head(jobs).now \in 0..sent /\ sent \in 0..clock
      BY <2>2 DEF Job, TypeOK
    <3>2. Due(Head(jobs))
      BY <2>0 DEF PitRuns
    <3> QED BY <1>0, <3>1, <3>2 DEF Due
  <2>4. Awaited(h)
    BY <2>1, <2>2 DEF Awaited
  <2>5. pits'[h].run /\ ~pits'[h].sub
    <3> HIDE DEF h
    <3>0. pits'[h] = [pits[h] EXCEPT !.run = TRUE, !.sub = FALSE]
      BY <2>1, Zenon
    <3>1. pits'[h] = [pits[h] EXCEPT !.run = TRUE, !.sub = FALSE] /\ pits[h] \in Pit
      <4>1. \A j \in 1..Len(pits) : pits[j] \in Pit
        BY <1>0
      <4> QED BY <2>1, <3>0, <4>1, Zenon
    <3> QED BY <3>1 DEF Pit
  <2>6. \A i \in 1..Len(jobs') : jobs'[i].stage = "pit" => \E m \in 1..Len(jobs) : jobs[m] = jobs'[i]
    <3>1. Tail(jobs) \in Seq(Job) /\ Len(Tail(jobs)) = Len(jobs) - 1
          /\ \A i \in 1..(Len(jobs) - 1) : Tail(jobs)[i] = jobs[i + 1]
      <4>1. jobs \in Seq(Job)
        BY DEF TypeOK
      <4> QED BY <2>0, <4>1, TailIs, Zenon
    <3>2. Len(jobs') = Len(jobs) /\ jobs'[Len(jobs)] = [stage |-> "finished"]
          /\ \A i \in 1..(Len(jobs) - 1) : jobs'[i] = jobs[i + 1]
      BY <2>0, <2>2, <3>1
    <3>3. ASSUME NEW i \in 1..Len(jobs'), jobs'[i].stage = "pit"
          PROVE  i \in 1..(Len(jobs) - 1)
      <4>1. i # Len(jobs)
        BY <3>2, <3>3
      <4> QED BY <2>2, <3>2, <3>3, <4>1
    <3> QED BY <2>2, <3>2, <3>3
  <2>7. ASSUME tidy
        PROVE  /\ h = timer.listener /\ Active /\ pits[h].at = begun + timer.rem
               /\ clock >= begun + timer.rem
               /\ \A k \in 1..Len(pits) : ~Awaited(k)'
    <3>1. h = timer.listener
      BY <2>1, <2>4, <2>7 DEF RunInv
    <3>2. Active
      <4> HIDE DEF h
      <4>1. h \in 1..Len(pits) /\ Len(pits) \in Nat
        BY <1>0, <2>1, Zenon
      <4>2. timer.listener # 0
        BY <3>1, <4>1
      <4> QED BY <4>2 DEF RunInv
    <3>3. pits[h].at = begun + timer.rem
      <4>1. pits[timer.listener].at = begun + timer.rem
        BY <2>7, <3>2 DEF RunInv
      <4> QED BY <3>1, <4>1
    <3>4. ASSUME NEW k \in 1..Len(pits), Awaited(k)' PROVE FALSE
      <4>1. k # h
        BY <2>5, <3>4 DEF Awaited
      <4>2. pits'[k] = pits[k]
        BY <2>1, <4>1
      <4>3. Awaited(k)
        BY <2>6, <3>4, <4>2 DEF Awaited
      <4> QED BY <2>7, <3>1, <4>1, <4>3 DEF RunInv
    <3> QED BY <1>0, <2>3, <3>1, <3>2, <3>3, <3>4
  <2>8. ASSUME tidy PROVE pits'[timer.listener].at = pits[timer.listener].at
    <3> HIDE DEF h
    <3>0. pits'[h] = [pits[h] EXCEPT !.run = TRUE, !.sub = FALSE]
      BY <2>1, Zenon
    <3>1. pits'[h] = [pits[h] EXCEPT !.run = TRUE, !.sub = FALSE] /\ pits[h] \in Pit
      <4>1. \A j \in 1..Len(pits) : pits[j] \in Pit
        BY <1>0
      <4> QED BY <2>1, <3>0, <4>1, Zenon
    <3>2. \A p \in Pit : [p EXCEPT !.run = TRUE, !.sub = FALSE].at = p.at
      BY DEF Pit
    <3> QED BY <2>7, <2>8, <3>1, <3>2
  <2> HIDE DEF h
  <2>9. Active' = Active
    BY <2>0 DEF Active
  <2> QED BY <2>0, <2>1, <2>7, <2>8, <2>9 DEF RunInv
<1>6. CASE async_finished
  <2>0. /\ jobs # <<>> /\ Head(jobs).stage = "finished" /\ jobs' = Tail(jobs)
        /\ timer' = IF Active THEN Finished ELSE timer
        /\ UNCHANGED <<clock, pits, served, begun, tidy>>
    BY <1>6 DEF async_finished, Next_job
  <2>1. /\ Len(jobs') = Len(jobs) - 1 /\ Len(jobs) \in Nat \ {0} /\ jobs[1] = Head(jobs)
        /\ \A i \in 1..(Len(jobs) - 1) : jobs'[i] = jobs[i + 1]
    <3>1. jobs \in Seq(Job)
      BY DEF TypeOK
    <3> QED BY <2>0, <3>1
  <2>2. FinishedQueued
    BY <2>0, <2>1 DEF FinishedQueued
  <2>3. ASSUME tidy PROVE \A k \in 1..Len(pits') : ~Awaited(k)'
    <3>1. \A k \in 1..Len(pits) : ~Awaited(k)
      BY <2>2, <2>3 DEF RunInv
    <3> QED BY <2>0, <2>1, <3>1 DEF Awaited
  <2>4. CASE Active
    <3>1. timer'.state = "idle" /\ timer'.listener = 0 /\ timer'.rem = 0
      BY <2>0, <2>4 DEF Finished, TypeOK
    <3> QED BY <2>0, <2>3, <3>1 DEF RunInv, Active
  <2>5. CASE ~Active
    BY <2>0, <2>3, <2>5 DEF RunInv, Active
  <2> QED BY <2>4, <2>5
<1> QED BY <1>1, <1>2, <1>3, <1>4, <1>5, <1>6 DEF TimerAct, TimerJob, TimerCall

-----------------------------------------------------------------------------
IInv == TypeOK /\ IntervalInv /\ SameInv /\ TimerInv /\ RunInv

LEMMA InvInit == Init => IInv
<1> SUFFICES ASSUME Init PROVE IInv
  OBVIOUS
<1>1. TypeOK
  BY TypeInit
<1>2. Len(pits) = 0 /\ 1..Len(pits) = {} /\ Len(jobs) = 0 /\ 1..Len(jobs) = {}
  BY DEF Init, TimeInit
<1>3. IntervalInv /\ SameInv /\ TimerInv
  BY <1>2 DEF Init, HelperInit, TimerInit, IntervalInv, SameInv, TimerInv, ActiveWillEnd, Active
<1>4. RunInv
  BY <1>2 DEF Init, TimerInit, RunInv, Active, FinishedQueued
<1> QED BY <1>1, <1>3, <1>4 DEF IInv

LEMMA InvStep == IInv /\ [Next]_vars => IInv'
<1> SUFFICES ASSUME IInv, [Next]_vars PROVE IInv'
  OBVIOUS
<1>1. TypeOK /\ TypeOK'
  BY TypeStep DEF IInv
<1>2. CASE UNCHANGED vars
  BY <1>1, <1>2 DEF IInv, IntervalInv, SameInv, TimerInv, ActiveWillEnd, RunInv, Awaited,
                    FinishedQueued, Active, vars, timeVars, helperVars, timerVars
<1>3. CASE Next
  <2>1. {"interval", "same", "timer"} \subseteq Users
    BY DEF Users
  <2>2. CASE TimeAct /\ UNCHANGED <<interval, same, timerVars>>
    <3>1. UNCHANGED pits
      BY <2>2 DEF TimeAct, Time, PassTime, fire_time_event, PitLapses
    <3>2. Spares("interval") /\ Spares("same") /\ Spares("timer")
      BY <1>1, <2>1, <3>1, Untouched
    <3>3. UNCHANGED <<timer, timerVars>> /\ clock <= clock'
      BY <1>1, <2>2 DEF TimeAct, Time, PassTime, fire_time_event, PitLapses, timerVars, TypeOK
    <3> QED BY <1>1, <2>2, <3>2, <3>3, StepKeeps, StepNoFinish, IntervalSpared, SameSpared,
               TimerSpared, RunSpared, Zenon DEF IInv
  <2>3. CASE IntervalAct /\ UNCHANGED <<same, timerVars>>
    <3>1. Spares("same") /\ Spares("timer")
      BY <1>1, <2>1, <2>3, IntervalSpares DEF IInv
    <3>2. UNCHANGED <<timer, timerVars>> /\ clock <= clock'
      BY <1>1, <2>3 DEF IntervalAct, async_track_time_interval, interval_listener,
                        remove_listener, timerVars, TypeOK
    <3> QED BY <1>1, <2>3, <3>1, <3>2, StepKeeps, StepNoFinish, IntervalOwn, SameSpared,
               TimerSpared, RunSpared, Zenon DEF IInv
  <2>4. CASE SameAct /\ UNCHANGED <<interval, timerVars>>
    <3>1. Spares("interval") /\ Spares("timer")
      BY <1>1, <2>1, <2>4, SameSpares DEF IInv
    <3>2. UNCHANGED <<timer, timerVars>> /\ clock <= clock'
      <4>1. UNCHANGED clock
        BY <2>4 DEF SameAct, async_track_same_state, clear_listener, state_for_listener,
                    state_for_cancel_listener, StateChange
      <4>2. clock \in Nat
        BY <1>1, TimeConstants DEF TypeOK
      <4> QED BY <2>4, <4>1, <4>2 DEF timerVars
    <3> QED BY <1>1, <2>4, <3>1, <3>2, StepKeeps, StepNoFinish, IntervalSpared, SameOwn,
               TimerSpared, RunSpared, Zenon DEF IInv
  <2>5. CASE TimerAct /\ UNCHANGED <<interval, same>>
    <3>1. Spares("interval") /\ Spares("same")
      BY <1>1, <2>1, <2>5, TimerSpares DEF IInv
    <3>2. TimerInv'
      BY <1>1, <2>5, TimerOwn DEF IInv
    <3> QED BY <1>1, <2>5, <3>1, <3>2, TimerQueues, IntervalSpared, SameSpared, RunOwn, Zenon
            DEF IInv
  <2> QED BY <1>3, <2>2, <2>3, <2>4, <2>5, Concerns
<1> QED BY <1>2, <1>3

LEMMA InvCorrect == Spec => []IInv
BY InvInit, InvStep, PTL DEF Spec

(* An interval has at most one registered listener, remove removes it, and *)
(* removal is final unless a job was queued: whatever else runs.           *)
THEOREM OneChainCorrect == Spec => []OneChain
<1>1. ASSUME IInv PROVE OneChain
  <2>0. pits \in Seq(Pit) /\ \A k \in 1..Len(pits) : ~(pits[k].sub /\ pits[k].run)
    BY <1>1 DEF IInv, TypeOK
  <2> DEFINE R == Registered("interval")
  <2>1. \A k \in R : k \in 1..Len(pits) /\ pits[k].who = "interval" /\ pits[k].sub /\ ~pits[k].run
    BY <2>0 DEF Registered
  <2>2. \A j, k \in R : j = k
    BY <1>1, <2>1 DEF IInv, IntervalInv
  <2>3. interval.on => interval.remove \in R
    BY <1>1, <2>0 DEF IInv, IntervalInv, Registered
  <2>4. interval.removed /\ ~interval.lined => R = {}
    BY <1>1, <2>1 DEF IInv, IntervalInv
  <2> HIDE DEF R
  <2>5. Cardinality(R) <= 1
    <3>1. CASE R = {}
      BY <3>1, FS_EmptySet
    <3>2. CASE R # {}
      <4>1. PICK k \in R : R = {k}
        BY <2>2, <3>2
      <4> QED BY <4>1, FS_Singleton
    <3> QED BY <3>1, <3>2
  <2>6. interval.on => R = {interval.remove}
    BY <2>2, <2>3
  <2> QED BY <2>4, <2>5, <2>6 DEF OneChain, IntervalRemoved, R
<1> QED BY <1>1, InvCorrect, PTL

(* A tracker that has acted or been cancelled has no listener left.        *)
THEOREM SameNoLeakCorrect == Spec => []SameNoLeak
<1>1. ASSUME IInv PROVE SameNoLeak
  <2>1. DOMAIN pits = 1..Len(pits)
    BY <1>1 DEF IInv, TypeOK
  <2> QED BY <1>1, <2>1 DEF IInv, SameInv, SameNoLeak, Registered
<1> QED BY <1>1, InvCorrect, PTL

(* An active timer always has a listener or a coroutine that will end it.  *)
THEOREM ActiveWillEndCorrect == Spec => []ActiveWillEnd
<1>1. IInv => ActiveWillEnd
  BY DEF IInv, TimerInv
<1> QED BY <1>1, InvCorrect, PTL

(* A run that ends by itself, and that no call interfered with while its   *)
(* listener was queued, was active for its full duration, over any number  *)
(* of pauses, resumptions and restarts and however late time events come.  *)
THEOREM FullTimeCorrect == Spec => FullTime
<1>1. ASSUME IInv, IInv', Next_job("finished"), Active, tidy
      PROVE  served + clock - begun >= timer.dur
  <2>1. jobs \in Seq(Job) /\ jobs # <<>> /\ Head(jobs).stage = "finished"
    BY <1>1 DEF IInv, TypeOK, Next_job
  <2>2. FinishedQueued
    <3>1. 1 \in 1..Len(jobs) /\ jobs[1] = Head(jobs)
      BY <2>1
    <3> QED BY <2>1, <3>1 DEF FinishedQueued
  <2>3. served + timer.rem >= timer.dur /\ clock >= begun + timer.rem
    BY <1>1, <2>2 DEF IInv, RunInv, Active
  <2>4. /\ served \in Nat /\ begun \in Nat /\ clock \in Nat
        /\ timer.rem \in Int /\ timer.dur \in Nat
    BY <1>1, TimeConstants DEF IInv, TypeOK
  <2> QED BY <2>3, <2>4
<1>2. IInv /\ IInv' /\ [Next]_vars =>
        [Next_job("finished") /\ Active /\ timer'.state = "idle" /\ jobs' # jobs /\ tidy
           => served + clock - begun >= timer.dur]_<<timer, jobs>>
  BY <1>1
<1> QED BY <1>2, InvCorrect, PTL DEF Spec, FullTime
=============================================================================
