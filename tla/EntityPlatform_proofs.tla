------------------------ MODULE EntityPlatform_proofs ------------------------
(***************************************************************************)
(* Proofs about EntityPlatform, for any entities, calls that add them,     *)
(* update slots and ticks, and any interleaving of adding, removing,       *)
(* resetting and polling.                                                  *)
(***************************************************************************)
EXTENDS EntityPlatform, Integers, FunctionTheorems, FiniteSetTheorems,
        WellFoundedInduction, TLAPS

-----------------------------------------------------------------------------
(* The inductive invariant.                                                *)

(* What is decided once: an entity belongs to one call.                    *)
Fixed == batch \in [Entities -> Batches] /\ unique \subseteq Entities

(* An id is given once, the registry's to those with a unique_id, and a    *)
(* state is written under an id that was given.                            *)
IdInv ==
  /\ \A i \in Ids : entities[i] # None => /\ id[entities[i]] = i
                                         /\ removing[entities[i]] = "none"
  /\ \A e \in Entities :
       /\ adding[e] = "new" => id[e] = 0
       /\ adding[e] = "hook" \/ updating[e] # "none" \/ removing[e] # "none" => id[e] # 0
  /\ \A e \in unique : id[e] # 0 => id[e] = registry[e]
  /\ \A i \in states : \E e \in Entities : id[e] = i

(* Where the entities of a call are.                                       *)
PhaseInv ==
  \A e \in Entities :
    /\ adding[e] # "new" => phase[batch[e]] \in {"adding", "done"}
    /\ phase[batch[e]] = "done" => adding[e] \in {"over", "failed"}

(* A call under way knows the ids of those around that it sees; so two     *)
(* that have the same id did not see each other.                           *)
SeenInv ==
  /\ \A b \in Active : \A e \in Entities :
       Around(e) => id[e] \in known[b] \/ e \in unseen[b]
  /\ \A e, x \in Entities :
       e # x /\ Around(e) /\ Around(x) /\ id[e] = id[x] => Unseen(e, x)

(* The tasks of a reset begin before it is through.                        *)
ResetInv == doomed # {} => reset

Inv == TypeOK /\ Fixed /\ IdInv /\ PhaseInv /\ SeenInv /\ StatesMatch /\ ResetInv /\ PollingRight

-----------------------------------------------------------------------------
(* Ids.                                                                    *)

LEMMA IdsAre ==
  /\ Cardinality(Entities) \in Nat /\ Ids = 1..(Cardinality(Entities) + 1)
  /\ Ids \subseteq Nat \ {0} /\ Cardinality(Ids) = Cardinality(Entities) + 1
<1>1. Cardinality(Entities) \in Nat
  BY PlatformConstants, FS_CardinalityType
<1>2. Ids = 1..(Cardinality(Entities) + 1)
  BY DEF Ids
<1>3. Cardinality(1..(Cardinality(Entities) + 1)) = Cardinality(Entities) + 1
  <2> DEFINE n == Cardinality(Entities) + 1
  <2>1. n \in Int /\ 1 \in Int /\ ~(1 > n) /\ n - 1 + 1 = n
    BY <1>1
  <2> HIDE DEF n
  <2>2. Cardinality(1..n) = IF 1 > n THEN 0 ELSE n - 1 + 1
    BY <2>1, FS_Interval
  <2> QED BY <2>1, <2>2 DEF n
<1> QED BY <1>1, <1>2, <1>3

(* A nonempty set of naturals has a least element.                         *)
LEMMA LeastElement ==
  ASSUME NEW T \in SUBSET Nat, T # {}
  PROVE  Min(T) \in T
<1>1. IsWellFoundedOn(OpToRel(<, Nat), Nat)
  BY NatLessThanWellFounded
<1> DEFINE R == {ss \in Nat \X Nat : ss[1] < ss[2]}
<1>2. OpToRel(<, Nat) = R
  BY Zenon DEF OpToRel
<1>3. \E x \in T : \A y \in T : ~(<<y, x>> \in R)
  BY <1>1, <1>2, WFMin, ZenonT(60)
<1>4. \E x \in T : \A y \in T : x <= y
  <2>1. PICK x \in T : \A y \in T : ~(<<y, x>> \in R)
    BY <1>3
  <2>2. ASSUME NEW y \in T PROVE x <= y
    <3>1. <<y, x>> \in R <=> y < x
      OBVIOUS
    <3> QED BY <2>1, <3>1
  <2> QED BY <2>2
<1> QED BY <1>4 DEF Min

(* There is one more id than there are entities, and each entity stands in *)
(* the way of one: its own, or the registry's for it.  So one is free.     *)
LEMMA FreeId ==
  ASSUME TypeOK, Fixed, IdInv
  PROVE  async_generate_entity_id \in Ids
<1> DEFINE f == [e \in Entities |-> IF e \in unique THEN registry[e] ELSE id[e]]
           T == {f[e] : e \in Entities}
<1>1. f \in Surjection(Entities, T)
  BY DEF Surjection
<1>2. IsFiniteSet(T) /\ Cardinality(T) <= Cardinality(Entities)
  <2> HIDE DEF f, T
  <2> QED BY <1>1, PlatformConstants, FS_Surjection
<1>3. states \subseteq T
  <2> SUFFICES ASSUME NEW i \in states PROVE i \in T
    OBVIOUS
  <2>1. PICK e \in Entities : id[e] = i
    BY DEF IdInv
  <2>2. i # 0
    BY IdsAre DEF TypeOK
  <2>3. f[e] = i
    BY <2>1, <2>2 DEF IdInv
  <2> QED BY <2>3
<1>4. Registered \subseteq T
  BY DEF Registered, Fixed
<1>5. Ids \ (states \cup Registered) # {}
  <2> SUFFICES ASSUME Ids \subseteq T PROVE FALSE
    BY <1>3, <1>4
  <2>1. Cardinality(Ids) <= Cardinality(T) /\ Cardinality(T) \in Nat
    <3> HIDE DEF T
    <3> QED BY <1>2, FS_Subset, FS_CardinalityType
  <2> HIDE DEF T
  <2> QED BY <1>2, <2>1, IdsAre
<1>6. Ids \ (states \cup Registered) \subseteq Nat
  BY IdsAre
<1>7. Min(Ids \ (states \cup Registered)) \in Ids \ (states \cup Registered)
  BY <1>5, <1>6, LeastElement
<1> QED BY <1>7 DEF async_generate_entity_id

LEMMA EntityIdType ==
  ASSUME TypeOK, Fixed, IdInv, NEW e \in Entities
  PROVE  EntityId(e) \in Ids
<1>1. registry[e] # 0 => registry[e] \in Ids
  BY DEF TypeOK
<1>2. 1 \in Ids
  BY IdsAre
<1> QED BY <1>1, <1>2, FreeId DEF EntityId

-----------------------------------------------------------------------------
(* Types.                                                                  *)

(* Those that have a slot; only Acquire lets their number grow.            *)
Having == {e \in Entities : updating[e] = "has"}

LEMMA HavingIs == IsFiniteSet(Having) /\ Cardinality(Having) \in Nat
<1>1. Having \subseteq Entities
  BY DEF Having
<1> QED BY <1>1, PlatformConstants, FS_Subset, FS_CardinalityType

LEMMA SlotsStep ==
  ASSUME TypeOK, Next
  PROVE  Cardinality(Having') <= Slots
<1>0. Cardinality(Having) <= Slots /\ Slots \in Nat
  BY PlatformConstants DEF TypeOK, Having
<1>1. ASSUME NEW e \in Entities, Acquire(e) PROVE Cardinality(Having') <= Slots
  <2>1. Cardinality(Having) < Slots
    BY <1>1 DEF Acquire, Having
  <2>2. Having' = Having \cup {e} /\ e \notin Having
    BY <1>1 DEF Acquire, Having, TypeOK
  <2>3. Cardinality(Having \cup {e}) = Cardinality(Having) + 1
    BY <2>2, HavingIs, FS_AddElement
  <2> QED BY <1>0, <2>1, <2>2, <2>3, HavingIs
<1>2. ASSUME Having' \subseteq Having PROVE Cardinality(Having') <= Slots
  <2>1. Cardinality(Having') <= Cardinality(Having) /\ Cardinality(Having') \in Nat
    BY <1>2, HavingIs, FS_Subset, FS_CardinalityType
  <2> QED BY <1>0, <2>1, HavingIs
<1>3. ASSUME NEW e \in Entities, Updated(e) PROVE Having' \subseteq Having
  BY <1>3 DEF Updated, Having, TypeOK
<1>4. _update_entity_states => Having' \subseteq Having
  BY DEF _update_entity_states, Having
<1>5. UNCHANGED updating => Having' \subseteq Having
  BY DEF Having
<1>6. (\E e \in Entities : Acquire(e) \/ Updated(e)) \/ _update_entity_states \/ UNCHANGED updating
  BY DEF Next, Updating, async_add_entities, RegistryThere, AllAdded, _async_add_entity, Added,
         async_remove_entity, Removed, RemovalFails, async_reset, ResetTasks, ResetDone,
         AllUpdated, updateVars
<1> QED BY <1>1, <1>2, <1>3, <1>4, <1>5, <1>6

LEMMA RemovingIs ==
  ASSUME TypeOK, NEW E \in SUBSET Entities, NEW how \in {"single", "reset"}, Removing(E, how)
  PROVE  /\ entities' \in [Ids -> Entities \cup {None}]
         /\ \A i \in Ids : entities'[i] = None \/ (entities'[i] = entities[i] /\ entities[i] \notin E)
         /\ Present' = Present \ E
         /\ removing' \in [Entities -> {"none", "single", "reset", "over", "failed"}]
         /\ \A e \in Entities : removing'[e] = IF e \in E THEN how ELSE removing[e]
<1>1. None \notin E
  BY PlatformConstants
<1>2. Ids' = Ids
  BY DEF Ids
<1>3. \A i \in Ids : entities'[i] = IF entities[i] \in E THEN None ELSE entities[i]
  BY DEF Removing
<1>4. Present' = Present \ E
  BY <1>1, <1>2, <1>3 DEF Present
<1> QED BY <1>3, <1>4 DEF TypeOK, Removing

LEMMA TypeInit == Init => TypeOK /\ Fixed
<1> SUFFICES ASSUME Init PROVE TypeOK /\ Fixed
  OBVIOUS
<1>0. PICK m \in Mixes : batch = m.batch /\ unique = m.unique /\ registry = m.registry
  BY DEF Init
<1>1. Having = {} /\ Cardinality(Having) = 0 /\ Slots \in Nat
  <2>1. Having = {}
    BY DEF Init, Having
  <2> QED BY <2>1, FS_EmptySet, PlatformConstants
<1>2. {0, 1} \subseteq {0} \cup Ids
  BY IdsAre
<1>3. registry \in [Entities -> {0} \cup Ids] /\ Fixed
  <2>1. registry \in [Entities -> {0, 1}] /\ Fixed
    BY <1>0, MixesAre DEF Fixed
  <2> QED BY <1>2, <2>1
<1>4. Cardinality({e \in Entities : updating[e] = "has"}) <= Slots
  BY <1>1 DEF Having
<1>5. /\ updating \in [Entities -> {"none", "waits", "has"}]
      /\ ~\E e \in Entities : updating[e] # "none"
  BY DEF Init
<1>6. /\ phase \in [Batches -> {"new", "registry", "adding", "done"}]
      /\ known \in [Batches -> SUBSET Ids] /\ states \subseteq Ids /\ stray \subseteq states
      /\ adding \in [Entities -> {"new", "hook", "over", "failed"}]
      /\ id \in [Entities -> {0} \cup Ids]
      /\ entities \in [Ids -> Entities \cup {None}]
      /\ removing \in [Entities -> {"none", "single", "reset", "over", "failed"}]
      /\ doomed \subseteq Ids /\ unseen \in [Batches -> SUBSET Entities]
      /\ forgotten \subseteq Entities
      /\ {reset, polling, locked, leftover} \subseteq BOOLEAN
  BY DEF Init
<1> QED BY <1>3, <1>4, <1>5, <1>6 DEF TypeOK

(* What a step that leaves the updates alone has to keep.                  *)
PlainTypes ==
  /\ phase \in [Batches -> {"new", "registry", "adding", "done"}]
  /\ known \in [Batches -> SUBSET Ids] /\ states \subseteq Ids /\ stray \subseteq states
  /\ adding \in [Entities -> {"new", "hook", "over", "failed"}]
  /\ id \in [Entities -> {0} \cup Ids]
  /\ entities \in [Ids -> Entities \cup {None}] /\ registry \in [Entities -> {0} \cup Ids]
  /\ removing \in [Entities -> {"none", "single", "reset", "over", "failed"}]
  /\ doomed \subseteq Ids /\ unseen \in [Batches -> SUBSET Entities] /\ forgotten \subseteq Entities
  /\ {reset, polling, leftover} \subseteq BOOLEAN

LEMMA PresentIs ==
  ASSUME TypeOK, IdInv
  PROVE  /\ Present \subseteq Entities
         /\ \A e \in Present : /\ id[e] \in Ids /\ id[e] # 0 /\ entities[id[e]] = e
                               /\ removing[e] = "none"
<1>1. Present \subseteq Entities
  BY DEF Present, TypeOK
<1>2. ASSUME NEW e \in Present
      PROVE id[e] \in Ids /\ entities[id[e]] = e /\ removing[e] = "none"
  BY DEF Present, IdInv
<1> QED BY <1>1, <1>2, IdsAre

(* Whom the tasks of a reset remove.                                       *)
LEMMA DoomedAre ==
  ASSUME TypeOK
  PROVE  /\ {entities[i] : i \in doomed} \ {None} \in SUBSET Entities
         /\ {entities[i] : i \in doomed} \ {None} \subseteq Present
BY DEF TypeOK, Present

LEMMA TypeStep == TypeOK /\ Fixed /\ IdInv /\ [Next]_vars => TypeOK'
<1> SUFFICES ASSUME TypeOK, Fixed, IdInv, [Next]_vars PROVE TypeOK'
  OBVIOUS
<1> USE DEF fixed, addVars, removeVars, history, updateVars
<1>p. PlainTypes
  BY DEF TypeOK, PlainTypes
<1>a. ASSUME Next, UNCHANGED <<updating, locked>>, PlainTypes' PROVE TypeOK'
  <2>1. Cardinality(Having') <= Slots
    BY <1>a, SlotsStep
  <2> QED BY <1>a, <2>1 DEF TypeOK, PlainTypes, Having, Ids
<1>i. Ids' = Ids
  BY DEF Ids
<1>1. ASSUME NEW b \in Batches, async_add_entities(b) PROVE TypeOK'
  <2>1. Next /\ UNCHANGED <<updating, locked>>
    BY <1>1 DEF Next, async_add_entities
  <2> QED BY <1>1, <1>a, <1>i, <1>p, <2>1 DEF async_add_entities, PlainTypes
<1>2. ASSUME NEW b \in Batches, RegistryThere(b) PROVE TypeOK'
  <2>1. Next /\ UNCHANGED <<updating, locked>>
    BY <1>2 DEF Next, RegistryThere
  <2> QED BY <1>2, <1>a, <1>i, <1>p, <2>1 DEF RegistryThere, PlainTypes
<1>3. ASSUME NEW b \in Batches, AllAdded(b) PROVE TypeOK'
  <2>1. Next /\ UNCHANGED <<updating, locked>>
    BY <1>3 DEF Next, AllAdded
  <2> QED BY <1>3, <1>a, <1>i, <1>p, <2>1 DEF AllAdded, PlainTypes
<1>4. ASSUME NEW e \in Entities, _async_add_entity(e) PROVE TypeOK'
  <2>1. Next /\ UNCHANGED <<updating, locked>>
    BY <1>4 DEF Next, _async_add_entity
  <2>2. EntityId(e) \in Ids /\ batch[e] \in Batches
    BY EntityIdType DEF Fixed
  <2>3. registry' \in [Entities -> {0} \cup Ids]
    BY <1>4, <2>2 DEF _async_add_entity, TypeOK
  <2>4. /\ known' \in [Batches -> SUBSET Ids] /\ id' \in [Entities -> {0} \cup Ids]
        /\ entities' \in [Ids -> Entities \cup {None}]
        /\ adding' \in [Entities -> {"new", "hook", "over", "failed"}]
        /\ unseen' \in [Batches -> SUBSET Entities] /\ leftover' \in BOOLEAN
    <3>1. CASE EntityId(e) \in known[batch[e]]
      BY <1>4, <3>1 DEF _async_add_entity, TypeOK
    <3>2. CASE EntityId(e) \notin known[batch[e]]
      <4>1. /\ known' = [known EXCEPT ![batch[e]] = @ \cup {EntityId(e)}]
            /\ id' = [id EXCEPT ![e] = EntityId(e)] /\ adding' = [adding EXCEPT ![e] = "hook"]
            /\ entities' = [entities EXCEPT ![EntityId(e)] = e] /\ leftover' \in BOOLEAN
            /\ unseen' = [b \in Batches |-> IF b \in Active \ {batch[e]} THEN unseen[b] \cup {e}
                                            ELSE unseen[b]]
        BY <1>4, <3>2 DEF _async_add_entity, Enter, TypeOK
      <4>2. unseen' \in [Batches -> SUBSET Entities]
        BY <4>1 DEF TypeOK
      <4> QED BY <2>2, <4>1, <4>2 DEF TypeOK
    <3> QED BY <3>1, <3>2
  <2>5. UNCHANGED <<phase, states, stray, removing, doomed, forgotten, reset, polling>>
    BY <1>4 DEF _async_add_entity
  <2> QED BY <1>a, <1>i, <1>p, <2>1, <2>3, <2>4, <2>5 DEF PlainTypes
<1>5. ASSUME NEW e \in Entities, Added(e) PROVE TypeOK'
  <2>1. Next /\ UNCHANGED <<updating, locked>>
    BY <1>5 DEF Next, Added
  <2>2. id[e] \in Ids
    BY <1>5 DEF Added, IdInv, TypeOK
  <2>3. states' \subseteq Ids /\ stray' \subseteq states'
    BY <1>5, <2>2 DEF Added, Writes, TypeOK
  <2>4. adding' \in [Entities -> {"new", "hook", "over", "failed"}]
    BY <1>5 DEF Added, TypeOK
  <2> QED BY <1>5, <1>a, <1>i, <1>p, <2>1, <2>3, <2>4 DEF Added, PlainTypes
<1>6. ASSUME NEW e \in Entities, async_remove_entity(e) PROVE TypeOK'
  <2>1. Next /\ UNCHANGED <<updating, locked>> /\ Removing({e}, "single") /\ {e} \in SUBSET Entities
    BY <1>6 DEF Next, async_remove_entity
  <2>2. /\ entities' \in [Ids -> Entities \cup {None}]
        /\ removing' \in [Entities -> {"none", "single", "reset", "over", "failed"}]
    BY <2>1, RemovingIs
  <2> QED BY <1>6, <1>a, <1>i, <1>p, <2>1, <2>2 DEF async_remove_entity, PlainTypes
<1>7. ASSUME NEW e \in Entities, Removed(e) PROVE TypeOK'
  <2>1. Next /\ UNCHANGED <<updating, locked>>
    BY <1>7 DEF Next, Removed
  <2>2. polling' \in BOOLEAN /\ leftover' \in BOOLEAN
    BY <1>7 DEF Removed, StopPolling, TypeOK
  <2>3. states' \subseteq Ids /\ stray' \subseteq states'
    BY <1>7 DEF Removed, RemoveState, TypeOK
  <2>4. removing' \in [Entities -> {"none", "single", "reset", "over", "failed"}]
    BY <1>7 DEF Removed, TypeOK
  <2> QED BY <1>7, <1>a, <1>i, <1>p, <2>1, <2>2, <2>3, <2>4 DEF Removed, PlainTypes
<1>8. ASSUME NEW e \in Entities, RemovalFails(e) PROVE TypeOK'
  <2>1. Next /\ UNCHANGED <<updating, locked>>
    BY <1>8 DEF Next, RemovalFails
  <2> QED BY <1>8, <1>a, <1>i, <1>p, <2>1 DEF RemovalFails, PlainTypes
<1>9. CASE async_reset
  <2>1. Next /\ UNCHANGED <<updating, locked>>
    BY <1>9 DEF Next, async_reset
  <2> QED BY <1>9, <1>a, <1>i, <1>p, <2>1 DEF async_reset, PlainTypes
<1>10. CASE ResetTasks
  <2> DEFINE E == {entities[i] : i \in doomed} \ {None}
  <2>1. Next /\ UNCHANGED <<updating, locked>> /\ Removing(E, "reset") /\ E \in SUBSET Entities
    BY <1>10, DoomedAre DEF Next, ResetTasks
  <2> HIDE DEF E
  <2>2. /\ entities' \in [Ids -> Entities \cup {None}]
        /\ removing' \in [Entities -> {"none", "single", "reset", "over", "failed"}]
    BY <2>1, RemovingIs
  <2> QED BY <1>10, <1>a, <1>i, <1>p, <2>1, <2>2 DEF ResetTasks, PlainTypes
<1>11. CASE ResetDone
  <2>1. Next /\ UNCHANGED <<updating, locked>>
    BY <1>11 DEF Next, ResetDone
  <2>2. forgotten' \subseteq Entities
    BY <1>11, PresentIs DEF ResetDone
  <2> QED BY <1>11, <1>a, <1>i, <1>p, <2>1, <2>2 DEF ResetDone, PlainTypes
<1>12. ASSUME _update_entity_states \/ Updating PROVE TypeOK'
  <2>1. Cardinality(Having') <= Slots
    BY <1>12, SlotsStep DEF Next
  <2>2. CASE _update_entity_states
    BY <2>1, <2>2 DEF _update_entity_states, TypeOK, Having
  <2>3. ASSUME NEW e \in Entities, Acquire(e) PROVE TypeOK'
    BY <2>1, <2>3 DEF Acquire, TypeOK, Having
  <2>4. ASSUME NEW e \in Entities, Updated(e) PROVE TypeOK'
    <3>1. id[e] \in Ids
      BY <2>4 DEF Updated, IdInv, TypeOK
    <3>2. states' \subseteq Ids /\ stray' \subseteq states'
      BY <2>4, <3>1 DEF Updated, Writes, TypeOK
    <3>3. /\ updating' \in [Entities -> {"none", "waits", "has"}] /\ locked
          /\ updating[e] # "none"
      BY <2>4 DEF Updated, TypeOK
    <3> QED BY <2>1, <2>4, <3>2, <3>3 DEF Updated, TypeOK, Having
  <2>5. CASE AllUpdated
    BY <2>1, <2>5 DEF AllUpdated, TypeOK, Having
  <2> QED BY <1>12, <2>2, <2>3, <2>4, <2>5 DEF Updating
<1>13. CASE UNCHANGED vars
  BY <1>13 DEF vars, TypeOK
<1> QED BY <1>1, <1>2, <1>3, <1>4, <1>5, <1>6, <1>7, <1>8, <1>9, <1>10, <1>11, <1>12, <1>13 DEF Next

-----------------------------------------------------------------------------
(* The other parts of the invariant, step by step.                         *)

(* A step that gives out no id and enters nobody; whoever begins to be     *)
(* removed has left the platform.                                          *)
LEMMA IdKept ==
  ASSUME TypeOK, Fixed, IdInv, UNCHANGED <<unique, id, registry>>,
         \A i \in Ids : \/ entities'[i] = None
                        \/ /\ entities'[i] = entities[i]
                           /\ entities[i] # None => removing'[entities[i]] = removing[entities[i]],
         \A e \in Entities : /\ adding'[e] = "new" => adding[e] = "new"
                             /\ adding'[e] = "hook" => adding[e] = "hook"
                             /\ updating'[e] # "none" => updating[e] # "none" \/ e \in Present
                             /\ removing'[e] # "none" => removing[e] # "none" \/ e \in Present,
         \A i \in states' : i \in states \/ \E e \in Entities : id[e] = i
  PROVE  IdInv'
<1>1. \A e \in Present : id[e] # 0
  BY PresentIs
<1>2. \A i \in Ids : entities'[i] # None =>
        id'[entities'[i]] = i /\ removing'[entities'[i]] = "none"
  BY DEF IdInv
<1>3. \A e \in Entities :
        /\ adding'[e] = "new" => id'[e] = 0
        /\ adding'[e] = "hook" \/ updating'[e] # "none" \/ removing'[e] # "none" => id'[e] # 0
  BY <1>1 DEF IdInv
<1>4. (\A e \in unique' : id'[e] # 0 => id'[e] = registry'[e])
      /\ \A i \in states' : \E e \in Entities : id'[e] = i
  BY DEF IdInv
<1>5. Ids' = Ids
  BY DEF Ids
<1> QED BY <1>2, <1>3, <1>4, <1>5 DEF IdInv

LEMMA IdStep == TypeOK /\ Fixed /\ IdInv /\ Next => IdInv'
<1> SUFFICES ASSUME TypeOK, Fixed, IdInv, Next PROVE IdInv'
  OBVIOUS
<1> USE DEF fixed, addVars, removeVars, history, updateVars
<1>1. ASSUME NEW e \in Entities, _async_add_entity(e) PROVE IdInv'
  <2> DEFINE i == EntityId(e)
  <2>1. i \in Ids /\ 0 \notin Ids /\ id[e] = 0 /\ adding[e] = "new" /\ Ids' = Ids
    BY <1>1, EntityIdType, IdsAre DEF _async_add_entity, IdInv, Ids
  <2>2. e \in unique => registry' = [registry EXCEPT ![e] = i]
    BY <1>1 DEF _async_add_entity
  <2>3. e \notin unique => registry' = registry
    BY <1>1 DEF _async_add_entity
  <2>4. UNCHANGED <<unique, states, removing, updating>>
    BY <1>1 DEF _async_add_entity
  <2>5. CASE i \in known[batch[e]]
    <3>1. UNCHANGED <<id, entities>> /\ adding' = [adding EXCEPT ![e] = "failed"]
      BY <1>1, <2>5 DEF _async_add_entity
    <3>2. \A x \in unique : id[x] # 0 => registry'[x] = registry[x]
      BY <2>1, <2>2, <2>3 DEF TypeOK, Fixed
    <3> HIDE DEF i
    <3> QED BY <2>1, <2>4, <3>1, <3>2 DEF IdInv, TypeOK
  <2>6. CASE i \notin known[batch[e]]
    <3>1. /\ entities' = [entities EXCEPT ![i] = e] /\ id' = [id EXCEPT ![e] = i]
          /\ adding' = [adding EXCEPT ![e] = "hook"]
      BY <1>1, <2>6 DEF _async_add_entity, Enter
    <3> HIDE DEF i
    <3>0. removing[e] = "none"
      BY <2>1 DEF IdInv
    <3>2. ASSUME NEW j \in Ids, entities'[j] # None
          PROVE  id'[entities'[j]] = j /\ removing'[entities'[j]] = "none"
      <4>1. CASE j = i
        BY <2>1, <2>4, <3>0, <3>1, <4>1 DEF TypeOK
      <4>2. CASE j # i
        <5>1. /\ entities'[j] = entities[j] /\ id[entities[j]] = j /\ entities[j] \in Entities
              /\ removing[entities[j]] = "none"
          BY <3>1, <3>2, <4>2 DEF IdInv, TypeOK
        <5>2. entities[j] # e
          BY <2>1, <5>1
        <5> QED BY <2>4, <3>1, <5>1, <5>2 DEF TypeOK
      <4> QED BY <4>1, <4>2
    <3>3. ASSUME NEW x \in Entities
          PROVE  /\ adding'[x] = "new" => id'[x] = 0
                 /\ adding'[x] = "hook" \/ updating'[x] # "none" \/ removing'[x] # "none" => id'[x] # 0
      BY <2>1, <2>4, <3>1 DEF IdInv, TypeOK
    <3>4. ASSUME NEW x \in unique', id'[x] # 0 PROVE id'[x] = registry'[x]
      BY <2>1, <2>2, <2>3, <2>4, <3>1, <3>4 DEF IdInv, TypeOK, Fixed
    <3>5. ASSUME NEW j \in states' PROVE \E x \in Entities : id'[x] = j
      <4>1. PICK x \in Entities : id[x] = j
        BY <2>4 DEF IdInv
      <4>2. j # 0
        BY <2>1, <2>4 DEF TypeOK
      <4>3. id'[x] = j
        BY <2>1, <3>1, <4>1, <4>2 DEF TypeOK
      <4> QED BY <4>3
    <3> QED BY <2>1, <3>2, <3>3, <3>4, <3>5 DEF IdInv
  <2> QED BY <2>5, <2>6
<1>2. ASSUME NEW b \in Batches, async_add_entities(b) \/ RegistryThere(b) \/ AllAdded(b)
      PROVE  IdInv'
  BY <1>2, IdKept DEF async_add_entities, RegistryThere, AllAdded
<1>3. ASSUME NEW e \in Entities, Added(e) PROVE IdInv'
  <2>1. /\ UNCHANGED <<unique, id, registry, entities, removing, updating>>
        /\ states' \subseteq states \cup {id[e]}
        /\ \A x \in Entities : /\ adding'[x] = "new" => adding[x] = "new"
                               /\ adding'[x] = "hook" => adding[x] = "hook"
    BY <1>3 DEF Added, Writes, TypeOK
  <2> QED BY <2>1, IdKept
<1>4. ASSUME NEW e \in Entities, Removed(e) \/ RemovalFails(e) PROVE IdInv'
  <2>1. /\ UNCHANGED <<unique, id, registry, entities, adding, updating>> /\ states' \subseteq states
        /\ removing[e] # "none"
        /\ \A x \in Entities : x # e => removing'[x] = removing[x]
    BY <1>4 DEF Removed, RemovalFails, RemoveState, TypeOK
  <2>2. \A i \in Ids : entities[i] # None => entities[i] # e /\ entities[i] \in Entities
    BY <2>1 DEF IdInv, TypeOK
  <2> QED BY <2>1, <2>2, IdKept
<1>5. ASSUME NEW E \in SUBSET Entities, NEW how \in {"single", "reset"}, Removing(E, how),
             E \subseteq Present, UNCHANGED <<unique, id, registry, adding, updating, states>>
      PROVE  IdInv'
  <2>1. /\ \A i \in Ids : entities'[i] = None \/ (entities'[i] = entities[i] /\ entities[i] \notin E)
        /\ \A e \in Entities : removing'[e] = IF e \in E THEN how ELSE removing[e]
    BY <1>5, RemovingIs
  <2>2. \A i \in Ids : entities[i] # None => entities[i] \in Entities
    BY DEF TypeOK
  <2> QED BY <1>5, <2>1, <2>2, IdKept
<1>6. ASSUME NEW e \in Entities, async_remove_entity(e) PROVE IdInv'
  <2>1. /\ {e} \in SUBSET Entities /\ {e} \subseteq Present /\ Removing({e}, "single")
        /\ UNCHANGED <<unique, id, registry, adding, updating, states>>
    BY <1>6 DEF async_remove_entity
  <2> QED BY <1>5, <2>1
<1>7. CASE ResetTasks
  <2> DEFINE E == {entities[i] : i \in doomed} \ {None}
  <2>1. /\ Removing(E, "reset") /\ E \in SUBSET Entities /\ E \subseteq Present
        /\ UNCHANGED <<unique, id, registry, adding, updating, states>>
    BY <1>7, DoomedAre DEF ResetTasks
  <2> HIDE DEF E
  <2> QED BY <1>5, <2>1
<1>8. CASE async_reset \/ ResetDone
  BY <1>8, IdKept DEF async_reset, ResetDone
<1>9. CASE _update_entity_states
  <2>1. \A e \in Entities : updating'[e] # "none" => e \in Present
    BY <1>9 DEF _update_entity_states
  <2>2. UNCHANGED <<unique, id, registry, adding, entities, states, removing>>
    BY <1>9 DEF _update_entity_states
  <2> QED BY <2>1, <2>2, IdKept
<1>10. CASE Updating
  <2>1. ASSUME NEW e \in Entities, Acquire(e) PROVE IdInv'
    <3>1. \A x \in Entities : updating'[x] # "none" => updating[x] # "none"
      BY <2>1 DEF Acquire, TypeOK
    <3>2. UNCHANGED <<unique, id, registry, adding, entities, states, removing>>
      BY <2>1 DEF Acquire
    <3> QED BY <3>1, <3>2, IdKept
  <2>2. ASSUME NEW e \in Entities, Updated(e) PROVE IdInv'
    <3>1. \A x \in Entities : updating'[x] # "none" => updating[x] # "none"
      BY <2>2 DEF Updated, TypeOK
    <3>2. /\ UNCHANGED <<unique, id, registry, adding, entities, removing>>
          /\ states' \subseteq states \cup {id[e]}
      BY <2>2 DEF Updated, Writes
    <3> QED BY <3>1, <3>2, IdKept
  <2>3. CASE AllUpdated
    BY <2>3, IdKept DEF AllUpdated
  <2> QED BY <1>10, <2>1, <2>2, <2>3 DEF Updating
<1> QED BY <1>1, <1>2, <1>3, <1>4, <1>6, <1>7, <1>8, <1>9, <1>10 DEF Next

LEMMA PhaseStep == TypeOK /\ Fixed /\ PhaseInv /\ Next => PhaseInv'
<1> SUFFICES ASSUME TypeOK, Fixed, PhaseInv, Next PROVE PhaseInv'
  OBVIOUS
<1> USE DEF fixed, addVars, removeVars, history, updateVars
<1>1. ASSUME NEW b \in Batches, async_add_entities(b) PROVE PhaseInv'
  BY <1>1 DEF async_add_entities, PhaseInv, TypeOK, Fixed
<1>2. ASSUME NEW b \in Batches, RegistryThere(b) PROVE PhaseInv'
  BY <1>2 DEF RegistryThere, PhaseInv, TypeOK, Fixed
<1>3. ASSUME NEW b \in Batches, AllAdded(b) PROVE PhaseInv'
  BY <1>3 DEF AllAdded, PhaseInv, TypeOK, Fixed
<1>4. ASSUME NEW e \in Entities, _async_add_entity(e) PROVE PhaseInv'
  <2>1. /\ phase[batch[e]] = "adding" /\ UNCHANGED <<phase, batch>>
        /\ \A x \in Entities : x # e => adding'[x] = adding[x]
    BY <1>4 DEF _async_add_entity, TypeOK
  <2> QED BY <2>1 DEF PhaseInv
<1>5. ASSUME NEW e \in Entities, Added(e) PROVE PhaseInv'
  BY <1>5 DEF Added, PhaseInv, TypeOK
<1>6. UNCHANGED <<phase, batch, adding>> => PhaseInv'
  BY DEF PhaseInv
<1>7. \/ UNCHANGED <<phase, batch, adding>>
      \/ \E b \in Batches : async_add_entities(b) \/ RegistryThere(b) \/ AllAdded(b)
      \/ \E e \in Entities : _async_add_entity(e) \/ Added(e)
  BY DEF Next, Updating, async_remove_entity, Removed, RemovalFails, async_reset, ResetTasks,
         ResetDone, _update_entity_states, Acquire, Updated, AllUpdated
<1> QED BY <1>1, <1>2, <1>3, <1>4, <1>5, <1>6, <1>7

(* An entity that has an id belongs to a call that began.                  *)
LEMMA BegunIs ==
  ASSUME Fixed, IdInv, PhaseInv, NEW e \in Entities, id[e] # 0
  PROVE  batch[e] \in Batches /\ phase[batch[e]] \in {"adding", "done"} /\ adding[e] # "new"
BY DEF Fixed, IdInv, PhaseInv

(* A step that enters nobody and begins no call.                           *)
LEMMA SeenKept ==
  ASSUME SeenInv, UNCHANGED <<batch, id, unseen>>,
         \A e \in Entities : Around(e)' => Around(e),
         \A b \in Active' : b \in Active /\ known'[b] = known[b]
  PROVE  SeenInv'
<1>1. \A b \in Active' : \A e \in Entities : Around(e)' => id'[e] \in known'[b] \/ e \in unseen'[b]
  BY DEF SeenInv
<1>2. \A e, x \in Entities : e # x /\ Around(e)' /\ Around(x)' /\ id'[e] = id'[x] => Unseen(e, x)'
  BY DEF SeenInv, Unseen
<1> QED BY <1>1, <1>2 DEF SeenInv

(* The call sees who is around with a state, and is not the call of any.   *)
LEMMA SeenBegin ==
  ASSUME TypeOK, Fixed, IdInv, PhaseInv, SeenInv, NEW b \in Batches, async_add_entities(b)
  PROVE  SeenInv'
<1>1. /\ phase' = [phase EXCEPT ![b] = "registry"] /\ known' = [known EXCEPT ![b] = states]
      /\ unseen' = [unseen EXCEPT ![b] = {e \in Entities : Around(e) /\ id[e] \notin states}]
      /\ phase[b] = "new" /\ UNCHANGED <<batch, id, adding, removing>>
  BY DEF async_add_entities, fixed, addVars, removeVars
<1>2. \A e \in Entities : Around(e)' <=> Around(e)
  BY <1>1 DEF Around
<1>3. \A c \in Active' : c \in Batches /\ (c = b \/ c \in Active)
  BY <1>1 DEF Active, TypeOK
<1>4. ASSUME NEW c \in Active', NEW e \in Entities, Around(e)'
      PROVE  id'[e] \in known'[c] \/ e \in unseen'[c]
  <2>1. CASE c = b
    BY <1>1, <1>2, <1>4, <2>1 DEF TypeOK
  <2>2. CASE c # b
    <3>1. known'[c] = known[c] /\ unseen'[c] = unseen[c] /\ c \in Active
      BY <1>1, <1>3, <2>2 DEF TypeOK
    <3> QED BY <1>1, <1>2, <1>4, <3>1 DEF SeenInv
  <2> QED BY <2>1, <2>2
<1>5. ASSUME NEW e \in Entities, Around(e) PROVE unseen'[batch[e]] = unseen[batch[e]]
  <2>1. batch[e] \in Batches /\ batch[e] # b
    BY <1>1, <1>5, BegunIs DEF Around
  <2> QED BY <1>1, <2>1 DEF TypeOK
<1>6. ASSUME NEW e \in Entities, NEW x \in Entities, e # x, Around(e)', Around(x)', id'[e] = id'[x]
      PROVE  Unseen(e, x)'
  <2>1. Unseen(e, x)
    BY <1>1, <1>2, <1>6 DEF SeenInv
  <2> QED BY <1>1, <1>2, <1>5, <1>6, <2>1 DEF Unseen
<1> QED BY <1>4, <1>6 DEF SeenInv

(* Whoever has the id that is given out is not known to the call, so the   *)
(* call did not see him; and the other calls do not see who is entered.    *)
LEMMA SeenEnter ==
  ASSUME TypeOK, Fixed, IdInv, PhaseInv, SeenInv, NEW e \in Entities, _async_add_entity(e),
         EntityId(e) \notin known[batch[e]]
  PROVE  /\ SeenInv' /\ batch' = batch /\ id[e] = 0
         /\ \A x \in Entities : x # e => id'[x] = id[x]
         /\ \A b \in Batches : unseen[b] \subseteq unseen'[b]
<1> DEFINE i == EntityId(e)
           b == batch[e]
<1>1. /\ b \in Active /\ b \in Batches /\ id[e] = 0 /\ i \notin known[b] /\ i # 0
      /\ UNCHANGED <<phase, batch, removing>>
      /\ known' = [known EXCEPT ![b] = @ \cup {i}] /\ id' = [id EXCEPT ![e] = i]
  BY EntityIdType, IdsAre DEF _async_add_entity, Enter, IdInv, Fixed, Active, fixed, removeVars
<1>2. unseen' = [c \in Batches |-> IF c \in Active \ {b} THEN unseen[c] \cup {e} ELSE unseen[c]]
  BY DEF _async_add_entity, Enter
<1>3. Active' = Active
  BY <1>1 DEF Active
<1> HIDE DEF i, b
<1>4. /\ id'[e] = i /\ \A x \in Entities : x # e => id'[x] = id[x]
      /\ known'[b] = known[b] \cup {i} /\ \A c \in Batches : known[c] \subseteq known'[c]
  BY <1>1 DEF TypeOK
<1>5. \A c \in Batches : unseen[c] \subseteq unseen'[c] /\ (c \in Active /\ c # b => e \in unseen'[c])
  BY <1>2
<1>6. \A x \in Entities : x # e => (Around(x)' <=> Around(x))
  BY <1>1, <1>4 DEF Around
<1>7. ASSUME NEW c \in Active', NEW x \in Entities, Around(x)'
      PROVE  id'[x] \in known'[c] \/ x \in unseen'[c]
  <2>0. c \in Active /\ c \in Batches
    BY <1>3 DEF Active
  <2>1. CASE x = e
    BY <1>4, <1>5, <2>0, <2>1
  <2>2. CASE x # e
    <3>1. id[x] \in known[c] \/ x \in unseen[c]
      BY <1>6, <1>7, <2>0, <2>2 DEF SeenInv
    <3> QED BY <1>4, <1>5, <2>0, <2>2, <3>1
  <2> QED BY <2>1, <2>2
<1>8. ASSUME NEW x \in Entities, x # e, Around(x)', id'[x] = i PROVE x \in unseen'[b]
  <2>1. Around(x) /\ id[x] = i
    BY <1>4, <1>6, <1>8
  <2>2. x \in unseen[b]
    BY <1>1, <2>1 DEF SeenInv
  <2> QED BY <1>1, <1>5, <2>2
<1>9. ASSUME NEW x \in Entities, NEW y \in Entities, x # y, Around(x)', Around(y)', id'[x] = id'[y]
      PROVE  Unseen(x, y)'
  <2>0. batch' = batch
    BY <1>1
  <2>1. CASE x = e \/ y = e
    BY <1>4, <1>8, <1>9, <2>0, <2>1 DEF Unseen, b
  <2>2. CASE x # e /\ y # e
    <3>1. Unseen(x, y)
      BY <1>4, <1>6, <1>9, <2>2 DEF SeenInv
    <3> QED BY <1>5, <2>0, <3>1 DEF Unseen, Fixed
  <2> QED BY <2>1, <2>2
<1> QED BY <1>1, <1>4, <1>5, <1>7, <1>9 DEF SeenInv

LEMMA SeenStep ==
  TypeOK /\ Fixed /\ IdInv /\ PhaseInv /\ SeenInv /\ Next => SeenInv'
<1> SUFFICES ASSUME TypeOK, Fixed, IdInv, PhaseInv, SeenInv, Next PROVE SeenInv'
  OBVIOUS
<1> USE DEF fixed, addVars, removeVars, history, updateVars
<1>a. phase' = phase => Active' = Active
  BY DEF Active
<1>1. ASSUME NEW b \in Batches, RegistryThere(b) \/ AllAdded(b) PROVE SeenInv'
  <2>1. \A c \in Active' : c \in Active /\ known'[c] = known[c]
    <3>1. CASE RegistryThere(b)
      BY <3>1 DEF RegistryThere, Active, TypeOK
    <3>2. CASE AllAdded(b)
      BY <3>2 DEF AllAdded, Active, TypeOK
    <3> QED BY <1>1, <3>1, <3>2
  <2>2. UNCHANGED <<batch, id, unseen, removing>>
    BY <1>1 DEF RegistryThere, AllAdded
  <2> QED BY <2>1, <2>2, SeenKept DEF Around
<1>2. ASSUME NEW e \in Entities, _async_add_entity(e) PROVE SeenInv'
  <2>1. CASE EntityId(e) \in known[batch[e]]
    <3>1. UNCHANGED <<batch, id, unseen, removing, known, phase>>
      BY <1>2, <2>1 DEF _async_add_entity
    <3> QED BY <1>a, <3>1, SeenKept DEF Around
  <2> QED BY <1>2, <2>1, SeenEnter
<1>3. ASSUME NEW e \in Entities, Removed(e) \/ RemovalFails(e) PROVE SeenInv'
  <2>1. /\ UNCHANGED <<batch, id, unseen, known, phase>>
        /\ \A x \in Entities : removing'[x] \in {removing[x], "over", "failed"}
    BY <1>3 DEF Removed, RemovalFails, TypeOK
  <2> QED BY <1>a, <2>1, SeenKept DEF Around
<1>4. ASSUME NEW E \in SUBSET Present, NEW how \in {"single", "reset"}, Removing(E, how),
             UNCHANGED <<batch, id, unseen, known, phase>>
      PROVE  SeenInv'
  <2>1. Present \subseteq Entities /\ \A e \in Present : id[e] # 0 /\ removing[e] = "none"
    BY PresentIs
  <2>2. \A x \in Entities : removing'[x] = IF x \in E THEN how ELSE removing[x]
    BY <1>4, <2>1, RemovingIs
  <2>3. \A x \in Entities : Around(x)' => Around(x)
    BY <1>4, <2>1, <2>2 DEF Around
  <2> QED BY <1>4, <1>a, <2>3, SeenKept
<1>5. ASSUME NEW e \in Entities, async_remove_entity(e) PROVE SeenInv'
  <2>1. {e} \in SUBSET Present /\ Removing({e}, "single")
        /\ UNCHANGED <<batch, id, unseen, known, phase>>
    BY <1>5 DEF async_remove_entity
  <2> QED BY <1>4, <2>1
<1>6. CASE ResetTasks
  <2> DEFINE E == {entities[i] : i \in doomed} \ {None}
  <2>1. E \in SUBSET Present /\ Removing(E, "reset") /\ UNCHANGED <<batch, id, unseen, known, phase>>
    BY <1>6, DoomedAre DEF ResetTasks
  <2> HIDE DEF E
  <2> QED BY <1>4, <2>1
<1>7. UNCHANGED <<batch, id, unseen, known, phase, removing>> => SeenInv'
  BY <1>a, SeenKept DEF Around
<1>8. ASSUME NEW e \in Entities, Added(e) PROVE SeenInv'
  BY <1>7, <1>8 DEF Added
<1>9. CASE async_reset \/ ResetDone \/ _update_entity_states \/ Updating
  BY <1>7, <1>9 DEF async_reset, ResetDone, _update_entity_states, Updating, Acquire, Updated, AllUpdated
<1> QED BY <1>1, <1>2, <1>3, <1>5, <1>6, <1>8, <1>9, SeenBegin DEF Next

-----------------------------------------------------------------------------
(* States and entities.                                                    *)

(* A step that removes no state, adds nobody and begins no call.           *)
LEMMA StatesKept ==
  ASSUME StatesMatch, UNCHANGED <<batch, id, unseen>>, states \subseteq states',
         \A i \in states' \ stray' : i \in states \ stray
                                       \/ \E e \in Entities : id[e] = i /\ removing'[e] # "over",
         \A e \in Entities :
           /\ removing'[e] = "over" => removing[e] = "over"
           /\ removing'[e] = "none" => removing[e] = "none"
           /\ adding'[e] = "over" /\ adding[e] # "over" => id[e] \in states'
  PROVE  StatesMatch'
<1>1. \A i \in states' \ stray' : \E e \in Entities : id'[e] = i /\ removing'[e] # "over"
  BY DEF StatesMatch
<1>2. ASSUME NEW e \in Entities, Kept(e)', adding'[e] = "over", id'[e] \notin states'
      PROVE  \E x \in Entities \ {e} : id'[x] = id'[e] /\ Unseen(e, x)'
  <2>1. Kept(e) /\ adding[e] = "over" /\ id[e] \notin states
    BY <1>2 DEF Kept
  <2>2. PICK x \in Entities \ {e} : id[x] = id[e] /\ Unseen(e, x)
    BY <2>1 DEF StatesMatch
  <2> QED BY <2>2 DEF Unseen
<1> QED BY <1>1, <1>2 DEF StatesMatch

LEMMA WritesIs ==
  ASSUME NEW e \in Entities, Writes(e), removing' = removing
  PROVE  /\ states \subseteq states' /\ id[e] \in states'
         /\ \A i \in states' \ stray' : i \in states \ stray
              \/ \E x \in Entities : id[x] = i /\ removing'[x] # "over"
BY DEF Writes

(* The call was not under way when those with an id were added.            *)
LEMMA StatesBegin ==
  ASSUME TypeOK, Fixed, IdInv, PhaseInv, StatesMatch, NEW b \in Batches, async_add_entities(b)
  PROVE  StatesMatch'
<1>1. /\ unseen' = [unseen EXCEPT ![b] = {e \in Entities : Around(e) /\ id[e] \notin states}]
      /\ phase[b] = "new" /\ UNCHANGED <<batch, id, adding, removing, states, stray>>
  BY DEF async_add_entities, fixed, addVars, removeVars
<1>2. ASSUME NEW e \in Entities, id[e] # 0 PROVE unseen'[batch[e]] = unseen[batch[e]]
  <2>1. batch[e] \in Batches /\ batch[e] # b
    BY <1>1, <1>2, BegunIs
  <2> QED BY <1>1, <2>1 DEF TypeOK
<1>3. ASSUME NEW e \in Entities, Kept(e)', adding'[e] = "over", id'[e] \notin states'
      PROVE  \E x \in Entities \ {e} : id'[x] = id'[e] /\ Unseen(e, x)'
  <2>1. Kept(e) /\ adding[e] = "over" /\ id[e] \notin states /\ id[e] # 0
    BY <1>1, <1>3 DEF Kept
  <2>2. PICK x \in Entities \ {e} : id[x] = id[e] /\ Unseen(e, x)
    BY <2>1 DEF StatesMatch
  <2> QED BY <1>1, <1>2, <2>1, <2>2 DEF Unseen
<1>4. \A i \in states' \ stray' : \E e \in Entities : id'[e] = i /\ removing'[e] # "over"
  BY <1>1 DEF StatesMatch
<1> QED BY <1>3, <1>4 DEF StatesMatch

LEMMA StatesEnter ==
  ASSUME TypeOK, Fixed, IdInv, PhaseInv, SeenInv, StatesMatch, NEW e \in Entities,
         _async_add_entity(e), EntityId(e) \notin known[batch[e]]
  PROVE  StatesMatch'
<1>1. /\ batch' = batch /\ id[e] = 0 /\ \A x \in Entities : x # e => id'[x] = id[x]
      /\ \A b \in Batches : unseen[b] \subseteq unseen'[b]
  BY SeenEnter
<1>2. /\ UNCHANGED <<removing, states, stray>> /\ adding'[e] = "hook"
      /\ \A x \in Entities : x # e => adding'[x] = adding[x]
  BY DEF _async_add_entity, removeVars, TypeOK
<1>3. 0 \notin states
  BY IdsAre DEF TypeOK
<1>4. ASSUME NEW i \in states' \ stray'
      PROVE  \E x \in Entities : id'[x] = i /\ removing'[x] # "over"
  <2>1. PICK x \in Entities : id[x] = i /\ removing[x] # "over"
    BY <1>2, <1>4 DEF StatesMatch
  <2> QED BY <1>1, <1>2, <1>3, <1>4, <2>1
<1>5. ASSUME NEW y \in Entities, Kept(y)', adding'[y] = "over", id'[y] \notin states'
      PROVE  \E x \in Entities \ {y} : id'[x] = id'[y] /\ Unseen(y, x)'
  <2>1. y # e /\ id'[y] = id[y] /\ id[y] # 0 /\ adding[y] = "over" /\ Kept(y)
    BY <1>1, <1>2, <1>5 DEF Kept
  <2>2. PICK x \in Entities \ {y} : id[x] = id[y] /\ Unseen(y, x)
    BY <1>2, <1>5, <2>1 DEF StatesMatch
  <2>3. x # e /\ id'[x] = id[x]
    BY <1>1, <2>1, <2>2
  <2>4. Unseen(y, x)'
    BY <1>1, <2>2 DEF Unseen, Fixed
  <2> QED BY <2>1, <2>2, <2>3, <2>4
<1> QED BY <1>4, <1>5 DEF StatesMatch

(* With the state goes that of everybody who shares the id.                *)
LEMMA StatesRemoved ==
  ASSUME TypeOK, IdInv, SeenInv, StatesMatch, NEW e \in Entities, Removed(e)
  PROVE  StatesMatch'
<1>1. /\ states' = states \ {id[e]} /\ stray' = stray \ {id[e]}
      /\ removing[e] \in {"single", "reset"} /\ removing'[e] = "over"
      /\ \A x \in Entities : x # e => removing'[x] = removing[x]
      /\ UNCHANGED <<batch, id, adding, unseen>>
  BY DEF Removed, RemoveState, fixed, addVars, TypeOK
<1>2. ASSUME NEW i \in states' \ stray'
      PROVE  \E x \in Entities : id'[x] = i /\ removing'[x] # "over"
  <2>1. PICK x \in Entities : id[x] = i /\ removing[x] # "over"
    BY <1>1, <1>2 DEF StatesMatch
  <2> QED BY <1>1, <1>2, <2>1
<1>3. ASSUME NEW y \in Entities, Kept(y)', adding'[y] = "over", id'[y] \notin states'
      PROVE  \E x \in Entities \ {y} : id'[x] = id'[y] /\ Unseen(y, x)'
  <2>1. y # e /\ Kept(y) /\ adding[y] = "over"
    BY <1>1, <1>3 DEF Kept
  <2>2. CASE id[y] \notin states
    <3>1. PICK x \in Entities \ {y} : id[x] = id[y] /\ Unseen(y, x)
      BY <2>1, <2>2 DEF StatesMatch
    <3> QED BY <1>1, <3>1 DEF Unseen
  <2>3. CASE id[y] \in states
    <3>1. id[e] = id[y] /\ Around(e) /\ Around(y)
      BY <1>1, <1>3, <2>1, <2>3 DEF Around, Kept
    <3>2. Unseen(y, e)
      BY <2>1, <3>1 DEF SeenInv
    <3> QED BY <1>1, <2>1, <3>1, <3>2 DEF Unseen
  <2> QED BY <2>2, <2>3
<1> QED BY <1>2, <1>3 DEF StatesMatch

LEMMA StatesStep ==
  TypeOK /\ Fixed /\ IdInv /\ PhaseInv /\ SeenInv /\ StatesMatch /\ Next => StatesMatch'
<1> SUFFICES ASSUME TypeOK, Fixed, IdInv, PhaseInv, SeenInv, StatesMatch, Next PROVE StatesMatch'
  OBVIOUS
<1> USE DEF fixed, addVars, removeVars, history, updateVars
<1>1. ASSUME NEW b \in Batches, RegistryThere(b) \/ AllAdded(b) PROVE StatesMatch'
  <2>1. UNCHANGED <<batch, id, unseen, states, stray, removing, adding>>
    BY <1>1 DEF RegistryThere, AllAdded
  <2> QED BY <2>1, StatesKept
<1>2. ASSUME NEW e \in Entities, _async_add_entity(e) PROVE StatesMatch'
  <2>1. CASE EntityId(e) \in known[batch[e]]
    <3>1. /\ UNCHANGED <<batch, id, unseen, states, stray, removing>>
          /\ \A x \in Entities : adding'[x] = "over" => adding[x] = "over"
      BY <1>2, <2>1 DEF _async_add_entity, TypeOK
    <3> QED BY <3>1, StatesKept
  <2> QED BY <1>2, <2>1, StatesEnter
<1>3. ASSUME NEW e \in Entities, Added(e) PROVE StatesMatch'
  <2>1. /\ UNCHANGED <<batch, id, unseen, removing>>
        /\ \A x \in Entities : x # e => adding'[x] = adding[x]
    BY <1>3 DEF Added, TypeOK
  <2>2. CASE Writes(e)
    BY <2>1, <2>2, WritesIs, StatesKept
  <2>3. CASE adding' = [adding EXCEPT ![e] = "failed"] /\ UNCHANGED <<states, stray>>
    <3>1. \A x \in Entities : adding'[x] = "over" => adding[x] = "over"
      BY <2>3 DEF TypeOK
    <3> QED BY <2>1, <2>3, <3>1, StatesKept
  <2> QED BY <1>3, <2>2, <2>3 DEF Added
<1>4. ASSUME NEW e \in Entities, RemovalFails(e) PROVE StatesMatch'
  <2>1. /\ UNCHANGED <<batch, id, unseen, states, stray, adding>>
        /\ removing'[e] = "failed" /\ \A x \in Entities : x # e => removing'[x] = removing[x]
    BY <1>4 DEF RemovalFails, TypeOK
  <2>2. \A i \in states \ stray : \E x \in Entities : id[x] = i /\ removing'[x] # "over"
    BY <2>1 DEF StatesMatch
  <2> QED BY <2>1, <2>2, StatesKept
<1>5. ASSUME NEW E \in SUBSET Entities, NEW how \in {"single", "reset"}, Removing(E, how),
             UNCHANGED <<batch, id, unseen, states, stray, adding>>
      PROVE  StatesMatch'
  <2>1. \A x \in Entities : removing'[x] = IF x \in E THEN how ELSE removing[x]
    BY <1>5, RemovingIs
  <2>2. \A x \in Entities : /\ removing'[x] = "over" => removing[x] = "over"
                            /\ removing'[x] = "none" => removing[x] = "none"
    BY <2>1
  <2> QED BY <1>5, <2>2, StatesKept
<1>6. ASSUME NEW e \in Entities, async_remove_entity(e) PROVE StatesMatch'
  <2>1. /\ {e} \in SUBSET Entities /\ Removing({e}, "single")
        /\ UNCHANGED <<batch, id, unseen, states, stray, adding>>
    BY <1>6 DEF async_remove_entity
  <2> QED BY <1>5, <2>1
<1>7. CASE ResetTasks
  <2> DEFINE E == {entities[i] : i \in doomed} \ {None}
  <2>1. /\ E \in SUBSET Entities /\ Removing(E, "reset")
        /\ UNCHANGED <<batch, id, unseen, states, stray, adding>>
    BY <1>7, DoomedAre DEF ResetTasks
  <2> HIDE DEF E
  <2> QED BY <1>5, <2>1
<1>8. UNCHANGED <<batch, id, unseen, states, stray, removing, adding>> => StatesMatch'
  BY StatesKept
<1>9. CASE async_reset \/ ResetDone \/ _update_entity_states \/ AllUpdated
  BY <1>8, <1>9 DEF async_reset, ResetDone, _update_entity_states, AllUpdated
<1>10. ASSUME NEW e \in Entities, Acquire(e) PROVE StatesMatch'
  BY <1>8, <1>10 DEF Acquire
<1>11. ASSUME NEW e \in Entities, Updated(e) PROVE StatesMatch'
  <2>1. UNCHANGED <<batch, id, unseen, removing, adding>> /\ (Writes(e) \/ UNCHANGED <<states, stray>>)
    BY <1>11 DEF Updated
  <2>2. CASE Writes(e)
    BY <2>1, <2>2, WritesIs, StatesKept
  <2> QED BY <1>8, <2>1, <2>2
<1> QED BY <1>1, <1>2, <1>3, <1>4, <1>6, <1>7, <1>9, <1>10, <1>11, StatesBegin, StatesRemoved
        DEF Next, Updating

-----------------------------------------------------------------------------
(* Polling.                                                                *)

(* Who is there after somebody was entered.                                *)
LEMMA EnterPresent ==
  ASSUME TypeOK, Fixed, IdInv, NEW e \in Entities, _async_add_entity(e),
         EntityId(e) \notin known[batch[e]]
  PROVE  /\ Present' \subseteq Present \cup {e}
         /\ \A x \in Present : x \in Present' \/ x = entities[EntityId(e)]
<1> DEFINE i == EntityId(e)
<1>1. i \in Ids /\ Ids' = Ids
  BY EntityIdType DEF Ids
<1>2. entities' = [entities EXCEPT ![i] = e]
  BY DEF _async_add_entity, Enter
<1> HIDE DEF i
<1>3. entities'[i] = e /\ \A j \in Ids : j # i => entities'[j] = entities[j]
  BY <1>1, <1>2 DEF TypeOK
<1>4. Present' \subseteq Present \cup {e}
  BY <1>1, <1>3 DEF Present
<1>5. ASSUME NEW x \in Present, x # entities[i] PROVE x \in Present'
  <2>1. PICK j \in Ids : entities[j] = x
    BY DEF Present
  <2>2. x # None /\ j # i
    BY <1>5, <2>1 DEF Present
  <2> QED BY <1>1, <1>3, <2>1, <2>2 DEF Present
<1> QED BY <1>4, <1>5 DEF i

(* A step that keeps the polling as it is and lets nobody in.              *)
LEMMA PollKept ==
  ASSUME PollingRight, ResetInv, UNCHANGED <<batch, polled, phase, polling, forgotten, leftover>>,
         Present' \subseteq Present, reset => reset', doomed' # {} => reset',
         polling => \/ Present' \cap polled = Present \cap polled
                    \/ reset' \/ \E e \in Entities : removing'[e] = "single",
         \A e \in Entities : removing[e] = "single" => removing'[e] = "single"
  PROVE  PollingRight' /\ ResetInv'
<1>1. \A e \in Present' \cap polled' : phase'[batch'[e]] = "done" => polling' \/ e \in forgotten'
  BY DEF PollingRight
<1>2. polling' => \/ Present' \cap polled' # {} \/ reset' \/ leftover'
                  \/ \E e \in Entities : removing'[e] = "single"
  BY DEF PollingRight
<1> QED BY <1>1, <1>2 DEF PollingRight, ResetInv

LEMMA PollStep ==
  TypeOK /\ Fixed /\ IdInv /\ ResetInv /\ PollingRight /\ Next => PollingRight' /\ ResetInv'
<1> SUFFICES ASSUME TypeOK, Fixed, IdInv, ResetInv, PollingRight, Next
             PROVE  PollingRight' /\ ResetInv'
  OBVIOUS
<1> USE DEF fixed, addVars, removeVars, history, updateVars
<1>0. Present \subseteq Entities
  BY PresentIs
<1>p. entities' = entities => Present' = Present
  BY DEF Present, Ids
<1>1. ASSUME NEW b \in Batches, async_add_entities(b) \/ RegistryThere(b)
      PROVE  PollingRight' /\ ResetInv'
  <2>1. /\ phase' \in {[phase EXCEPT ![b] = "registry"], [phase EXCEPT ![b] = "adding"]}
        /\ UNCHANGED <<batch, polled, entities, removing, doomed, reset, polling, forgotten, leftover>>
    BY <1>1 DEF async_add_entities, RegistryThere
  <2>2. \A e \in Entities : phase'[batch[e]] = "done" => phase[batch[e]] = "done"
    BY <2>1 DEF TypeOK, Fixed
  <2> QED BY <1>0, <1>p, <2>1, <2>2 DEF PollingRight, ResetInv
<1>2. ASSUME NEW b \in Batches, AllAdded(b) PROVE PollingRight' /\ ResetInv'
  <2>1. /\ polling' = (polling \/ Present \cap polled # {})
        /\ UNCHANGED <<batch, polled, entities, removing, doomed, reset, leftover>>
    BY <1>2 DEF AllAdded
  <2> QED BY <1>0, <1>p, <2>1 DEF PollingRight, ResetInv
<1>3. ASSUME NEW e \in Entities, _async_add_entity(e) PROVE PollingRight' /\ ResetInv'
  <2>1. /\ phase[batch[e]] = "adding"
        /\ UNCHANGED <<batch, polled, phase, removing, doomed, reset, polling, forgotten>>
    BY <1>3 DEF _async_add_entity
  <2>2. CASE EntityId(e) \in known[batch[e]]
    <3>1. UNCHANGED <<entities, leftover>>
      BY <1>3, <2>2 DEF _async_add_entity
    <3> QED BY <1>p, <2>1, <3>1 DEF PollingRight, ResetInv
  <2>3. CASE EntityId(e) \notin known[batch[e]]
    <3>1. leftover' = (leftover \/ (polling /\ entities[EntityId(e)] \in polled))
      BY <1>3, <2>3 DEF _async_add_entity, Enter
    <3>2. /\ Present' \subseteq Present \cup {e}
          /\ \A x \in Present : x \in Present' \/ x = entities[EntityId(e)]
      BY <1>3, <2>3, EnterPresent
    <3>3. polling => Present' \cap polled # {} \/ leftover' \/ Present \cap polled = {}
      BY <3>1, <3>2
    <3> QED BY <1>0, <2>1, <3>1, <3>2, <3>3 DEF PollingRight, ResetInv
  <2> QED BY <2>2, <2>3
<1>4. ASSUME NEW e \in Entities, async_remove_entity(e) PROVE PollingRight' /\ ResetInv'
  <2>1. /\ {e} \in SUBSET Entities /\ Removing({e}, "single")
        /\ UNCHANGED <<batch, polled, phase, doomed, reset, polling, forgotten, leftover>>
    BY <1>4 DEF async_remove_entity
  <2>2. /\ Present' = Present \ {e}
        /\ \A x \in Entities : removing'[x] = IF x = e THEN "single" ELSE removing[x]
    BY <2>1, RemovingIs
  <2> QED BY <2>1, <2>2, PollKept DEF ResetInv
<1>5. ASSUME NEW e \in Entities, Removed(e) PROVE PollingRight' /\ ResetInv'
  <2>1. /\ UNCHANGED <<batch, polled, entities, phase, doomed, reset, forgotten>>
        /\ \A x \in Entities : x # e => removing'[x] = removing[x]
    BY <1>5 DEF Removed, TypeOK
  <2>2. CASE removing[e] = "single"
    <3>1. polling' = (polling /\ Present \cap polled # {})
      BY <1>5, <2>2 DEF Removed, StopPolling
    <3> QED BY <1>0, <1>p, <2>1, <3>1 DEF PollingRight, ResetInv
  <2>3. CASE removing[e] # "single"
    <3>1. UNCHANGED <<polling, leftover>>
      BY <1>5, <2>3 DEF Removed
    <3> QED BY <1>p, <2>1, <2>3, <3>1 DEF PollingRight, ResetInv
  <2> QED BY <2>2, <2>3
<1>6. ASSUME NEW e \in Entities, RemovalFails(e) PROVE PollingRight' /\ ResetInv'
  <2>1. /\ UNCHANGED <<batch, polled, entities, phase, doomed, reset, polling, forgotten>>
        /\ leftover' = (leftover \/ (polling /\ removing[e] = "single"))
        /\ \A x \in Entities : x # e => removing'[x] = removing[x]
    BY <1>6 DEF RemovalFails, TypeOK
  <2> QED BY <1>p, <2>1 DEF PollingRight, ResetInv
<1>7. CASE async_reset
  <2>1. /\ reset' = TRUE
        /\ UNCHANGED <<batch, polled, entities, phase, removing, polling, forgotten, leftover>>
    BY <1>7 DEF async_reset
  <2> QED BY <1>p, <2>1, PollKept
<1>8. CASE ResetTasks
  <2> DEFINE E == {entities[i] : i \in doomed} \ {None}
  <2>1. /\ E \in SUBSET Entities /\ E \subseteq Present /\ Removing(E, "reset") /\ reset
        /\ doomed' = {}
        /\ UNCHANGED <<batch, polled, phase, reset, polling, forgotten, leftover>>
    BY <1>8, DoomedAre DEF ResetTasks, ResetInv
  <2> HIDE DEF E
  <2>2. /\ Present' = Present \ E
        /\ \A x \in Entities : removing'[x] = IF x \in E THEN "reset" ELSE removing[x]
    BY <2>1, RemovingIs
  <2>3. \A x \in E : removing[x] = "none"
    BY <2>1, PresentIs
  <2> QED BY <2>1, <2>2, <2>3, PollKept
<1>9. CASE ResetDone
  <2>1. /\ doomed = {} /\ doomed' = {} /\ polling' = FALSE
        /\ forgotten' = {e \in Present : phase[batch[e]] = "done"}
        /\ UNCHANGED <<batch, polled, entities, phase>>
    BY <1>9 DEF ResetDone
  <2> QED BY <1>p, <2>1 DEF PollingRight, ResetInv
<1>10. UNCHANGED <<batch, polled, entities, phase, removing, doomed, reset, polling, forgotten, leftover>>
       => PollingRight' /\ ResetInv'
  BY <1>p DEF PollingRight, ResetInv
<1>11. ASSUME NEW e \in Entities, Added(e) PROVE PollingRight' /\ ResetInv'
  BY <1>10, <1>11 DEF Added
<1>12. CASE _update_entity_states \/ Updating
  BY <1>10, <1>12 DEF _update_entity_states, Updating, Acquire, Updated, AllUpdated
<1> QED BY <1>1, <1>2, <1>3, <1>4, <1>5, <1>6, <1>7, <1>8, <1>9, <1>11, <1>12 DEF Next

-----------------------------------------------------------------------------
LEMMA InvInit == Init => Inv
<1> SUFFICES ASSUME Init PROVE Inv
  OBVIOUS
<1>1. Present = {} /\ Active = {} /\ \A e \in Entities : id[e] = 0
  BY DEF Init, Present, Active
<1>2. IdInv /\ PhaseInv
  BY TypeInit DEF Init, IdInv, PhaseInv, Fixed
<1>3. SeenInv /\ StatesMatch /\ ResetInv /\ PollingRight
  BY <1>1 DEF Init, SeenInv, StatesMatch, ResetInv, PollingRight, Around, Kept
<1> QED BY <1>2, <1>3, TypeInit DEF Inv

LEMMA InvStep == Inv /\ [Next]_vars => Inv'
<1> SUFFICES ASSUME Inv, [Next]_vars PROVE Inv'
  OBVIOUS
<1>1. TypeOK'
  BY TypeStep DEF Inv
<1>2. CASE Next
  <2>1. Fixed'
    <3>1. UNCHANGED fixed
      BY <1>2 DEF Next, Updating, async_add_entities, RegistryThere, AllAdded, _async_add_entity,
                  Added, async_remove_entity, Removed, RemovalFails, async_reset, ResetTasks,
                  ResetDone, _update_entity_states, Acquire, Updated, AllUpdated
    <3> QED BY <3>1 DEF Inv, Fixed, fixed
  <2> QED BY <1>1, <1>2, <2>1, IdStep, PhaseStep, SeenStep, StatesStep, PollStep DEF Inv
<1>3. CASE UNCHANGED vars
  <2>1. UNCHANGED <<fixed, addVars, entities, states, removeVars, polling, updateVars, history>>
    BY <1>3 DEF vars
  <2>2. Fixed' /\ IdInv' /\ PhaseInv'
    BY <2>1 DEF Inv, Fixed, IdInv, PhaseInv, Ids, fixed, addVars, removeVars, updateVars
  <2>3. SeenInv' /\ StatesMatch'
    BY <2>1 DEF Inv, SeenInv, StatesMatch, Unseen, Around, Kept, Active,
                fixed, addVars, removeVars, history
  <2>4. ResetInv' /\ PollingRight'
    BY <2>1 DEF Inv, ResetInv, PollingRight, Present, Ids, fixed, addVars, removeVars, history
  <2> QED BY <1>1, <2>2, <2>3, <2>4 DEF Inv
<1> QED BY <1>2, <1>3

LEMMA InvCorrect == Spec => []Inv
BY InvInit, InvStep, PTL DEF Spec

(* The platform keeps its types, there is always a free id, and never more *)
(* updates run than there are slots.                                       *)
THEOREM TypeCorrect == Spec => []TypeOK
<1>1. Inv => TypeOK
  BY DEF Inv
<1> QED BY <1>1, InvCorrect, PTL

(* No two entities get the same id, whatever calls, removals and resets    *)
(* overlap, unless the call of one of them did not see the other.          *)
THEOREM OneEntityPerIdCorrect == Spec => []OneEntityPerId
<1>1. Inv => OneEntityPerId
  BY DEF Inv, SeenInv, Around, Kept, OneEntityPerId
<1> QED BY <1>1, InvCorrect, PTL

(* A state belongs to an entity that is not gone, or was written after its *)
(* removal; an entity that was added has a state, if it shares no id.      *)
THEOREM StatesMatchCorrect == Spec => []StatesMatch
<1>1. Inv => StatesMatch
  BY DEF Inv
<1> QED BY <1>1, InvCorrect, PTL

(* What has to be polled is polled, but for what a reset forgot; and what  *)
(* polls for nothing will be stopped by somebody under way, or something   *)
(* failed or was displaced.                                                *)
THEOREM PollingRightCorrect == Spec => []PollingRight
<1>1. Inv => PollingRight
  BY DEF Inv
<1> QED BY <1>1, InvCorrect, PTL
=============================================================================
