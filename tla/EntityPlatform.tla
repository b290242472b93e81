--------------------------- MODULE EntityPlatform ---------------------------
(***************************************************************************)
(* The entities of one platform, homeassistant/helpers/entity_platform.py, *)
(* with the ids of entity_registry.py and the updates of entity.py.        *)
(* Adding, removing, resetting and polling are coroutines that meet at     *)
(* every await, and the hooks that an entity may have can raise.  All      *)
(* entities here want the same name, as only those get into each other's   *)
(* way: id 1 is the name itself, n is name_n.                              *)
(***************************************************************************)
EXTENDS Naturals, FiniteSets, FiniteSetsExt

CONSTANTS
  Entities,  \* the entities there may be
  Batches,   \* calls of async_add_entities
  Mixes,     \* which entities there are, in the same form as the variables
  Slots,     \* parallel_updates
  MaxTicks   \* bound: ticks of the polling interval

None == "none"

ASSUME PlatformConstants ==
  /\ IsFiniteSet(Entities) /\ None \notin Entities
  /\ Slots \in Nat \ {0} /\ MaxTicks \in Nat

ASSUME MixesAre ==
  \A m \in Mixes :
    /\ m.batch \in [Entities -> Batches] /\ m.unique \subseteq Entities
    /\ m.preset \subseteq Entities \ m.unique /\ m.polled \subseteq Entities
    /\ m.registry \in [Entities -> {0, 1}]
    /\ \A e, x \in Entities : /\ m.registry[e] # 0 => e \in m.unique
                              /\ m.registry[e] # 0 /\ m.registry[x] # 0 => e = x

VARIABLES
  batch,     \* in which call an entity is added
  unique,    \* entities with a unique_id
  preset,    \* others that bring the name as their entity_id
  polled,    \* those with should_poll
  phase,     \* of each call
  known,     \* component_entities of each call
  adding,    \* where the coroutine _async_add_entity of an entity is
  id,        \* entity_id, 0 for none
  entities,  \* self.entities: for each id its entity, or None
  registry,  \* the registry's id of each entity with a unique_id, 0 for none
  states,    \* ids in the state machine
  removing,  \* where _async_remove_entity of an entity is, and for whom
  doomed,    \* ids for which a reset has a task that has not begun
  reset,     \* is async_reset under way?
  polling,   \* is _async_unsub_polling set?
  updating,  \* where the update of an entity is: none, waits for a slot, has it
  locked,    \* _process_updates
  unseen,    \* history: entities around whose ids a call does not know
  stray,     \* history: states written by an entity already removed
  forgotten, \* history: entities there when a reset stopped the polling
  leftover,  \* history: did a removal fail, or an entity displace a polled
             \* one, since the polling began?
  ticks      \* bound: number of ticks

addVars == <<phase, known, adding, id, registry>>
removeVars == <<removing, doomed, reset>>
fixed == <<batch, unique, preset, polled>>
history == <<unseen, stray, forgotten, leftover>>
updateVars == <<updating, locked, ticks>>
vars == <<fixed, addVars, entities, states, removeVars, polling, updateVars, history>>

Ids == 1..(Cardinality(Entities) + 1)
Active == {b \in Batches : phase[b] \in {"registry", "adding"}}
Present == {entities[i] : i \in Ids} \ {None}
Registered == {registry[e] : e \in unique} \ {0}

(* Entities that have an id and were not removed, as far as their owner is *)
(* concerned; and those whose state is not removed yet.                    *)
Kept(e) == id[e] # 0 /\ removing[e] = "none"
Around(e) == id[e] # 0 /\ removing[e] \in {"none", "single", "reset"}

-----------------------------------------------------------------------------
(* (Mutant: a call knows only the ids that it gave out itself.)            *)
async_add_entities_NoSnapshot(b) ==
  /\ phase[b] = "new"
  /\ phase' = [phase EXCEPT ![b] = "registry"]
  /\ unseen' = [unseen EXCEPT ![b] = {e \in Entities : Around(e) /\ id[e] \notin states}]
  /\ UNCHANGED <<fixed, known, adding, id, registry, entities, states, removeVars, polling,
                 updateVars, stray, forgotten, leftover>>

(* async_add_entities up to the registry: the ids in use are looked up     *)
(* here, before the wait, and those are in use that have a state.          *)
async_add_entities(b) ==
  /\ phase[b] = "new"
  /\ phase' = [phase EXCEPT ![b] = "registry"]
  /\ known' = [known EXCEPT ![b] = states]
  /\ unseen' = [unseen EXCEPT ![b] = {e \in Entities : Around(e) /\ id[e] \notin states}]
  /\ UNCHANGED <<fixed, adding, id, registry, entities, states, removeVars, polling,
                 updateVars, stray, forgotten, leftover>>

RegistryThere(b) ==
  /\ phase[b] = "registry"
  /\ phase' = [phase EXCEPT ![b] = "adding"]
  /\ UNCHANGED <<fixed, known, adding, id, registry, entities, states, removeVars, polling,
                 updateVars, history>>

async_generate_entity_id == Min(Ids \ (states \cup Registered))

EntityId(e) ==
  IF e \in unique
    THEN IF registry[e] # 0 THEN registry[e] ELSE async_generate_entity_id
    ELSE IF e \in preset /\ 1 \notin Registered THEN 1 ELSE async_generate_entity_id

Enter(e) ==
  /\ entities' = [entities EXCEPT ![EntityId(e)] = e]
  /\ known' = [known EXCEPT ![batch[e]] = @ \cup {EntityId(e)}]
  /\ unseen' = [b \in Batches |-> IF b \in Active \ {batch[e]} THEN unseen[b] \cup {e} ELSE unseen[b]]
  /\ leftover' = (leftover \/ (polling /\ entities[EntityId(e)] \in polled))

(* _async_add_entity up to async_added_to_hass; it raises if the id was    *)
(* known when the call began, or given out by the call since.              *)
_async_add_entity(e) ==
  /\ phase[batch[e]] = "adding" /\ adding[e] = "new"
  /\ registry' = IF e \in unique THEN [registry EXCEPT ![e] = EntityId(e)] ELSE registry
  /\ IF EntityId(e) \in known[batch[e]]
       THEN /\ adding' = [adding EXCEPT ![e] = "failed"]
            /\ UNCHANGED <<known, id, entities, unseen, leftover>>
       ELSE /\ Enter(e)
            /\ id' = [id EXCEPT ![e] = EntityId(e)]
            /\ adding' = [adding EXCEPT ![e] = "hook"]
  /\ UNCHANGED <<fixed, phase, states, removeVars, polling, updateVars, stray, forgotten>>

Writes(e) ==
  /\ states' = states \cup {id[e]}
  /\ stray' = IF removing[e] = "over" THEN stray \cup {id[e]} ELSE stray

(* After async_added_to_hass the first state is written; either may raise, *)
(* and the entity stays without one.                                       *)
Added(e) ==
  /\ adding[e] = "hook"
  /\ \/ adding' = [adding EXCEPT ![e] = "over"] /\ Writes(e)
     \/ adding' = [adding EXCEPT ![e] = "failed"] /\ UNCHANGED <<states, stray>>
  /\ UNCHANGED <<fixed, phase, known, id, registry, entities, removeVars, polling,
                 updateVars, unseen, forgotten, leftover>>

(* All entities of the call are through: poll them, unless somebody does.  *)
AllAdded(b) ==
  /\ phase[b] = "adding"
  /\ \A e \in Entities : batch[e] = b => adding[e] \in {"over", "failed"}
  /\ phase' = [phase EXCEPT ![b] = "done"]
  /\ known' = [known EXCEPT ![b] = {}]
  /\ polling' = (polling \/ Present \cap polled # {})
  /\ forgotten' = IF polling' THEN {} ELSE forgotten
  /\ UNCHANGED <<fixed, adding, id, registry, entities, states, removeVars,
                 updateVars, unseen, stray, leftover>>

(* _async_remove_entity up to async_will_remove_from_hass.                 *)
Removing(E, how) ==
  /\ entities' = [i \in Ids |-> IF entities[i] \in E THEN None ELSE entities[i]]
  /\ removing' = [e \in Entities |-> IF e \in E THEN how ELSE removing[e]]

async_remove_entity(e) ==
  /\ e \in Present
  /\ Removing({e}, "single")
  /\ UNCHANGED <<fixed, addVars, states, doomed, reset, polling, updateVars, history>>

(* (Mutant: the polling goes on when the last polled entity is gone.)      *)
StopPolling_Never == UNCHANGED <<polling, leftover>>

StopPolling ==
  /\ polling' = (polling /\ Present \cap polled # {})
  /\ leftover' = (leftover /\ polling')

(* (Mutant: a reset leaves the states.)                                    *)
RemoveState_Single(e) ==
  IF removing[e] = "single" THEN states' = states \ {id[e]} /\ stray' = stray \ {id[e]}
  ELSE UNCHANGED <<states, stray>>

RemoveState(e) == states' = states \ {id[e]} /\ stray' = stray \ {id[e]}

(* After async_will_remove_from_hass; async_remove_entity goes on with the *)
(* polling, async_reset waits for all its tasks.                           *)
Removed(e) ==
  /\ removing[e] \in {"single", "reset"}
  /\ removing' = [removing EXCEPT ![e] = "over"]
  /\ RemoveState(e)
  /\ IF removing[e] = "single" THEN StopPolling ELSE UNCHANGED <<polling, leftover>>
  /\ UNCHANGED <<fixed, addVars, entities, doomed, reset, updateVars, unseen, forgotten>>

(* async_will_remove_from_hass raises: the state stays, and the polling is *)
(* not looked at; async_reset does not notice.                             *)
RemovalFails(e) ==
  /\ removing[e] \in {"single", "reset"}
  /\ removing' = [removing EXCEPT ![e] = "failed"]
  /\ leftover' = (leftover \/ (polling /\ removing[e] = "single"))
  /\ UNCHANGED <<fixed, addVars, entities, states, doomed, reset, polling, updateVars,
                 unseen, stray, forgotten>>

(* A task for every entity.  (Bound: no reset while one is under way.)     *)
async_reset ==
  /\ ~reset /\ Present # {}
  /\ reset' = TRUE /\ doomed' = {i \in Ids : entities[i] # None}
  /\ UNCHANGED <<fixed, addVars, entities, states, removing, polling, updateVars, history>>

(* The tasks begin, one right after the other; whose entity has been       *)
(* removed by now ends with a KeyError, which asyncio.wait keeps.          *)
ResetTasks ==
  /\ doomed # {} /\ doomed' = {}
  /\ Removing({entities[i] : i \in doomed} \ {None}, "reset")
  /\ UNCHANGED <<fixed, addVars, states, reset, polling, updateVars, history>>

ResetDone ==
  /\ reset /\ doomed = {} /\ \A e \in Entities : removing[e] # "reset"
  /\ reset' = FALSE /\ polling' = FALSE /\ leftover' = FALSE
  /\ forgotten' = {e \in Present : phase[batch[e]] = "done"}
  /\ UNCHANGED <<fixed, addVars, entities, states, removing, doomed, updateVars, unseen, stray>>

-----------------------------------------------------------------------------
(* _update_entity_states, unless the last one is still at it; and for each *)
(* entity async_update_ha_state with the device's update in it, that may   *)
(* fail.                                                                   *)
_update_entity_states ==
  /\ polling /\ ~locked /\ ticks < MaxTicks
  /\ ticks' = ticks + 1 /\ locked' = TRUE
  /\ updating' = [e \in Entities |-> IF e \in Present \cap polled THEN "waits" ELSE "none"]
  /\ UNCHANGED <<fixed, addVars, entities, states, removeVars, polling, history>>

(* (Mutant: parallel_updates is not asked.)                                *)
Acquire_Free(e) ==
  /\ updating[e] = "waits"
  /\ updating' = [updating EXCEPT ![e] = "has"]
  /\ UNCHANGED <<fixed, addVars, entities, states, removeVars, polling, locked, ticks, history>>

(* (Mutant: one slot is always kept back.)                                 *)
Acquire_OneLess(e) ==
  /\ updating[e] = "waits"
  /\ Cardinality({x \in Entities : updating[x] = "has"}) < Slots - 1
  /\ updating' = [updating EXCEPT ![e] = "has"]
  /\ UNCHANGED <<fixed, addVars, entities, states, removeVars, polling, locked, ticks, history>>

Acquire(e) ==
  /\ updating[e] = "waits"
  /\ Cardinality({x \in Entities : updating[x] = "has"}) < Slots
  /\ updating' = [updating EXCEPT ![e] = "has"]
  /\ UNCHANGED <<fixed, addVars, entities, states, removeVars, polling, locked, ticks, history>>

Updated(e) ==
  /\ updating[e] = "has"
  /\ updating' = [updating EXCEPT ![e] = "none"]
  /\ Writes(e) \/ UNCHANGED <<states, stray>>
  /\ UNCHANGED <<fixed, addVars, entities, removeVars, polling, locked, ticks,
                 unseen, forgotten, leftover>>

AllUpdated ==
  /\ locked /\ \A e \in Entities : updating[e] = "none"
  /\ locked' = FALSE
  /\ UNCHANGED <<fixed, addVars, entities, states, removeVars, polling, updating, ticks, history>>

-----------------------------------------------------------------------------
Init ==
  /\ \E m \in Mixes : /\ batch = m.batch /\ unique = m.unique /\ preset = m.preset
                      /\ polled = m.polled /\ registry = m.registry
  /\ phase = [b \in Batches |-> "new"] /\ known = [b \in Batches |-> {}]
  /\ adding = [e \in Entities |-> "new"] /\ id = [e \in Entities |-> 0]
  /\ entities = [i \in Ids |-> None] /\ states = {}
  /\ removing = [e \in Entities |-> "none"] /\ doomed = {} /\ reset = FALSE
  /\ polling = FALSE /\ locked = FALSE /\ ticks = 0
  /\ updating = [e \in Entities |-> "none"]
  /\ unseen = [b \in Batches |-> {}] /\ stray = {} /\ forgotten = {} /\ leftover = FALSE

Updating == AllUpdated \/ \E e \in Entities : Acquire(e) \/ Updated(e)

Next ==
  \/ \E b \in Batches : async_add_entities(b) \/ RegistryThere(b) \/ AllAdded(b)
  \/ \E e \in Entities : _async_add_entity(e) \/ Added(e)
  \/ \E e \in Entities : async_remove_entity(e) \/ Removed(e) \/ RemovalFails(e)
  \/ async_reset \/ ResetTasks \/ ResetDone \/ _update_entity_states \/ Updating

(* The loop runs what is ready, and a device's update returns.             *)
Spec == Init /\ [][Next]_vars /\ WF_vars(Updating)

-----------------------------------------------------------------------------
(* Types; never more updates than slots, and none outside the lock.        *)
TypeOK ==
  /\ phase \in [Batches -> {"new", "registry", "adding", "done"}]
  /\ known \in [Batches -> SUBSET Ids] /\ states \subseteq Ids /\ stray \subseteq states
  /\ adding \in [Entities -> {"new", "hook", "over", "failed"}]
  /\ id \in [Entities -> {0} \cup Ids]
  /\ entities \in [Ids -> Entities \cup {None}] /\ registry \in [Entities -> {0} \cup Ids]
  /\ removing \in [Entities -> {"none", "single", "reset", "over", "failed"}]
  /\ doomed \subseteq Ids /\ unseen \in [Batches -> SUBSET Entities] /\ forgotten \subseteq Entities
  /\ updating \in [Entities -> {"none", "waits", "has"}]
  /\ {reset, polling, locked, leftover} \subseteq BOOLEAN
  /\ Cardinality({e \in Entities : updating[e] = "has"}) <= Slots
  /\ (\E e \in Entities : updating[e] # "none") => locked

(* A call knows the ids that had a state when it began, and those it gave  *)
(* out itself.  It does not see what others enter meanwhile, nor an entity *)
(* that has no state, because it is still being added or could not be.     *)
Unseen(e, x) == e \in unseen[batch[x]] \/ x \in unseen[batch[e]]

(* No two entities have the same id, whatever is added, removed and reset  *)
(* in between, and though the ids in use are looked up before an await;    *)
(* but one that the call did not see may be displaced.                     *)
OneEntityPerId ==
  \A e, x \in Entities : e # x /\ Kept(e) /\ Kept(x) /\ id[e] = id[x] => Unseen(e, x)

(* States and entities go together, although hooks, updates and removals   *)
(* overlap and may raise.  A state belongs to an entity that is there,     *)
(* being removed, or could not be removed; or it was written by one after  *)
(* its removal.  An entity that was added has a state, until it is removed *)
(* or another one that shares its id.                                      *)
StatesMatch ==
  /\ \A i \in states \ stray : \E e \in Entities : id[e] = i /\ removing[e] # "over"
  /\ \A e \in Entities : Kept(e) /\ adding[e] = "over" /\ id[e] \notin states =>
       \E x \in Entities \ {e} : id[x] = id[e] /\ Unseen(e, x)

(* The platform polls what has to be polled once the call that adds it is  *)
(* through, but for entities that were there when a reset stopped the      *)
(* polling; and it polls for nothing only until a removal or a reset under *)
(* way is through, if none failed and no polled entity was displaced.      *)
PollingRight ==
  /\ \A e \in Present \cap polled : phase[batch[e]] = "done" => polling \/ e \in forgotten
  /\ polling => \/ Present \cap polled # {} \/ reset \/ leftover
                \/ \E e \in Entities : removing[e] = "single"

(* Every round of updates ends, so that the next one is not skipped.       *)
RoundsEnd == []<>~locked

-----------------------------------------------------------------------------
(* The same without the exceptions; the code does not keep these.          *)

(* "Entity id already exists": an entity's id belongs to no other.         *)
NoSharedId == \A e, x \in Entities : e # x /\ Kept(e) /\ Kept(x) => id[e] # id[x]

(* "Remove entity id from platform.": with it goes its state, for good.    *)
NoStateLeft == \A i \in states : \E e \in Entities : id[e] = i /\ removing[e] # "over"

(* An entity with should_poll is polled once it has been added.            *)
AllPolled == \A e \in Present \cap polled : phase[batch[e]] = "done" => polling
=============================================================================
