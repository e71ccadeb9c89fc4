----------------------------- MODULE EngineFrame -----------------------------
(***************************************************************************)
(* The lifetime of entities and components over the frames of              *)
(* src/core/engine.c: what scripts and the host do to them in each phase,  *)
(* the component arrays the systems keep, the removal queue of the cleanup *)
(* system, the list of entities to delete, and the map-system results that *)
(* the job queue hands back at the end of this frame or of a later one.    *)
(*                                                                         *)
(* A parallel phase is one action: engine_run_phase waits for every job it *)
(* pushed, and WaitNeverEarly of JobQueue says what that wait is worth.    *)
(*                                                                         *)
(* Components are map components, which every kind of system handles: one  *)
(* system caches them and publishes job results (map_system), one caches   *)
(* and draws them (map_render_system), and the cleanup system defers their *)
(* removal.  The caching systems see the same notifications, so they share *)
(* one cache here.                                                         *)
(*                                                                         *)
(* A step that would dereference a freed object sets fault and nothing     *)
(* happens after it: what the program does from there on is undefined.     *)
(***************************************************************************)
EXTENDS Integers, FiniteSets

CONSTANTS
  Entities, Components,
  NoEntity,        (* comp->entity before the first attachment               *)
  MaxAdds          (* bound on how often each component is attached          *)

ScriptPhases == {"lua", "collide", "gui", "jobs"}
Phases == ScriptPhases \cup {"early", "late", "cleanup", "delete"}
Faults == {"system", "cleanup", "result", "delete", "remove", "detach"}

ASSUME EngineFrameAssumption == NoEntity \notin Entities /\ MaxAdds \in [Components -> Nat]

VARIABLES
  phase,     \* where engine_update is
  mem,       \* each entity: "none", "alive" or "freed"
  destroyed, \* entity->destroyed
  entities,  \* engine->entities
  delCount,  \* how often engine->del_entities lists each entity
  comps,     \* entity->components: how often it lists each component
  cmem,      \* each component: "none", "alive" or "freed"
  owner,     \* comp->entity
  refs,      \* lua_ref_count of each component (0: LUA_NOREF)
  adds,      \* how often each component was attached
  cached,    \* how often the systems' arrays list each component
  removals,  \* removal_queue: how often it holds each record
  results,   \* components named in results not applied yet
  fault,     \* "none", or where freed memory was touched
  shared,    \* history: components attached while an entity listed them
  careless   \* history: detached, cleared, or removed after the cleanup phase

engine == <<phase, mem, destroyed, entities, delCount>>
parts == <<comps, cmem, owner, refs, adds>>
systems == <<cached, removals, results>>
history == <<shared, careless>>
vars == <<engine, parts, systems, fault, history>>

Init ==
  /\ phase = "early"
  /\ mem = [e \in Entities |-> "none"]
  /\ destroyed = [e \in Entities |-> FALSE]
  /\ entities = {}
  /\ delCount = [e \in Entities |-> 0]
  /\ comps = [e \in Entities |-> [c \in Components |-> 0]]
  /\ cmem = [c \in Components |-> "none"]
  /\ owner = [c \in Components |-> NoEntity]
  /\ refs = [c \in Components |-> 0]
  /\ adds = [c \in Components |-> 0]
  /\ cached = [c \in Components |-> 0]
  /\ removals = [r \in Entities \X Components |-> 0]
  /\ results = {}
  /\ fault = "none"
  /\ shared = {} /\ careless = FALSE

-----------------------------------------------------------------------------
(* Notifying the systems: engine_notify_comp_add / engine_notify_comp_rem   *)

(* Definitions named Wrong... are mutants: a plausible mistake in the        *)
(* definition that follows.  Nothing uses them; they show that a property   *)
(* notices the mistake.                                                     *)

(* Notices and releases are counted: n[c] of them for a component c.        *)
Single(c) == [d \in Components |-> IF d = c THEN 1 ELSE 0]

(* cleanup_sys_on_remove: a record of the component and of the entity it    *)
(* points to, which is the last it was attached to.                         *)
Recorded(n) ==
  [r \in Entities \X Components |->
     IF r[1] = owner[r[2]] /\ ~destroyed[r[1]] THEN removals[r] + n[r[2]] ELSE removals[r]]

(* No system hears of the removal.                                          *)
WrongUncached(n) == cached

(* The last pointer is dropped whether it matches or not.                   *)
WrongUncachedBlindly(n) == [c \in Components |-> cached[c] - n[c]]

(* on_component_removed of the caching systems: drop the first match.       *)
Uncached(n) == [c \in Components |-> IF cached[c] > n[c] THEN cached[c] - n[c] ELSE 0]

(* unref and then entity_component_destroy, n[c] times: the memory goes     *)
(* when the last reference does.                                            *)
Released(n) == [c \in Components |-> IF refs[c] > 2 * n[c] THEN refs[c] - 2 * n[c] ELSE 0]
FreedBy(n) == [c \in Components |-> IF n[c] > 0 /\ refs[c] <= 2 * n[c] THEN "freed"
                                    ELSE cmem[c]]

(* The array keeps the pointer.                                             *)
WrongWithout(e, c) == comps

Without(e, c) == [comps EXCEPT ![e][c] = @ - 1]

Gone(c) == cmem[c] = "freed" \/ (owner[c] \in Entities /\ mem[owner[c]] = "freed")

Fault(where) == fault' = where /\ UNCHANGED <<engine, parts, systems, history>>

-----------------------------------------------------------------------------
(* What the game does in a script phase                                     *)

Script == fault = "none" /\ phase \in ScriptPhases
Listed(e, c) == Script /\ mem[e] = "alive" /\ comps[e][c] > 0

(* entity_create or Entity.new, with engine_add_entity.                     *)
CreateEntity(e) ==
  /\ Script /\ mem[e] = "none"
  /\ mem' = [mem EXCEPT ![e] = "alive"]
  /\ entities' = entities \cup {e}
  /\ UNCHANGED <<phase, destroyed, delCount, parts, systems, fault, history>>

(* entity_component_add of any component the game holds, wherever else it   *)
(* is attached: from C (a component made there comes with a reference of    *)
(* its maker) or from Lua (components:add takes one more).                  *)
AddComponent(e, c) ==
  /\ Script /\ mem[e] = "alive"
  /\ cmem[c] # "freed" /\ adds[c] < MaxAdds[c]
  /\ comps' = [comps EXCEPT ![e][c] = @ + 1]
  /\ owner' = [owner EXCEPT ![c] = e]
  /\ \E more \in {1, 2} :
       refs' = [refs EXCEPT ![c] = (IF cmem[c] = "none" THEN 1 ELSE @) + more]
  /\ cmem' = [cmem EXCEPT ![c] = "alive"]
  /\ adds' = [adds EXCEPT ![c] = @ + 1]
  /\ cached' = [cached EXCEPT ![c] = @ + 1]
  /\ shared' = shared \cup {d \in {c} : \E x \in Entities : comps[x][d] > 0}
  /\ UNCHANGED <<engine, removals, results, fault, careless>>

(* entity_component_remove: only the systems are told; the cleanup phase    *)
(* does the rest.  More records of a pair than it can have attachments find *)
(* nothing to remove.                                                       *)
RemoveComponent(e, c) ==
  /\ Listed(e, c)
  /\ \/ /\ Gone(c) \/ \E d \in Components : comps[e][d] > 0 /\ cmem[d] = "freed"
        /\ Fault("remove")
     \/ /\ ~Gone(c) /\ \A x \in Entities : removals[<<x, c>>] < MaxAdds[c]
        /\ cached' = Uncached(Single(c))
        /\ removals' = Recorded(Single(c))
        /\ careless' = IF phase = "jobs" THEN TRUE ELSE careless
        /\ UNCHANGED <<engine, parts, results, fault, shared>>

(* components:remove, :pop and :shift in Lua: the component leaves the      *)
(* entity's array and loses a reference; the systems are not told.          *)
DetachComponent(e, c) ==
  /\ Listed(e, c)
  /\ IF cmem[c] = "freed" THEN Fault("detach")
     ELSE /\ comps' = Without(e, c)
          /\ refs' = [refs EXCEPT ![c] = IF @ > 0 THEN @ - 1 ELSE 0]
          /\ careless' = TRUE
          /\ UNCHANGED <<engine, cmem, owner, adds, systems, fault, shared>>

(* Lua's collector frees a component without references (its __gc).         *)
CollectComponent(c) ==
  /\ fault = "none" /\ cmem[c] = "alive" /\ refs[c] = 0
  /\ cmem' = [cmem EXCEPT ![c] = "freed"]
  /\ UNCHANGED <<engine, comps, owner, refs, adds, systems, fault, history>>

(* entity:destroy() in Lua; a second call is ignored.                       *)
DestroyEntity(e) ==
  /\ Script /\ mem[e] = "alive" /\ ~destroyed[e]
  /\ destroyed' = [destroyed EXCEPT ![e] = TRUE]
  /\ delCount' = [delCount EXCEPT ![e] = @ + 1]
  /\ UNCHANGED <<phase, mem, entities, parts, systems, fault, history>>

(* engine_clear_entities (Scene.clear): lists every entity for deletion,    *)
(* also one that is listed already, and marks none of them.                 *)
ClearEntities ==
  /\ Script /\ \E e \in entities : delCount[e] = 0
  /\ delCount' = [e \in Entities |-> IF e \in entities THEN delCount[e] + 1
                                     ELSE delCount[e]]
  /\ careless' = TRUE
  /\ UNCHANGED <<phase, mem, destroyed, entities, parts, systems, fault, shared>>

Game == \/ \E e \in Entities :
             \/ CreateEntity(e) \/ DestroyEntity(e)
             \/ \E c \in Components :
                  AddComponent(e, c) \/ RemoveComponent(e, c) \/ DetachComponent(e, c)
        \/ ClearEntities \/ \E c \in Components : CollectComponent(c)

-----------------------------------------------------------------------------
(* The frame: engine_update                                                 *)

Cached == {c \in Components : cached[c] > 0}

GoTo(p) ==
  /\ phase' = p
  /\ UNCHANGED <<mem, destroyed, entities, delCount, parts, cached, removals, fault,
                 history>>

(* A system's update visits every component of its array and the entity of  *)
(* each.                                                                    *)
SystemFault ==
  /\ fault = "none" /\ phase \in {"early", "late"}
  /\ \E c \in Cached : Gone(c)
  /\ Fault("system")

(* map_sys_update returns one record per cached component.                  *)
EarlyPhase ==
  /\ fault = "none" /\ phase = "early" /\ \A c \in Cached : ~Gone(c)
  /\ results' = results \cup Cached
  /\ GoTo("lua")

LatePhase ==
  /\ fault = "none" /\ phase = "late" /\ \A c \in Cached : ~Gone(c)
  /\ GoTo("gui") /\ UNCHANGED results

ScriptPhaseEnds ==
  /\ fault = "none"
  /\ \/ phase = "lua"     /\ GoTo("collide")
     \/ phase = "collide" /\ GoTo("late")
     \/ phase = "gui"     /\ GoTo("cleanup")
     \/ phase = "jobs"    /\ GoTo("delete")
  /\ UNCHANGED results

(* cleanup_sys_update, one record of the removal queue.                     *)
CleanupRecord ==
  /\ fault = "none" /\ phase = "cleanup"
  /\ \E e \in Entities, c \in Components :
       /\ removals[<<e, c>>] > 0
       /\ IF \/ mem[e] = "freed"
             \/ ~destroyed[e] /\ comps[e][c] > 0 /\ cmem[c] = "freed"
          THEN Fault("cleanup")
          ELSE /\ removals' = [removals EXCEPT ![<<e, c>>] = @ - 1]
               /\ IF destroyed[e] \/ comps[e][c] = 0 THEN UNCHANGED <<comps, cmem, refs>>
                  ELSE /\ comps' = Without(e, c)
                       /\ cmem' = FreedBy(Single(c))
                       /\ refs' = Released(Single(c))
               /\ UNCHANGED <<engine, owner, adds, cached, results, fault, history>>

NoRecord == \A r \in Entities \X Components : removals[r] = 0

CleanupEnds ==
  /\ fault = "none" /\ phase = "cleanup" /\ NoRecord
  /\ GoTo("jobs") /\ UNCHANGED results

(* ese_job_queue_process calls map_sys_apply_result with what arrived; a    *)
(* result whose worker was late waits for a later frame.                    *)
ApplyResults ==
  /\ fault = "none" /\ phase = "jobs" /\ results # {}
  /\ IF \E c \in results : Gone(c) THEN Fault("result")
     ELSE results' = {} /\ UNCHANGED <<engine, parts, cached, removals, fault, history>>

(* The engine keeps the pointer.                                            *)
WrongUnlisted(e) == entities

Unlisted(e) == entities \ {e}

(* Releasing what e lists, one entry after the other, reads memory that is  *)
(* free or that an earlier entry of the same component has freed.           *)
Dangles(e) ==
  \E c \in Components :
    /\ comps[e][c] > 0
    /\ Gone(c) \/ (comps[e][c] > 1 /\ refs[c] <= 2 * (comps[e][c] - 1))

(* One entity of del_entities: entity_destroy drops the only reference and  *)
(* _entity_cleanup notifies the systems and releases the components.        *)
DeleteEntity(e) ==
  /\ fault = "none" /\ phase = "delete" /\ delCount[e] > 0
  /\ IF mem[e] = "freed" \/ Dangles(e) THEN Fault("delete")
     ELSE /\ delCount' = [delCount EXCEPT ![e] = @ - 1]
          /\ entities' = Unlisted(e)
          /\ mem' = [mem EXCEPT ![e] = "freed"]
          /\ comps' = [comps EXCEPT ![e] = [c \in Components |-> 0]]
          /\ cached' = Uncached(comps[e])
          /\ removals' = Recorded(comps[e])
          /\ cmem' = FreedBy(comps[e])
          /\ refs' = Released(comps[e])
          /\ UNCHANGED <<phase, destroyed, owner, adds, results, fault, history>>

FrameEnds ==
  /\ fault = "none" /\ phase = "delete" /\ \A e \in Entities : delCount[e] = 0
  /\ GoTo("early") /\ UNCHANGED results

Engine == \/ SystemFault \/ EarlyPhase \/ LatePhase \/ ScriptPhaseEnds
          \/ CleanupRecord \/ CleanupEnds \/ ApplyResults \/ FrameEnds
          \/ \E e \in Entities : DeleteEntity(e)

Next == Game \/ Engine
Spec == Init /\ [][Next]_vars

-----------------------------------------------------------------------------
(* Properties                                                               *)

TypeOK ==
  /\ phase \in Phases
  /\ mem \in [Entities -> {"none", "alive", "freed"}]
  /\ destroyed \in [Entities -> BOOLEAN]
  /\ entities \subseteq Entities
  /\ delCount \in [Entities -> Nat]
  /\ comps \in [Entities -> [Components -> Nat]]
  /\ cmem \in [Components -> {"none", "alive", "freed"}]
  /\ owner \in [Components -> Entities \cup {NoEntity}]
  /\ refs \in [Components -> Nat]
  /\ adds \in [Components -> Nat]
  /\ cached \in [Components -> Nat]
  /\ removals \in [Entities \X Components -> Nat]
  /\ results \subseteq Components
  /\ fault \in {"none"} \cup Faults
  /\ shared \subseteq Components /\ careless \in BOOLEAN

(* A careful game attaches a component to one entity at a time, removes it  *)
(* with entity_component_remove and before the cleanup phase, and destroys  *)
(* entities with entity:destroy.                                            *)
Careful == ~careless /\ shared = {}

(* As long as a game is careful the engine touches no freed memory, but for *)
(* the results that arrive too late.                                        *)
NoFault == Careful => fault \in {"none", "result"}

(* Every pointer a system caches is to a component that is attached to its  *)
(* entity, and both are alive, in every phase and not only in those that    *)
(* read it.                                                                 *)
SystemsHoldLive ==
  \A c \in Cached : /\ cmem[c] = "alive"
                    /\ owner[c] \in Entities /\ mem[owner[c]] = "alive"
                    /\ comps[owner[c]][c] > 0

(* Nothing deferred survives its frame: when a frame starts the removal     *)
(* queue and the delete list are empty.                                     *)
FrameStartsClean == phase = "early" => NoRecord /\ \A e \in Entities : delCount[e] = 0

(* For every game: an entity that was destroyed is freed within the frame,  *)
(* whichever phase destroyed it, and leaves the engine's list with it.      *)
DestroyedWithinFrame ==
  \A e \in Entities :
    /\ e \in entities <=> mem[e] = "alive"
    /\ (phase = "early" /\ destroyed[e]) => mem[e] = "freed"

(* For every game, also a careless one: only live entities list components, *)
(* and a component that was never attached to a second place while it was   *)
(* attached is alive as long as it is listed, once, by its own entity, and  *)
(* has a reference that keeps the collector away.                           *)
AttachedAlive ==
  \A e \in Entities, c \in Components :
    comps[e][c] > 0 =>
      /\ mem[e] = "alive"
      /\ c \notin shared => /\ cmem[c] = "alive" /\ refs[c] > 0
                            /\ owner[c] = e /\ comps[e][c] = 1

(* Why they hold, for every game and for the careful ones.                  *)

(* What is destroyed is listed, until it is deleted.                        *)
DeathListed ==
  /\ phase = "early" => \A e \in Entities : delCount[e] = 0
  /\ \A e \in Entities : /\ destroyed[e] /\ delCount[e] = 0 => mem[e] = "freed"
                         /\ e \in entities <=> mem[e] = "alive"

FrameInv == TypeOK /\ DeathListed /\ AttachedAlive

(* What is listed is destroyed, and once; records are gone before entities; *)
(* what is going to be removed is in no array.                              *)
RemovalsInOrder ==
  /\ \A e \in Entities : delCount[e] > 0 => delCount[e] = 1 /\ destroyed[e] /\ mem[e] = "alive"
  /\ phase \in {"jobs", "delete", "early"} => NoRecord
  /\ \A e \in Entities, c \in Components :
       removals[<<e, c>>] > 0 => /\ mem[e] = "alive" /\ cached[c] = 0
                                 /\ phase # "cleanup" => comps[e][c] > 0
  /\ \A c \in Components : cached[c] <= 1

CarefulInv == FrameInv /\ NoFault /\ (Careful => RemovalsInOrder /\ SystemsHoldLive)

(* What "Systems Architecture Overview" says and the code does not do:      *)

(* "The actual removal/destruction happens only after all threaded system   *)
(* work is complete": in a careful game a result is applied before what it  *)
(* names is gone.                                                           *)
NoStaleResult == Careful => fault # "result"
=============================================================================
