----------------------------- MODULE Snapshots -----------------------------
(***************************************************************************)
(* Scenes (types/scene.c, types/scene_lua.c): a description of the         *)
(* entities that are there, the engine cleared or reset by its deletion    *)
(* list, which the end of the frame works off, and the description run to  *)
(* put the entities up again.                                              *)
(*                                                                         *)
(* Of an entity the model keeps the set of the fields that are away from   *)
(* the value a new one gives them; components are not in a scene, as       *)
(* entity_apply_blueprint does nothing yet.                                *)
(***************************************************************************)
EXTENDS Integers, Sequences, FiniteSets, FiniteSetsExt, SequencesExt, Filters

CONSTANTS
  Extras,    \* the entities that scripts make, as field sets
  MaxMade,   \* bound: entities in the engine after another is made
  MaxRoster  \* bound: entities in the engine after a scene was run

ASSUME SnapshotsAssumption == {MaxMade, MaxRoster} \subseteq Nat

VARIABLES
  roster,   \* engine->entities: [set, destroyed]
  doomed,   \* engine->del_entities, as positions in the roster
  tableau,  \* the Scene that a script holds: a sequence of field sets
  pact      \* history: what was there when the scene was created, and what
            \* has been done since

snapshotsVars == <<roster, doomed, tableau, pact>>

NoPact == [stage |-> "none"]

(* What a scene keeps of an entity.  Besides the components it leaves out   *)
(* the properties and the subscriptions.                                   *)
Portrait(e) == e.set \ {"default_props", "subscriptions"}

FromPortrait(set) == [set |-> set, destroyed |-> FALSE]

Persists(e) == "persistent" \in e.set

-----------------------------------------------------------------------------
SnapshotsInit == roster = <<>> /\ doomed = {} /\ tableau = <<>> /\ pact = NoPact

MakeExtra(set) ==
  /\ Len(roster) < MaxMade
  /\ roster' = Append(roster, [set |-> set, destroyed |-> FALSE])
  /\ pact' = NoPact
  /\ UNCHANGED <<doomed, tableau>>

(* entity:destroy() *)
DestroyExtra(i) ==
  /\ ~ roster[i].destroyed
  /\ roster' = [roster EXCEPT ![i] = [set |-> @.set \cup {"inactive"}, destroyed |-> TRUE]]
  /\ doomed' = doomed \cup {i}
  /\ pact' = NoPact
  /\ UNCHANGED tableau

(* The CLEANUP phase of engine_update. *)
EndOfFrame ==
  /\ doomed # {}
  /\ LET left == Sifted([i \in DOMAIN roster |-> i], DOMAIN roster \ doomed)
     IN  roster' = [j \in DOMAIN left |-> roster[left[j]]]
  /\ doomed' = {}
  /\ UNCHANGED <<tableau, pact>>

(* ese_scene_create_from_engine: entities on the deletion list are there    *)
(* still, unless their own destroy() marked them.                          *)
Described(e, all) == ~ e.destroyed /\ (all \/ ~ Persists(e))

SceneCreate(all) ==
  /\ LET chosen == Sifted([i \in DOMAIN roster |-> i], {i \in DOMAIN roster : Described(roster[i], all)})
     IN  tableau' = [j \in DOMAIN chosen |-> Portrait(roster[chosen[j]])]
  /\ pact' = [stage |-> "taken", all |-> all, wiped |-> "no",
              was  |-> [i \in DOMAIN roster |-> Portrait(roster[i])],
              live |-> {i \in DOMAIN roster : ~ roster[i].destroyed},
              stay |-> DOMAIN roster \ doomed]
  /\ UNCHANGED <<roster, doomed>>

(* Scene.clear() and Scene.reset(): engine_clear_entities puts entities on  *)
(* the list and does not mark them.                                        *)
SceneWipe(all) ==
  /\ doomed' = doomed \cup {i \in DOMAIN roster : all \/ ~ Persists(roster[i])}
  /\ pact' = IF pact.stage = "taken"
             THEN [pact EXCEPT !.stage = "wiped", !.wiped = IF all THEN "reset" ELSE "clear"] ELSE NoPact
  /\ UNCHANGED <<roster, tableau>>

(* ese_scene_run *)
SceneRun ==
  /\ tableau # <<>> /\ Len(roster) + Len(tableau) <= MaxRoster
  /\ roster' = roster \o [i \in DOMAIN tableau |-> FromPortrait(tableau[i])]
  /\ pact' = IF pact.stage = "wiped" THEN [pact EXCEPT !.stage = "run"] ELSE NoPact
  /\ UNCHANGED <<doomed, tableau>>

(* The script drops the scene, and the collector destroys it. *)
SceneDrop ==
  /\ tableau # <<>> /\ tableau' = <<>>
  /\ UNCHANGED <<roster, doomed, pact>>

SnapshotsNext ==
  \/ \E set \in Extras : MakeExtra(set)
  \/ \E i \in DOMAIN roster : DestroyExtra(i)
  \/ EndOfFrame
  \/ \E all \in BOOLEAN : SceneCreate(all) \/ SceneWipe(all)
  \/ SceneRun
  \/ SceneDrop

SnapshotsSpec == SnapshotsInit /\ [][SnapshotsNext]_snapshotsVars

-----------------------------------------------------------------------------
SnapshotsTypeOK ==
  /\ \A i \in DOMAIN roster : roster[i].destroyed => i \in doomed
  /\ doomed \subseteq DOMAIN roster
  /\ Len(roster) <= Max({MaxMade, MaxRoster}) /\ Len(tableau) <= Max({MaxMade, MaxRoster})
  /\ pact.stage \in {"none", "taken", "wiped", "run"}

(* How often a sequence has a field set. *)
Times(seq, x) == Cardinality({i \in DOMAIN seq : seq[i] = x})

(* The pairs of calls that belong together: create(true) and reset() take   *)
(* everything along, create(false) and clear() leave alone what persists.   *)
Matched == pact.wiped = IF pact.all THEN "reset" ELSE "clear"

(* A scene created, the engine cleared or reset, the scene run: once the    *)
(* frame is over, what does not persist is there as often as before, and so *)
(* is what persists, if the calls belong together.  "Before" counts what    *)
(* its own destroy() had not marked, and of what clear() leaves alone, what *)
(* was not on the deletion list either.                                     *)
SwapsExactly ==
  pact.stage = "run" /\ doomed = {} =>
    LET now == [i \in DOMAIN roster |-> Portrait(roster[i])]
        Before(x, who) == Cardinality({i \in who : pact.was[i] = x})
    IN  \A x \in ToSet(now) \cup ToSet(pact.was) :
          /\ "persistent" \notin x => Times(now, x) = Before(x, pact.live)
          /\ "persistent" \in x /\ Matched =>
               Times(now, x) = Before(x, IF pact.all THEN pact.live ELSE pact.stay)
=============================================================================
