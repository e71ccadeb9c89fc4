----------------------------- MODULE Collisions -----------------------------
(***************************************************************************)
(* Collisions from frame to frame: engine_update fills the spatial index   *)
(* with the active entities, takes the pairs from it, has                  *)
(* core/collision_resolver.c compare what touches with what touched in the *)
(* frame before, and calls entity_collision_enter, _stay and _exit (for a  *)
(* map: map_collision_...) of the entities' scripts, which may move,       *)
(* deactivate and destroy entities.                                        *)
(***************************************************************************)
EXTENDS SpatialIndex

CONSTANTS
  Maps,    \* the entities with a map component; the others have colliders
  MaxHits  \* bound: hits of a pair in a frame

ASSUME CollisionsAssumption == Maps \subseteq Bodies /\ MaxHits \in Nat

VARIABLES
  stage,     \* of engine_update
  order,     \* engine->entities still to be inserted
  status,    \* of each entity: "active", "inactive", "destroyed" or "freed"
  able,      \* the pairs whose components may collide, while pairs are sought
  previous,  \* previous_collisions: the pairs that touched
  hits,      \* of each pair: the state of its hits and how many are left
  misread,   \* did the resolver read a freed entity?
  (* History, read by the properties only.                                  *)
  entered,   \* the pairs whose scripts were told of an enter but of no exit
  exits,     \* of each pair: how often its scripts were told of an exit in this frame
  listed,    \* the pairs of this frame
  lost       \* entities which the index did not see in this frame

frameVars      == <<stage, order, status, able, previous, hits, misread>>
storyVars      == <<entered, exits, listed, lost>>
collisionsVars == <<spatialVars, frameVars, storyVars>>

BodyPairs == {p \in SUBSET Bodies : Cardinality(p) = 2}
NoHits    == [state |-> "none", left |-> 0]

CollisionsInit ==
  /\ SpatialInit
  /\ stage = "scripts" /\ order = <<>>
  /\ status = [e \in Bodies |-> "active"]
  /\ able = {}
  /\ previous = {} /\ hits = [p \in BodyPairs |-> NoHits] /\ misread = FALSE
  /\ entered = {} /\ exits = [p \in BodyPairs |-> 0] /\ listed = {} /\ lost = {}

Live(e) == status[e] # "freed"
-----------------------------------------------------------------------------
(* Scripts, and the systems that move entities.  What they do to bounds,    *)
(* `active` and map_interaction matters at the next search only, and is     *)
(* done right before it here.                                               *)

SetBodyActive(e) ==
  /\ stage = "scripts" /\ status[e] \in {"active", "inactive"}
  /\ status' = [status EXCEPT ![e] = IF @ = "active" THEN "inactive" ELSE "active"]
  /\ UNCHANGED <<spatialVars, stage, order, able, previous, hits, misread, storyVars>>

(* entity:destroy also deactivates; in a callback, the entity is deleted at *)
(* the end of the same frame.                                               *)
DestroyBody(e) ==
  /\ stage \in {"scripts", "callbacks"} /\ status[e] \in {"active", "inactive"}
  /\ status' = [status EXCEPT ![e] = "destroyed"]
  /\ UNCHANGED <<spatialVars, stage, order, able, previous, hits, misread, storyVars>>
-----------------------------------------------------------------------------
(* The broad phase.                                                         *)

DetectBegins ==
  /\ stage = "scripts" /\ stage' = "insert"
  /\ box' \in [Bodies -> Boxes]
  /\ order' = SetToSeq(Bodies)
  /\ UNCHANGED <<cellSize, bins, tuned, status, able, previous, hits, misread, storyVars>>

InsertNext ==
  /\ stage = "insert" /\ order # <<>> /\ order' = Tail(order)
  /\ IF status[Head(order)] = "active" THEN Insert(Head(order))
     ELSE UNCHANGED <<cellSize, bins, tuned>>
  /\ UNCHANGED <<box, stage, status, able, previous, hits, misread, storyVars>>

(* Two colliders, or a map and a collider that minds maps. *)
Able(p, minding) == p \cap Maps = {} \/ (p \cap Maps # {} /\ p \cap minding # {})

(* What stays in the index is cleared before it is read again. *)
GetPairs ==
  /\ stage = "insert" /\ order = <<>> /\ stage' = "solve"
  /\ \E minding \in SUBSET (Bodies \ Maps) : able' = {p \in BodyPairs : Able(p, minding)}
  /\ \E trees \in Trees : listed' = Pairs(trees, able') /\ lost' = Unseen(trees)
  /\ IndexClear
  /\ UNCHANGED <<box, cellSize, tuned, order, status, previous, hits, misread, entered, exits>>
-----------------------------------------------------------------------------
(* collision_resolver_solve.                                                *)

(* Mutant: a pair that is gone from the index is forgotten. *)
WrongEnded(now) == (previous \cap listed) \ now

(* The pairs that touched and do not touch now, listed or not. *)
Ended(now) == previous \ now

StateOf(p, now) == CASE p \in now /\ p \notin previous -> "enter"
                     [] p \in now /\ p \in previous -> "stay"
                     [] OTHER -> "exit"

(* The hits of a pair: those that the components of both entities make; or  *)
(* one for an exit, and one more if the index listed the pair: the loop     *)
(* over the pairs reports it, and the loop over the previous ones again.    *)
HitsOf(p, now) ==
  IF p \in now \/ p \in Ended(now)
    THEN {[state |-> StateOf(p, now), left |-> n] : n \in
            IF p \in now THEN 1..MaxHits ELSE {IF p \in listed THEN 2 ELSE 1}}
    ELSE {NoHits}

(* now are the pairs whose components hit each other, of those listed that  *)
(* have such components.  The last loop reads the entities of the pairs that *)
(* ended.                                                                   *)
Solve ==
  /\ stage = "solve" /\ stage' = "callbacks"
  /\ \E now \in SUBSET (listed \cap able) :
       /\ misread' = \E p \in Ended(now) : \E e \in p : ~Live(e)
       /\ hits' \in {h \in [BodyPairs -> UNION {HitsOf(p, now) : p \in BodyPairs}] :
                       \A p \in BodyPairs : h[p] \in HitsOf(p, now)}
       /\ previous' = now
  /\ box' = [e \in Bodies |-> Anywhere] /\ able' = {}
  /\ tuned' = FALSE /\ lost' = {}
  /\ UNCHANGED <<cellSize, bins, order, status, entered, exits, listed>>

(* entity_process_collision_callbacks of one hit of the pair.  Inactive and *)
(* destroyed entities are called too.                                       *)
Callback(p) ==
  /\ stage = "callbacks" /\ hits[p].left > 0
  /\ hits' = [hits EXCEPT ![p].left = @ - 1]
  /\ entered' = CASE hits[p].state = "enter" -> entered \cup {p}
                  [] hits[p].state = "exit" -> entered \ {p}
                  [] OTHER -> entered
  /\ exits' = IF hits[p].state = "exit" THEN [exits EXCEPT ![p] = @ + 1] ELSE exits
  /\ UNCHANGED <<spatialVars, stage, order, status, able, previous, misread, listed, lost>>

(* The end of the frame deletes the destroyed entities.                     *)
CollisionFrameEnds ==
  /\ stage = "callbacks" /\ \A p \in BodyPairs : hits[p].left = 0
  /\ stage' = "scripts"
  /\ hits' = [p \in BodyPairs |-> NoHits]
  /\ exits' = [p \in BodyPairs |-> 0] /\ listed' = {}
  /\ status' = [e \in Bodies |-> IF status[e] = "destroyed" THEN "freed" ELSE status[e]]
  /\ UNCHANGED <<spatialVars, order, able, previous, misread, entered, lost>>

CollisionsNext ==
  /\ ~misread
  /\ \/ \E e \in Bodies : SetBodyActive(e) \/ DestroyBody(e)
     \/ DetectBegins \/ InsertNext \/ GetPairs \/ Solve
     \/ \E p \in BodyPairs : Callback(p)
     \/ CollisionFrameEnds

CollisionsSpec == CollisionsInit /\ [][CollisionsNext]_collisionsVars
-----------------------------------------------------------------------------
CollisionsTypeOK ==
  /\ box \in [Bodies -> Boxes \cup {Anywhere}] /\ cellSize \in CellSizes
  /\ bins \in [Cells -> Seq(Bodies)]
  /\ stage \in {"scripts", "insert", "solve", "callbacks"}
  /\ status \in [Bodies -> {"active", "inactive", "destroyed", "freed"}]
  /\ previous \subseteq BodyPairs /\ able \subseteq BodyPairs /\ listed \subseteq BodyPairs /\ entered \subseteq BodyPairs

(* The index lists every pair of active entities that overlap and may       *)
(* collide: however the bounds lie on the grid, also at the edges of cells, *)
(* and whichever crowded cells became trees before the walk, which reads a  *)
(* node it has freed, came to an end.  It may miss pairs only in a frame in *)
(* which the cell size was tuned midway, or with an entity that a tree does *)
(* not collect.  What it lists are active entities that overlap; those that *)
(* may not collide at all lie in one cell.                                  *)
PairsComplete ==
  stage = "solve" =>
    /\ \A p \in listed :
         /\ \A a, b \in p : Overlaps(a, b) /\ status[a] = "active"
         /\ p \in able \/ tuned \/ \E c \in Cells : \A e \in p : c \in CellsOf(box[e])
    /\ \A p \in BodyPairs :
         (\A a, b \in p : Overlaps(a, b) /\ status[a] = "active") /\ p \in able
           => p \in listed \/ tuned \/ p \cap lost # {}

(* Scripts hear a consistent story of every pair: between frames, those     *)
(* told of an enter but not of an exit are just the pairs that touched last *)
(* time, also of entities deactivated, moved and destroyed in the meantime. *)
(* A stay or an exit is told of a pair that entered; an exit once, or twice *)
(* while the index still lists the pair.  And the resolver reads a freed    *)
(* entity only through such a pair.                                         *)
StoryConsistent ==
  /\ stage = "scripts" => entered = previous
  /\ misread => \E p \in entered : \E e \in p : ~Live(e)
  /\ \A p \in BodyPairs :
       /\ hits[p].state = "stay" => p \in entered
       /\ hits[p].state = "exit" /\ exits[p] = 0 => p \in entered
       /\ exits[p] > 1 => p \in listed /\ exits[p] = 2

=============================================================================
