------------------------------- MODULE Bounds -------------------------------
(***************************************************************************)
(* Where an entity collides.  An entity has the bounds of a collider's     *)
(* rectangles, relative to its position and in the world.  Scripts change  *)
(* rectangles and positions by assigning to their fields; watchers of      *)
(* these objects then compute the bounds anew.                             *)
(*                                                                         *)
(* Space has one dimension here, rectangles a length of 1 and no rotation. *)
(* Entities are active and live; how long colliders live, and what systems *)
(* keep of them, is module EngineFrame's.                                  *)
(***************************************************************************)
EXTENDS Integers, Sequences, SequencesExt, FiniteSets, FiniteSetsExt

CONSTANTS
  Movers,     \* entities
  Colliders,  \* collider components
  Rects,      \* rectangles that scripts have
  Casts,      \* sets of colliders and rectangles that there may be
  Places,     \* coordinates that scripts assign
  MaxRects    \* bound: places for rectangles, in all colliders

Unset == "unset"  \* base.entity before entity_component_add: not initialized

ASSUME BoundsAssumption ==
  /\ 0 \in Places /\ Places \subseteq Int /\ MaxRects \in Nat \ {0}
  /\ Unset \notin Movers

VARIABLES
  position,    \* of each entity
  bounds,      \* of each entity: collision_bounds
  worldBounds, \* of each entity: collision_world_bounds
  parts,       \* of each entity: the colliders among its components
  collider,    \* of each collider: its fields, and whether it exists
  rectAt,      \* of each rectangle in the cast: x
  rectWatch,   \* of each rectangle: watcher_userdata, all of them colliders
  updating,    \* colliders that the collider system has
  astray,      \* has an uninitialized entity pointer been followed
  behind       \* history: what changed since a collider was last heard

boundsVars == <<position, bounds, worldBounds, parts, collider, rectAt, rectWatch,
                updating, astray, behind>>

NoBounds == <<>>

NewCollider == [life |-> "new", entity |-> Unset, rects |-> <<>>, offset |-> 0, active |-> TRUE]

BoundsInit ==
  /\ position = [e \in Movers |-> 0]
  /\ bounds = [e \in Movers |-> NoBounds]
  /\ worldBounds = [e \in Movers |-> NoBounds]
  /\ parts = [e \in Movers |-> <<>>]
  /\ \E cast \in Casts :
       /\ collider = [c \in Colliders |-> IF c \in cast THEN NewCollider
                                         ELSE [NewCollider EXCEPT !.life = "freed"]]
       /\ rectAt = [r \in Rects \cap cast |-> 0]
  /\ rectWatch = [r \in Rects |-> <<>>]
  /\ updating = {}
  /\ astray = FALSE
  /\ behind = [c \in Colliders |-> {}]
-----------------------------------------------------------------------------
(* entity_component_collider_update_bounds.                                 *)

(* The hull of a collider's rectangles, moved by its offset. *)
Hull(k, at) ==
  LET starts == {at[k.rects[i]] + k.offset : i \in DOMAIN k.rects}
  IN IF k.rects = <<>> THEN NoBounds ELSE <<Min(starts), Max(starts) + 1>>

Moved(b, by) == IF b = NoBounds THEN NoBounds ELSE <<b[1] + by, b[2] + by>>

(* The places of the colliders in cs that are told and have entity e: the   *)
(* update of the last is the one that stays.                                *)
Heard(cs, told, e) == {i \in DOMAIN cs : cs[i] \in told /\ collider'[cs[i]].entity = e}

(* The colliders cs that are told are updated in turn, after the step has   *)
(* changed what they depend on.  One that is not attached yet returns       *)
(* early, if its entity happens to be NULL.                                 *)
Updates(cs, told) ==
  /\ bounds' = [e \in Movers |->
       LET heard == Heard(cs, told, e)
       IN IF heard = {} THEN bounds[e] ELSE Hull(collider'[cs[Max(heard)]], rectAt')]
  /\ worldBounds' = [e \in Movers |->
       IF Heard(cs, told, e) = {} THEN worldBounds[e] ELSE Moved(bounds'[e], position'[e])]
  /\ astray' \in IF Heard(cs, told, Unset) = {} THEN {FALSE} ELSE BOOLEAN
-----------------------------------------------------------------------------
(* What scripts do with the rectangles of a collider.                       *)

Alive(c) == collider[c].life = "live"

(* EntityComponentCollider.new() *)
NewComponent(c) ==
  /\ collider[c].life = "new"
  /\ collider' = [collider EXCEPT ![c].life = "live"]
  /\ UNCHANGED <<position, bounds, worldBounds, parts, rectAt, rectWatch, updating, astray, behind>>

Rearranged(c, rects) ==
  /\ collider' = [collider EXCEPT ![c].rects = rects]
  /\ behind' = [behind EXCEPT ![c] = {}]
  /\ UNCHANGED <<position, parts, rectAt, updating>>
  /\ Updates(<<c>>, {c})

(* rects:add and rects:insert, here at any place. *)
AddRect(c, r, i) ==
  /\ Alive(c) /\ MapThenSumSet(LAMBDA d: Len(collider[d].rects), Colliders) < MaxRects
  /\ i \in 1..(Len(collider[c].rects) + 1) /\ r \in DOMAIN rectAt
  /\ rectWatch' = [rectWatch EXCEPT ![r] = Append(@, c)]
  /\ Rearranged(c, InsertAt(collider[c].rects, i, r))

(* ese_rect_remove_watcher: the first that matches. *)
WithoutWatcher(watch, c) ==
  IF c \in ToSet(watch) THEN RemoveAt(watch, SelectInSeq(watch, LAMBDA d: d = c)) ELSE watch

Dropped(c, i) ==
  LET r == collider[c].rects[i] IN
    /\ rectWatch' = [rectWatch EXCEPT ![r] = WithoutWatcher(@, c)]
    /\ Rearranged(c, RemoveAt(collider[c].rects, i))

(* rects:remove takes the first place that the rectangle has. *)
RemoveRect(c, r) ==
  /\ Alive(c) /\ r \in ToSet(collider[c].rects)
  /\ Dropped(c, SelectInSeq(collider[c].rects, LAMBDA q: q = r))

(* Mutant: the watcher stays. *)
WrongPopRect(c) ==
  /\ Alive(c) /\ collider[c].rects # <<>>
  /\ Rearranged(c, Front(collider[c].rects))
  /\ UNCHANGED rectWatch

PopRect(c) == Alive(c) /\ collider[c].rects # <<>> /\ Dropped(c, Len(collider[c].rects))

ShiftRect(c) == Alive(c) /\ collider[c].rects # <<>> /\ Dropped(c, 1)

(* Assigning to the rectangle's x notifies its watchers. *)
SetRect(r, x) ==
  /\ r \in DOMAIN rectAt /\ x # rectAt[r]
  /\ rectAt' = [rectAt EXCEPT ![r] = x]
  /\ UNCHANGED <<position, collider, parts, rectWatch, updating>>
  /\ Updates(rectWatch[r], Colliders)
  /\ behind' = [c \in Colliders |-> IF c \in ToSet(rectWatch[r]) THEN {} ELSE behind[c]]
-----------------------------------------------------------------------------
(* The other fields, the entity and its position.                           *)

(* The offset is assigned, or its own x: nobody watches it. *)
SetOffset(c, x) ==
  /\ Alive(c) /\ x # collider[c].offset
  /\ collider' = [collider EXCEPT ![c].offset = x]
  /\ behind' = [behind EXCEPT ![c] = @ \cup {"offset"}]
  /\ UNCHANGED <<position, bounds, worldBounds, parts, rectAt, rectWatch, updating, astray>>

SetActive(c) ==
  /\ Alive(c)
  /\ collider' = [collider EXCEPT ![c].active = ~@]
  /\ UNCHANGED <<position, bounds, worldBounds, parts, rectAt, rectWatch, updating, astray, behind>>

(* _entity_position_changed asks the active colliders that the entity has. *)
Watchers(e) == {c \in Colliders : collider[c].active /\ c \in ToSet(parts[e])}

SetPosition(e, x) ==
  /\ x # position[e]
  /\ position' = [position EXCEPT ![e] = x]
  /\ UNCHANGED <<collider, rectAt>>
  /\ Updates(parts[e], Watchers(e))
  /\ behind' = [c \in Colliders |->
                  IF c \in Watchers(e) THEN {}
                  ELSE behind[c] \cup (IF collider[c].entity = e THEN {"position"} ELSE {})]
  /\ UNCHANGED <<parts, rectWatch, updating>>

Loose(c) == Alive(c) /\ \A e \in Movers : c \notin ToSet(parts[e])

(* components:add, here of a collider that has never been added. *)
Attach(e, c) ==
  /\ Loose(c) /\ collider[c].entity = Unset
  /\ parts' = [parts EXCEPT ![e] = Append(@, c)]
  /\ collider' = [collider EXCEPT ![c].entity = e]
  /\ updating' = updating \cup {c}
  /\ behind' = [behind EXCEPT ![c] = {}]
  /\ UNCHANGED <<position, rectAt, rectWatch>>
  /\ Updates(<<c>>, {c})

(* components:insert tells neither the component nor the systems. *)
AttachUntold(e, c) ==
  /\ Loose(c)
  /\ parts' = [parts EXCEPT ![e] = <<c>> \o @]
  /\ UNCHANGED <<position, bounds, worldBounds, collider, rectAt, rectWatch, updating, astray, behind>>

(* components:remove, pop and shift; the component keeps its entity. *)
Detach(e, c) ==
  /\ c \in ToSet(parts[e])
  /\ parts' = [parts EXCEPT ![e] = RemoveAt(@, SelectInSeq(@, LAMBDA d: d = c))]
  /\ UNCHANGED <<position, bounds, worldBounds, collider, rectAt, rectWatch, updating, astray, behind>>

(* The watchers of rectangle r when collider c has taken leave of its       *)
(* rectangles, one after the other.                                         *)
LeavesRect(c, r) ==
  LET rects == collider[c].rects
      watch[n \in 0 .. Len(rects)] ==
        IF n = 0 THEN rectWatch[r]
        ELSE IF rects[n] = r THEN WithoutWatcher(watch[n - 1], c) ELSE watch[n - 1]
  IN watch[Len(rects)]

(* The component is freed, by whoever held it last: every watcher that it   *)
(* registered goes with it.  The bounds stay.                               *)
FreeCollider(c) ==
  /\ Loose(c)
  /\ rectWatch' = [r \in Rects |-> LeavesRect(c, r)]
  /\ collider' = [collider EXCEPT ![c].life = "freed", ![c].rects = <<>>]
  /\ updating' = updating \ {c}
  /\ UNCHANGED <<position, bounds, worldBounds, parts, rectAt, astray, behind>>

(* collider_sys_update, in the EARLY phase. *)
ColliderSystem ==
  /\ updating # {}
  /\ worldBounds' = [e \in Movers |->
       IF e \in {collider[c].entity : c \in updating} /\ bounds[e] # NoBounds
       THEN Moved(bounds[e], position[e]) ELSE worldBounds[e]]
  /\ behind' = [c \in Colliders |-> IF c \in updating THEN behind[c] \ {"position"} ELSE behind[c]]
  /\ UNCHANGED <<position, bounds, parts, collider, rectAt, rectWatch, updating, astray>>

BoundsNext ==
  /\ ~astray
  /\ \/ ColliderSystem
     \/ \E r \in Rects, x \in Places : SetRect(r, x)
     \/ \E c \in Colliders :
          \/ NewComponent(c) \/ PopRect(c) \/ ShiftRect(c) \/ SetActive(c) \/ FreeCollider(c)
          \/ \E r \in Rects : RemoveRect(c, r) \/ \E i \in 1..MaxRects : AddRect(c, r, i)
          \/ \E x \in Places : SetOffset(c, x)
     \/ \E e \in Movers :
          \/ \E x \in Places : SetPosition(e, x)
          \/ \E c \in Colliders : Attach(e, c) \/ AttachUntold(e, c) \/ Detach(e, c)

BoundsSpec == BoundsInit /\ [][BoundsNext]_boundsVars
-----------------------------------------------------------------------------
BoundsTypeOK ==
  /\ position \in [Movers -> Places]
  /\ DOMAIN bounds = Movers /\ DOMAIN worldBounds = Movers
  /\ parts \in [Movers -> Seq(Colliders)]
  /\ collider \in [Colliders -> [life : {"new", "live", "freed"}, entity : Movers \cup {Unset},
                                 rects : Seq(Rects), offset : Places, active : BOOLEAN]]
  /\ \A r \in DOMAIN rectAt : rectAt[r] \in Places
  /\ rectWatch \in [Rects -> Seq(Colliders)]
  /\ updating \subseteq Colliders

Times(s, x) == Cardinality({i \in DOMAIN s : s[i] = x})

(* The hull is up to date if nobody but c has had the entity.  The offset   *)
(* may have changed unnoticed, and the position while the collider was      *)
(* inactive or not among the entity's components, until the system's turn.  *)
Current(c, e) ==
  /\ "offset" \notin behind[c] => bounds[e] = Hull(collider[c], rectAt)
  /\ behind[c] = {} => worldBounds[e] = Moved(Hull(collider[c], rectAt), position[e])

(* A rectangle notifies a collider as often as the collider has it, and     *)
(* none that was freed; so that whatever script changes whatever rectangle, *)
(* in whichever order it came into the collider, the entity collides where  *)
(* its rectangles are.                                                      *)
BoundsFollow ==
  /\ \A r \in Rects, c \in Colliders : Times(rectWatch[r], c) = Times(collider[c].rects, r)
  /\ ~astray => \A c \in Colliders, e \in Movers :
       (Alive(c) /\ {d \in Colliders : collider[d].entity = e} = {c}) => Current(c, e)
=============================================================================
