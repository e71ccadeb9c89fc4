------------------------------ MODULE Drawing ------------------------------
(***************************************************************************)
(* From components to the picture.  Each frame the render systems run as   *)
(* parallel jobs that take objects from one pool, the draw list; the main  *)
(* thread adds the GUI and the console, sorts the pool by z and gathers    *)
(* neighbours of the same look into the batches of a render list.  There   *)
(* are two render lists, the one the platform draws from and the one that  *)
(* is filled, and they change places at the end of the frame.  A batch of  *)
(* textures does not copy the name of its texture: it points into the      *)
(* object of the pool that opened the batch.                               *)
(*                                                                         *)
(* Positions, sizes and texture coordinates are copied with a piece and    *)
(* are left out.  No caller sets a scissor or a mesh.                      *)
(***************************************************************************)
EXTENDS Integers, Sequences, SequencesExt, FiniteSets, FiniteSetsExt

CONSTANTS
  Drawables,   \* components that are drawn
  KindOf,      \* of each: "sprite", "text", "shape", "collider" or "map"
  Scenes,      \* sets of components that a scene may have
  Assets,      \* names of textures, the font's among them
  Colors,
  Arts,        \* of each: what it may be given to draw
  Overlays,    \* what the GUI and the console may add, as [look, z]
  Orders,      \* draw orders of entities
  LayerStep,   \* 2^DRAW_ORDER_SHIFT, scaled down
  Capacity,    \* initial capacity of the draw list
  MaxDrawings  \* bound: frames

Kinds == {"sprite", "text", "shape", "collider", "map"}
Clear == "clear"    \* a colour of which alpha is 0
NoAsset == "none"

Font == "font"

Lines == [type : {"open", "closed", "filled"}, points : Nat, fill : Colors, stroke : Colors]

(* What components of a kind may have to draw. *)
ArtOf(kind) ==
  CASE kind = "sprite"             -> Assets \cup {NoAsset}
    [] kind \in {"text", "collider"} -> Nat
    [] kind = "shape"              -> Seq(Lines)
    [] kind = "map"                -> Seq(Seq(Assets \cup {NoAsset}))

Texture(id) == <<"texture", id>>
Outline(color, filled) == <<"rect", color, filled>>
Polyline(fill, stroke) == <<"polyline", fill, stroke>>

Looks ==
  {Texture(id) : id \in Assets} \cup {Outline(c, b) : c \in Colors, b \in BOOLEAN}
    \cup {Polyline(f, c) : f \in Colors, c \in Colors}

Things == [look : Looks, z : Nat]

ASSUME DrawingAssumption ==
  /\ IsFiniteSet(Drawables) /\ KindOf \in [Drawables -> Kinds]
  /\ Font \in Assets /\ NoAsset \notin Assets /\ {Clear, "blue"} \subseteq Colors
  /\ \A d \in Drawables : Arts[d] # {} /\ Arts[d] \subseteq ArtOf(KindOf[d])
  /\ Overlays \subseteq Things
  /\ Orders \subseteq Nat /\ LayerStep \in Nat \ {0}
  /\ Capacity \in Nat \ {0} /\ MaxDrawings \in Nat

VARIABLES
  world,       \* of each component: its entity's flags and depth, its art
  object,      \* of each allocated object of the pool: look and z
  pool,        \* the pool's array: identities of objects, permuted by sorting
  taken,       \* objects_count
  painting,    \* the part of the frame, or "idle"
  painter,     \* of each render system: what it has to add and the object it holds
  lists,       \* the two render lists: sequences of batches
  activeList,  \* active_render_list
  wanted,      \* history: the things that were to be drawn this frame
  drawings     \* history: frames begun

drawingVars == <<world, object, pool, taken, painting, painter, lists, activeList,
                 wanted, drawings>>

Blank == [look |-> Outline(Clear, FALSE), z |-> 0]
NoObject == 0
Resting == [todo |-> <<>>, holds |-> NoObject]
Absent == <<>>

Component(d) == [visible : BOOLEAN, destroyed : BOOLEAN, order : Orders, art : Arts[d]]

Shown(s) == s.visible /\ ~s.destroyed

(* A scene has been loaded. *)
DrawingInit ==
  /\ \E scene \in Scenes, orders \in [Drawables -> Orders] :
       world = [d \in Drawables |->
                 IF d \in scene THEN [visible |-> TRUE, destroyed |-> FALSE, order |-> orders[d],
                                      art |-> CHOOSE art \in Arts[d] : TRUE]
                 ELSE Absent]
  /\ object = [o \in 1..Capacity |-> Blank]
  /\ pool = [i \in 1..Capacity |-> i]
  /\ taken = 0
  /\ painting = "idle"
  /\ painter = [k \in Kinds |-> Resting]
  /\ lists = [a \in BOOLEAN |-> <<>>]
  /\ activeList = TRUE
  /\ wanted = <<>>
  /\ drawings = 0
-----------------------------------------------------------------------------
(* What the render systems add.  Every system passes over entities that are *)
(* inactive or invisible, all but the collider system over destroyed ones.  *)
Thing(look, z) == [look |-> look, z |-> z]
Deep(s) == s.order * LayerStep
Only(condition, thing) == IF condition THEN << thing >> ELSE <<>>

(* The entity's depth; nothing for a sprite that has no asset. *)
SpriteAdds(s) ==
  Only(Shown(s) /\ s.art # NoAsset, Thing(Texture(s.art), Deep(s)))

(* A glyph of the font for each character; the art is their number. *)
TextAdds(s) ==
  IF Shown(s) THEN [i \in 1..s.art |-> Thing(Texture(Font), Deep(s))] ELSE <<>>

(* Each polyline of two points or more, at depth 0 whatever the entity's.   *)
(* An open one has no fill, and a closed one only a fill that shows.        *)
Filled(p) == p.type # "open" /\ p.points >= 3

ShapeAdds(s) ==
  IF ~Shown(s) THEN <<>>
  ELSE FlattenSeq([i \in DOMAIN s.art |->
         Only(s.art[i].points >= 2,
              Thing(Polyline(IF Filled(s.art[i]) THEN s.art[i].fill ELSE Clear, s.art[i].stroke), 0))])

(* The outlines of its rectangles, if the component shows them. *)
ColliderAdds(s) ==
  IF s.visible THEN [i \in 1..s.art |-> Thing(Outline("blue", FALSE), Deep(s))] ELSE <<>>

(* Cell by cell each layer that has a tile with an asset, two steps above   *)
(* the layer below it; in a step there is room for every cell.              *)
CellAdds(s, c) ==
  FlattenSeq([l \in DOMAIN s.art[c] |->
    Only(s.art[c][l] # NoAsset,
         Thing(Texture(s.art[c][l]), Deep(s) + 2 * (l - 1) * LayerStep + c - 1))])

MapAdds(s) ==
  IF Shown(s) THEN FlattenSeq([c \in DOMAIN s.art |-> CellAdds(s, c)]) ELSE <<>>

Adds(d) ==
  IF world[d] = Absent THEN <<>>
  ELSE CASE KindOf[d] = "sprite"   -> SpriteAdds(world[d])
         [] KindOf[d] = "text"     -> TextAdds(world[d])
         [] KindOf[d] = "shape"    -> ShapeAdds(world[d])
         [] KindOf[d] = "collider" -> ColliderAdds(world[d])
         [] KindOf[d] = "map"      -> MapAdds(world[d])

(* What they add, component after component. *)
Adding(ds) == FlattenSeq([i \in DOMAIN ds |-> Adds(ds[i])])

Work(k) == Adding(SetToSeq({d \in Drawables : KindOf[d] = k}))

(* The flat pieces of a thing: a polyline is its fill, if that shows, and   *)
(* then its stroke.                                                         *)
Colored(color, filled) == <<"color", color, filled>>

Flat(look) ==
  IF look[1] = "polyline"
  THEN Only(look[2] # Clear, Colored(look[2], TRUE)) \o Only(look[3] # Clear, Colored(look[3], FALSE))
  ELSE IF look[1] = "rect" THEN << Colored(look[2], look[3]) >>
  ELSE << look >>

Parts(thing) == [j \in DOMAIN Flat(thing.look) |-> [look |-> Flat(thing.look)[j], z |-> thing.z]]

Pieces(things) == FlattenSeq([i \in DOMAIN things |-> Parts(things[i])])

(* How often each element is there. *)
Tally(s) == [e \in ToSet(s) |-> Cardinality({i \in DOMAIN s : s[i] = e})]
-----------------------------------------------------------------------------
(* The draw list.                                                           *)

(* draw_list_request_object: the next object of the array, with its         *)
(* capacity doubled if there is none, made blank.  All under the mutex.     *)
Grown == IF taken < Len(pool) THEN pool
         ELSE pool \o [i \in 1..Len(pool) |-> Len(pool) + i]

NextObject == Grown[taken + 1]

Requested(content) ==
  /\ taken' = taken + 1
  /\ pool' = Grown
  /\ object' = [o \in 1..Len(Grown) |-> IF o = NextObject THEN content
                                       ELSE IF o \in DOMAIN object THEN object[o] ELSE Blank]

(* The objects taken, by z; qsort leaves ties in any order.  One after the *)
(* other is put in any place that suits its z.                              *)
Z(o) == object[o].z

Placed(s, o) ==
  {InsertAt(s, i, o) : i \in {j \in 1..(Len(s) + 1) :
                                (j > 1 => Z(s[j - 1]) <= Z(o)) /\ (j <= Len(s) => Z(o) <= Z(s[j]))}}

Sortings ==
  LET sorted[n \in 0..taken] ==
        IF n = 0 THEN {<<>>} ELSE UNION {Placed(s, pool[n]) : s \in sorted[n - 1]}
  IN sorted[taken]
-----------------------------------------------------------------------------
(* The render list.  A batch of textures has in "of" the object it points   *)
(* into, one of colours the colour and whether it is for fills.             *)

(* Mutant: textures of any name join. *)
WrongJoins(batch, look) ==
  IF look[1] = "texture" THEN batch.type = "texture"
  ELSE batch.type = "color" /\ batch.of = look

(* A batch is open to a piece that looks as it does; the name of a texture  *)
(* is compared through the pointer.                                         *)
Joins(batch, look) ==
  IF look[1] = "texture" THEN batch.type = "texture" /\ object[batch.of].look = look
  ELSE batch.type = "color" /\ batch.of = look

(* A piece with the object that it is of. *)
WithPiece(batches, shard) ==
  LET last == Len(batches)
      look == shard.piece.look
  IN IF last > 0 /\ Joins(batches[last], look)
     THEN [batches EXCEPT ![last].pieces = Append(@, shard.piece)]
     ELSE Append(batches, [type |-> look[1], of |-> IF look[1] = "texture" THEN shard.of ELSE look,
                           pieces |-> << shard.piece >>])

Shards(o) == [j \in DOMAIN Parts(object[o]) |-> [of |-> o, piece |-> Parts(object[o])[j]]]

(* render_list_fill of the objects in this order. *)
FilledList(order) ==
  LET shards == FlattenSeq([i \in DOMAIN order |-> Shards(order[i])])
      filled[n \in 0..Len(shards)] == IF n = 0 THEN <<>> ELSE WithPiece(filled[n - 1], shards[n])
  IN filled[Len(shards)]

LookOf(batch) == IF batch.type = "texture" THEN object[batch.of].look ELSE batch.of

(* renderer_draw: batch after batch, each piece in the look that its batch  *)
(* has at that time.                                                        *)
DrawnBatch(batch) == [i \in DOMAIN batch.pieces |-> [piece |-> batch.pieces[i], look |-> LookOf(batch)]]

Picture(batches) == FlattenSeq([b \in DOMAIN batches |-> DrawnBatch(batches[b])])

(* active_render_list tells which list was filled last: a for TRUE. *)
ListToFill == ~activeList
ListShown == activeList
-----------------------------------------------------------------------------
(* engine_update.                                                           *)

(* Scripts and C change or destroy what is drawn: one thing about one       *)
(* component in a frame here.                                               *)
Revised(s, t) ==
  Cardinality({f \in {"visible", "destroyed", "order", "art"} : s[f] # t[f]}) = 1 /\ ~s.destroyed

Script(d, t) ==
  /\ painting = "scripts"
  /\ world[d] # Absent /\ Revised(world[d], t)
  /\ painting' = "scripted"
  /\ world' = [world EXCEPT ![d] = t]
  /\ UNCHANGED <<object, pool, taken, painter, lists, activeList, wanted, drawings>>

BeginDrawing ==
  /\ painting = "idle" /\ drawings < MaxDrawings
  /\ painting' = "scripts"
  /\ drawings' = drawings + 1
  /\ UNCHANGED <<world, object, pool, taken, painter, lists, activeList, wanted>>

(* draw_list_clear, and the jobs of the late systems, whose components do   *)
(* not change while they run.                                               *)
Late ==
  /\ painting \in {"scripts", "scripted"}
  /\ painting' = "late"
  /\ taken' = 0
  /\ painter' = [k \in Kinds |-> [todo |-> Work(k), holds |-> NoObject]]
  /\ wanted' = Adding(SetToSeq(Drawables))
  /\ UNCHANGED <<world, object, pool, lists, activeList, drawings>>

PaintRequests(k) ==
  /\ painting = "late" /\ painter[k].todo # <<>> /\ painter[k].holds = NoObject
  /\ Requested(Blank)
  /\ painter' = [painter EXCEPT ![k].holds = NextObject]
  /\ UNCHANGED <<world, painting, lists, activeList, wanted, drawings>>

(* The setters, on an object that no other system has. *)
PaintSets(k) ==
  /\ painter[k].holds # NoObject
  /\ object' = [object EXCEPT ![painter[k].holds] = Head(painter[k].todo)]
  /\ painter' = [painter EXCEPT ![k] = [todo |-> Tail(@.todo), holds |-> NoObject]]
  /\ UNCHANGED <<world, pool, taken, painting, lists, activeList, wanted, drawings>>

LateEnds ==
  /\ painting = "late" /\ \A k \in Kinds : painter[k] = Resting
  /\ painting' = "gui"
  /\ UNCHANGED <<world, object, pool, taken, painter, lists, activeList, wanted, drawings>>

(* The GUI, and after it the console, adds a thing: at most one each here.  *)
Overlay(thing) ==
  /\ painting \in {"gui", "console"}
  /\ painting' = IF painting = "gui" THEN "console" ELSE "ready"
  /\ Requested(thing)
  /\ wanted' = Append(wanted, thing)
  /\ UNCHANGED <<world, painter, lists, activeList, drawings>>

(* render_list_clear and render_list_fill of the list that is not shown,    *)
(* and the flip.  What was destroyed is gone when the frame ends.           *)
Fill ==
  /\ painting \in {"gui", "console", "ready"}
  /\ \E sorted \in Sortings :
       /\ pool' = sorted \o SubSeq(pool, taken + 1, Len(pool))
       /\ lists' = [lists EXCEPT ![ListToFill] = FilledList(sorted)]
  /\ activeList' = ~activeList
  /\ painting' = "idle"
  /\ world' = [d \in Drawables |-> IF world[d] # Absent /\ world[d].destroyed THEN Absent ELSE world[d]]
  /\ UNCHANGED <<object, taken, painter, wanted, drawings>>

DrawingNext ==
  \/ BeginDrawing \/ Late \/ LateEnds \/ Fill
  \/ \E d \in Drawables : \E t \in Component(d) : Script(d, t)
  \/ \E k \in Kinds : PaintRequests(k) \/ PaintSets(k)
  \/ \E thing \in Overlays : Overlay(thing)

DrawingSpec == DrawingInit /\ [][DrawingNext]_drawingVars
-----------------------------------------------------------------------------
DrawingTypeOK ==
  /\ \A d \in Drawables : world[d] = Absent \/ world[d] \in Component(d)
  /\ taken \in 0..Len(pool) /\ object \in [1..Len(pool) -> Things]
  /\ ToSet(pool) = DOMAIN object
  /\ painting \in {"idle", "scripts", "scripted", "late", "gui", "console", "ready"}
  /\ \A k \in Kinds : painter[k].holds \in {NoObject} \cup DOMAIN object
  /\ activeList \in BOOLEAN
  /\ drawings \in 0..MaxDrawings

(* Whenever the platform may draw, the picture is made of exactly the       *)
(* pieces that the components, the GUI and the console had for the last     *)
(* frame, each as often as it was added and in its own look, the lower ones *)
(* before the higher: whatever objects the systems took in which order, and *)
(* though names of textures are read from objects that frames reuse.        *)
FaithfulPicture ==
  painting = "idle" =>
    LET picture == Picture(lists[ListShown])
    IN /\ Tally([i \in DOMAIN picture |-> picture[i].piece]) = Tally(Pieces(wanted))
       /\ \A i \in DOMAIN picture : picture[i].look = picture[i].piece.look
       /\ \A i, j \in DOMAIN picture : i < j => picture[i].piece.z <= picture[j].piece.z
=============================================================================
