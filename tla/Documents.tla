----------------------------- MODULE Documents -----------------------------
(***************************************************************************)
(* Two ways to take an entity down and put it up again: its JSON           *)
(* (Entity:toJSON and Entity.fromJSON, entity/entity.c, and the serialize  *)
(* and deserialize of every component) and a copy in memory (entity_copy), *)
(* each of which keeps something else.                                     *)
(*                                                                         *)
(* Of an entity or a component the model keeps the set of the fields that  *)
(* are away from the value a new one gives them.  "inactive" and "hidden"  *)
(* are the fields active and visible, which a new one has set.             *)
(***************************************************************************)
EXTENDS Integers, Sequences, FiniteSets, SequencesExt

CONSTANTS
  Actors,     \* the entities that scripts make: [set, parts], the parts a
              \* sequence of components, [kind, set]
  Droppable,  \* keys that a document may lack
  MaxPeople   \* bound: entities at once

VARIABLES
  people,  \* the entities: [set, parts, from], from being the document that
           \* the entity was read from
  paper    \* the document that a script holds: [set, parts], the parts
           \* [kind, has, set], has being the keys that are there

documentsVars == <<people, paper>>

Nothing == <<>>
EntityFields == {"inactive", "hidden", "persistent", "draw_order", "position", "tags",
                 "default_props", "subscriptions"}

-----------------------------------------------------------------------------
(* What the JSON of a component holds. *)
ColliderWritten == {"inactive", "draw_debug", "map_interaction", "offset"}
LuaWritten == {"inactive", "script"}
MapWritten == {"inactive", "script", "size", "seed", "position", "show_layer"}
ShapeWritten == {"inactive", "rotation", "polylines", "blank"}  \* blank: a line without points
SpriteWritten == {"inactive", "sprite", "current_frame"}
TextWritten == {"inactive", "text", "justify", "align", "offset"}
SoundWritten == {"inactive", "sound", "is_repeat", "is_spatial"}
MusicWritten == {"inactive", "repeat", "is_spatial", "xfade_time", "tracks"}
ListenerWritten == {"inactive", "volume", "spatial", "max_distance", "attenuation", "rolloff"}

Written ==
  [collider |-> ColliderWritten, lua |-> LuaWritten, map |-> MapWritten, shape |-> ShapeWritten,
   sprite |-> SpriteWritten, text |-> TextWritten, sound |-> SoundWritten, music |-> MusicWritten,
   listener |-> ListenerWritten]

(* What reading it takes from the keys that are there: a component with the *)
(* fields of those it knows, or none when one that it insists on is missing *)
(* or a line of a shape has no points (ese_poly_line_deserialize).          *)
Reading(part, known, needed) ==
  IF needed \subseteq part.has THEN << [kind |-> part.kind, set |-> part.set \cap part.has \cap known] >>
                               ELSE Nothing

ReadCollider(part) == Reading(part, {"inactive", "draw_debug", "map_interaction", "offset"}, {})
ReadLua(part) == Reading(part, {"inactive", "script"}, {})
ReadMap(part) == Reading(part, {"inactive", "script", "size", "seed", "position", "show_layer"},
                              {"inactive", "size", "seed"})
EmptyLine(part) == {"polylines", "blank"} \subseteq part.set \cap part.has
ReadShape(part) == IF EmptyLine(part) THEN Nothing ELSE Reading(part, {"inactive", "rotation", "polylines"}, {})
(* Mutant: the frame is forgotten. *)
WrongReadSprite(part) == Reading(part, {"inactive", "sprite"}, {"inactive"})
ReadSprite(part) == Reading(part, {"inactive", "sprite", "current_frame"}, {"inactive"})
ReadText(part) == Reading(part, {"inactive", "text", "justify", "align", "offset"}, {"inactive"})
ReadSound(part) == Reading(part, {"inactive", "sound", "is_repeat", "is_spatial"}, {})
ReadMusic(part) == Reading(part, {"inactive", "repeat", "is_spatial", "xfade_time", "tracks"}, {})
ReadListener(part) == Reading(part, {"inactive", "volume", "spatial", "max_distance", "attenuation", "rolloff"}, {})

ReadPart(part) ==
  CASE part.kind = "collider" -> ReadCollider(part)
    [] part.kind = "lua" -> ReadLua(part)
    [] part.kind = "map" -> ReadMap(part)
    [] part.kind = "shape" -> ReadShape(part)
    [] part.kind = "sprite" -> ReadSprite(part)
    [] part.kind = "text" -> ReadText(part)
    [] part.kind = "sound" -> ReadSound(part)
    [] part.kind = "music" -> ReadMusic(part)
    [] part.kind = "listener" -> ReadListener(part)

(* What a copy in memory keeps. *)
ColliderCopied == {"draw_debug", "map_interaction", "offset", "rects"}
LuaCopied == {"script"}
ShapeCopied == {"rotation", "polylines", "blank"}
SpriteCopied == {"sprite"}
TextCopied == {"text", "justify", "align", "offset"}
SoundCopied == {"sound", "is_repeat", "is_spatial", "playing"}
MusicCopied == {"repeat", "is_spatial", "xfade_time", "tracks", "playing"}
ListenerCopied == {"volume", "spatial", "max_distance", "attenuation", "rolloff"}

Copied ==
  [collider |-> ColliderCopied, lua |-> LuaCopied, shape |-> ShapeCopied, sprite |-> SpriteCopied,
   text |-> TextCopied, sound |-> SoundCopied, music |-> MusicCopied, listener |-> ListenerCopied]

-----------------------------------------------------------------------------
(* entity_serialize: neither the properties nor the subscriptions. *)
Saved(e) ==
  [set   |-> e.set \ {"default_props", "subscriptions"},
   parts |-> [i \in DOMAIN e.parts |->
                [kind |-> e.parts[i].kind, has |-> Written[e.parts[i].kind],
                 set  |-> e.parts[i].set \cap Written[e.parts[i].kind]]]]

(* entity_deserialize: a component that cannot be read is skipped. *)
Loaded(d) ==
  [set |-> d.set, parts |-> FlattenSeq([i \in DOMAIN d.parts |-> ReadPart(d.parts[i])]),
   from |-> d]

(* entity_copy: neither visible nor persistent nor the subscriptions. *)
Duplicate(e) ==
  [set   |-> e.set \ {"hidden", "persistent", "subscriptions"},
   parts |-> [i \in DOMAIN e.parts |->
                [kind |-> e.parts[i].kind, set |-> e.parts[i].set \cap Copied[e.parts[i].kind]]],
   from |-> Nothing]

-----------------------------------------------------------------------------
DocumentsInit == people = {} /\ paper = Nothing

Admit(e) == Cardinality(people \cup {e}) <= MaxPeople /\ people' = people \cup {e}

NewEntity(a) == Admit([set |-> a.set, parts |-> a.parts, from |-> Nothing]) /\ UNCHANGED paper

ToJSON(e) == paper' = Saved(e) /\ UNCHANGED people

(* A script, or an older version of the game, leaves out a key; bound: one. *)
DropKey(p, key) ==
  /\ paper # Nothing /\ p \in DOMAIN paper.parts
  /\ \A q \in DOMAIN paper.parts : paper.parts[q].has = Written[paper.parts[q].kind]
  /\ key \in paper.parts[p].has
  /\ paper' = [paper EXCEPT !.parts[p].has = @ \ {key}]
  /\ UNCHANGED people

FromJSON == paper # Nothing /\ Admit(Loaded(paper)) /\ UNCHANGED paper

(* Without default properties the copy asks for an iterator of no list,     *)
(* which aborts; the copy of a map component has no table of functions and  *)
(* cannot be destroyed.                                                     *)
Copyable(e) ==
  "default_props" \in e.set /\ \A p \in DOMAIN e.parts : e.parts[p].kind # "map"

CopyEntity(e) == Copyable(e) /\ Admit(Duplicate(e)) /\ UNCHANGED paper

EntityGone(e) == people' = people \ {e} /\ UNCHANGED paper

DocumentsNext ==
  \/ \E a \in Actors : NewEntity(a)
  \/ \E e \in people : ToJSON(e) \/ CopyEntity(e) \/ EntityGone(e)
  \/ \E p \in 1..9, key \in Droppable : DropKey(p, key)
  \/ FromJSON

DocumentsSpec == DocumentsInit /\ [][DocumentsNext]_documentsVars

-----------------------------------------------------------------------------
DocumentsTypeOK ==
  /\ Cardinality(people) <= MaxPeople
  /\ \A e \in people : e.set \subseteq EntityFields
  /\ paper # Nothing => \A p \in DOMAIN paper.parts : paper.parts[p].has \subseteq Written[paper.parts[p].kind]

(* What no JSON keeps of a component: the rectangles of a collider (the    *)
(* comment at collider.c:320), what a script has set and made, the map     *)
(* that is shown and what plays.                                           *)
Unsaved == {"rects", "props", "instance", "map", "playing"}

Bare(parts) == [i \in DOMAIN parts |-> [kind |-> parts[i].kind, set |-> parts[i].set]]

(* An entity that was saved and read back has lost its properties, its     *)
(* subscriptions, the Unsaved and every shape one of whose lines has no    *)
(* points yet, with all its other lines, and nothing else.                 *)
KeptByJSON ==
  \A e \in people :
    LET back == Loaded(Saved(e))
        whole == SelectSeq(e.parts, LAMBDA p : "blank" \notin p.set)
    IN  /\ back.set = e.set \ {"default_props", "subscriptions"}
        /\ back.parts = [p \in DOMAIN whole |-> [kind |-> whole[p].kind, set |-> whole[p].set \ Unsaved]]

(* Whoever was read from a document, with a key missing or without, writes *)
(* the same document but for the missing key and the component it cost: a  *)
(* sprite, a text or a map that does not say whether it is active, a map   *)
(* without size or seed, an unfinished shape.                              *)
Costs(part) ==
  \/ part.kind \in {"sprite", "text", "map"} /\ "inactive" \notin part.has
  \/ part.kind = "map" /\ ~ {"size", "seed"} \subseteq part.has
  \/ part.kind = "shape" /\ {"polylines", "blank"} \subseteq part.has \cap part.set

WritesWhatItRead ==
  \A e \in people : e.from # Nothing =>
    LET read == SelectSeq(e.from.parts, LAMBDA p : ~ Costs(p))
    IN  /\ Saved(e).set = e.from.set
        /\ Bare(Saved(e).parts)
             = [p \in DOMAIN read |->
                  [kind |-> read[p].kind,
                   set |-> (read[p].set \cap read[p].has) \ (IF "polylines" \in read[p].has THEN {} ELSE {"blank"})]]

(* Components of a copy lose being inactive, the frame shown and what the  *)
(* script had set and made; all else, the playing sound included, is kept. *)
KeptByCopy ==
  \A e \in people : Copyable(e) =>
    \A p \in DOMAIN e.parts :
         Duplicate(e).parts[p].set
           = e.parts[p].set \ {"inactive", "current_frame", "props", "instance"}

DocumentsFaithful == KeptByJSON /\ WritesWhatItRead /\ KeptByCopy
=============================================================================
