------------------------------- MODULE Assets -------------------------------
(***************************************************************************)
(* Sprites, from the atlas file to the screen: what a load puts into the   *)
(* asset manager's tables (core/asset_manager.c) and into the renderer,    *)
(* how an id finds it again (utility/helpers.c), and the frame that each   *)
(* sprite component has got to when it is drawn.  Frames are advanced in   *)
(* the EARLY phase, scripts run after that and may load further atlases,   *)
(* and the LATE phase draws.                                               *)
(*                                                                         *)
(* Names are sequences of characters: ids are put together with a colon in *)
(* one place and taken apart in another.                                   *)
(***************************************************************************)
EXTENDS Integers, Sequences, FiniteSets, FiniteSetsExt, SequencesExt, TLC

CONSTANTS
  Atlases,      \* atlas files: [group, image, indexed, sprites], the sprites
                \* in their order, each one [name, length]
  MapFiles,     \* map files: [group, tiles, cells], the sprites that the tile
                \* set names and those of the tiles that the cells use
  SplitBuffer,  \* characters in a buffer of ese_helper_split; 64 in the code
  SpriteComps   \* sprite components

ASSUME AssetsAssumption ==
  /\ SplitBuffer \in Nat /\ SplitBuffer > 1
  /\ Atlases \subseteq [group : Seq(STRING), image : Seq(STRING), indexed : BOOLEAN,
                        sprites : Seq([name : Seq(STRING), length : Nat])]

VARIABLES
  loadedAtlases,  \* manager->atlases: the atlases marked as loaded
  pixels,         \* renderer->textures: of each texture id, what was uploaded
  loadedMaps,     \* manager->maps
  spriteTable,    \* manager->sprites: by group and name
  spriteComp,     \* the components
  snapshot,       \* what toJSON wrote last
  spritePhase,    \* "early", "script" or "late" of the frame
  shortened,      \* history: keys whose sprite was replaced by a shorter one
  spriteAbort     \* sprite_get_frame was called with a frame there is none of

assetsVars == <<loadedAtlases, pixels, loadedMaps, spriteTable, spriteComp, snapshot, spritePhase,
                shortened, spriteAbort>>

Colon   == ":"
Default == <<"default">>
NoName  == <<>>  \* sprite_name is NULL, which no sprite is found under

Id(group, name) == group \o <<Colon>> \o name
TextureId(a) == Id(a.group, a.image)
Pixels(a)    == [image |-> <<a.group, a.image>>, indexed |-> a.indexed]
NamesOf(a) == {<<a.group, a.sprites[i].name>> : i \in DOMAIN a.sprites}
Keys == UNION {NamesOf(a) : a \in Atlases}
Ids  == {Id(k[1], k[2]) : k \in Keys}
Fresh == [name |-> NoName, frame |-> 0, shown |-> TRUE]

SnapshotOf(c) == [name |-> c.name, frame |-> c.frame]

AssetsTypeOK ==
  /\ loadedAtlases \subseteq Atlases
  /\ DOMAIN pixels \subseteq {TextureId(a) : a \in Atlases}
  /\ loadedMaps \subseteq MapFiles
  /\ DOMAIN spriteTable \subseteq Keys
  /\ spriteComp \in [SpriteComps -> [name : Ids \cup {NoName}, frame : Nat, shown : BOOLEAN]]
  /\ snapshot \in [name : Ids \cup {NoName}, frame : Nat]
  /\ spritePhase \in {"early", "script", "late"}
  /\ shortened \subseteq Keys
  /\ spriteAbort \in BOOLEAN

AssetsInit ==
  /\ loadedAtlases = {} /\ pixels = <<>> /\ spriteTable = <<>> /\ loadedMaps = {}
  /\ spriteComp = [c \in SpriteComps |-> Fresh]
  /\ snapshot = SnapshotOf(Fresh)
  /\ spritePhase = "early" /\ shortened = {} /\ spriteAbort = FALSE
-----------------------------------------------------------------------------
(* Ids.                                                                     *)

(* The first colon of an id, or 0.                                          *)
FirstColon(id) == SelectInSeq(id, LAMBDA c : c = Colon)

(* ese_helper_split: the group is cut to its buffer.                        *)
Split(id) ==
  LET colon  == FirstColon(id)
      length == IF colon < SplitBuffer THEN colon - 1 ELSE SplitBuffer - 1 IN
    <<IF colon > 1 THEN SubSeq(id, 1, length) ELSE Default, SubSeq(id, colon + 1, Len(id))>>

HasSprite(id) == id # NoName /\ Split(id) \in DOMAIN spriteTable
Sprite(id)    == spriteTable[Split(id)]
-----------------------------------------------------------------------------
(* Loading.                                                                 *)

(* A hash map of old in which the entries of new are set. *)
Over(new, old) ==
  [key \in DOMAIN new \cup DOMAIN old |-> IF key \in DOMAIN new THEN new[key] ELSE old[key]]

(* renderer_load_texture: an id that is known already keeps its pixels.     *)
Uploaded(a) == Over(pixels, [texture \in {TextureId(a)} |-> Pixels(a)])

(* A sprite with no valid frame is skipped.                                 *)
Usable(s)   == s.length > 0
Usables(a)  == {i \in DOMAIN a.sprites : Usable(a.sprites[i])}

(* The sprites of the file one after the other; a later one of a name       *)
(* replaces an earlier one, in the file or in the table.                    *)
Latest(a, name) == Max({i \in Usables(a) : a.sprites[i].name = name})

NewSprites(a) ==
  [key \in {<<a.group, a.sprites[i].name>> : i \in Usables(a)} |->
     [length |-> a.sprites[Latest(a, key[2])].length, texture |-> TextureId(a)]]

Cut(a) == {key \in DOMAIN NewSprites(a) \cap DOMAIN spriteTable :
             NewSprites(a)[key].length < spriteTable[key].length}

ScriptLoads == /\ spritePhase = "script"
               /\ UNCHANGED <<spriteComp, snapshot, spritePhase, spriteAbort>>

(* The file turns out to have no "frames" or no "sprites" after its image   *)
(* has been uploaded; what fails earlier changes nothing.                   *)
LoadAtlasFails(a) ==
  /\ ScriptLoads /\ UNCHANGED loadedMaps /\ a \notin loadedAtlases
  /\ pixels' = Uploaded(a)
  /\ UNCHANGED <<loadedAtlases, spriteTable, shortened>>

LoadAtlas(a) ==
  /\ ScriptLoads /\ UNCHANGED loadedMaps /\ a \notin loadedAtlases
  /\ pixels' = Uploaded(a)
  /\ spriteTable' = Over(NewSprites(a), spriteTable)
  /\ shortened' = shortened \cup Cut(a)
  /\ loadedAtlases' = loadedAtlases \cup {a}

(* Of all that a map file may get wrong: its cells use tiles that its tile  *)
(* set does not have.                                                       *)
WellFormed(f) == f.cells \subseteq f.tiles

(* A file with something wrong in it is refused whole.                      *)
LoadMap(f) ==
  /\ ScriptLoads /\ f \notin loadedMaps
  /\ WellFormed(f)
  /\ loadedMaps' = loadedMaps \cup {f}
  /\ UNCHANGED <<loadedAtlases, pixels, spriteTable, shortened>>
-----------------------------------------------------------------------------
(* Components.                                                              *)

Scripted(comps) ==
  /\ spritePhase = "script" /\ spriteComp' = comps
  /\ UNCHANGED <<loadedAtlases, pixels, loadedMaps, spriteTable, spritePhase, shortened, spriteAbort>>

(* Mutant: the new sprite goes on where the old one was.                    *)
WrongNamed(c, id) == [spriteComp[c] EXCEPT !.name = id]

(* Naming no sprite leaves the frame as it is.                              *)
Named(c, id) == [spriteComp[c] EXCEPT !.name = id, !.frame = IF id = NoName THEN @ ELSE 0]

SetSprite(c, id) == Scripted([spriteComp EXCEPT ![c] = Named(c, id)]) /\ UNCHANGED snapshot

(* Both systems skip what is inactive, invisible or destroyed.              *)
ShowOrHide(c) == Scripted([spriteComp EXCEPT ![c].shown = ~@]) /\ UNCHANGED snapshot

(* A copy of d in c's place; a copy starts at the first frame.              *)
CopySprite(c, d) ==
  /\ c # d
  /\ Scripted([spriteComp EXCEPT ![c] = [Fresh EXCEPT !.name = spriteComp[d].name]])
  /\ UNCHANGED snapshot

SaveSprite(c) == Scripted(spriteComp) /\ snapshot' = SnapshotOf(spriteComp[c])

(* fromJSON takes any frame.                                                *)
RestoreSprite(c) ==
  /\ Scripted([spriteComp EXCEPT ![c] = [name |-> snapshot.name, frame |-> snapshot.frame,
                                         shown |-> TRUE]])
  /\ UNCHANGED snapshot
-----------------------------------------------------------------------------
(* The frame.                                                               *)

Drawn(c) == c.shown /\ HasSprite(c.name)

Advances(c, due) ==
  CASE c.shown /\ ~HasSprite(c.name) -> [c EXCEPT !.frame = 0]
    [] Drawn(c) /\ due -> [c EXCEPT !.frame = (@ + 1) % Sprite(c.name).length]
    [] OTHER -> c

SpritePasses(from, to) ==
  /\ spritePhase = from /\ spritePhase' = to
  /\ UNCHANGED <<loadedAtlases, pixels, loadedMaps, spriteTable, snapshot, shortened>>

(* sprite_sys_update; due are the components whose time is up.              *)
SpriteSystem ==
  /\ SpritePasses("early", "script")
  /\ \E due \in SUBSET SpriteComps :
       spriteComp' = [c \in SpriteComps |-> Advances(spriteComp[c], c \in due)]
  /\ UNCHANGED spriteAbort

ScriptsEnd == SpritePasses("script", "late") /\ UNCHANGED <<spriteComp, spriteAbort>>

(* What is drawn: sprites, and the tiles of maps, whose frames are all 0    *)
(* (map_sys and map_render_sys never advance them); the id of a tile's      *)
(* sprite is made up when the map is loaded.                                *)
TileSprites == UNION {{Id(f.group, tile) : tile \in f.cells} : f \in loadedMaps}

Drawings ==
  {[name |-> spriteComp[c].name, frame |-> spriteComp[c].frame]
     : c \in {d \in SpriteComps : Drawn(spriteComp[d])}}
  \cup {[name |-> id, frame |-> 0] : id \in {i \in TileSprites : HasSprite(i)}}

(* sprite_get_frame asserts that there is the frame.                        *)
SpriteRender ==
  /\ SpritePasses("late", "early")
  /\ spriteAbort' = \E d \in Drawings : d.frame >= Sprite(d.name).length
  /\ UNCHANGED spriteComp

AssetsNext ==
  /\ ~spriteAbort
  /\ \/ \E a \in Atlases : LoadAtlasFails(a) \/ LoadAtlas(a)
     \/ \E f \in MapFiles : LoadMap(f)
     \/ \E c \in SpriteComps : \/ \E id \in Ids \cup {NoName} : SetSprite(c, id)
                               \/ ShowOrHide(c) \/ SaveSprite(c) \/ RestoreSprite(c)
                               \/ \E d \in SpriteComps : CopySprite(c, d)
     \/ SpriteSystem \/ ScriptsEnd \/ SpriteRender

AssetsSpec == AssetsInit /\ [][AssetsNext]_assetsVars
-----------------------------------------------------------------------------
(* Drawing never asks for a frame that its sprite does not have, unless an  *)
(* atlas has replaced that sprite by a shorter one: frames are advanced,    *)
(* reset, copied and restored in five places, none of which is where they   *)
(* are used.                                                                *)
FramesExist ==
  \A d \in Drawings : d.frame < Sprite(d.name).length \/ Split(d.name) \in shortened

(* An atlas counts as loaded only when all its sprites are there; one that  *)
(* failed half way can be loaded again.                                     *)
LoadsAreWhole ==
  \A a \in loadedAtlases : DOMAIN NewSprites(a) \subseteq DOMAIN spriteTable

(* An id finds what was loaded under its group and name, as long as the     *)
(* group is no longer than the buffer, is not empty and has no colon.       *)
Findable(group) ==
  group # <<>> /\ Len(group) < SplitBuffer /\ Colon \notin ToSet(group)

IdsFind ==
  \A key \in DOMAIN spriteTable :
    Findable(key[1]) => HasSprite(Id(key[1], key[2])) /\ Sprite(Id(key[1], key[2])) = spriteTable[key]

(* Every sprite of the table shows pixels of its own image, unless another  *)
(* one has the same texture id: two groups or images with colons in them,   *)
(* or one image that is indexed in one atlas and is not in another.         *)
Contested(texture) ==
  \E a, b \in Atlases : TextureId(a) = texture /\ TextureId(b) = texture /\ Pixels(a) # Pixels(b)

OwnPixels ==
  \A key \in DOMAIN spriteTable :
    LET texture == spriteTable[key].texture IN
      /\ texture \in DOMAIN pixels
      /\ ~Contested(texture) => \E a \in loadedAtlases :
           TextureId(a) = texture /\ pixels[texture] = Pixels(a)

(* What was loaded is found and drawn as it was loaded. *)
AssetsSound == FramesExist /\ LoadsAreWhole /\ IdsFind /\ OwnPixels
=============================================================================
