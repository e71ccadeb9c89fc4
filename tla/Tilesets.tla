------------------------------ MODULE Tilesets ------------------------------
(***************************************************************************)
(* EseTileSet (types/tileset.c): for every tile id a list of sprites with  *)
(* weights, of which one is drawn whenever a map shows a cell with that    *)
(* tile.  The list caches the sum of its weights.  The numbers come from a *)
(* generator whose seed 0 means that it has none yet and takes the clock;  *)
(* the renderer sets the seed of the map component before it goes through  *)
(* the map's cells, so that the map looks the same in every frame.         *)
(*                                                                         *)
(* One tile set is followed, with one copy of it at a time.  How long tile *)
(* sets live is module LuaShared's.                                        *)
(***************************************************************************)
EXTENDS Integers, Sequences, SequencesExt, FiniteSets, FiniteSetsExt

CONSTANTS
  TileIds,        \* tiles, uint8_t
  SpriteNames,    \* sprites
  SpriteWeights,  \* weights that scripts ask for, as uint16_t
  FirstSprites,   \* INITIAL_SPRITE_CAPACITY
  SeedModulus,    \* 2^32
  MapSeeds,       \* the seed of the map component
  PaintedTiles,   \* the tiles of the map's cells, in the order of painting
  MaxMapped       \* bound: sprites in the lists of both sets

(* An empty name is refused, and no name is what a tile without sprites shows. *)
NoSprite == ""

ASSUME TilesetsAssumption ==
  /\ SpriteWeights \subseteq Nat \ {0}
  /\ {FirstSprites, SeedModulus} \subseteq Nat \ {0}
  /\ MapSeeds \subseteq 0..(SeedModulus - 1)
  /\ PaintedTiles \in Seq(TileIds)
  /\ MaxMapped \in Nat /\ NoSprite \notin SpriteNames

VARIABLES
  tileset,   \* of the set and its copy: mappings and rng_seed, or NoTileset
  asked,     \* history: of each and each tile, the weight last asked for by sprite
  mapSeed,   \* the component's seed
  paints,    \* whether the render system is at the map
  looks,     \* the cells painted so far in this frame
  lastLooks  \* history: those of the frame before, if nothing changed since

tilesetsVars == <<tileset, asked, mapSeed, paints, looks, lastLooks>>

TileSets  == {"set", "copy"}
NoTileset == <<>>

Seeds  == 0..(SeedModulus - 1)
WeightedSprite == [sprite : SpriteNames, weight : SpriteWeights]
Look   == [sprite : SpriteNames \cup {NoSprite}, seed : Seeds, timed : BOOLEAN]

(* An EseTileMapping. *)
NoMapping == [sprites |-> <<>>, room |-> 0, total |-> 0]

NewTileset(seed) == [mapping |-> [k \in TileIds |-> NoMapping], seed |-> seed]
-----------------------------------------------------------------------------
SpritePlaces(m, s) == {i \in DOMAIN m.sprites : m.sprites[i].sprite = s}
HasSprite(m, s)    == SpritePlaces(m, s) # {}
SpriteAt(m, s)     == CHOOSE i \in SpritePlaces(m, s) : \A j \in SpritePlaces(m, s) : i <= j

(* The weight of a sprite changes, and the sum with it. *)
Reweighted(m, s, w) ==
  [m EXCEPT !.sprites[SpriteAt(m, s)].weight = w,
            !.total = @ - m.sprites[SpriteAt(m, s)].weight + w]

GrownRoom(m) == IF Len(m.sprites) < m.room THEN m.room
                ELSE IF m.room = 0 THEN FirstSprites ELSE 2 * m.room

WithSprite(m, s, w) ==
  [sprites |-> Append(m.sprites, [sprite |-> s, weight |-> w]),
   room    |-> GrownRoom(m),
   total   |-> m.total + w]

(* The ones behind move up; the room stays. *)
WithoutSprite(m, s) ==
  [m EXCEPT !.sprites = RemoveAt(@, SpriteAt(m, s)),
            !.total = @ - m.sprites[SpriteAt(m, s)].weight]

(* A list without sprites is copied without its room. *)
CopiedMapping(m) == IF m.sprites = <<>> THEN NoMapping ELSE m
-----------------------------------------------------------------------------
(* The sum of the first i weights. *)
Accumulated(sprites, i) ==
  LET weight == [j \in DOMAIN sprites |-> sprites[j].weight]
  IN  MapThenSumSet(LAMBDA j : weight[j], 1..i)

(* The first sprite whose accumulated weight is beyond the number, and the  *)
(* last one if there is none.                                               *)
DrawnSprite(m, number) ==
  LET beyond == {i \in DOMAIN m.sprites : number < Accumulated(m.sprites, i)}
  IN  m.sprites[IF beyond = {} THEN Len(m.sprites) ELSE Min(beyond)].sprite

Draws(m) == m.sprites # <<>> /\ m.total # 0

(* A linear congruential generator. *)
Stirred(seed) == (seed * 1664525 + 1013904223) % SeedModulus

(* What a draw shows, with the seed it leaves; now is the clock. *)
LookAt(m, seed, now) ==
  LET stirred == Stirred(IF seed = 0 THEN now ELSE seed) IN
    IF Draws(m) THEN [sprite |-> DrawnSprite(m, stirred % m.total), seed |-> stirred, timed |-> seed = 0]
    ELSE [sprite |-> NoSprite, seed |-> seed, timed |-> FALSE]
-----------------------------------------------------------------------------
TilesetsInit ==
  /\ tileset = [t \in TileSets |-> IF t = "set" THEN NewTileset(0) ELSE NoTileset]
  /\ asked = [t \in TileSets |-> [k \in TileIds |-> <<>>]]
  /\ mapSeed \in MapSeeds
  /\ paints = FALSE /\ looks = <<>> /\ lastLooks = <<>>

Untouched(t) == ~paints /\ tileset[t] # NoTileset

Mapping(t, k) == tileset[t].mapping[k]

(* Who changes the map's set or its seed may change how the map looks. *)
Remaps(t, k, m, weights) ==
  /\ tileset' = [tileset EXCEPT ![t].mapping[k] = m]
  /\ asked' = [asked EXCEPT ![t][k] = weights]
  /\ lastLooks' = IF t = "set" THEN <<>> ELSE lastLooks
  /\ UNCHANGED <<mapSeed, paints, looks>>

MappedSprites ==
  {place \in TileSets \X TileIds \X (1..MaxMapped) :
     tileset[place[1]] # NoTileset /\ place[3] <= Len(Mapping(place[1], place[2]).sprites)}

With(weights, s, w) == [x \in DOMAIN weights \cup {s} |-> IF x = s THEN w ELSE weights[x]]

(* ese_tileset_add_sprite; a weight that is 0 as an uint16_t is refused. *)
AddSprite(t, k, s, w) ==
  /\ Untouched(t)
  /\ LET m == Mapping(t, k) IN
       /\ ~HasSprite(m, s) => Cardinality(MappedSprites) < MaxMapped
       /\ Remaps(t, k, IF HasSprite(m, s) THEN Reweighted(m, s, w) ELSE WithSprite(m, s, w),
                 With(asked[t][k], s, w))

UpdateWeight(t, k, s, w) ==
  /\ Untouched(t) /\ HasSprite(Mapping(t, k), s)
  /\ Remaps(t, k, Reweighted(Mapping(t, k), s, w), With(asked[t][k], s, w))

RemoveSprite(t, k, s) ==
  /\ Untouched(t) /\ HasSprite(Mapping(t, k), s)
  /\ Remaps(t, k, WithoutSprite(Mapping(t, k), s),
            [x \in DOMAIN asked[t][k] \ {s} |-> asked[t][k][x]])

ClearMapping(t, k) == Untouched(t) /\ Remaps(t, k, NoMapping, <<>>)

(* From a script, outside of painting. *)
GetSprite(t, k, now) ==
  /\ Untouched(t)
  /\ tileset' = [tileset EXCEPT ![t].seed = LookAt(Mapping(t, k), @, now).seed]
  /\ UNCHANGED <<asked, mapSeed, paints, looks, lastLooks>>

CopyTileset ==
  /\ Untouched("set") /\ tileset["copy"] = NoTileset
  /\ 2 * Cardinality(MappedSprites) <= MaxMapped
  /\ tileset' = [tileset EXCEPT !["copy"] = [mapping |-> [k \in TileIds |-> CopiedMapping(Mapping("set", k))],
                                             seed    |-> tileset["set"].seed]]
  /\ asked' = [asked EXCEPT !["copy"] = asked["set"]]
  /\ UNCHANGED <<mapSeed, paints, looks, lastLooks>>

DestroyCopy ==
  /\ Untouched("copy")
  /\ tileset' = [tileset EXCEPT !["copy"] = NoTileset]
  /\ UNCHANGED <<asked, mapSeed, paints, looks, lastLooks>>

(* component.seed = ... *)
SetMapSeed(seed) ==
  /\ Untouched("set")
  /\ mapSeed' = seed /\ lastLooks' = <<>>
  /\ UNCHANGED <<tileset, asked, paints, looks>>

(* The render system comes to the map. *)
PaintBegins ==
  /\ Untouched("set")
  /\ tileset' = [tileset EXCEPT !["set"].seed = mapSeed]
  /\ paints' = TRUE
  /\ UNCHANGED <<asked, mapSeed, looks, lastLooks>>

PaintCell(now) ==
  /\ paints /\ Len(looks) < Len(PaintedTiles)
  /\ LET look == LookAt(Mapping("set", PaintedTiles[Len(looks) + 1]), tileset["set"].seed, now) IN
       /\ tileset' = [tileset EXCEPT !["set"].seed = look.seed]
       /\ looks' = Append(looks, look)
  /\ UNCHANGED <<asked, mapSeed, paints, lastLooks>>

PaintEnds ==
  /\ paints /\ Len(looks) = Len(PaintedTiles)
  /\ paints' = FALSE /\ lastLooks' = looks /\ looks' = <<>>
  /\ UNCHANGED <<tileset, asked, mapSeed>>

TilesetsNext ==
  \/ \E t \in TileSets, k \in TileIds :
       \/ \E s \in SpriteNames : \/ RemoveSprite(t, k, s)
                                 \/ \E w \in SpriteWeights : AddSprite(t, k, s, w) \/ UpdateWeight(t, k, s, w)
       \/ ClearMapping(t, k)
       \/ \E now \in Seeds : GetSprite(t, k, now)
  \/ CopyTileset \/ DestroyCopy
  \/ \E seed \in MapSeeds : SetMapSeed(seed)
  \/ PaintBegins \/ PaintEnds
  \/ \E now \in Seeds : PaintCell(now)

TilesetsSpec == TilesetsInit /\ [][TilesetsNext]_tilesetsVars
-----------------------------------------------------------------------------
TilesetsTypeOK ==
  /\ \A t \in TileSets : tileset[t] # NoTileset =>
       /\ tileset[t].seed \in Seeds
       /\ \A k \in TileIds :
            /\ Mapping(t, k).sprites \in Seq(WeightedSprite)
            /\ {Mapping(t, k).room, Mapping(t, k).total} \subseteq Nat
  /\ mapSeed \in MapSeeds
  /\ paints \in BOOLEAN
  /\ {looks, lastLooks} \subseteq Seq(Look)

(* The lists of a set, and of a copy that has gone its own way since, are   *)
(* what was asked for, sprite by sprite, however often sprites were added,  *)
(* changed and removed; none is written beyond its array.                   *)
ListsAsAsked ==
  \A t \in TileSets : tileset[t] # NoTileset => \A k \in TileIds :
    LET m == Mapping(t, k) IN
      /\ Len(m.sprites) <= m.room
      /\ {m.sprites[i].sprite : i \in DOMAIN m.sprites} = DOMAIN asked[t][k]
      /\ \A i \in DOMAIN m.sprites :
           /\ m.sprites[i].weight = asked[t][k][m.sprites[i].sprite]
           /\ \A j \in DOMAIN m.sprites : m.sprites[j].sprite = m.sprites[i].sprite => j = i

(* Of the numbers below the cached sum, each sprite is drawn by as many as  *)
(* its weight, and by no others: the sum has kept up with the list, and no  *)
(* sprite of the list is out of reach.                                      *)
DrawnByWeight ==
  \A t \in TileSets : tileset[t] # NoTileset => \A k \in TileIds :
    LET m == Mapping(t, k) IN
      /\ m.sprites # <<>> => Draws(m)
      /\ \A s \in DOMAIN asked[t][k] :
           Cardinality({number \in 0..(m.total - 1) : DrawnSprite(m, number) = s}) = asked[t][k][s]

(* A map that nobody changes is painted as in the frame before, cell by     *)
(* cell, until a draw finds the seed 0 and takes the clock: that is what    *)
(* happens to seed 0, and to any other when the generator comes to 0.       *)
StandsStill ==
  \A i \in DOMAIN looks \cap DOMAIN lastLooks :
    (\A j \in 1..i : ~looks[j].timed) => looks[i] = lastLooks[i]

TilesetsKept == ListsAsAsked /\ DrawnByWeight /\ StandsStill
=============================================================================
