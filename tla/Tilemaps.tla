------------------------------ MODULE Tilemaps ------------------------------
(***************************************************************************)
(* Maps, their cells, and the components that draw them.  A map caches how *)
(* many layers its fullest cell has.  A cell tells its map when its layers *)
(* change, the map tells the components that watch it, and these resize    *)
(* the array by which the renderer asks whether a layer is shown.          *)
(* A second array, with the animation frame of every cell, is sized once,  *)
(* when a component gets its map.                                          *)
(*                                                                         *)
(* Scripts change cells through the userdata that get_cell returns; here   *)
(* there is one at a time, held until the next get_cell.  How long maps    *)
(* and cells live is module LuaShared's.                                   *)
(***************************************************************************)
EXTENDS Integers, Sequences, SequencesExt, FiniteSets, FiniteSetsExt

CONSTANTS
  TileMaps,   \* maps
  Charts,     \* map components
  Sizes,      \* dimensions that scripts ask for, <<width, height>>
  MaxLayers   \* bound: layers of a cell

ASSUME TilemapsAssumption ==
  /\ Sizes \subseteq (Nat \ {0}) \X (Nat \ {0})
  /\ MaxLayers \in Nat
  /\ <<>> \notin TileMaps  \* which is NoMap

VARIABLES
  size,       \* of each map: <<width, height>>
  cells,      \* of each map: its cells
  layerCount, \* of each map: layer_count, with layer_count_dirty
  watching,   \* of each map: the components to notify
  chart,      \* of each map component: its map and the sizes of its arrays
  grip,       \* the cell that a script has userdata of
  tileFault,  \* the first use of memory that no map owns
  outgrown    \* history: components whose map was resized since they got it

tilesVars == <<size, cells, layerCount, watching, chart, grip, tileFault, outgrown>>

NoMap     == <<>>
NoCell    == <<>>
FreedCell == <<"freed">>

Positions(s) == (0..(s[1] - 1)) \X (0..(s[2] - 1))

(* Of a cell: how many layers it has, whatever their tiles, and whether its *)
(* pointer to its map is set.                                               *)
Cell == [layers : 0..MaxLayers, homed : BOOLEAN]
EmptyCell == [layers |-> 0, homed |-> TRUE]

(* shows is show_layer_count: every entry of show_layer is true, because    *)
(* scripts cannot get at them (the proxy's metamethods take the proxy for   *)
(* the index).  frames is the length of sprite_frames.                      *)
NewChart == [attached |-> TRUE, map |-> NoMap, shows |-> 0, frames |-> 0]

TilesInit ==
  /\ size \in [TileMaps -> Sizes]
  /\ cells = [m \in TileMaps |-> [p \in Positions(size[m]) |-> EmptyCell]]
  /\ layerCount = [m \in TileMaps |-> [count |-> 0, dirty |-> TRUE]]
  /\ watching = [m \in TileMaps |-> <<>>]
  /\ chart = [c \in Charts |-> NewChart]
  /\ grip = NoCell
  /\ tileFault = "none"
  /\ outgrown = {}
-----------------------------------------------------------------------------
(* The layer count and its watchers.                                        *)

Tallest(cs) == Max({cs[p].layers : p \in DOMAIN cs})

(* ese_map_get_layer_count of a map with cells cs. *)
Counted(lc, cs) == IF lc.dirty THEN [count |-> Tallest(cs), dirty |-> FALSE] ELSE lc

(* Each watcher asks for the count, and resizes its array to it. *)
Notified(m, lc, cs) ==
  /\ layerCount' = [layerCount EXCEPT ![m] = IF watching[m] = <<>> THEN lc ELSE Counted(lc, cs)]
  /\ chart' = [c \in Charts |-> IF c \in ToSet(watching[m])
                                THEN [chart[c] EXCEPT !.shows = Counted(lc, cs).count]
                                ELSE chart[c]]

(* A change of layers: the cell's map is marked before it is notified. *)
Relayered(m, cs) == Notified(m, [layerCount[m] EXCEPT !.dirty = TRUE], cs)
-----------------------------------------------------------------------------
(* What scripts do with a cell.                                             *)

GetCell(m, p) ==
  /\ p \in Positions(size[m])
  /\ grip # <<m, p>>
  /\ grip' = <<m, p>>
  /\ UNCHANGED <<size, cells, layerCount, watching, chart, tileFault, outgrown>>

Gripped == cells[grip[1]][grip[2]]

TileFails(what) ==
  /\ tileFault' = what
  /\ UNCHANGED <<size, cells, layerCount, watching, chart, grip, outgrown>>

(* Any use of a cell that resize freed. *)
UseFreedCell == grip = FreedCell /\ TileFails("freed cell")

(* The cell gets n layers; a cell that resize copied has no map to mark. *)
ChangeLayers(n) ==
  IF Gripped.homed
  THEN LET m == grip[1] IN
       /\ cells' = [cells EXCEPT ![m][grip[2]].layers = n]
       /\ Relayered(m, cells'[m])
       /\ UNCHANGED <<size, watching, grip, tileFault, outgrown>>
  ELSE TileFails("no map")

InGrip == grip \notin {NoCell, FreedCell}

AddLayer == InGrip /\ Gripped.layers < MaxLayers /\ ChangeLayers(Gripped.layers + 1)

RemoveLayer == InGrip /\ Gripped.layers > 0 /\ ChangeLayers(Gripped.layers - 1)

ClearLayers == InGrip /\ ChangeLayers(0)

(* set_layer and the flags: those who watch are notified, nothing is marked. *)
TouchCell ==
  /\ InGrip
  /\ Notified(grip[1], layerCount[grip[1]], cells[grip[1]])
  /\ UNCHANGED <<size, cells, watching, grip, tileFault, outgrown>>
-----------------------------------------------------------------------------
(* What scripts do with a map.                                              *)

(* The cells that fit are copied, without their pointer to the map. *)
Fitted(m, s) == [p \in Positions(s) |->
                   IF p \in DOMAIN cells[m] THEN [cells[m][p] EXCEPT !.homed = FALSE] ELSE EmptyCell]

(* ese_map_resize frees the old cells.  The layer count stays what it was.  *)
Resize(m, s) ==
  /\ s # size[m]
  /\ size' = [size EXCEPT ![m] = s]
  /\ cells' = [cells EXCEPT ![m] = Fitted(m, s)]
  /\ grip' = IF grip # NoCell /\ grip # FreedCell /\ grip[1] = m THEN FreedCell ELSE grip
  /\ outgrown' = outgrown \cup {c \in Charts : chart[c].map = m}
  /\ Notified(m, layerCount[m], cells'[m])
  /\ UNCHANGED <<watching, tileFault>>

(* Taking a component off the watchers of the map it has, if any. *)
(* Mutant: the watchers after it are taken off as well. *)
WrongUnwatched(c) ==
  [m \in TileMaps |-> IF chart[c].map = m
                      THEN SubSeq(watching[m], 1, SelectInSeq(watching[m], LAMBDA d : d = c) - 1)
                      ELSE watching[m]]

Unwatched(c) ==
  [m \in TileMaps |-> IF chart[c].map = m THEN RemoveFirst(watching[m], c) ELSE watching[m]]

(* The component's map is set: its arrays are made anew, all layers shown. *)
SetMap(c, m) ==
  /\ chart[c].attached
  /\ layerCount' = [layerCount EXCEPT ![m] = Counted(@, cells[m])]
  /\ watching' = [Unwatched(c) EXCEPT ![m] = Append(@, c)]
  /\ chart' = [chart EXCEPT ![c] = [@ EXCEPT !.map = m,
                                             !.shows = layerCount'[m].count,
                                             !.frames = size[m][1] * size[m][2]]]
  /\ outgrown' = outgrown \ {c}
  /\ UNCHANGED <<size, cells, grip, tileFault>>

(* Setting it to anything else raises an error, after the old map is gone. *)
SetNoMap(c) ==
  /\ chart[c].attached
  /\ watching' = Unwatched(c)
  /\ chart' = [chart EXCEPT ![c].map = NoMap]
  /\ outgrown' = outgrown \ {c}
  /\ UNCHANGED <<size, cells, layerCount, grip, tileFault>>

(* The component is freed. *)
FreeChart(c) ==
  /\ chart[c].attached
  /\ watching' = Unwatched(c)
  /\ chart' = [chart EXCEPT ![c] = [NewChart EXCEPT !.attached = FALSE]]
  /\ outgrown' = outgrown \ {c}
  /\ UNCHANGED <<size, cells, layerCount, grip, tileFault>>

TilesNext ==
  /\ tileFault = "none"
  /\ \/ \E m \in TileMaps : \/ \E p \in UNION {Positions(s) : s \in Sizes} : GetCell(m, p)
                            \/ \E s \in Sizes : Resize(m, s)
     \/ AddLayer \/ RemoveLayer \/ ClearLayers \/ TouchCell \/ UseFreedCell
     \/ \E c \in Charts : \/ \E m \in TileMaps : SetMap(c, m)
                          \/ SetNoMap(c) \/ FreeChart(c)

TilesSpec == TilesInit /\ [][TilesNext]_tilesVars
-----------------------------------------------------------------------------
TilesTypeOK ==
  /\ size \in [TileMaps -> Sizes]
  /\ \A m \in TileMaps : cells[m] \in [Positions(size[m]) -> Cell]
  /\ layerCount \in [TileMaps -> [count : 0..MaxLayers, dirty : BOOLEAN]]
  /\ watching \in [TileMaps -> Seq(Charts)]
  /\ chart \in [Charts -> [attached : BOOLEAN, map : TileMaps \cup {NoMap},
                           shows : 0..MaxLayers, frames : Nat]]
  /\ outgrown \subseteq Charts

(* A map notifies each of the components that show it, once, and no other:  *)
(* none that was freed, none that went over to another map.                 *)
WatchersExact ==
  \A m \in TileMaps :
    /\ ToSet(watching[m]) = {c \in Charts : chart[c].map = m}
    /\ Len(watching[m]) = Cardinality(ToSet(watching[m]))

(* What the renderer indexes, for every cell of the component's map and     *)
(* every layer of that cell, is within the component's arrays: show_layer   *)
(* always, sprite_frames as long as the map has the size it was set with.   *)
DrawsWithinArrays ==
  \A c \in Charts : chart[c].map # NoMap =>
    /\ \A p \in DOMAIN cells[chart[c].map] : cells[chart[c].map][p].layers <= chart[c].shows
    /\ c \notin outgrown => Cardinality(DOMAIN cells[chart[c].map]) = chart[c].frames

(* Maps tell the right components of their changes, and what those draw is  *)
(* theirs, whatever scripts do with cells, layers, maps and components.     *)
MapsDrawSafely == WatchersExact /\ DrawsWithinArrays
=============================================================================
