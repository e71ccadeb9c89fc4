---------------------------- MODULE SceneProofs ----------------------------
(* Proofs about five components of a scene: Tilemaps, for any maps, sizes   *)
(* and components, Assets, for any atlases and maps, Bounds, for any        *)
(* entities, colliders and rectangles, Batches, for any polylines, and Gui, *)
(* for any containers, regions and clicks.                                  *)
EXTENDS Tilemaps, Assets, Bounds, Batches, Facts, FiniteSetTheorems, SequenceTheorems, TLAPS, Gui

-----------------------------------------------------------------------------
(* Tilemaps: the inductive invariant.                                       *)

Grids == UNION {[Positions(s) -> Cell] : s \in Sizes}
Count == [count : 0..MaxLayers, dirty : BOOLEAN]
ChartState == [attached : BOOLEAN, map : TileMaps \cup {NoMap}, shows : 0..MaxLayers, frames : Nat]

TilesType ==
  /\ size \in [TileMaps -> Sizes]
  /\ cells \in [TileMaps -> Grids] /\ \A m \in TileMaps : cells[m] \in [Positions(size[m]) -> Cell]
  /\ layerCount \in [TileMaps -> Count]
  /\ watching \in [TileMaps -> Seq(Charts)]
  /\ chart \in [Charts -> ChartState]
  /\ grip \in {NoCell, FreedCell} \/ \E m \in TileMaps : \E p \in Positions(size[m]) : grip = <<m, p>>
  /\ tileFault \in {"none", "freed cell", "no map"}
  /\ outgrown \subseteq Charts

(* A component is among the watchers of its map, once. *)
Watched ==
  \A m \in TileMaps : Once(watching[m]) /\ ToSet(watching[m]) = {c \in Charts : chart[c].map = m}

Covers(n, cs) == \A p \in DOMAIN cs : cs[p].layers <= n

(* A count that is not marked is no less than any cell's, and so is what a  *)
(* component shows of its map, even while the count is marked.              *)
Covered ==
  /\ \A m \in TileMaps : ~layerCount[m].dirty => Covers(layerCount[m].count, cells[m])
  /\ \A c \in Charts : chart[c].map # NoMap => Covers(chart[c].shows, cells[chart[c].map])

Sized ==
  \A c \in Charts : chart[c].map # NoMap /\ c \notin outgrown =>
    chart[c].frames = size[chart[c].map][1] * size[chart[c].map][2]

TilesInv == TilesType /\ Watched /\ Covered /\ Sized
-----------------------------------------------------------------------------
(* Tilemaps: the operators.                                                 *)

LEMMA CountsUpTo ==
  ASSUME NEW n \in Nat \ {0}
  PROVE  IsFiniteSet(0..(n - 1)) /\ Cardinality(0..(n - 1)) = n
<1>1. 0 \in Int /\ n - 1 \in Int /\ ~(0 > n - 1) /\ (n - 1) - 0 + 1 = n
  OBVIOUS
<1>2. IsFiniteSet(0..(n - 1)) /\ Cardinality(0..(n - 1)) = IF 0 > n - 1 THEN 0 ELSE (n - 1) - 0 + 1
  BY <1>1, FS_Interval
<1> QED BY <1>1, <1>2

LEMMA ProductCounts ==
  ASSUME NEW S, IsFiniteSet(S), NEW T, IsFiniteSet(T), NEW w, NEW h, Cardinality(S) = w, Cardinality(T) = h
  PROVE  Cardinality(S \X T) = w * h
<1>1. Cardinality(S \X T) = Cardinality(S) * Cardinality(T)
  BY FS_Product
<1> QED BY <1>1

LEMMA SizeIs ==
  ASSUME TilemapsAssumption, NEW s \in Sizes
  PROVE  /\ s[1] \in Nat /\ s[2] \in Nat /\ s[1] * s[2] \in Nat
         /\ <<0, 0>> \in Positions(s)
         /\ Cardinality(Positions(s)) = s[1] * s[2]
<1>1. s[1] \in Nat \ {0} /\ s[2] \in Nat \ {0}
  BY DEF TilemapsAssumption
<1> DEFINE w == s[1]
           h == s[2]
<1>2. Positions(s) = (0..(w - 1)) \X (0..(h - 1))
  BY DEF Positions
<1> HIDE DEF w, h
<1>3. w \in Nat \ {0} /\ h \in Nat \ {0}
  BY <1>1 DEF w, h
<1>4. IsFiniteSet(0..(w - 1)) /\ Cardinality(0..(w - 1)) = w
  BY <1>3, CountsUpTo
<1>5. IsFiniteSet(0..(h - 1)) /\ Cardinality(0..(h - 1)) = h
  BY <1>3, CountsUpTo
<1>6. Cardinality(Positions(s)) = w * h
  <2> DEFINE S == 0..(w - 1)
             T == 0..(h - 1)
  <2>1. Positions(s) = S \X T /\ IsFiniteSet(S) /\ IsFiniteSet(T) /\ Cardinality(S) = w /\ Cardinality(T) = h
    BY <1>2, <1>4, <1>5
  <2> HIDE DEF S, T
  <2>2. Cardinality(S \X T) = w * h
    BY <2>1, ProductCounts
  <2> QED BY <2>1, <2>2, SMTT(30)
<1>7. 0 \in 0..(w - 1) /\ 0 \in 0..(h - 1) /\ w * h \in Nat
  BY <1>3
<1> QED BY <1>2, <1>3, <1>6, <1>7 DEF w, h

LEMMA TallestCovers ==
  ASSUME TilemapsAssumption, NEW s \in Sizes, NEW cs \in [Positions(s) -> Cell]
  PROVE  Tallest(cs) \in 0..MaxLayers /\ Covers(Tallest(cs), cs)
<1> DEFINE H == {cs[p].layers : p \in DOMAIN cs}
<1>1. \A p \in Positions(s) : cs[p].layers \in 0..MaxLayers
  BY DEF Cell
<1>2. H \in SUBSET (0..MaxLayers) /\ cs[<<0, 0>>].layers \in H
  BY <1>1, SizeIs
<1>3. MaxLayers \in Nat
  BY DEF TilemapsAssumption
<1>4. Max(H) \in H /\ \A n \in H : n <= Max(H)
  BY <1>2, <1>3, MaxIs
<1> QED BY <1>2, <1>4 DEF Tallest, Covers

LEMMA CountedCovers ==
  ASSUME TilemapsAssumption, NEW s \in Sizes, NEW cs \in [Positions(s) -> Cell], NEW lc \in Count,
         ~lc.dirty => Covers(lc.count, cs)
  PROVE  /\ Counted(lc, cs) \in Count /\ Counted(lc, cs).count \in 0..MaxLayers
         /\ Covers(Counted(lc, cs).count, cs)
<1>1. lc.count \in 0..MaxLayers /\ lc.dirty \in BOOLEAN
  BY DEF Count
<1>2. CASE lc.dirty
  <2>1. Counted(lc, cs) = [count |-> Tallest(cs), dirty |-> FALSE]
    BY <1>2 DEF Counted
  <2> QED BY <2>1, TallestCovers DEF Count
<1>3. CASE ~lc.dirty
  BY <1>1, <1>3 DEF Counted
<1> QED BY <1>2, <1>3

(* Those that watch are told a number that covers the cells. *)
LEMMA NotifiedCovers ==
  ASSUME TilemapsAssumption, TilesType, Watched,
         NEW m \in TileMaps, NEW s \in Sizes, NEW cs \in [Positions(s) -> Cell], NEW lc \in Count,
         ~lc.dirty => Covers(lc.count, cs), Notified(m, lc, cs)
  PROVE  /\ layerCount' \in [TileMaps -> Count]
         /\ \A k \in TileMaps : k # m => layerCount'[k] = layerCount[k]
         /\ ~layerCount'[m].dirty => Covers(layerCount'[m].count, cs)
         /\ chart' \in [Charts -> ChartState]
         /\ \A c \in Charts : /\ chart'[c].map = chart[c].map /\ chart'[c].frames = chart[c].frames
                              /\ chart[c].map = m => Covers(chart'[c].shows, cs)
                              /\ chart[c].map # m => chart'[c] = chart[c]
<1> DEFINE n == Counted(lc, cs)
<1>1. n \in Count /\ n.count \in 0..MaxLayers /\ Covers(n.count, cs)
  BY CountedCovers
<1>2. /\ layerCount' = [layerCount EXCEPT ![m] = IF watching[m] = <<>> THEN lc ELSE n]
      /\ chart' = [c \in Charts |-> IF c \in ToSet(watching[m]) THEN [chart[c] EXCEPT !.shows = n.count]
                                                               ELSE chart[c]]
  BY DEF Notified
<1> HIDE DEF n
<1>3. /\ layerCount \in [TileMaps -> Count] /\ chart \in [Charts -> ChartState]
      /\ ToSet(watching[m]) = {c \in Charts : chart[c].map = m}
  BY DEF TilesType, Watched
<1>4. ASSUME NEW c \in Charts
      PROVE  /\ chart'[c] \in ChartState
             /\ chart'[c].map = chart[c].map /\ chart'[c].frames = chart[c].frames
             /\ chart[c].map = m => Covers(chart'[c].shows, cs)
             /\ chart[c].map # m => chart'[c] = chart[c]
  <2>1. chart[c] \in ChartState
    BY <1>3
  <2>2. CASE chart[c].map = m
    <3>1. chart'[c] = [chart[c] EXCEPT !.shows = n.count]
      BY <1>2, <1>3, <2>2
    <3>2. chart'[c] \in ChartState /\ chart'[c].map = chart[c].map /\ chart'[c].frames = chart[c].frames
          /\ chart'[c].shows = n.count
      BY <1>1, <2>1, <3>1 DEF ChartState
    <3> QED BY <1>1, <2>2, <3>2
  <2>3. CASE chart[c].map # m
    BY <1>2, <1>3, <2>1, <2>3
  <2> QED BY <2>2, <2>3
<1>5. chart' \in [Charts -> ChartState]
  BY <1>2, <1>4
<1> QED BY <1>1, <1>2, <1>3, <1>4, <1>5

(* Of a component that is taken off, every map keeps its other watchers. *)
LEMMA UnwatchedKeeps ==
  ASSUME TilesType, Watched, NEW c \in Charts
  PROVE  /\ Unwatched(c) \in [TileMaps -> Seq(Charts)]
         /\ \A m \in TileMaps : /\ Once(Unwatched(c)[m])
                                /\ ToSet(Unwatched(c)[m]) = {d \in Charts : chart[d].map = m} \ {c}
<1>1. ASSUME NEW m \in TileMaps
      PROVE  /\ Unwatched(c)[m] \in Seq(Charts) /\ Once(Unwatched(c)[m])
             /\ ToSet(Unwatched(c)[m]) = {d \in Charts : chart[d].map = m} \ {c}
  <2>1. watching[m] \in Seq(Charts) /\ Once(watching[m])
        /\ ToSet(watching[m]) = {d \in Charts : chart[d].map = m}
    BY DEF TilesType, Watched
  <2>2. CASE chart[c].map = m
    <3>1. Unwatched(c)[m] = RemoveFirst(watching[m], c)
      BY <2>2 DEF Unwatched
    <3> QED BY <2>1, <3>1, OnceRemoved
  <2>3. CASE chart[c].map # m
    <3>1. Unwatched(c)[m] = watching[m]
      BY <2>3 DEF Unwatched
    <3> QED BY <2>1, <2>3, <3>1
  <2> QED BY <2>2, <2>3
<1>2. Unwatched(c) \in [TileMaps -> Seq(Charts)]
  BY <1>1 DEF Unwatched
<1> QED BY <1>1, <1>2
-----------------------------------------------------------------------------
(* Tilemaps: the steps.                                                     *)

LEMMA TilesInitFits ==
  ASSUME TilemapsAssumption, TilesInit
  PROVE  TilesInv
<1> USE DEF TilesInit
<1>1. <<>> \in Seq(Charts) /\ Once(<<>>) /\ ToSet(<<>>) = {}
  <2>1. <<>> \in Seq(Charts) /\ Len(<<>>) = 0
    BY EmptySeq
  <2> QED BY <2>1 DEF Once, ToSet
<1>2. EmptyCell \in Cell /\ NewChart \in ChartState /\ NewChart.map = NoMap /\ [count |-> 0, dirty |-> TRUE] \in Count
  BY DEF EmptyCell, Cell, NewChart, ChartState, Count, TilemapsAssumption
<1>3. \A m \in TileMaps : size[m] \in Sizes /\ cells[m] \in [Positions(size[m]) -> Cell]
  BY <1>2
<1>4. cells \in [TileMaps -> Grids]
  BY <1>3 DEF Grids
<1>5. TilesType
  BY <1>1, <1>2, <1>3, <1>4 DEF TilesType
<1>6. NoMap \notin TileMaps
  BY DEF NoMap, TilemapsAssumption
<1>7. Watched
  BY <1>1, <1>2, <1>6 DEF Watched
<1>8. Covered /\ Sized
  BY <1>2 DEF Covered, Sized
<1> QED BY <1>5, <1>7, <1>8 DEF TilesInv

(* The cells of a map change, its watchers are told.                        *)
LEMMA RetoldFits ==
  ASSUME TilemapsAssumption, TilesInv,
         NEW m \in TileMaps, NEW s \in Sizes, NEW cs \in [Positions(s) -> Cell], NEW lc \in Count,
         ~lc.dirty => Covers(lc.count, cs), Notified(m, lc, cs),
         size' = [size EXCEPT ![m] = s], cells' = [cells EXCEPT ![m] = cs], watching' = watching,
         \/ grip' \in {NoCell, FreedCell}
         \/ \E k \in TileMaps : \E p \in Positions(size'[k]) : grip' = <<k, p>>,
         tileFault' = tileFault,
         outgrown' \subseteq Charts, outgrown \subseteq outgrown',
         s = size[m] \/ {c \in Charts : chart[c].map = m} \subseteq outgrown'
  PROVE  TilesInv'
<1> USE DEF TilesInv
<1>1. /\ layerCount' \in [TileMaps -> Count]
      /\ \A k \in TileMaps : k # m => layerCount'[k] = layerCount[k]
      /\ ~layerCount'[m].dirty => Covers(layerCount'[m].count, cs)
      /\ chart' \in [Charts -> ChartState]
      /\ \A c \in Charts : /\ chart'[c].map = chart[c].map /\ chart'[c].frames = chart[c].frames
                           /\ chart[c].map = m => Covers(chart'[c].shows, cs)
                           /\ chart[c].map # m => chart'[c] = chart[c]
  BY NotifiedCovers
<1>2. /\ size'[m] = s /\ cells'[m] = cs
      /\ \A k \in TileMaps : k # m => size'[k] = size[k] /\ cells'[k] = cells[k]
  BY DEF TilesType
<1>3. TilesType'
  <2>1. cs \in Grids
    BY DEF Grids
  <2>2. cells' \in [TileMaps -> Grids] /\ size' \in [TileMaps -> Sizes]
    BY <2>1 DEF TilesType
  <2>3. \A k \in TileMaps : cells'[k] \in [Positions(size'[k]) -> Cell]
    BY <1>2 DEF TilesType
  <2>4. watching' \in [TileMaps -> Seq(Charts)] /\ tileFault' \in {"none", "freed cell", "no map"}
    BY DEF TilesType
  <2> QED BY <1>1, <2>2, <2>3, <2>4 DEF TilesType, Count, ChartState, Grids
<1>4. Watched'
  BY <1>1 DEF Watched, Once
<1>5. Covered'
  <2>1. ASSUME NEW k \in TileMaps, ~layerCount'[k].dirty
        PROVE  Covers(layerCount'[k].count, cells'[k])
    BY <1>1, <1>2, <2>1 DEF Covered
  <2>2. ASSUME NEW c \in Charts, chart'[c].map # NoMap
        PROVE  Covers(chart'[c].shows, cells'[chart'[c].map])
    <3>1. chart[c].map \in TileMaps
      BY <1>1, <2>2 DEF TilesType, ChartState
    <3> QED BY <1>1, <1>2, <2>2, <3>1 DEF Covered
  <2> QED BY <2>1, <2>2 DEF Covered, Covers
<1>6. Sized'
  <2>1. ASSUME NEW c \in Charts, chart'[c].map # NoMap, c \notin outgrown'
        PROVE  chart'[c].frames = size'[chart'[c].map][1] * size'[chart'[c].map][2]
    <3>1. chart[c].map \in TileMaps /\ c \notin outgrown /\ chart[c].map # NoMap
      BY <1>1, <2>1 DEF TilesType, ChartState
    <3>2. size'[chart[c].map] = size[chart[c].map]
      BY <1>2, <2>1, <3>1
    <3> QED BY <1>1, <3>1, <3>2 DEF Sized
  <2> QED BY <2>1 DEF Sized
<1> QED BY <1>3, <1>4, <1>5, <1>6

LEMMA GripIs ==
  ASSUME TilesType, InGrip
  PROVE  \E m \in TileMaps : \E p \in Positions(size[m]) :
           /\ grip = <<m, p>> /\ grip[1] = m /\ grip[2] = p
           /\ Gripped = cells[m][p] /\ Gripped \in Cell
<1>0. PICK m \in TileMaps : \E p \in Positions(size[m]) : grip = <<m, p>>
  BY DEF TilesType, InGrip
<1>1. PICK p \in Positions(size[m]) : grip = <<m, p>>
  BY <1>0
<1>2. cells[m][p] \in Cell
  BY DEF TilesType
<1> QED BY <1>1, <1>2 DEF Gripped

LEMMA TileFailsFits ==
  ASSUME TilesInv, NEW what \in {"freed cell", "no map"}, TileFails(what)
  PROVE  TilesInv'
BY DEF TilesInv, TileFails, TilesType, Watched, Once, Covered, Covers, Sized, Count, ChartState, Grids

LEMMA LayersFit ==
  ASSUME TilemapsAssumption, TilesInv, InGrip, NEW n \in 0..MaxLayers, ChangeLayers(n)
  PROVE  TilesInv'
<1>0. PICK m \in TileMaps : \E p \in Positions(size[m]) :
        grip = <<m, p>> /\ grip[1] = m /\ grip[2] = p /\ Gripped = cells[m][p] /\ Gripped \in Cell
  BY GripIs DEF TilesInv
<1>1. PICK p \in Positions(size[m]) :
        grip = <<m, p>> /\ grip[1] = m /\ grip[2] = p /\ Gripped = cells[m][p] /\ Gripped \in Cell
  BY <1>0
<1>2. CASE ~Gripped.homed
  BY <1>2, TileFailsFits DEF ChangeLayers
<1>3. CASE Gripped.homed
  <2> DEFINE cs == [cells[m] EXCEPT ![p].layers = n]
             lc == [layerCount[m] EXCEPT !.dirty = TRUE]
  <2>1. cells' = [cells EXCEPT ![m][p].layers = n] /\ Notified(m, lc, cells'[m])
        /\ size' = size /\ watching' = watching /\ grip' = grip /\ tileFault' = tileFault /\ outgrown' = outgrown
    BY <1>1, <1>3 DEF ChangeLayers, Relayered
  <2>2. size \in [TileMaps -> Sizes] /\ cells \in [TileMaps -> Grids] /\ cells[m] \in [Positions(size[m]) -> Cell]
        /\ layerCount[m] \in Count
    BY DEF TilesInv, TilesType
  <2>3. cells' = [cells EXCEPT ![m] = cs] /\ cells'[m] = cs
    BY <2>1, <2>2
  <2>4. cs \in [Positions(size[m]) -> Cell]
    BY <2>2 DEF Cell
  <2>5. lc \in Count /\ lc.dirty = TRUE
    BY <2>2 DEF Count
  <2>6. size' = [size EXCEPT ![m] = size[m]] /\ size[m] \in Sizes
    BY <2>1, <2>2
  <2>7. Notified(m, lc, cs)
    BY <2>1, <2>3
  <2> HIDE DEF cs, lc
  <2>8. \E k \in TileMaps : \E q \in Positions(size'[k]) : grip' = <<k, q>>
    BY <1>1, <2>1
  <2>9. outgrown' \subseteq Charts
    BY <2>1 DEF TilesInv, TilesType
  <2> QED BY <2>1, <2>3, <2>4, <2>5, <2>6, <2>7, <2>8, <2>9, RetoldFits
<1> QED BY <1>2, <1>3

LEMMA TouchFits ==
  ASSUME TilemapsAssumption, TilesInv, TouchCell
  PROVE  TilesInv'
<1>1. PICK m \in TileMaps : \E p \in Positions(size[m]) : grip = <<m, p>> /\ grip[1] = m
  BY GripIs DEF TilesInv, TouchCell
<1>2. /\ Notified(m, layerCount[m], cells[m]) /\ size' = size /\ cells' = cells
      /\ watching' = watching /\ grip' = grip /\ tileFault' = tileFault /\ outgrown' = outgrown
  BY <1>1 DEF TouchCell
<1>3. /\ size \in [TileMaps -> Sizes] /\ cells \in [TileMaps -> Grids]
      /\ cells[m] \in [Positions(size[m]) -> Cell] /\ layerCount[m] \in Count
      /\ ~layerCount[m].dirty => Covers(layerCount[m].count, cells[m])
      /\ outgrown \subseteq Charts
  BY DEF TilesInv, TilesType, Covered
<1>4. size' = [size EXCEPT ![m] = size[m]] /\ size[m] \in Sizes /\ cells' = [cells EXCEPT ![m] = cells[m]]
  BY <1>2, <1>3
<1>5. \E k \in TileMaps : \E q \in Positions(size'[k]) : grip' = <<k, q>>
  BY <1>1, <1>2
<1> QED BY <1>2, <1>3, <1>4, <1>5, RetoldFits

LEMMA ResizeFits ==
  ASSUME TilemapsAssumption, TilesInv, NEW m \in TileMaps, NEW s \in Sizes, Resize(m, s)
  PROVE  TilesInv'
<1> DEFINE cs == Fitted(m, s)
           lc == layerCount[m]
<1>1. /\ size' = [size EXCEPT ![m] = s] /\ cells' = [cells EXCEPT ![m] = cs]
      /\ grip' = (IF grip # NoCell /\ grip # FreedCell /\ grip[1] = m THEN FreedCell ELSE grip)
      /\ outgrown' = outgrown \cup {c \in Charts : chart[c].map = m}
      /\ Notified(m, lc, cells'[m]) /\ watching' = watching /\ tileFault' = tileFault
  BY DEF Resize
<1>2. /\ size \in [TileMaps -> Sizes] /\ cells \in [TileMaps -> Grids]
      /\ cells[m] \in [Positions(size[m]) -> Cell] /\ lc \in Count
      /\ ~lc.dirty => Covers(lc.count, cells[m])
      /\ outgrown \subseteq Charts
  BY DEF TilesInv, TilesType, Covered
<1>3. EmptyCell \in Cell /\ EmptyCell.layers = 0
  BY DEF EmptyCell, Cell, TilemapsAssumption
<1>4. ASSUME NEW p \in Positions(s)
      PROVE  cs[p] \in Cell /\ (cs[p].layers = 0 \/ (p \in DOMAIN cells[m] /\ cs[p].layers = cells[m][p].layers))
  <2>1. CASE p \in DOMAIN cells[m]
    <3>1. cs[p] = [cells[m][p] EXCEPT !.homed = FALSE] /\ cells[m][p] \in Cell
      BY <1>2, <2>1 DEF Fitted
    <3> QED BY <2>1, <3>1 DEF Cell
  <2>2. CASE p \notin DOMAIN cells[m]
    BY <1>3, <2>2 DEF Fitted
  <2> QED BY <2>1, <2>2
<1>5. cs \in [Positions(s) -> Cell]
  BY <1>4 DEF Fitted
<1> HIDE DEF cs, lc
<1>6. cells'[m] = cs
  BY <1>1, <1>2
<1>7. ~lc.dirty => Covers(lc.count, cs)
  <2>1. lc.count \in Nat
    BY <1>2 DEF Count
  <2> QED BY <1>2, <1>4, <1>5, <2>1 DEF Covers
<1>8. \/ grip' \in {NoCell, FreedCell}
      \/ \E k \in TileMaps : \E p \in Positions(size'[k]) : grip' = <<k, p>>
  <2>1. CASE grip' \in {NoCell, FreedCell}
    BY <2>1
  <2>2. CASE grip' \notin {NoCell, FreedCell}
    <3>1. grip' = grip /\ grip \notin {NoCell, FreedCell} /\ grip[1] # m
      BY <1>1, <2>2
    <3>2. PICK k \in TileMaps : \E p \in Positions(size[k]) : grip = <<k, p>>
      BY <3>1 DEF TilesInv, TilesType
    <3>3. k # m
      BY <3>1, <3>2
    <3>4. size'[k] = size[k]
      BY <1>1, <1>2, <3>3
    <3> QED BY <3>1, <3>2, <3>4
  <2> QED BY <2>1, <2>2
<1>9. outgrown' \subseteq Charts /\ outgrown \subseteq outgrown' /\ {c \in Charts : chart[c].map = m} \subseteq outgrown'
  BY <1>1, <1>2
<1> QED BY <1>1, <1>2, <1>5, <1>6, <1>7, <1>8, <1>9, RetoldFits

LEMMA GetCellFits ==
  ASSUME TilesInv, NEW m \in TileMaps, NEW p, GetCell(m, p)
  PROVE  TilesInv'
<1>1. /\ p \in Positions(size[m]) /\ grip' = <<m, p>>
      /\ size' = size /\ cells' = cells /\ layerCount' = layerCount /\ watching' = watching
      /\ chart' = chart /\ tileFault' = tileFault /\ outgrown' = outgrown
  BY DEF GetCell
<1>2. \E k \in TileMaps : \E q \in Positions(size'[k]) : grip' = <<k, q>>
  BY <1>1
<1> QED BY <1>1, <1>2 DEF TilesInv, TilesType, Watched, Once, Covered, Covers, Sized, Count, ChartState, Grids

(* A component that is set to no map, or freed. *)
LEMMA LeftFits ==
  ASSUME TilemapsAssumption, TilesInv, NEW c \in Charts, NEW new \in ChartState, new.map = NoMap,
         watching' = Unwatched(c), chart' = [chart EXCEPT ![c] = new], outgrown' = outgrown \ {c},
         UNCHANGED <<size, cells, layerCount, grip, tileFault>>
  PROVE  TilesInv'
<1> USE DEF TilesInv
<1>1. /\ Unwatched(c) \in [TileMaps -> Seq(Charts)]
      /\ \A m \in TileMaps : /\ Once(Unwatched(c)[m])
                             /\ ToSet(Unwatched(c)[m]) = {d \in Charts : chart[d].map = m} \ {c}
  BY UnwatchedKeeps
<1>2. chart \in [Charts -> ChartState] /\ NoMap \notin TileMaps
  BY DEF TilesType, NoMap, TilemapsAssumption
<1>3. chart' \in [Charts -> ChartState] /\ chart'[c] = new /\ \A d \in Charts : d # c => chart'[d] = chart[d]
  BY <1>2
<1>4. TilesType'
  BY <1>1, <1>3 DEF TilesType, Count, ChartState, Grids
<1>5. ASSUME NEW m \in TileMaps
      PROVE  Once(watching'[m]) /\ ToSet(watching'[m]) = {d \in Charts : chart'[d].map = m}
  <2>1. {d \in Charts : chart'[d].map = m} = {d \in Charts : chart[d].map = m} \ {c}
    BY <1>2, <1>3
  <2> QED BY <1>1, <2>1
<1>6. Watched'
  BY <1>5 DEF Watched, Once
<1>7. Covered' /\ Sized'
  BY <1>3 DEF Covered, Covers, Sized
<1> QED BY <1>4, <1>6, <1>7

LEMMA SetNoMapFits ==
  ASSUME TilemapsAssumption, TilesInv, NEW c \in Charts, SetNoMap(c)
  PROVE  TilesInv'
<1> DEFINE new == [chart[c] EXCEPT !.map = NoMap]
<1>1. chart[c] \in ChartState
  BY DEF TilesInv, TilesType
<1>2. new \in ChartState /\ new.map = NoMap
  BY <1>1 DEF ChartState
<1>3. chart' = [chart EXCEPT ![c] = new]
  BY DEF SetNoMap
<1> HIDE DEF new
<1> QED BY <1>2, <1>3, LeftFits DEF SetNoMap

LEMMA FreeChartFits ==
  ASSUME TilemapsAssumption, TilesInv, NEW c \in Charts, FreeChart(c)
  PROVE  TilesInv'
<1> DEFINE new == [NewChart EXCEPT !.attached = FALSE]
<1>1. NewChart \in ChartState /\ NewChart.map = NoMap
  BY DEF NewChart, ChartState, TilemapsAssumption
<1>2. new \in ChartState /\ new.map = NoMap
  BY <1>1 DEF ChartState
<1>3. chart' = [chart EXCEPT ![c] = new]
  BY DEF FreeChart
<1> HIDE DEF new
<1> QED BY <1>2, <1>3, LeftFits DEF FreeChart

(* A component gets a map, new or the one that it has. *)
LEMMA SetMapFits ==
  ASSUME TilemapsAssumption, TilesInv, NEW c \in Charts, NEW m \in TileMaps, SetMap(c, m)
  PROVE  TilesInv'
<1> USE DEF TilesInv
<1> DEFINE n == Counted(layerCount[m], cells[m])
           area == size[m][1] * size[m][2]
           new == [chart[c] EXCEPT !.map = m, !.shows = n.count, !.frames = area]
<1>1. /\ size[m] \in Sizes /\ cells[m] \in [Positions(size[m]) -> Cell] /\ layerCount[m] \in Count
      /\ ~layerCount[m].dirty => Covers(layerCount[m].count, cells[m])
      /\ layerCount \in [TileMaps -> Count] /\ chart \in [Charts -> ChartState] /\ chart[c] \in ChartState
      /\ watching \in [TileMaps -> Seq(Charts)]
  BY DEF TilesType, Covered
<1>2. n \in Count /\ n.count \in 0..MaxLayers /\ Covers(n.count, cells[m])
  BY <1>1, CountedCovers
<1>3. area \in Nat
  BY <1>1, SizeIs
<1>4. layerCount' = [layerCount EXCEPT ![m] = n]
  BY DEF SetMap
<1>5. layerCount'[m] = n /\ (\A k \in TileMaps : k # m => layerCount'[k] = layerCount[k])
      /\ layerCount' \in [TileMaps -> Count]
  BY <1>1, <1>2, <1>4
<1>6. chart' = [chart EXCEPT ![c] = new]
  BY <1>5 DEF SetMap
<1>7. watching' = [Unwatched(c) EXCEPT ![m] = Append(@, c)] /\ outgrown' = outgrown \ {c}
      /\ UNCHANGED <<size, cells, grip, tileFault>>
  BY DEF SetMap
<1> HIDE DEF n, area
<1>8. new \in ChartState /\ new.map = m /\ new.shows = n.count /\ new.frames = area
  BY <1>1, <1>2, <1>3 DEF ChartState
<1> HIDE DEF new
<1>9. chart' \in [Charts -> ChartState] /\ chart'[c] = new /\ \A d \in Charts : d # c => chart'[d] = chart[d]
  BY <1>1, <1>6, <1>8
<1>10. /\ Unwatched(c) \in [TileMaps -> Seq(Charts)]
       /\ \A k \in TileMaps : /\ Once(Unwatched(c)[k])
                              /\ ToSet(Unwatched(c)[k]) = {d \in Charts : chart[d].map = k} \ {c}
  BY UnwatchedKeeps
<1>11. /\ Append(Unwatched(c)[m], c) \in Seq(Charts) /\ Once(Append(Unwatched(c)[m], c))
       /\ ToSet(Append(Unwatched(c)[m], c)) = ({d \in Charts : chart[d].map = m} \ {c}) \cup {c}
  <2>1. Unwatched(c)[m] \in Seq(Charts) /\ Once(Unwatched(c)[m]) /\ c \notin ToSet(Unwatched(c)[m])
    BY <1>10
  <2> QED BY <1>10, <2>1, OnceAppended
<1>12. watching' \in [TileMaps -> Seq(Charts)]
  BY <1>7, <1>10, <1>11
<1>13. TilesType'
  BY <1>5, <1>7, <1>9, <1>12 DEF TilesType, Count, ChartState, Grids
<1>14. ASSUME NEW k \in TileMaps
       PROVE  Once(watching'[k]) /\ ToSet(watching'[k]) = {d \in Charts : chart'[d].map = k}
  <2>1. CASE k = m
    <3>1. watching'[m] = Append(Unwatched(c)[m], c)
      BY <1>7, <1>10
    <3>2. {d \in Charts : chart'[d].map = m} = ({d \in Charts : chart[d].map = m} \ {c}) \cup {c}
      BY <1>8, <1>9
    <3> QED BY <1>11, <2>1, <3>1, <3>2
  <2>2. CASE k # m
    <3>1. watching'[k] = Unwatched(c)[k]
      BY <1>7, <1>10, <2>2
    <3>2. {d \in Charts : chart'[d].map = k} = {d \in Charts : chart[d].map = k} \ {c}
      BY <1>8, <1>9, <2>2
    <3> QED BY <1>10, <3>1, <3>2
  <2> QED BY <2>1, <2>2
<1>15. Watched'
  BY <1>14 DEF Watched, Once
<1>16. Covered'
  <2>1. ASSUME NEW k \in TileMaps, ~layerCount'[k].dirty
        PROVE  Covers(layerCount'[k].count, cells'[k])
    BY <1>2, <1>5, <1>7, <2>1 DEF Covered
  <2>2. ASSUME NEW d \in Charts, chart'[d].map # NoMap
        PROVE  Covers(chart'[d].shows, cells'[chart'[d].map])
    BY <1>2, <1>7, <1>8, <1>9, <2>2 DEF Covered
  <2> QED BY <2>1, <2>2 DEF Covered, Covers
<1>17. Sized'
  <2>1. ASSUME NEW d \in Charts, chart'[d].map # NoMap, d \notin outgrown'
        PROVE  chart'[d].frames = size'[chart'[d].map][1] * size'[chart'[d].map][2]
    <3>1. CASE d = c
      BY <1>7, <1>8, <1>9, <3>1 DEF area
    <3>2. CASE d # c
      BY <1>7, <1>9, <2>1, <3>2 DEF Sized
    <3> QED BY <3>1, <3>2
  <2> QED BY <2>1 DEF Sized
<1> QED BY <1>13, <1>15, <1>16, <1>17

LEMMA TilesStepFits ==
  ASSUME TilemapsAssumption, TilesInv, [TilesNext]_tilesVars
  PROVE  TilesInv'
<1>1. CASE UNCHANGED tilesVars
  BY <1>1 DEF tilesVars, TilesInv, TilesType, Watched, Once, Covered, Covers, Sized, Count, ChartState, Grids
<1>2. CASE TilesNext
  <2>1. CASE AddLayer \/ RemoveLayer \/ ClearLayers
    <3>1. InGrip
      BY <2>1 DEF AddLayer, RemoveLayer, ClearLayers
    <3>2. Gripped \in Cell
      BY <3>1, GripIs DEF TilesInv
    <3>3. Gripped.layers \in 0..MaxLayers /\ MaxLayers \in Nat
      BY <3>2 DEF Cell, TilemapsAssumption
    <3>4. \E n \in 0..MaxLayers : ChangeLayers(n)
      BY <2>1, <3>3 DEF AddLayer, RemoveLayer, ClearLayers
    <3> QED BY <3>1, <3>4, LayersFit
  <2>2. CASE UseFreedCell
    BY <2>2, TileFailsFits DEF UseFreedCell
  <2> QED BY <1>2, <2>1, <2>2, GetCellFits, ResizeFits, TouchFits, SetMapFits, SetNoMapFits, FreeChartFits
          DEF TilesNext
<1> QED BY <1>1, <1>2

(* Maps, watchers, counts and arrays agree in every reachable state.        *)
THEOREM TilesInvariance == TilesSpec => []TilesInv
<1>1. TilesInit => TilesInv
  BY TilesInitFits, TilemapsAssumption
<1>2. TilesInv /\ [TilesNext]_tilesVars => TilesInv'
  BY TilesStepFits, TilemapsAssumption
<1> QED BY <1>1, <1>2, PTL DEF TilesSpec

(* Type correctness of maps and map components. *)
THEOREM TilesTypeCorrect == TilesSpec => []TilesTypeOK
<1>1. TilesInv => TilesTypeOK
  BY DEF TilesInv, TilesType, TilesTypeOK, Count, ChartState
<1> QED BY <1>1, TilesInvariance, PTL

(* A map tells exactly the components that show it, each once, and those    *)
(* never draw a cell or a layer behind the end of their arrays, unless the  *)
(* map was resized after they got it.                                       *)
THEOREM MapsAreDrawnSafely == TilesSpec => []MapsDrawSafely
<1>1. ASSUME TilesInv
      PROVE  MapsDrawSafely
  <2> USE <1>1 DEF TilesInv
  <2>1. WatchersExact
    <3> SUFFICES ASSUME NEW m \in TileMaps
                 PROVE  /\ Len(watching[m]) = Cardinality(ToSet(watching[m]))
                        /\ ToSet(watching[m]) = {c \in Charts : chart[c].map = m}
      BY DEF WatchersExact
    <3>1. watching[m] \in Seq(Charts) /\ Once(watching[m])
      BY DEF TilesType, Watched
    <3>2. Len(watching[m]) = Cardinality(ToSet(watching[m]))
      BY <3>1, OnceCounts
    <3> QED BY <3>2 DEF Watched
  <2>2. ASSUME NEW c \in Charts, chart[c].map # NoMap
        PROVE  /\ \A p \in DOMAIN cells[chart[c].map] : cells[chart[c].map][p].layers <= chart[c].shows
               /\ c \notin outgrown => Cardinality(DOMAIN cells[chart[c].map]) = chart[c].frames
    <3> DEFINE m == chart[c].map
    <3>1. m \in TileMaps
      BY <2>2 DEF TilesType, ChartState
    <3>2. size[m] \in Sizes /\ DOMAIN cells[m] = Positions(size[m])
      BY <3>1 DEF TilesType
    <3>3. Cardinality(DOMAIN cells[m]) = size[m][1] * size[m][2]
      BY <3>2, SizeIs, TilemapsAssumption
    <3>4. c \notin outgrown => chart[c].frames = size[m][1] * size[m][2]
      BY <2>2 DEF Sized
    <3>5. \A p \in DOMAIN cells[m] : cells[m][p].layers <= chart[c].shows
      BY <2>2 DEF Covered, Covers
    <3> QED BY <3>3, <3>4, <3>5
  <2> QED BY <2>1, <2>2 DEF MapsDrawSafely, DrawsWithinArrays
<1> QED BY <1>1, TilesInvariance, PTL
-----------------------------------------------------------------------------
(* Sprites.  An invariant for the tables, the pixels and the frames that    *)
(* components have got to: a frame exists as long as the sprite was not     *)
(* replaced by a shorter one.                                               *)

PlayState == [name : Ids \cup {NoName}, frame : Nat]

SpritesType ==
  /\ loadedAtlases \subseteq Atlases
  /\ DOMAIN spriteTable \subseteq Keys
  /\ spriteComp \in [SpriteComps -> [name : Ids \cup {NoName}, frame : Nat, shown : BOOLEAN]]
  /\ snapshot \in PlayState
  /\ spritePhase \in {"early", "script", "late"} /\ spriteAbort \in BOOLEAN
  /\ shortened \subseteq Keys

(* A sprite of the table has a frame and is of an atlas that was loaded,    *)
(* and its texture is known.                                                *)
Tabled ==
  \A key \in DOMAIN spriteTable :
    /\ spriteTable[key].length \in Nat \ {0}
    /\ spriteTable[key].texture \in DOMAIN pixels
    /\ \E a \in loadedAtlases : TextureId(a) = spriteTable[key].texture

(* Known pixels are those of an atlas with that texture id. *)
Painted == \A texture \in DOMAIN pixels : \E a \in Atlases : TextureId(a) = texture /\ pixels[texture] = Pixels(a)

(* How far a component, or what was saved of one, may have got.             *)
Played(p) ==
  \/ p.name = NoName \/ p.frame = 0 \/ Split(p.name) \in shortened
  \/ Split(p.name) \in DOMAIN spriteTable /\ p.frame < spriteTable[Split(p.name)].length

AllPlayed == Played(snapshot) /\ \A c \in SpriteComps : Played(spriteComp[c])

SpritesInv == SpritesType /\ Tabled /\ Painted /\ AllPlayed /\ LoadsAreWhole

(* An id is taken apart into what it was put together from. *)
LEMMA IdSplits ==
  ASSUME AssetsAssumption, NEW g \in Seq(STRING), NEW n \in Seq(STRING), Findable(g)
  PROVE  Id(g, n) # NoName /\ Split(Id(g, n)) = <<g, n>>
<1> DEFINE Chars == STRING \cup {Colon}
           h == g \o <<Colon>>
           id == h \o n
           I  == {i \in 1..Len(id) : id[i] = Colon}
           k  == Len(g) + 1
<1>0. g \in Seq(Chars) /\ n \in Seq(Chars) /\ Colon \in Chars
  BY SeqMonotonic
<1> HIDE DEF Chars
<1>1. Len(g) \in Nat /\ Len(n) \in Nat /\ DOMAIN g = 1..Len(g)
  BY <1>0, LenProperties
<1>2. <<Colon>> \in Seq(Chars) /\ Len(<<Colon>>) = 1 /\ <<Colon>>[1] = Colon
  BY <1>0
<1>3. h \in Seq(Chars) /\ Len(h) = k /\ \A i \in 1..k : h[i] = IF i <= Len(g) THEN g[i] ELSE Colon
  <2>1. /\ h \in Seq(Chars) /\ Len(h) = Len(g) + 1
        /\ \A i \in 1..(Len(g) + 1) : h[i] = IF i <= Len(g) THEN g[i] ELSE <<Colon>>[i - Len(g)]
    BY <1>0, <1>2, ConcatProperties, Zenon
  <2>2. ASSUME NEW i \in 1..k
        PROVE  h[i] = IF i <= Len(g) THEN g[i] ELSE Colon
    <3>1. CASE i <= Len(g)
      BY <2>1, <3>1
    <3>2. CASE ~(i <= Len(g))
      <4>1. i - Len(g) = 1
        BY <1>1, <3>2
      <4> QED BY <1>2, <2>1, <3>2, <4>1
    <3> QED BY <3>1, <3>2
  <2> QED BY <2>1, <2>2
<1> HIDE DEF h
<1>4. /\ id \in Seq(Chars) /\ Len(id) = k + Len(n)
      /\ \A i \in 1..(k + Len(n)) : id[i] = IF i <= k THEN h[i] ELSE n[i - k]
  <2>1. /\ id \in Seq(Chars) /\ Len(id) = Len(h) + Len(n)
        /\ \A i \in 1..(Len(h) + Len(n)) : id[i] = IF i <= Len(h) THEN h[i] ELSE n[i - Len(h)]
    BY <1>0, <1>3, ConcatProperties, Zenon
  <2> HIDE DEF id
  <2> QED BY <1>3, <2>1
<1>5. Id(g, n) = id
  BY DEF Id, h
<1> HIDE DEF id
<1>6. id[k] = Colon /\ \A i \in 1..Len(g) : id[i] = g[i]
  BY <1>1, <1>3, <1>4
<1>7. \A i \in 1..Len(g) : g[i] # Colon
  BY <1>1 DEF Findable, ToSet
<1>8. FirstColon(id) = k
  <2>1. I \in SUBSET Nat /\ k \in I
    BY <1>1, <1>4, <1>6
  <2>2. FirstColon(id) = Min(I)
    BY <2>1 DEF FirstColon, SelectInSeq
  <2>3. Min(I) \in I /\ Min(I) <= k
    BY <2>1, MinIs
  <2>4. ~(Min(I) <= Len(g))
    BY <1>6, <1>7, <2>3
  <2> QED BY <1>1, <2>1, <2>2, <2>3, <2>4
<1>9. 1 <= Len(g) /\ Len(g) < SplitBuffer /\ SplitBuffer \in Nat
  BY <1>0, <1>1, EmptySeq DEF Findable, AssetsAssumption
<1>10. SubSeq(id, 1, Len(g)) = g
  <2>1. \A i \in 1..Len(g) : id[i] \in Chars
    BY <1>0, <1>6, ElementOfSeq
  <2>2. /\ SubSeq(id, 1, Len(g)) \in Seq(Chars) /\ Len(SubSeq(id, 1, Len(g))) = Len(g)
        /\ \A i \in 1..Len(g) : SubSeq(id, 1, Len(g))[i] = id[i]
    BY <1>1, <1>9, <2>1, SubSeqProperties
  <2> QED BY <1>0, <1>6, <2>2, SeqEqual
<1>11. SubSeq(id, k + 1, Len(id)) = n
  <2> DEFINE r == SubSeq(id, k + 1, Len(id))
  <2>1. \A i \in (k + 1)..Len(id) : id[i] \in Chars
    BY <1>1, <1>4, ElementOfSeq
  <2>2. /\ r \in Seq(Chars) /\ Len(r) = Len(n)
        /\ \A i \in 1..Len(n) : r[i] = id[k + i]
    <3>1. k + 1 \in Int /\ Len(id) \in Int /\ Len(id) - (k + 1) + 1 = Len(n) /\ (k + 1 <= Len(id) \/ Len(n) = 0)
      BY <1>1, <1>4
    <3>2. /\ r \in Seq(Chars) /\ Len(r) = IF k + 1 <= Len(id) THEN Len(id) - (k + 1) + 1 ELSE 0
          /\ \A i \in 1..(Len(id) - (k + 1) + 1) : r[i] = id[(k + 1) + i - 1]
      BY <2>1, <3>1, SubSeqProperties
    <3> HIDE DEF r
    <3>3. Len(r) = Len(n)
      BY <3>1, <3>2
    <3>4. \A i \in 1..Len(n) : r[i] = id[k + i]
      <4> TAKE i \in 1..Len(n)
      <4>1. (k + 1) + i - 1 = k + i
        BY <1>1
      <4> QED BY <3>1, <3>2, <4>1
    <3> QED BY <3>2, <3>3, <3>4
  <2> HIDE DEF r
  <2>3. \A i \in 1..Len(n) : id[k + i] = n[i]
    <3> TAKE i \in 1..Len(n)
    <3>1. k + i \in 1..(k + Len(n)) /\ ~(k + i <= k) /\ (k + i) - k = i
      BY <1>1
    <3> QED BY <1>4, <3>1
  <2>4. r = n
    BY <1>0, <2>2, <2>3, SeqEqual
  <2> QED BY <2>4 DEF r
<1>12. id # NoName
  BY <1>1, <1>4, EmptySeq DEF NoName
<1>13. Split(id) = <<g, n>>
  <2>1. k > 1 /\ k - 1 = Len(g)
    BY <1>1, <1>9
  <2>2. (IF k < SplitBuffer THEN k - 1 ELSE SplitBuffer - 1) = Len(g)
    BY <1>1, <1>9
  <2> HIDE DEF k
  <2> QED BY <1>8, <1>10, <1>11, <2>1, <2>2 DEF Split
<1> QED BY <1>5, <1>12, <1>13

(* A load sets sprites of its own names, all with a frame.                  *)
LEMMA NewSpritesAre ==
  ASSUME AssetsAssumption, NEW a \in Atlases
  PROVE  /\ DOMAIN NewSprites(a) \subseteq Keys
         /\ \A key \in DOMAIN NewSprites(a) : /\ NewSprites(a)[key].length \in Nat \ {0}
                                              /\ NewSprites(a)[key].texture = TextureId(a)
<1>1. a.sprites \in Seq([name : Seq(STRING), length : Nat])
  BY DEF AssetsAssumption
<1>2. /\ Len(a.sprites) \in Nat /\ DOMAIN a.sprites = 1..Len(a.sprites)
      /\ \A i \in DOMAIN a.sprites : a.sprites[i].length \in Nat
  <2>1. Len(a.sprites) \in Nat /\ DOMAIN a.sprites = 1..Len(a.sprites)
    BY <1>1, LenProperties
  <2>2. \A i \in 1..Len(a.sprites) : a.sprites[i] \in [name : Seq(STRING), length : Nat]
    BY <1>1, ElementOfSeq
  <2> QED BY <2>1, <2>2
<1>3. Usables(a) \subseteq DOMAIN a.sprites /\ \A i \in Usables(a) : a.sprites[i].length \in Nat \ {0}
  BY <1>2 DEF Usables, Usable
<1>4. DOMAIN NewSprites(a) = {<<a.group, a.sprites[i].name>> : i \in Usables(a)}
  BY DEF NewSprites
<1>5. DOMAIN NewSprites(a) \subseteq Keys
  BY <1>3, <1>4 DEF Keys, NamesOf
<1>6. ASSUME NEW key \in DOMAIN NewSprites(a)
      PROVE  NewSprites(a)[key].length \in Nat \ {0} /\ NewSprites(a)[key].texture = TextureId(a)
  <2> DEFINE S == {i \in Usables(a) : a.sprites[i].name = key[2]}
  <2>1. S # {} /\ S \in SUBSET (0..Len(a.sprites))
    BY <1>2, <1>3, <1>4
  <2>2. Max(S) \in S
    BY <1>2, <2>1, MaxIs
  <2>3. Latest(a, key[2]) \in Usables(a)
    BY <2>2 DEF Latest
  <2>4. NewSprites(a)[key] = [length |-> a.sprites[Latest(a, key[2])].length, texture |-> TextureId(a)]
    BY DEF NewSprites
  <2> QED BY <1>3, <2>3, <2>4
<1> QED BY <1>5, <1>6

LEMMA SpritesInitFit ==
  ASSUME AssetsInit
  PROVE  SpritesInv
<1>1. Fresh \in [name : Ids \cup {NoName}, frame : Nat, shown : BOOLEAN] /\ Fresh.frame = 0
  BY DEF Fresh
<1>2. SnapshotOf(Fresh) \in PlayState /\ SnapshotOf(Fresh).frame = 0
  BY <1>1 DEF SnapshotOf, PlayState
<1>3. DOMAIN spriteTable = {} /\ DOMAIN pixels = {}
  BY DEF AssetsInit
<1>4. SpritesType
  BY <1>1, <1>2, <1>3 DEF AssetsInit, SpritesType
<1>5. Tabled /\ Painted /\ LoadsAreWhole
  BY <1>3 DEF Tabled, Painted, LoadsAreWhole, AssetsInit
<1>6. AllPlayed
  BY <1>1, <1>2 DEF AllPlayed, Played, AssetsInit
<1> QED BY <1>4, <1>5, <1>6 DEF SpritesInv

(* A texture that is known stays what it is. *)
LEMMA UploadedIs ==
  ASSUME Painted, NEW a \in Atlases
  PROVE  /\ DOMAIN Uploaded(a) = DOMAIN pixels \cup {TextureId(a)}
         /\ \A texture \in DOMAIN Uploaded(a) :
              \E b \in Atlases : TextureId(b) = texture /\ Uploaded(a)[texture] = Pixels(b)
<1> DEFINE one == [texture \in {TextureId(a)} |-> Pixels(a)]
<1>1. /\ DOMAIN Uploaded(a) = DOMAIN pixels \cup {TextureId(a)}
      /\ \A texture \in DOMAIN pixels : Uploaded(a)[texture] = pixels[texture]
      /\ \A texture \in {TextureId(a)} \ DOMAIN pixels : Uploaded(a)[texture] = one[texture]
  <2>1. DOMAIN one = {TextureId(a)}
    OBVIOUS
  <2>2. Uploaded(a) = Over(pixels, one)
    BY DEF Uploaded
  <2> HIDE DEF one
  <2> QED BY <2>1, <2>2 DEF Over
<1>2. ASSUME NEW texture \in DOMAIN Uploaded(a)
      PROVE  \E b \in Atlases : TextureId(b) = texture /\ Uploaded(a)[texture] = Pixels(b)
  <2>1. CASE texture \in DOMAIN pixels
    BY <1>1, <2>1 DEF Painted
  <2>2. CASE texture \notin DOMAIN pixels
    <3>1. texture = TextureId(a) /\ Uploaded(a)[texture] = Pixels(a)
      BY <1>1, <1>2, <2>2
    <3> QED BY <3>1
  <2> QED BY <2>1, <2>2
<1> QED BY <1>1, <1>2

LEMMA LoadAtlasFailsFits ==
  ASSUME AssetsAssumption, SpritesInv, NEW a \in Atlases, LoadAtlasFails(a)
  PROVE  SpritesInv'
<1> USE DEF SpritesInv
<1>1. /\ pixels' = Uploaded(a)
      /\ UNCHANGED <<loadedAtlases, spriteTable, shortened, spriteComp, snapshot, spritePhase, spriteAbort>>
  BY DEF LoadAtlasFails, ScriptLoads
<1>2. SpritesType' /\ AllPlayed' /\ LoadsAreWhole'
  BY <1>1 DEF SpritesType, AllPlayed, Played, LoadsAreWhole
<1>3. Tabled'
  <2>1. DOMAIN pixels \subseteq DOMAIN pixels'
    BY <1>1, UploadedIs
  <2> QED BY <1>1, <2>1 DEF Tabled
<1>4. Painted'
  <2>1. \A texture \in DOMAIN pixels' : \E b \in Atlases : TextureId(b) = texture /\ pixels'[texture] = Pixels(b)
    BY <1>1, UploadedIs
  <2> QED BY <2>1 DEF Painted
<1> QED BY <1>2, <1>3, <1>4

(* An atlas replaces sprites, and a shorter one is remembered. *)
LEMMA LoadAtlasFits ==
  ASSUME AssetsAssumption, SpritesInv, NEW a \in Atlases, LoadAtlas(a)
  PROVE  SpritesInv'
<1> USE DEF SpritesInv
<1>1. /\ pixels' = Uploaded(a) /\ spriteTable' = Over(NewSprites(a), spriteTable)
      /\ shortened' = shortened \cup Cut(a) /\ loadedAtlases' = loadedAtlases \cup {a}
      /\ UNCHANGED <<spriteComp, snapshot, spritePhase, spriteAbort>>
  BY DEF LoadAtlas, ScriptLoads
<1>2. /\ DOMAIN spriteTable' = DOMAIN NewSprites(a) \cup DOMAIN spriteTable
      /\ \A key \in DOMAIN NewSprites(a) : spriteTable'[key] = NewSprites(a)[key]
      /\ \A key \in DOMAIN spriteTable \ DOMAIN NewSprites(a) : spriteTable'[key] = spriteTable[key]
  BY <1>1 DEF Over
<1>3. /\ DOMAIN NewSprites(a) \subseteq Keys
      /\ \A key \in DOMAIN NewSprites(a) : /\ NewSprites(a)[key].length \in Nat \ {0}
                                           /\ NewSprites(a)[key].texture = TextureId(a)
  BY NewSpritesAre
<1>4. DOMAIN pixels' = DOMAIN pixels \cup {TextureId(a)}
  BY <1>1, UploadedIs
<1>5. SpritesType'
  <2>1. Cut(a) \subseteq Keys
    BY <1>3 DEF Cut
  <2> QED BY <1>1, <1>2, <1>3, <2>1 DEF SpritesType
<1>6. Tabled'
  <2>1. ASSUME NEW key \in DOMAIN spriteTable'
        PROVE  /\ spriteTable'[key].length \in Nat \ {0} /\ spriteTable'[key].texture \in DOMAIN pixels'
               /\ \E b \in loadedAtlases' : TextureId(b) = spriteTable'[key].texture
    <3>1. CASE key \in DOMAIN NewSprites(a)
      BY <1>1, <1>2, <1>3, <1>4, <3>1
    <3>2. CASE key \notin DOMAIN NewSprites(a)
      <4>1. key \in DOMAIN spriteTable /\ spriteTable'[key] = spriteTable[key]
        BY <1>2, <2>1, <3>2
      <4> QED BY <1>1, <1>4, <4>1 DEF Tabled
    <3> QED BY <3>1, <3>2
  <2> QED BY <2>1 DEF Tabled
<1>7. Painted'
  <2>1. \A texture \in DOMAIN pixels' : \E b \in Atlases : TextureId(b) = texture /\ pixels'[texture] = Pixels(b)
    BY <1>1, UploadedIs
  <2> QED BY <2>1 DEF Painted
<1>8. ASSUME NEW p, p.frame \in Nat, Played(p)
      PROVE  Played(p)'
  <2>1. CASE p.name = NoName \/ p.frame = 0 \/ Split(p.name) \in shortened
    BY <1>1, <2>1 DEF Played
  <2>2. CASE Split(p.name) \in DOMAIN spriteTable /\ p.frame < spriteTable[Split(p.name)].length
    <3> DEFINE key == Split(p.name)
    <3>1. key \in DOMAIN spriteTable /\ p.frame < spriteTable[key].length /\ key \in DOMAIN spriteTable'
      BY <1>2, <2>2
    <3>2. spriteTable[key].length \in Nat
      BY <3>1 DEF Tabled
    <3>3. CASE key \in DOMAIN NewSprites(a)
      <4>1. spriteTable'[key].length = NewSprites(a)[key].length /\ NewSprites(a)[key].length \in Nat
        BY <1>2, <1>3, <3>3
      <4>2. CASE NewSprites(a)[key].length < spriteTable[key].length
        <5>1. key \in Cut(a)
          BY <3>1, <3>3, <4>2 DEF Cut
        <5> QED BY <1>1, <5>1 DEF Played
      <4>3. CASE ~(NewSprites(a)[key].length < spriteTable[key].length)
        <5>1. p.frame < spriteTable'[key].length
          BY <1>8, <3>1, <3>2, <4>1, <4>3
        <5> QED BY <3>1, <5>1 DEF Played
      <4> QED BY <4>2, <4>3
    <3>4. CASE key \notin DOMAIN NewSprites(a)
      <4>1. spriteTable'[key] = spriteTable[key]
        BY <1>2, <3>1, <3>4
      <4> QED BY <3>1, <4>1 DEF Played
    <3> QED BY <3>3, <3>4
  <2> QED BY <1>8, <2>1, <2>2 DEF Played
<1>9. AllPlayed'
  <2>1. Played(snapshot)'
    <3>1. snapshot.frame \in Nat /\ Played(snapshot)
      BY DEF SpritesType, PlayState, AllPlayed
    <3> QED BY <1>1, <1>8, <3>1 DEF Played
  <2>2. ASSUME NEW c \in SpriteComps
        PROVE  Played(spriteComp[c])'
    <3>1. spriteComp[c].frame \in Nat /\ Played(spriteComp[c])
      BY DEF SpritesType, AllPlayed
    <3> QED BY <1>1, <1>8, <3>1 DEF Played
  <2> QED BY <2>1, <2>2 DEF AllPlayed
<1>10. LoadsAreWhole'
  BY <1>1, <1>2 DEF LoadsAreWhole
<1> QED BY <1>5, <1>6, <1>7, <1>9, <1>10

SpriteState == [name : Ids \cup {NoName}, frame : Nat, shown : BOOLEAN]

(* What leaves the tables alone.                                            *)
LEMMA PlayersFit ==
  ASSUME SpritesInv, UNCHANGED <<loadedAtlases, pixels, spriteTable, shortened>>,
         spriteComp' \in [SpriteComps -> SpriteState], snapshot' \in PlayState,
         spritePhase' \in {"early", "script", "late"}, spriteAbort' \in BOOLEAN,
         Played(snapshot'), \A c \in SpriteComps : Played(spriteComp'[c])
  PROVE  SpritesInv'
BY DEF SpritesInv, SpritesType, SpriteState, Tabled, Painted, AllPlayed, Played, LoadsAreWhole

LEMMA PlayersAre ==
  ASSUME SpritesInv
  PROVE  /\ spriteComp \in [SpriteComps -> SpriteState] /\ snapshot \in PlayState
         /\ spritePhase \in {"early", "script", "late"} /\ spriteAbort \in BOOLEAN
         /\ Played(snapshot) /\ \A c \in SpriteComps : Played(spriteComp[c])
BY DEF SpritesInv, SpritesType, SpriteState, AllPlayed

(* One component is changed by a script. *)
LEMMA ScriptedFits ==
  ASSUME SpritesInv, NEW c \in SpriteComps, NEW new \in SpriteState, Played(new),
         Scripted([spriteComp EXCEPT ![c] = new]), UNCHANGED snapshot
  PROVE  SpritesInv'
<1>1. /\ spriteComp' = [spriteComp EXCEPT ![c] = new]
      /\ UNCHANGED <<loadedAtlases, pixels, spriteTable, shortened, snapshot, spritePhase, spriteAbort>>
  BY DEF Scripted
<1>2. spriteComp' \in [SpriteComps -> SpriteState]
  BY <1>1, PlayersAre
<1>3. \A d \in SpriteComps : Played(spriteComp'[d])
  BY <1>1, PlayersAre
<1> QED BY <1>1, <1>2, <1>3, PlayersAre, PlayersFit

LEMMA SetSpriteFits ==
  ASSUME SpritesInv, NEW c \in SpriteComps, NEW id \in Ids \cup {NoName}, SetSprite(c, id)
  PROVE  SpritesInv'
<1>1. spriteComp[c] \in SpriteState
  BY PlayersAre
<1>2. Named(c, id) \in SpriteState /\ Named(c, id).name = id /\ (id # NoName => Named(c, id).frame = 0)
  BY <1>1 DEF SpriteState, Named
<1>3. Played(Named(c, id))
  BY <1>2 DEF Played
<1>4. Scripted([spriteComp EXCEPT ![c] = Named(c, id)]) /\ UNCHANGED snapshot
  BY DEF SetSprite
<1> QED BY <1>2, <1>3, <1>4, ScriptedFits

LEMMA ShowOrHideFits ==
  ASSUME SpritesInv, NEW c \in SpriteComps, ShowOrHide(c)
  PROVE  SpritesInv'
<1> DEFINE new == [spriteComp[c] EXCEPT !.shown = ~spriteComp[c].shown]
<1>1. spriteComp \in [SpriteComps -> SpriteState] /\ spriteComp[c] \in SpriteState /\ Played(spriteComp[c])
  BY PlayersAre
<1>2. new \in SpriteState /\ new.name = spriteComp[c].name /\ new.frame = spriteComp[c].frame
  BY <1>1 DEF SpriteState
<1>3. [spriteComp EXCEPT ![c].shown = ~@] = [spriteComp EXCEPT ![c] = new]
  OBVIOUS
<1>4. Scripted([spriteComp EXCEPT ![c] = new]) /\ UNCHANGED snapshot
  BY <1>3 DEF ShowOrHide
<1> HIDE DEF new
<1>5. Played(new)
  BY <1>1, <1>2 DEF Played
<1> QED BY <1>2, <1>4, <1>5, ScriptedFits

LEMMA CopySpriteFits ==
  ASSUME SpritesInv, NEW c \in SpriteComps, NEW d \in SpriteComps, CopySprite(c, d)
  PROVE  SpritesInv'
<1> DEFINE new == [Fresh EXCEPT !.name = spriteComp[d].name]
<1>1. spriteComp[d] \in SpriteState
  BY PlayersAre
<1>2. new \in SpriteState /\ new.frame = 0
  BY <1>1 DEF SpriteState, Fresh
<1>3. Scripted([spriteComp EXCEPT ![c] = new]) /\ UNCHANGED snapshot
  BY DEF CopySprite
<1> HIDE DEF new
<1>4. Played(new)
  BY <1>2 DEF Played
<1> QED BY <1>2, <1>3, <1>4, ScriptedFits

LEMMA RestoreSpriteFits ==
  ASSUME SpritesInv, NEW c \in SpriteComps, RestoreSprite(c)
  PROVE  SpritesInv'
<1> DEFINE new == [name |-> snapshot.name, frame |-> snapshot.frame, shown |-> TRUE]
<1>1. snapshot \in PlayState /\ Played(snapshot)
  BY PlayersAre
<1>2. new \in SpriteState /\ new.name = snapshot.name /\ new.frame = snapshot.frame
  BY <1>1 DEF SpriteState, PlayState
<1>3. Scripted([spriteComp EXCEPT ![c] = new]) /\ UNCHANGED snapshot
  BY DEF RestoreSprite
<1> HIDE DEF new
<1>4. Played(new)
  BY <1>1, <1>2 DEF Played
<1> QED BY <1>2, <1>3, <1>4, ScriptedFits

LEMMA SaveSpriteFits ==
  ASSUME SpritesInv, NEW c \in SpriteComps, SaveSprite(c)
  PROVE  SpritesInv'
<1>1. spriteComp[c] \in SpriteState /\ Played(spriteComp[c])
  BY PlayersAre
<1>2. /\ spriteComp' = spriteComp /\ snapshot' = [name |-> spriteComp[c].name, frame |-> spriteComp[c].frame]
      /\ UNCHANGED <<loadedAtlases, pixels, spriteTable, shortened, spritePhase, spriteAbort>>
  BY DEF SaveSprite, Scripted, SnapshotOf
<1>3. snapshot' \in PlayState /\ snapshot'.name = spriteComp[c].name /\ snapshot'.frame = spriteComp[c].frame
  BY <1>1, <1>2 DEF SpriteState, PlayState
<1>4. Played(snapshot')
  BY <1>1, <1>3 DEF Played
<1> QED BY <1>2, <1>3, <1>4, PlayersAre, PlayersFit

(* The next frame is a frame of the sprite; what has none starts again.     *)
LEMMA SpriteSystemFits ==
  ASSUME SpritesInv, SpriteSystem
  PROVE  SpritesInv'
<1>1. PICK due \in SUBSET SpriteComps :
        spriteComp' = [c \in SpriteComps |-> Advances(spriteComp[c], c \in due)]
  BY DEF SpriteSystem
<1>2. /\ UNCHANGED <<loadedAtlases, pixels, spriteTable, shortened, snapshot, spriteAbort>>
      /\ spritePhase' = "script"
  BY DEF SpriteSystem, SpritePasses
<1>3. ASSUME NEW c \in SpriteComps
      PROVE  spriteComp'[c] \in SpriteState /\ Played(spriteComp'[c])
  <2> DEFINE old == spriteComp[c]
             key == Split(old.name)
  <2>1. old \in SpriteState /\ Played(old)
    BY PlayersAre
  <2>2. spriteComp'[c] = Advances(old, c \in due)
    BY <1>1
  <2> HIDE DEF old
  <2>3. CASE old.shown /\ ~HasSprite(old.name)
    <3>1. spriteComp'[c] = [old EXCEPT !.frame = 0]
      <4>1. ~Drawn(old)
        BY <2>3 DEF Drawn
      <4> QED BY <2>2, <2>3, <4>1 DEF Advances
    <3> QED BY <2>1, <3>1 DEF SpriteState, Played
  <2>4. CASE Drawn(old) /\ c \in due
    <3>1. HasSprite(old.name) /\ spriteComp'[c] = [old EXCEPT !.frame = (old.frame + 1) % Sprite(old.name).length]
      BY <2>2, <2>4 DEF Advances, Drawn
    <3>2. key \in DOMAIN spriteTable /\ Sprite(old.name) = spriteTable[key]
      BY <3>1 DEF HasSprite, Sprite
    <3>3. spriteTable[key].length \in Nat \ {0}
      BY <3>2 DEF SpritesInv, Tabled
    <3>4. old.frame \in Nat
      BY <2>1 DEF SpriteState
    <3> DEFINE next == (old.frame + 1) % spriteTable[key].length
    <3>5. next \in Nat /\ next < spriteTable[key].length
      BY <3>3, <3>4
    <3> HIDE DEF next
    <3>6. spriteComp'[c] = [old EXCEPT !.frame = next]
      BY <3>1, <3>2 DEF next
    <3>7. spriteComp'[c] \in SpriteState /\ spriteComp'[c].name = old.name /\ spriteComp'[c].frame = next
      BY <2>1, <3>5, <3>6 DEF SpriteState
    <3> QED BY <3>2, <3>5, <3>7 DEF Played
  <2>5. CASE ~(old.shown /\ ~HasSprite(old.name)) /\ ~(Drawn(old) /\ c \in due)
    <3>1. spriteComp'[c] = old
      BY <2>2, <2>5 DEF Advances
    <3> QED BY <2>1, <3>1
  <2> QED BY <2>3, <2>4, <2>5
<1>4. spriteComp' \in [SpriteComps -> SpriteState]
  BY <1>1, <1>3
<1> QED BY <1>2, <1>3, <1>4, PlayersAre, PlayersFit

LEMMA SpritesStepFits ==
  ASSUME AssetsAssumption, SpritesInv, [AssetsNext]_assetsVars
  PROVE  SpritesInv'
<1>1. CASE UNCHANGED assetsVars
  BY <1>1, PlayersAre, PlayersFit DEF assetsVars
<1>2. CASE AssetsNext
  <2>1. ASSUME NEW f \in MapFiles, LoadMap(f)
        PROVE  SpritesInv'
    BY <2>1, PlayersAre, PlayersFit DEF LoadMap, ScriptLoads
  <2>2. CASE ScriptsEnd \/ SpriteRender
    <3>1. /\ UNCHANGED <<loadedAtlases, pixels, spriteTable, shortened, spriteComp, snapshot>>
          /\ spritePhase' \in {"early", "script", "late"} /\ spriteAbort' \in BOOLEAN
      BY <2>2, PlayersAre DEF ScriptsEnd, SpriteRender, SpritePasses
    <3> QED BY <3>1, PlayersAre, PlayersFit
  <2> QED BY <1>2, <2>1, <2>2, LoadAtlasFailsFits, LoadAtlasFits, SetSpriteFits, ShowOrHideFits, CopySpriteFits,
             SaveSpriteFits, RestoreSpriteFits, SpriteSystemFits DEF AssetsNext
<1> QED BY <1>1, <1>2

(* Tables, pixels and frames agree in every reachable state. *)
THEOREM SpritesInvariance == AssetsSpec => []SpritesInv
<1>1. AssetsInit => SpritesInv
  BY SpritesInitFit
<1>2. SpritesInv /\ [AssetsNext]_assetsVars => SpritesInv'
  BY SpritesStepFits, AssetsAssumption
<1> QED BY <1>1, <1>2, PTL DEF AssetsSpec

(* Type correctness of the asset tables and the sprite components. *)
THEOREM AssetsTypeCorrect == AssetsSpec => []AssetsTypeOK
<1> DEFINE FromFiles == loadedMaps \subseteq MapFiles
<1>1. AssetsInit => FromFiles
  BY DEF AssetsInit
<1>2. FromFiles /\ [AssetsNext]_assetsVars => FromFiles'
  <2>1. ASSUME FromFiles, UNCHANGED assetsVars
        PROVE  FromFiles'
    BY <2>1 DEF assetsVars
  <2>2. ASSUME FromFiles, AssetsNext
        PROVE  FromFiles'
    <3>1. CASE \E f \in MapFiles : LoadMap(f)
      BY <2>2, <3>1 DEF LoadMap
    <3>2. CASE ~\E f \in MapFiles : LoadMap(f)
      BY <2>2, <3>2 DEF AssetsNext, LoadAtlasFails, LoadAtlas, SetSprite, ShowOrHide, CopySprite, SaveSprite,
                        RestoreSprite, Scripted, SpriteSystem, ScriptsEnd, SpriteRender, SpritePasses
    <3> QED BY <3>1, <3>2
  <2> QED BY <2>1, <2>2
<1>3. SpritesInv /\ FromFiles => AssetsTypeOK
  <2>1. SpritesInv => DOMAIN pixels \subseteq {TextureId(a) : a \in Atlases}
    BY DEF SpritesInv, Painted
  <2> QED BY <2>1 DEF SpritesInv, SpritesType, PlayState, AssetsTypeOK
<1> QED BY <1>1, <1>2, <1>3, SpritesInvariance, PTL DEF AssetsSpec

(* Every frame that is asked for is one of its sprite's, unless that was    *)
(* replaced by a shorter one; every loaded sprite is found under its id;    *)
(* and its pixels are its own, unless two atlases give their textures one   *)
(* id.                                                                      *)
THEOREM AssetsAreSound == AssetsSpec => []AssetsSound
<1>1. ASSUME SpritesInv
      PROVE  AssetsSound
  <2> USE <1>1 DEF SpritesInv
  <2>1. FramesExist
    <3> SUFFICES ASSUME NEW d \in Drawings
                 PROVE  d.frame < Sprite(d.name).length \/ Split(d.name) \in shortened
      BY DEF FramesExist
    <3>1. /\ d.name # NoName /\ Split(d.name) \in DOMAIN spriteTable
          /\ d.frame = 0 \/ Played(d)
      <4>1. CASE \E c \in SpriteComps : /\ Drawn(spriteComp[c])
                                       /\ d = [name |-> spriteComp[c].name, frame |-> spriteComp[c].frame]
        BY <4>1, PlayersAre DEF Drawn, HasSprite, Played
      <4>2. CASE \E id \in TileSprites : HasSprite(id) /\ d = [name |-> id, frame |-> 0]
        BY <4>2 DEF HasSprite
      <4> QED BY <4>1, <4>2 DEF Drawings
    <3>2. spriteTable[Split(d.name)].length \in Nat \ {0} /\ Sprite(d.name) = spriteTable[Split(d.name)]
      BY <3>1 DEF Tabled, Sprite
    <3>3. 0 < spriteTable[Split(d.name)].length
      BY <3>2
    <3> QED BY <3>1, <3>2, <3>3 DEF Played
  <2>2. IdsFind
    <3> SUFFICES ASSUME NEW key \in DOMAIN spriteTable, Findable(key[1])
                 PROVE  /\ HasSprite(Id(key[1], key[2]))
                        /\ Sprite(Id(key[1], key[2])) = spriteTable[key]
      BY DEF IdsFind
    <3>1. PICK a \in Atlases : \E i \in DOMAIN a.sprites : key = <<a.group, a.sprites[i].name>>
      BY DEF SpritesType, Keys, NamesOf
    <3>2. a.group \in Seq(STRING) /\ a.sprites \in Seq([name : Seq(STRING), length : Nat])
      BY AssetsAssumption DEF AssetsAssumption
    <3>3. \A i \in DOMAIN a.sprites : a.sprites[i].name \in Seq(STRING)
      <4>1. DOMAIN a.sprites = 1..Len(a.sprites)
        BY <3>2, LenProperties
      <4>2. \A i \in 1..Len(a.sprites) : a.sprites[i] \in [name : Seq(STRING), length : Nat]
        BY <3>2, ElementOfSeq
      <4> QED BY <4>1, <4>2
    <3>4. key[1] \in Seq(STRING) /\ key[2] \in Seq(STRING) /\ key = <<key[1], key[2]>>
      BY <3>1, <3>2, <3>3
    <3>5. Id(key[1], key[2]) # NoName /\ Split(Id(key[1], key[2])) = key
      BY <3>4, IdSplits, AssetsAssumption
    <3> QED BY <3>5 DEF HasSprite, Sprite
  <2>3. OwnPixels
    <3> SUFFICES ASSUME NEW key \in DOMAIN spriteTable
                 PROVE  LET texture == spriteTable[key].texture IN
                          /\ texture \in DOMAIN pixels
                          /\ ~Contested(texture) => \E a \in loadedAtlases :
                               TextureId(a) = texture /\ pixels[texture] = Pixels(a)
      BY DEF OwnPixels
    <3> DEFINE texture == spriteTable[key].texture
    <3>1. PICK a \in loadedAtlases : TextureId(a) = texture
      BY DEF Tabled
    <3>2. texture \in DOMAIN pixels
      BY DEF Tabled
    <3>3. PICK b \in Atlases : TextureId(b) = texture /\ pixels[texture] = Pixels(b)
      BY <3>2 DEF Painted
    <3>4. a \in Atlases
      BY DEF SpritesType
    <3>5. ~Contested(texture) => Pixels(a) = Pixels(b)
      BY <3>1, <3>3, <3>4 DEF Contested
    <3> QED BY <3>1, <3>2, <3>3, <3>5
  <2> QED BY <2>1, <2>2, <2>3 DEF AssetsSound
<1> QED BY <1>1, SpritesInvariance, PTL

-----------------------------------------------------------------------------
(* Bounds: sequences of rectangles and of watchers.                         *)

-----------------------------------------------------------------------------
(* How often something is in a sequence.                                    *)

LEMMA TimesOccur == \A s, x : Times(s, x) = Occurs(s, x)
BY DEF Times, Occurs

LEMMA TimesIs ==
  ASSUME NEW S, NEW s \in Seq(S), NEW x
  PROVE  Times(s, x) \in Nat /\ (Times(s, x) = 0 <=> \A i \in 1..Len(s) : s[i] # x)
BY OccursIs, TimesOccur

LEMMA TimesRemoved ==
  ASSUME NEW S, NEW s \in Seq(S), NEW k \in 1..Len(s), NEW x
  PROVE  Times(RemoveAt(s, k), x) = Times(s, x) - (IF s[k] = x THEN 1 ELSE 0)
BY OccursRemoved, TimesOccur

LEMMA TimesInserted ==
  ASSUME NEW S, NEW s \in Seq(S), NEW k \in 1..(Len(s) + 1), NEW e \in S, NEW x
  PROVE  Times(InsertAt(s, k, e), x) = Times(s, x) + (IF e = x THEN 1 ELSE 0)
BY OccursInserted, TimesOccur

LEMMA TimesEmpty ==
  ASSUME NEW x
  PROVE  Times(<<>>, x) = 0
BY OccursEmpty, TimesOccur

LEMMA TimesAppended ==
  ASSUME NEW S, NEW s \in Seq(S), NEW e \in S, NEW x
  PROVE  Times(Append(s, e), x) = Times(s, x) + (IF e = x THEN 1 ELSE 0)
BY OccursAppended, TimesOccur

LEMMA TimesWithout ==
  ASSUME NEW S, NEW s \in Seq(S), NEW c
  PROVE  /\ WithoutWatcher(s, c) \in Seq(S)
         /\ Times(s, c) # 0 => Times(WithoutWatcher(s, c), c) = Times(s, c) - 1
         /\ \A d : d # c => Times(WithoutWatcher(s, c), d) = Times(s, d)
<1>1. Len(s) \in Nat /\ DOMAIN s = 1..Len(s)
  BY LenProperties
<1>2. CASE c \in ToSet(s)
  <2> DEFINE k == SelectInSeq(s, LAMBDA d : d = c)
  <2>1. k \in 1..Len(s) /\ s[k] = c
    BY <1>2, FirstIs
  <2>2. WithoutWatcher(s, c) = RemoveAt(s, k)
    BY <1>2 DEF WithoutWatcher
  <2> HIDE DEF k
  <2>3. RemoveAt(s, k) \in Seq(S)
    BY <2>1, RemovedIs
  <2>4. \A x : /\ Times(RemoveAt(s, k), x) = Times(s, x) - (IF s[k] = x THEN 1 ELSE 0)
               /\ Times(s, x) \in Nat
    BY <2>1, TimesRemoved, TimesIs
  <2>5. \A d : d # c => Times(s, d) - 0 = Times(s, d)
    BY <2>4
  <2> QED BY <2>1, <2>2, <2>3, <2>4, <2>5
<1>3. CASE c \notin ToSet(s)
  <2>1. WithoutWatcher(s, c) = s
    BY <1>3 DEF WithoutWatcher
  <2>2. \A i \in 1..Len(s) : s[i] # c
    BY <1>1, <1>3 DEF ToSet
  <2>3. Times(s, c) = 0
    BY <2>2, TimesIs
  <2> QED BY <2>1, <2>3
<1> QED BY <1>2, <1>3

-----------------------------------------------------------------------------
(* A collider that takes leave of its rectangles.  The watchers are a       *)
(* function on the number of its places that have been dealt with: there    *)
(* is one (LeavingExists), by the least number that there is none for.      *)

Leaving(h, c, r, n) ==
  h = [k \in 0..n |-> IF k = 0 THEN rectWatch[r]
                      ELSE IF collider[c].rects[k] = r THEN WithoutWatcher(h[k - 1], c) ELSE h[k - 1]]

LEMMA LeavingExists ==
  ASSUME NEW c, NEW r, NEW n \in Nat
  PROVE  \E h : Leaving(h, c, r, n)
<1> DEFINE Bad == {m \in Nat : ~\E h : Leaving(h, c, r, m)}
<1>1. SUFFICES ASSUME Bad # {}
               PROVE  FALSE
  OBVIOUS
<1> DEFINE m == Min(Bad)
<1>2. Bad \in SUBSET Nat
  OBVIOUS
<1>3. m \in Bad /\ \A k \in Bad : m <= k
  BY <1>1, <1>2, MinIs
<1>4. m \in Nat /\ ~\E h : Leaving(h, c, r, m)
  BY <1>3
<1> HIDE DEF m
<1>5. CASE m = 0
  <2> DEFINE g == [k \in 0..0 |-> rectWatch[r]]
  <2>1. \A k \in 0..0 : k = 0
    OBVIOUS
  <2>2. Leaving(g, c, r, 0)
    BY <2>1 DEF Leaving
  <2> QED BY <1>4, <1>5, <2>2
<1>6. CASE m # 0
  <2>1. m - 1 \in Nat /\ ~(m <= m - 1)
    BY <1>4, <1>6
  <2>2. m - 1 \notin Bad
    BY <1>3, <2>1
  <2>3. PICK h : Leaving(h, c, r, m - 1)
    BY <2>1, <2>2
  <2> DEFINE g == [k \in 0..m |-> IF k = 0 THEN rectWatch[r]
                                  ELSE IF collider[c].rects[k] = r THEN WithoutWatcher(h[k - 1], c) ELSE h[k - 1]]
  <2>4. \A k \in 0..(m - 1) : k \in 0..m /\ g[k] = h[k]
    <3>1. \A k \in 0..(m - 1) : k \in 0..m
      BY <1>4
    <3>2. \A k \in 0..(m - 1) :
            h[k] = IF k = 0 THEN rectWatch[r]
                   ELSE IF collider[c].rects[k] = r THEN WithoutWatcher(h[k - 1], c) ELSE h[k - 1]
      BY <2>3 DEF Leaving
    <3> QED BY <3>1, <3>2
  <2>5. \A k \in 0..m : k # 0 => k - 1 \in 0..(m - 1)
    BY <1>4
  <2>6. \A k \in 0..m : k # 0 => g[k - 1] = h[k - 1]
    BY <2>4, <2>5
  <2>7. Leaving(g, c, r, m)
    BY <2>6 DEF Leaving
  <2> QED BY <1>4, <2>7
<1> QED BY <1>5, <1>6

LEMMA LeavesIs ==
  ASSUME NEW c \in Colliders, NEW r \in Rects, rectWatch[r] \in Seq(Colliders),
         collider[c].rects \in Seq(Rects), Times(rectWatch[r], c) = Times(collider[c].rects, r)
  PROVE  /\ LeavesRect(c, r) \in Seq(Colliders)
         /\ Times(LeavesRect(c, r), c) = 0
         /\ \A d : d # c => Times(LeavesRect(c, r), d) = Times(rectWatch[r], d)
<1> DEFINE rects == collider[c].rects
           n == Len(rects)
           watch == CHOOSE h : Leaving(h, c, r, n)
           Seen(k) == {i \in 1..k : rects[i] = r}
<1>1. n \in Nat /\ DOMAIN rects = 1..n
  BY LenProperties
<1>2. Leaving(watch, c, r, n)
  BY <1>1, LeavingExists
<1>3. LeavesRect(c, r) = watch[n]
  BY DEF LeavesRect, Leaving
<1> HIDE DEF watch
<1>4. \A k \in 0..n : watch[k] = IF k = 0 THEN rectWatch[r]
                                 ELSE IF rects[k] = r THEN WithoutWatcher(watch[k - 1], c) ELSE watch[k - 1]
  BY <1>2 DEF Leaving
<1>5. \A k \in 0..n : IsFiniteSet(Seen(k)) /\ Cardinality(Seen(k)) \in Nat /\ Cardinality(Seen(k)) <= Cardinality(Seen(n))
  <2> SUFFICES ASSUME NEW k \in 0..n
               PROVE  IsFiniteSet(Seen(k)) /\ Cardinality(Seen(k)) \in Nat /\ Cardinality(Seen(k)) <= Cardinality(Seen(n))
    OBVIOUS
  <2>1. IsFiniteSet(1..n)
    BY <1>1, FS_Interval
  <2>2. Seen(n) \in SUBSET (1..n) /\ Seen(k) \in SUBSET Seen(n)
    BY <1>1
  <2>3. IsFiniteSet(Seen(n))
    BY <2>1, <2>2, FS_Subset
  <2>4. IsFiniteSet(Seen(k)) /\ Cardinality(Seen(k)) <= Cardinality(Seen(n))
    BY <2>2, <2>3, FS_Subset
  <2> QED BY <2>4, FS_CardinalityType
<1>6. \A k \in 1..n : Cardinality(Seen(k)) = Cardinality(Seen(k - 1)) + (IF rects[k] = r THEN 1 ELSE 0)
  <2> SUFFICES ASSUME NEW k \in 1..n
               PROVE  Cardinality(Seen(k)) = Cardinality(Seen(k - 1)) + (IF rects[k] = r THEN 1 ELSE 0)
    OBVIOUS
  <2>1. k - 1 \in 0..n /\ k \notin Seen(k - 1) /\ 1..k = 1..(k - 1) \cup {k}
    BY <1>1
  <2>2. IsFiniteSet(Seen(k - 1)) /\ Cardinality(Seen(k - 1)) \in Nat
    BY <1>5, <2>1
  <2>3. CASE rects[k] = r
    <3>1. Seen(k) = Seen(k - 1) \cup {k}
      BY <2>1, <2>3
    <3>2. Cardinality(Seen(k - 1) \cup {k}) = Cardinality(Seen(k - 1)) + 1
      BY <2>1, <2>2, FS_AddElement
    <3> QED BY <2>3, <3>1, <3>2
  <2>4. CASE rects[k] # r
    <3>1. Seen(k) = Seen(k - 1)
      BY <2>1, <2>4
    <3>2. Cardinality(Seen(k - 1)) + 0 = Cardinality(Seen(k - 1))
      BY <2>2
    <3> HIDE DEF Seen
    <3> QED BY <2>4, <3>1, <3>2
  <2> QED BY <2>3, <2>4
<1>7. Times(rectWatch[r], c) = Cardinality(Seen(n)) /\ Cardinality(Seen(0)) = 0
  <2>1. Seen(0) = {}
    OBVIOUS
  <2> QED BY <1>1, <2>1, FS_EmptySet DEF Times
<1> HIDE DEF Seen
<1> DEFINE Good(k) == /\ watch[k] \in Seq(Colliders)
                      /\ Times(watch[k], c) = Cardinality(Seen(n)) - Cardinality(Seen(k))
                      /\ \A d : d # c => Times(watch[k], d) = Times(rectWatch[r], d)
           Bad == {k \in 0..n : ~Good(k)}
<1>8. Good(0)
  <2>1. 0 \in 0..n /\ watch[0] = rectWatch[r] /\ n \in 0..n
    BY <1>1, <1>4
  <2>2. Cardinality(Seen(n)) \in Nat
    BY <1>5, <2>1
  <2> QED BY <1>7, <2>1, <2>2
<1>9. ASSUME NEW k \in 1..n, Good(k - 1)
      PROVE  Good(k)
  <2>1. k \in 0..n /\ k - 1 \in 0..n /\ n \in 0..n /\ k # 0
    BY <1>1
  <2>2. /\ Cardinality(Seen(k)) \in Nat /\ Cardinality(Seen(k - 1)) \in Nat
        /\ Cardinality(Seen(n)) \in Nat /\ Cardinality(Seen(k)) <= Cardinality(Seen(n))
    BY <1>5, <2>1
  <2>3. CASE rects[k] = r
    <3>1. watch[k] = WithoutWatcher(watch[k - 1], c)
      BY <1>4, <2>1, <2>3
    <3>2. Cardinality(Seen(k)) = Cardinality(Seen(k - 1)) + 1
      BY <1>6, <2>3
    <3>3. watch[k - 1] \in Seq(Colliders) /\ Times(watch[k - 1], c) = Cardinality(Seen(n)) - Cardinality(Seen(k - 1))
          /\ \A d : d # c => Times(watch[k - 1], d) = Times(rectWatch[r], d)
      BY <1>9
    <3>4. Times(watch[k - 1], c) # 0 /\ Times(watch[k - 1], c) - 1 = Cardinality(Seen(n)) - Cardinality(Seen(k))
      BY <2>2, <3>2, <3>3
    <3> HIDE DEF rects
    <3> QED BY <3>1, <3>3, <3>4, TimesWithout
  <2>4. CASE rects[k] # r
    <3>1. watch[k] = watch[k - 1]
      BY <1>4, <2>1, <2>4
    <3>2. Cardinality(Seen(k)) = Cardinality(Seen(k - 1))
      BY <1>6, <2>2, <2>4
    <3> QED BY <1>9, <3>1, <3>2
  <2> QED BY <2>3, <2>4
<1> HIDE DEF Good
<1>10. Bad = {}
  <2> SUFFICES ASSUME Bad # {}
               PROVE  FALSE
    OBVIOUS
  <2>1. Bad \in SUBSET Nat
    BY <1>1
  <2> DEFINE m == Min(Bad)
  <2>2. m \in Bad /\ \A k \in Bad : m <= k
    BY <2>1, MinIs
  <2> HIDE DEF m
  <2>3. m \in 0..n /\ ~Good(m)
    BY <2>2
  <2>4. m # 0
    BY <1>8, <2>3
  <2>5. m \in 1..n /\ m - 1 \in 0..n /\ ~(m <= m - 1)
    BY <1>1, <2>3, <2>4
  <2>6. Good(m - 1)
    BY <2>2, <2>5
  <2> QED BY <1>9, <2>3, <2>5, <2>6
<1>11. Good(n)
  <2>1. n \in 0..n
    BY <1>1
  <2> QED BY <1>10, <2>1
<1>12. Cardinality(Seen(n)) - Cardinality(Seen(n)) = 0
  <2>1. n \in 0..n
    BY <1>1
  <2>2. Cardinality(Seen(n)) \in Nat
    BY <1>5, <2>1
  <2> QED BY <2>2
<1> QED BY <1>3, <1>11, <1>12 DEF Good

-----------------------------------------------------------------------------
(* Bounds: the inductive invariant.                                         *)

ColliderState == [life : {"new", "live", "freed"}, entity : Movers \cup {Unset},
                  rects : Seq(Rects), offset : Places, active : BOOLEAN]

BoundsTyped ==
  /\ BoundsTypeOK
  /\ rectAt = [r \in DOMAIN rectAt |-> rectAt[r]] /\ DOMAIN rectAt \subseteq Rects
  /\ behind = [c \in Colliders |-> behind[c]]
  /\ \A c \in Colliders : /\ collider[c].life = "new" => collider[c].entity = Unset
                          /\ collider[c].rects \in Seq(DOMAIN rectAt)

(* A rectangle has a collider among its watchers as often as the collider   *)
(* has it.                                                                  *)
Tallied == \A r \in Rects, c \in Colliders : Times(rectWatch[r], c) = Times(collider[c].rects, r)

(* The collider alone is, or was, of the entity.                            *)
Sole(c, e) == Alive(c) /\ {d \in Colliders : collider[d].entity = e} = {c}

BoundsInv ==
  /\ BoundsTyped
  /\ Tallied
  /\ \A e \in Movers : bounds[e] = NoBounds => worldBounds[e] = NoBounds
  /\ ~astray => \A c \in Colliders, e \in Movers : Sole(c, e) => Current(c, e)

LEMMA SeqWider ==
  ASSUME NEW S, NEW T, S \subseteq T, NEW s \in Seq(S)
  PROVE  s \in Seq(T)
OBVIOUS

LEMMA InvFollows == BoundsInv => BoundsFollow
BY DEF BoundsInv, Tallied, Sole, BoundsFollow

LEMMA ColliderIs ==
  ASSUME BoundsTyped
  PROVE  /\ collider \in [Colliders -> ColliderState] /\ rectWatch \in [Rects -> Seq(Colliders)]
         /\ position \in [Movers -> Places] /\ parts \in [Movers -> Seq(Colliders)]
         /\ \A c \in Colliders : collider[c].rects \in Seq(DOMAIN rectAt)
         /\ DOMAIN rectAt \subseteq Rects
BY DEF BoundsTyped, BoundsTypeOK, ColliderState

(* What updates do to the bounds of an entity: nothing if no collider of    *)
(* it is told, and if only one can be told, what that one computes.         *)
LEMMA UpdatesSkip ==
  ASSUME NEW cs, NEW told, Updates(cs, told), NEW e \in Movers,
         \A i \in DOMAIN cs : cs[i] \in told => collider'[cs[i]].entity # e
  PROVE  bounds'[e] = bounds[e] /\ worldBounds'[e] = worldBounds[e]
<1>1. Heard(cs, told, e) = {}
  BY DEF Heard
<1> QED BY <1>1 DEF Updates

LEMMA UpdatesTell ==
  ASSUME NEW cs \in Seq(Colliders), NEW told, Updates(cs, told), NEW e \in Movers,
         NEW c \in ToSet(cs), c \in told, {d \in Colliders : collider'[d].entity = e} = {c}
  PROVE  /\ bounds'[e] = Hull(collider'[c], rectAt')
         /\ worldBounds'[e] = Moved(Hull(collider'[c], rectAt'), position'[e])
<1> DEFINE H == Heard(cs, told, e)
<1>1. Len(cs) \in Nat /\ DOMAIN cs = 1..Len(cs) /\ \A i \in 1..Len(cs) : cs[i] \in Colliders
  BY LenProperties
<1>2. collider'[c].entity = e /\ \A d \in Colliders : collider'[d].entity = e => d = c
  OBVIOUS
<1>3. H # {} /\ H \in SUBSET (0..Len(cs)) /\ \A i \in H : cs[i] = c
  <2>1. PICK i \in DOMAIN cs : cs[i] = c
    BY DEF ToSet
  <2>2. i \in H
    BY <1>2, <2>1 DEF Heard
  <2>3. H \subseteq 1..Len(cs)
    BY <1>1 DEF Heard
  <2>4. \A k \in H : cs[k] = c
    BY <1>1, <1>2 DEF Heard
  <2> QED BY <1>1, <2>2, <2>3, <2>4
<1>4. cs[Max(H)] = c
  <2>1. Max(H) \in H
    BY <1>1, <1>3, MaxIs
  <2> QED BY <1>3, <2>1
<1>5. bounds'[e] = Hull(collider'[cs[Max(H)]], rectAt') /\ worldBounds'[e] = Moved(bounds'[e], position'[e])
  BY <1>3 DEF Updates
<1> QED BY <1>4, <1>5

LEMMA UpdatesFill ==
  ASSUME NEW cs, NEW told, Updates(cs, told), NEW e \in Movers,
         bounds[e] = NoBounds => worldBounds[e] = NoBounds
  PROVE  /\ DOMAIN bounds' = Movers /\ DOMAIN worldBounds' = Movers
         /\ bounds'[e] = NoBounds => worldBounds'[e] = NoBounds
<1>1. DOMAIN bounds' = Movers /\ DOMAIN worldBounds' = Movers
  BY DEF Updates
<1>2. CASE Heard(cs, told, e) = {}
  BY <1>1, <1>2 DEF Updates
<1>3. CASE Heard(cs, told, e) # {}
  <2>1. worldBounds'[e] = Moved(bounds'[e], position'[e])
    BY <1>3 DEF Updates
  <2> QED BY <1>1, <2>1 DEF Moved
<1> QED BY <1>2, <1>3

(* What was up to date stays so, or becomes so.                             *)
LEMMA StaysCurrent ==
  ASSUME NEW c, NEW e, Current(c, e), bounds'[e] = bounds[e], worldBounds'[e] = worldBounds[e],
         position'[e] = position[e], behind[c] \subseteq behind'[c],
         Hull(collider'[c], rectAt') = Hull(collider[c], rectAt)
  PROVE  Current(c, e)'
BY DEF Current

LEMMA BecomesCurrent ==
  ASSUME NEW c, NEW e, bounds'[e] = Hull(collider'[c], rectAt'),
         worldBounds'[e] = Moved(Hull(collider'[c], rectAt'), position'[e])
  PROVE  Current(c, e)'
BY DEF Current

LEMMA SameHull ==
  ASSUME NEW k, NEW j, NEW at, NEW to, j.rects = k.rects, j.offset = k.offset,
         \A i \in DOMAIN k.rects : to[k.rects[i]] = at[k.rects[i]]
  PROVE  Hull(j, to) = Hull(k, at)
<1>1. {to[j.rects[i]] + j.offset : i \in DOMAIN j.rects} = {at[k.rects[i]] + k.offset : i \in DOMAIN k.rects}
  OBVIOUS
<1> QED BY <1>1 DEF Hull

-----------------------------------------------------------------------------
(* Bounds: the steps.                                                       *)

(* The rectangles of a collider change, and it is told.                     *)
LEMMA Rearranging ==
  ASSUME BoundsInv, ~astray, NEW c \in Colliders, Alive(c), NEW rects \in Seq(DOMAIN rectAt),
         Rearranged(c, rects), rectWatch' \in [Rects -> Seq(Colliders)],
         \A r \in Rects, d \in Colliders :
           Times(rectWatch'[r], d) = Times(IF d = c THEN rects ELSE collider[d].rects, r)
  PROVE  BoundsInv'
<1>1. /\ collider' = [collider EXCEPT ![c].rects = rects] /\ behind' = [behind EXCEPT ![c] = {}]
      /\ UNCHANGED <<position, parts, rectAt, updating>> /\ Updates(<<c>>, {c})
  BY DEF Rearranged
<1>2. /\ BoundsTyped /\ collider \in [Colliders -> ColliderState]
  BY ColliderIs DEF BoundsInv
<1>3. /\ collider' \in [Colliders -> ColliderState]
      /\ collider'[c] = [collider[c] EXCEPT !.rects = rects]
      /\ \A d \in Colliders : d # c => collider'[d] = collider[d]
  <2>1. rects \in Seq(Rects)
    BY <1>2, ColliderIs, SeqWider
  <2> QED BY <1>1, <1>2, <2>1 DEF ColliderState
<1>4. \A d \in Colliders : /\ collider'[d].entity = collider[d].entity /\ collider'[d].life = collider[d].life
                           /\ collider'[d].rects = IF d = c THEN rects ELSE collider[d].rects
  BY <1>2, <1>3 DEF ColliderState
<1>5. /\ DOMAIN bounds' = Movers /\ DOMAIN worldBounds' = Movers
      /\ \A e \in Movers : bounds'[e] = NoBounds => worldBounds'[e] = NoBounds
  <2>1. DOMAIN bounds' = Movers /\ DOMAIN worldBounds' = Movers
    BY <1>1 DEF Updates
  <2>2. \A e \in Movers : bounds[e] = NoBounds => worldBounds[e] = NoBounds
    BY DEF BoundsInv
  <2>3. \A e \in Movers : bounds'[e] = NoBounds => worldBounds'[e] = NoBounds
    BY <1>1, <2>2, UpdatesFill
  <2> QED BY <2>1, <2>3
<1>6. behind' = [d \in Colliders |-> behind'[d]] /\ behind'[c] = {} /\ \A d \in Colliders : d # c => behind'[d] = behind[d]
  BY <1>1, <1>2 DEF BoundsTyped
<1>7. BoundsTyped'
  BY <1>1, <1>2, <1>3, <1>4, <1>5, <1>6 DEF BoundsTyped, BoundsTypeOK, ColliderState
<1>8. Tallied'
  BY <1>4 DEF Tallied
<1>9. ASSUME NEW d \in Colliders, NEW e \in Movers, Sole(d, e)'
      PROVE  Current(d, e)'
  <2>1. Sole(d, e) /\ {b \in Colliders : collider'[b].entity = e} = {d}
    BY <1>4, <1>9 DEF Sole, Alive
  <2>2. Current(d, e)
    BY <2>1 DEF BoundsInv
  <2>3. CASE d = c
    <3> DEFINE cs == <<d>>
               told == {d}
    <3>1. cs \in Seq(Colliders) /\ d \in ToSet(cs) /\ d \in told /\ Updates(cs, told)
      BY <1>1, <2>3 DEF ToSet
    <3> HIDE DEF cs, told
    <3>2. /\ bounds'[e] = Hull(collider'[d], rectAt')
          /\ worldBounds'[e] = Moved(Hull(collider'[d], rectAt'), position'[e])
      BY <2>1, <3>1, UpdatesTell
    <3> QED BY <3>2, BecomesCurrent
  <2>4. CASE d # c
    <3>1. collider[c].entity # e
      BY <2>1, <2>4 DEF Sole
    <3>2. bounds'[e] = bounds[e] /\ worldBounds'[e] = worldBounds[e]
      <4>1. \A i \in DOMAIN <<c>> : <<c>>[i] \in {c} => collider'[<<c>>[i]].entity # e
        BY <1>4, <3>1
      <4> QED BY <1>1, <4>1, UpdatesSkip
    <3>3. collider'[d] = collider[d] /\ behind'[d] = behind[d] /\ position' = position /\ rectAt' = rectAt
      BY <1>1, <1>3, <1>6, <2>4
    <3> QED BY <2>2, <3>2, <3>3, StaysCurrent
  <2> QED BY <2>3, <2>4
<1> QED BY <1>5, <1>7, <1>8, <1>9 DEF BoundsInv

LEMMA AddingKeeps ==
  ASSUME BoundsInv, ~astray, NEW c \in Colliders, NEW r \in Rects, NEW i \in 1..MaxRects, AddRect(c, r, i)
  PROVE  BoundsInv'
<1> DEFINE rects == collider[c].rects
<1>1. /\ rects \in Seq(DOMAIN rectAt) /\ rectWatch \in [Rects -> Seq(Colliders)]
      /\ \A q \in Rects, d \in Colliders : Times(rectWatch[q], d) = Times(collider[d].rects, q)
      /\ \A d \in Colliders : collider[d].rects \in Seq(DOMAIN rectAt)
  BY ColliderIs DEF BoundsInv, Tallied
<1>2. /\ Alive(c) /\ r \in DOMAIN rectAt
      /\ i \in 1..(Len(rects) + 1) /\ rectWatch' = [rectWatch EXCEPT ![r] = Append(@, c)]
      /\ Rearranged(c, InsertAt(rects, i, r))
  BY DEF AddRect
<1> HIDE DEF rects
<1>3. InsertAt(rects, i, r) \in Seq(DOMAIN rectAt)
  BY <1>1, <1>2, InsertedIs
<1>4. /\ rectWatch' \in [Rects -> Seq(Colliders)] /\ rectWatch'[r] = Append(rectWatch[r], c)
      /\ \A q \in Rects : q # r => rectWatch'[q] = rectWatch[q]
  BY <1>1, <1>2
<1>5. ASSUME NEW q \in Rects, NEW d \in Colliders
      PROVE  Times(rectWatch'[q], d) = Times(IF d = c THEN InsertAt(rects, i, r) ELSE collider[d].rects, q)
  <2>1. Times(rectWatch[q], d) = Times(collider[d].rects, q) /\ Times(rectWatch[q], d) \in Nat
    BY <1>1, TimesIs
  <2>2. Times(InsertAt(rects, i, r), q) = Times(rects, q) + (IF r = q THEN 1 ELSE 0)
    BY <1>1, <1>2, TimesInserted
  <2>3. Times(Append(rectWatch[r], c), d) = Times(rectWatch[r], d) + (IF c = d THEN 1 ELSE 0)
    BY <1>1, TimesAppended
  <2>4. CASE q = r /\ d = c
    BY <1>4, <2>1, <2>2, <2>3, <2>4 DEF rects
  <2>5. CASE q = r /\ d # c
    <3>1. Times(rectWatch[q], d) + 0 = Times(rectWatch[q], d)
      BY <2>1
    <3> QED BY <1>4, <2>1, <2>3, <2>5, <3>1
  <2>6. CASE q # r /\ d = c
    <3>1. Times(rects, q) + 0 = Times(rects, q)
      BY <2>1, <2>6 DEF rects
    <3> QED BY <1>4, <2>1, <2>2, <2>6, <3>1 DEF rects
  <2>7. CASE q # r /\ d # c
    BY <1>4, <2>1, <2>7
  <2> QED BY <2>4, <2>5, <2>6, <2>7
<1> QED BY <1>2, <1>3, <1>4, <1>5, Rearranging

LEMMA DroppingKeeps ==
  ASSUME BoundsInv, ~astray, NEW c \in Colliders, Alive(c), NEW i \in 1..Len(collider[c].rects), Dropped(c, i)
  PROVE  BoundsInv'
<1> DEFINE rects == collider[c].rects
           r == rects[i]
<1>1. /\ rects \in Seq(DOMAIN rectAt) /\ rectWatch \in [Rects -> Seq(Colliders)]
      /\ \A q \in Rects, d \in Colliders : Times(rectWatch[q], d) = Times(collider[d].rects, q)
      /\ \A d \in Colliders : collider[d].rects \in Seq(DOMAIN rectAt)
  BY ColliderIs DEF BoundsInv, Tallied
<1>2. r \in Rects /\ i \in 1..Len(rects)
  BY <1>1, ColliderIs DEF BoundsInv
<1>3. /\ rectWatch' = [rectWatch EXCEPT ![r] = WithoutWatcher(@, c)]
      /\ Rearranged(c, RemoveAt(rects, i))
  BY DEF Dropped
<1>4. Times(rects, r) # 0
  BY <1>1, <1>2, TimesIs
<1> HIDE DEF rects
<1>5. RemoveAt(rects, i) \in Seq(DOMAIN rectAt)
  BY <1>1, <1>2, RemovedIs
<1>6. \A q \in Rects : Times(RemoveAt(rects, i), q) = Times(rects, q) - (IF r = q THEN 1 ELSE 0)
  BY <1>1, <1>2, TimesRemoved
<1> HIDE DEF r
<1>7. /\ WithoutWatcher(rectWatch[r], c) \in Seq(Colliders)
      /\ Times(WithoutWatcher(rectWatch[r], c), c) = Times(rects, r) - 1
      /\ \A d \in Colliders : d # c => Times(WithoutWatcher(rectWatch[r], c), d) = Times(collider[d].rects, r)
  <2>1. rectWatch[r] \in Seq(Colliders) /\ Times(rectWatch[r], c) = Times(rects, r)
        /\ \A d \in Colliders : Times(rectWatch[r], d) = Times(collider[d].rects, r)
    BY <1>1, <1>2 DEF rects
  <2> QED BY <1>4, <2>1, TimesWithout
<1>8. /\ rectWatch' \in [Rects -> Seq(Colliders)] /\ rectWatch'[r] = WithoutWatcher(rectWatch[r], c)
      /\ \A q \in Rects : q # r => rectWatch'[q] = rectWatch[q]
  BY <1>1, <1>2, <1>3, <1>7
<1>9. ASSUME NEW q \in Rects, NEW d \in Colliders
      PROVE  Times(rectWatch'[q], d) = Times(IF d = c THEN RemoveAt(rects, i) ELSE collider[d].rects, q)
  <2>1. CASE q = r
    BY <1>6, <1>7, <1>8, <2>1
  <2>2. CASE q # r
    <3>1. Times(rects, q) \in Nat /\ Times(rects, q) - 0 = Times(rects, q)
      BY <1>1, TimesIs
    <3>2. Times(rectWatch'[q], d) = Times(collider[d].rects, q)
      BY <1>1, <1>8, <2>2
    <3>3. Times(RemoveAt(rects, i), q) = Times(rects, q)
      BY <1>6, <2>2, <3>1
    <3> QED BY <3>2, <3>3 DEF rects
  <2> QED BY <2>1, <2>2
<1> QED BY <1>3, <1>5, <1>8, <1>9, Rearranging

LEMMA RemovingKeeps ==
  ASSUME BoundsInv, ~astray, NEW c \in Colliders,
         PopRect(c) \/ ShiftRect(c) \/ \E r \in Rects : RemoveRect(c, r)
  PROVE  BoundsInv'
<1>1. collider[c].rects \in Seq(DOMAIN rectAt)
  BY ColliderIs DEF BoundsInv
<1>2. ASSUME collider[c].rects # <<>>
      PROVE  1 \in 1..Len(collider[c].rects) /\ Len(collider[c].rects) \in 1..Len(collider[c].rects)
  BY <1>1, <1>2, EmptySeq
<1>3. CASE PopRect(c) \/ ShiftRect(c)
  BY <1>2, <1>3, DroppingKeeps DEF PopRect, ShiftRect
<1>4. ASSUME NEW r \in Rects, RemoveRect(c, r)
      PROVE  BoundsInv'
  <2> DEFINE i == SelectInSeq(collider[c].rects, LAMBDA q : q = r)
  <2>1. i \in 1..Len(collider[c].rects)
    BY <1>1, <1>4, FirstIs DEF RemoveRect
  <2>2. Alive(c) /\ Dropped(c, i)
    BY <1>4 DEF RemoveRect
  <2> HIDE DEF i
  <2> QED BY <2>1, <2>2, DroppingKeeps
<1> QED BY <1>3, <1>4

(* A rectangle moves: the colliders that have it are told, and those that   *)
(* are not do not have it.                                                  *)
LEMMA SettingKeeps ==
  ASSUME BoundsInv, ~astray, NEW r \in Rects, NEW x \in Places, SetRect(r, x)
  PROVE  BoundsInv'
<1>1. /\ r \in DOMAIN rectAt /\ rectAt' = [rectAt EXCEPT ![r] = x]
      /\ UNCHANGED <<position, collider, parts, rectWatch, updating>> /\ Updates(rectWatch[r], Colliders)
      /\ behind' = [c \in Colliders |-> IF c \in ToSet(rectWatch[r]) THEN {} ELSE behind[c]]
  BY DEF SetRect
<1>2. /\ BoundsTyped /\ Tallied /\ collider \in [Colliders -> ColliderState]
      /\ rectWatch[r] \in Seq(Colliders)
  BY ColliderIs DEF BoundsInv
<1>3. /\ DOMAIN bounds' = Movers /\ DOMAIN worldBounds' = Movers
      /\ \A e \in Movers : bounds'[e] = NoBounds => worldBounds'[e] = NoBounds
  <2>1. DOMAIN bounds' = Movers /\ DOMAIN worldBounds' = Movers
    BY <1>1 DEF Updates
  <2>2. \A e \in Movers : bounds[e] = NoBounds => worldBounds[e] = NoBounds
    BY DEF BoundsInv
  <2>3. \A e \in Movers : bounds'[e] = NoBounds => worldBounds'[e] = NoBounds
    BY <1>1, <2>2, UpdatesFill
  <2> QED BY <2>1, <2>3
<1>4. /\ rectAt' = [q \in DOMAIN rectAt' |-> rectAt'[q]] /\ DOMAIN rectAt' = DOMAIN rectAt
      /\ \A q \in DOMAIN rectAt' : rectAt'[q] \in Places
      /\ \A q \in DOMAIN rectAt : q # r => rectAt'[q] = rectAt[q]
  BY <1>1, <1>2 DEF BoundsTyped, BoundsTypeOK
<1>5. BoundsTyped'
  BY <1>1, <1>2, <1>3, <1>4 DEF BoundsTyped, BoundsTypeOK
<1>6. Tallied'
  BY <1>1, <1>2 DEF Tallied
<1>7. ASSUME NEW d \in Colliders, NEW e \in Movers, Sole(d, e)'
      PROVE  Current(d, e)'
  <2>1. Sole(d, e) /\ {b \in Colliders : collider'[b].entity = e} = {d}
    BY <1>1, <1>7 DEF Sole, Alive
  <2>2. Current(d, e)
    BY <2>1 DEF BoundsInv
  <2>3. CASE d \in ToSet(rectWatch[r])
    <3>1. /\ bounds'[e] = Hull(collider'[d], rectAt')
          /\ worldBounds'[e] = Moved(Hull(collider'[d], rectAt'), position'[e])
      <4> DEFINE cs == rectWatch[r]
      <4>1. cs \in Seq(Colliders) /\ Updates(cs, Colliders) /\ d \in ToSet(cs)
        BY <1>1, <1>2, <2>3
      <4> HIDE DEF cs
      <4> QED BY <2>1, <4>1, UpdatesTell
    <3> QED BY <3>1, BecomesCurrent
  <2>4. CASE d \notin ToSet(rectWatch[r])
    <3>1. Len(rectWatch[r]) \in Nat /\ DOMAIN rectWatch[r] = 1..Len(rectWatch[r])
      BY <1>2, LenProperties
    <3>2. \A i \in DOMAIN rectWatch[r] : rectWatch[r][i] # d /\ rectWatch[r][i] \in Colliders
      BY <1>2, <2>4, <3>1 DEF ToSet
    <3>3. \A i \in DOMAIN rectWatch[r] : collider'[rectWatch[r][i]].entity # e
      BY <2>1, <3>2
    <3>4. bounds'[e] = bounds[e] /\ worldBounds'[e] = worldBounds[e]
      BY <1>1, <3>3, UpdatesSkip
    <3>5. collider[d].rects \in Seq(DOMAIN rectAt) /\ Times(collider[d].rects, r) = 0
      <4>1. Times(rectWatch[r], d) = 0
        BY <1>2, <3>1, <3>2, TimesIs
      <4> QED BY <1>2, <4>1 DEF Tallied, BoundsTyped
    <3>6. \A i \in DOMAIN collider[d].rects : collider[d].rects[i] # r /\ collider[d].rects[i] \in DOMAIN rectAt
      BY <3>5, LenProperties, TimesIs
    <3>7. Hull(collider'[d], rectAt') = Hull(collider[d], rectAt)
      <4>1. collider'[d].rects = collider[d].rects /\ collider'[d].offset = collider[d].offset
        BY <1>1
      <4>2. \A i \in DOMAIN collider[d].rects : rectAt'[collider[d].rects[i]] = rectAt[collider[d].rects[i]]
        BY <1>4, <3>6
      <4> QED BY <4>1, <4>2, SameHull
    <3>8. behind'[d] = behind[d] /\ position' = position
      BY <1>1, <2>4
    <3> QED BY <2>2, <3>4, <3>7, <3>8, StaysCurrent
  <2> QED BY <2>3, <2>4
<1> QED BY <1>3, <1>5, <1>6, <1>7 DEF BoundsInv

(* Steps that move nothing: no collider is told, and one whose offset       *)
(* changes is behind.                                                       *)
LEMMA QuietKeeps ==
  ASSUME BoundsInv, ~astray, UNCHANGED <<position, bounds, worldBounds, rectAt, rectWatch, updating, astray>>,
         collider' \in [Colliders -> ColliderState], parts' \in [Movers -> Seq(Colliders)],
         behind' = [c \in Colliders |-> behind'[c]],
         \A c \in Colliders :
           /\ collider'[c].rects = collider[c].rects /\ collider'[c].entity = collider[c].entity
           /\ collider'[c].life = "new" => collider[c].life = "new"
           /\ collider'[c].life = "live" => collider[c].life = "live" \/ collider[c].entity = Unset
           /\ behind[c] \subseteq behind'[c]
           /\ collider'[c].offset = collider[c].offset \/ "offset" \in behind'[c]
  PROVE  BoundsInv'
<1>1. BoundsTyped'
  BY DEF BoundsInv, BoundsTyped, BoundsTypeOK, ColliderState
<1>2. Tallied'
  BY DEF BoundsInv, Tallied
<1>3. ASSUME NEW c \in Colliders, NEW e \in Movers, Sole(c, e)'
      PROVE  Current(c, e)'
  <2>1. {d \in Colliders : collider[d].entity = e} = {c} /\ collider[c].entity = e /\ e # Unset
    BY <1>3, BoundsAssumption DEF Sole
  <2>2. collider'[c].life = "live"
    BY <1>3 DEF Sole, Alive
  <2>3. Current(c, e)
    BY <2>1, <2>2 DEF BoundsInv, Sole, Alive
  <2>4. CASE collider'[c].offset = collider[c].offset
    <3>1. Hull(collider'[c], rectAt') = Hull(collider[c], rectAt)
      BY <2>4, SameHull
    <3> QED BY <2>3, <3>1, StaysCurrent
  <2>5. CASE "offset" \in behind'[c]
    BY <2>5 DEF Current
  <2> QED BY <2>4, <2>5
<1> QED BY <1>1, <1>2, <1>3 DEF BoundsInv

LEMMA QuietSteps ==
  ASSUME BoundsInv, ~astray, NEW c \in Colliders,
         \/ NewComponent(c) \/ SetActive(c)
         \/ \E x \in Places : SetOffset(c, x)
         \/ \E e \in Movers : AttachUntold(e, c) \/ Detach(e, c)
  PROVE  BoundsInv'
<1>1. /\ collider \in [Colliders -> ColliderState] /\ parts \in [Movers -> Seq(Colliders)]
      /\ behind = [d \in Colliders |-> behind[d]]
  BY ColliderIs DEF BoundsInv, BoundsTyped
<1>2. CASE NewComponent(c)
  <2>1. /\ collider[c].life = "new" /\ collider' = [collider EXCEPT ![c].life = "live"]
        /\ UNCHANGED <<position, bounds, worldBounds, parts, rectAt, rectWatch, updating, astray, behind>>
    BY <1>2 DEF NewComponent
  <2>2. /\ collider' \in [Colliders -> ColliderState]
        /\ \A d \in Colliders :
             /\ collider'[d].rects = collider[d].rects /\ collider'[d].entity = collider[d].entity
             /\ collider'[d].offset = collider[d].offset
             /\ collider'[d].life = IF d = c THEN "live" ELSE collider[d].life
    BY <1>1, <2>1 DEF ColliderState
  <2>3. collider[c].entity = Unset
    BY <2>1 DEF BoundsInv, BoundsTyped
  <2> QED BY <1>1, <2>1, <2>2, <2>3, QuietKeeps
<1>3. CASE SetActive(c)
  <2>1. /\ collider' = [collider EXCEPT ![c].active = ~@]
        /\ UNCHANGED <<position, bounds, worldBounds, parts, rectAt, rectWatch, updating, astray, behind>>
    BY <1>3 DEF SetActive
  <2>2. /\ collider' \in [Colliders -> ColliderState]
        /\ \A d \in Colliders :
             /\ collider'[d].rects = collider[d].rects /\ collider'[d].entity = collider[d].entity
             /\ collider'[d].offset = collider[d].offset /\ collider'[d].life = collider[d].life
    BY <1>1, <2>1 DEF ColliderState
  <2> QED BY <1>1, <2>1, <2>2, QuietKeeps
<1>4. ASSUME NEW x \in Places, SetOffset(c, x)
      PROVE  BoundsInv'
  <2>1. /\ collider' = [collider EXCEPT ![c].offset = x] /\ behind' = [behind EXCEPT ![c] = @ \cup {"offset"}]
        /\ UNCHANGED <<position, bounds, worldBounds, parts, rectAt, rectWatch, updating, astray>>
    BY <1>4 DEF SetOffset
  <2>2. /\ collider' \in [Colliders -> ColliderState]
        /\ \A d \in Colliders :
             /\ collider'[d].rects = collider[d].rects /\ collider'[d].entity = collider[d].entity
             /\ d # c => collider'[d].offset = collider[d].offset
             /\ collider'[d].life = collider[d].life
    BY <1>1, <2>1 DEF ColliderState
  <2>3. /\ behind' = [d \in Colliders |-> behind'[d]] /\ behind'[c] = behind[c] \cup {"offset"}
        /\ \A d \in Colliders : behind[d] \subseteq behind'[d]
    BY <1>1, <2>1
  <2>4. \A d \in Colliders : collider'[d].offset = collider[d].offset \/ "offset" \in behind'[d]
    BY <2>2, <2>3
  <2> QED BY <1>1, <2>1, <2>2, <2>3, <2>4, QuietKeeps
<1>5. ASSUME NEW e \in Movers, AttachUntold(e, c) \/ Detach(e, c)
      PROVE  BoundsInv'
  <2>1. UNCHANGED <<position, bounds, worldBounds, collider, rectAt, rectWatch, updating, astray, behind>>
    BY <1>5 DEF AttachUntold, Detach
  <2>2. CASE AttachUntold(e, c)
    <3>1. <<c>> \o parts[e] \in Seq(Colliders)
      BY <1>1
    <3>2. parts' \in [Movers -> Seq(Colliders)]
      BY <1>1, <2>2, <3>1 DEF AttachUntold
    <3> QED BY <1>1, <2>1, <3>2, QuietKeeps
  <2>3. CASE Detach(e, c)
    <3> DEFINE i == SelectInSeq(parts[e], LAMBDA d : d = c)
    <3>1. i \in 1..Len(parts[e])
      BY <1>1, <2>3, FirstIs DEF Detach
    <3>2. parts' = [parts EXCEPT ![e] = RemoveAt(@, i)]
      BY <2>3 DEF Detach
    <3> HIDE DEF i
    <3>3. RemoveAt(parts[e], i) \in Seq(Colliders)
      BY <1>1, <3>1, RemovedIs
    <3>4. parts' \in [Movers -> Seq(Colliders)]
      BY <1>1, <3>2, <3>3
    <3> QED BY <1>1, <2>1, <3>4, QuietKeeps
  <2> QED BY <1>5, <2>2, <2>3
<1> QED BY <1>2, <1>3, <1>4, <1>5

(* An entity moves: its active colliders are told, the others are behind.   *)
LEMMA MovingKeeps ==
  ASSUME BoundsInv, ~astray, NEW m \in Movers, NEW x \in Places, SetPosition(m, x)
  PROVE  BoundsInv'
<1>1. /\ position' = [position EXCEPT ![m] = x]
      /\ UNCHANGED <<collider, rectAt, parts, rectWatch, updating>> /\ Updates(parts[m], Watchers(m))
      /\ behind' = [c \in Colliders |->
                      IF c \in Watchers(m) THEN {}
                      ELSE behind[c] \cup (IF collider[c].entity = m THEN {"position"} ELSE {})]
  BY DEF SetPosition
<1>2. /\ BoundsTyped /\ Tallied /\ collider \in [Colliders -> ColliderState]
      /\ position \in [Movers -> Places] /\ parts[m] \in Seq(Colliders)
  BY ColliderIs DEF BoundsInv
<1>3. /\ DOMAIN bounds' = Movers /\ DOMAIN worldBounds' = Movers
      /\ \A e \in Movers : bounds'[e] = NoBounds => worldBounds'[e] = NoBounds
  <2>1. DOMAIN bounds' = Movers /\ DOMAIN worldBounds' = Movers
    BY <1>1 DEF Updates
  <2>2. \A e \in Movers : bounds[e] = NoBounds => worldBounds[e] = NoBounds
    BY DEF BoundsInv
  <2>3. \A e \in Movers : bounds'[e] = NoBounds => worldBounds'[e] = NoBounds
    BY <1>1, <2>2, UpdatesFill
  <2> QED BY <2>1, <2>3
<1>4. position' \in [Movers -> Places] /\ \A e \in Movers : e # m => position'[e] = position[e]
  BY <1>1, <1>2
<1>5. BoundsTyped'
  BY <1>1, <1>2, <1>3, <1>4 DEF BoundsTyped, BoundsTypeOK
<1>6. Tallied'
  BY <1>1, <1>2 DEF Tallied
<1>7. ASSUME NEW c \in Colliders, NEW e \in Movers, Sole(c, e)'
      PROVE  Current(c, e)'
  <2>1. Sole(c, e) /\ {d \in Colliders : collider'[d].entity = e} = {c} /\ collider[c].entity = e
    BY <1>1, <1>7 DEF Sole, Alive
  <2>2. Current(c, e)
    BY <2>1 DEF BoundsInv
  <2>3. CASE c \in Watchers(m)
    <3>1. c \in ToSet(parts[m])
      BY <2>3 DEF Watchers
    <3>2. /\ bounds'[e] = Hull(collider'[c], rectAt')
          /\ worldBounds'[e] = Moved(Hull(collider'[c], rectAt'), position'[e])
      BY <1>1, <1>2, <2>1, <2>3, <3>1, UpdatesTell
    <3> QED BY <3>2, BecomesCurrent
  <2>4. CASE c \notin Watchers(m)
    <3>1. Len(parts[m]) \in Nat /\ DOMAIN parts[m] = 1..Len(parts[m])
      BY <1>2, LenProperties
    <3>2. \A i \in DOMAIN parts[m] : parts[m][i] \in Colliders
      BY <1>2, <3>1
    <3>3. \A i \in DOMAIN parts[m] : parts[m][i] \in Watchers(m) => collider'[parts[m][i]].entity # e
      BY <2>1, <2>4, <3>2
    <3>4. bounds'[e] = bounds[e] /\ worldBounds'[e] = worldBounds[e]
      BY <1>1, <3>3, UpdatesSkip
    <3>5. behind'[c] = behind[c] \cup (IF e = m THEN {"position"} ELSE {})
      BY <1>1, <2>1, <2>4
    <3>6. CASE e # m
      <4>1. /\ position'[e] = position[e] /\ behind[c] \subseteq behind'[c]
            /\ Hull(collider'[c], rectAt') = Hull(collider[c], rectAt)
        BY <1>1, <1>4, <3>5, <3>6
      <4> QED BY <2>2, <3>4, <4>1, StaysCurrent
    <3>7. CASE e = m
      <4>1. behind'[c] # {} /\ ("offset" \notin behind'[c] => "offset" \notin behind[c])
        BY <3>5, <3>7
      <4>2. Hull(collider'[c], rectAt') = Hull(collider[c], rectAt)
        BY <1>1
      <4> QED BY <2>2, <3>4, <4>1, <4>2 DEF Current
    <3> QED BY <3>6, <3>7
  <2> QED BY <2>3, <2>4
<1> QED BY <1>3, <1>5, <1>6, <1>7 DEF BoundsInv

(* A collider comes to an entity, and is told.                              *)
LEMMA AttachingKeeps ==
  ASSUME BoundsInv, ~astray, NEW m \in Movers, NEW c \in Colliders, Attach(m, c)
  PROVE  BoundsInv'
<1>1. /\ Alive(c) /\ collider[c].entity = Unset
      /\ parts' = [parts EXCEPT ![m] = Append(@, c)] /\ collider' = [collider EXCEPT ![c].entity = m]
      /\ updating' = updating \cup {c} /\ behind' = [behind EXCEPT ![c] = {}]
      /\ UNCHANGED <<position, rectAt, rectWatch>> /\ Updates(<<c>>, {c})
  BY DEF Attach, Loose
<1>2. /\ BoundsTyped /\ Tallied /\ collider \in [Colliders -> ColliderState]
      /\ parts \in [Movers -> Seq(Colliders)]
  BY ColliderIs DEF BoundsInv
<1>3. /\ collider' \in [Colliders -> ColliderState]
      /\ \A d \in Colliders : /\ collider'[d].rects = collider[d].rects /\ collider'[d].life = collider[d].life
                              /\ collider'[d].offset = collider[d].offset
                              /\ collider'[d].entity = IF d = c THEN m ELSE collider[d].entity
  BY <1>1, <1>2 DEF ColliderState
<1>4. parts' \in [Movers -> Seq(Colliders)]
  <2>1. Append(parts[m], c) \in Seq(Colliders)
    BY <1>2
  <2> QED BY <1>1, <1>2, <2>1
<1>5. /\ DOMAIN bounds' = Movers /\ DOMAIN worldBounds' = Movers
      /\ \A e \in Movers : bounds'[e] = NoBounds => worldBounds'[e] = NoBounds
  <2>1. DOMAIN bounds' = Movers /\ DOMAIN worldBounds' = Movers
    BY <1>1 DEF Updates
  <2>2. \A e \in Movers : bounds[e] = NoBounds => worldBounds[e] = NoBounds
    BY DEF BoundsInv
  <2>3. \A e \in Movers : bounds'[e] = NoBounds => worldBounds'[e] = NoBounds
    BY <1>1, <2>2, UpdatesFill
  <2> QED BY <2>1, <2>3
<1>6. behind' = [d \in Colliders |-> behind'[d]] /\ \A d \in Colliders : d # c => behind'[d] = behind[d]
  BY <1>1, <1>2 DEF BoundsTyped
<1>7. collider[c].life # "new"
  BY <1>1 DEF Alive
<1>8. BoundsTyped'
  BY <1>1, <1>2, <1>3, <1>4, <1>5, <1>6, <1>7 DEF BoundsTyped, BoundsTypeOK, ColliderState
<1>9. Tallied'
  BY <1>1, <1>2, <1>3 DEF Tallied
<1>10. ASSUME NEW d \in Colliders, NEW e \in Movers, Sole(d, e)'
       PROVE  Current(d, e)'
  <2>1. {b \in Colliders : collider'[b].entity = e} = {d} /\ collider'[d].entity = e
    BY <1>10 DEF Sole
  <2>2. CASE e = m
    <3>1. d = c
      BY <1>3, <2>1, <2>2
    <3> DEFINE cs == <<d>>
               told == {d}
    <3>2. cs \in Seq(Colliders) /\ d \in ToSet(cs) /\ d \in told /\ Updates(cs, told)
      BY <1>1, <3>1 DEF ToSet
    <3> HIDE DEF cs, told
    <3>3. /\ bounds'[e] = Hull(collider'[d], rectAt')
          /\ worldBounds'[e] = Moved(Hull(collider'[d], rectAt'), position'[e])
      BY <2>1, <3>2, UpdatesTell
    <3> QED BY <3>3, BecomesCurrent
  <2>3. CASE e # m
    <3>1. d # c /\ collider'[c].entity # e
      BY <1>3, <2>1, <2>3
    <3>2. {b \in Colliders : collider[b].entity = e} = {d}
      <4>1. collider[c].entity # e
        BY <1>1, BoundsAssumption
      <4>2. \A b \in Colliders : collider[b].entity = e <=> collider'[b].entity = e
        BY <1>3, <3>1, <4>1
      <4> QED BY <2>1, <4>2
    <3>3. Current(d, e)
      BY <1>3, <1>10, <3>2 DEF BoundsInv, Sole, Alive
    <3>4. bounds'[e] = bounds[e] /\ worldBounds'[e] = worldBounds[e]
      <4>1. \A i \in DOMAIN <<c>> : <<c>>[i] \in {c} => collider'[<<c>>[i]].entity # e
        BY <3>1
      <4> QED BY <1>1, <4>1, UpdatesSkip
    <3>5. Hull(collider'[d], rectAt') = Hull(collider[d], rectAt)
      <4>1. collider'[d] = collider[d] /\ rectAt' = rectAt
        BY <1>1, <1>2, <3>1
      <4> QED BY <4>1
    <3> QED BY <1>1, <1>6, <3>1, <3>3, <3>4, <3>5, StaysCurrent
  <2> QED BY <2>2, <2>3
<1> QED BY <1>5, <1>8, <1>9, <1>10 DEF BoundsInv

LEMMA FreeingKeeps ==
  ASSUME BoundsInv, ~astray, NEW c \in Colliders, FreeCollider(c)
  PROVE  BoundsInv'
<1>1. /\ rectWatch' = [r \in Rects |-> LeavesRect(c, r)]
      /\ collider' = [collider EXCEPT ![c].life = "freed", ![c].rects = <<>>]
      /\ updating' = updating \ {c}
      /\ UNCHANGED <<position, bounds, worldBounds, parts, rectAt, astray, behind>>
  BY DEF FreeCollider
<1>2. /\ BoundsTyped /\ Tallied /\ collider \in [Colliders -> ColliderState]
      /\ rectWatch \in [Rects -> Seq(Colliders)]
  BY ColliderIs DEF BoundsInv
<1>3. <<>> \in Seq(Rects) /\ <<>> \in Seq(DOMAIN rectAt)
  OBVIOUS
<1>4. /\ collider' \in [Colliders -> ColliderState]
      /\ \A d \in Colliders : /\ collider'[d].rects = IF d = c THEN <<>> ELSE collider[d].rects
                              /\ collider'[d].life = IF d = c THEN "freed" ELSE collider[d].life
                              /\ collider'[d].offset = collider[d].offset
                              /\ collider'[d].entity = collider[d].entity
  <2> DEFINE old == collider[c]
             new == [old EXCEPT !.life = "freed", !.rects = <<>>]
  <2>1. old \in ColliderState
    BY <1>2
  <2>2. collider' = [collider EXCEPT ![c] = new]
    BY <1>1, <1>2
  <2>3. /\ new \in ColliderState /\ new.rects = <<>> /\ new.life = "freed"
        /\ new.offset = old.offset /\ new.entity = old.entity
    <3> HIDE DEF old
    <3> QED BY <1>3, <2>1 DEF ColliderState
  <2> HIDE DEF new
  <2>4. collider' \in [Colliders -> ColliderState]
    BY <1>2, <2>2, <2>3
  <2>5. collider'[c] = new /\ \A d \in Colliders : d # c => collider'[d] = collider[d]
    BY <1>2, <2>2
  <2> QED BY <2>3, <2>4, <2>5
<1>5. ASSUME NEW r \in Rects
      PROVE  /\ rectWatch'[r] \in Seq(Colliders) /\ Times(rectWatch'[r], c) = 0
             /\ \A d : d # c => Times(rectWatch'[r], d) = Times(rectWatch[r], d)
  <2>1. /\ rectWatch[r] \in Seq(Colliders) /\ collider[c].rects \in Seq(Rects)
        /\ Times(rectWatch[r], c) = Times(collider[c].rects, r)
    BY <1>2 DEF Tallied, ColliderState
  <2>2. rectWatch'[r] = LeavesRect(c, r)
    BY <1>1
  <2> QED BY <2>1, <2>2, LeavesIs
<1>6. rectWatch' \in [Rects -> Seq(Colliders)]
  BY <1>1, <1>5
<1>7. BoundsTyped'
  <2>1. BoundsTypeOK'
    BY <1>1, <1>2, <1>4, <1>6 DEF BoundsTyped, BoundsTypeOK, ColliderState
  <2>2. /\ rectAt' = [r \in DOMAIN rectAt' |-> rectAt'[r]] /\ DOMAIN rectAt' \subseteq Rects
        /\ behind' = [d \in Colliders |-> behind'[d]]
    BY <1>1, <1>2 DEF BoundsTyped
  <2>3. \A d \in Colliders : /\ collider'[d].life = "new" => collider'[d].entity = Unset
                             /\ collider'[d].rects \in Seq(DOMAIN rectAt')
    <3>1. \A d \in Colliders : /\ collider[d].life = "new" => collider[d].entity = Unset
                               /\ collider[d].rects \in Seq(DOMAIN rectAt)
      BY <1>2 DEF BoundsTyped
    <3>2. rectAt' = rectAt
      BY <1>1
    <3> QED BY <1>3, <1>4, <3>1, <3>2
  <2> QED BY <2>1, <2>2, <2>3 DEF BoundsTyped
<1>8. Tallied'
  <2> SUFFICES ASSUME NEW r \in Rects, NEW d \in Colliders
               PROVE  Times(rectWatch'[r], d) = Times(collider'[d].rects, r)
    BY DEF Tallied
  <2>1. CASE d = c
    <3>2. Times(<<>>, r) = 0
      BY TimesEmpty
    <3> QED BY <1>4, <1>5, <2>1, <3>2
  <2>2. CASE d # c
    BY <1>2, <1>4, <1>5, <2>2 DEF Tallied
  <2> QED BY <2>1, <2>2
<1>9. ASSUME NEW d \in Colliders, NEW e \in Movers, Sole(d, e)'
      PROVE  Current(d, e)'
  <2>1. d # c /\ Sole(d, e)
    BY <1>4, <1>9 DEF Sole, Alive
  <2>2. Current(d, e)
    BY <2>1 DEF BoundsInv
  <2>3. Hull(collider'[d], rectAt') = Hull(collider[d], rectAt)
    BY <1>1, <1>4, <2>1, SameHull
  <2> QED BY <1>1, <2>2, <2>3, StaysCurrent
<1> QED BY <1>1, <1>7, <1>8, <1>9 DEF BoundsInv

(* The system's turn: the position is heard of, an offset is not.           *)
LEMMA SystemKeeps ==
  ASSUME BoundsInv, ~astray, ColliderSystem
  PROVE  BoundsInv'
<1>1. /\ worldBounds' = [e \in Movers |->
           IF e \in {collider[c].entity : c \in updating} /\ bounds[e] # NoBounds
           THEN Moved(bounds[e], position[e]) ELSE worldBounds[e]]
      /\ behind' = [c \in Colliders |-> IF c \in updating THEN behind[c] \ {"position"} ELSE behind[c]]
      /\ UNCHANGED <<position, bounds, parts, collider, rectAt, rectWatch, updating, astray>>
  BY DEF ColliderSystem
<1>2. BoundsTyped /\ Tallied /\ updating \subseteq Colliders
  BY DEF BoundsInv, BoundsTyped, BoundsTypeOK
<1>3. BoundsTyped'
  BY <1>1, <1>2 DEF BoundsTyped, BoundsTypeOK
<1>4. Tallied'
  BY <1>1, <1>2 DEF Tallied
<1>5. \A e \in Movers : bounds'[e] = NoBounds => worldBounds'[e] = NoBounds
  BY <1>1 DEF BoundsInv
<1>6. ASSUME NEW c \in Colliders, NEW e \in Movers, Sole(c, e)'
      PROVE  Current(c, e)'
  <2>1. Sole(c, e) /\ collider[c].entity = e /\ \A d \in Colliders : collider[d].entity = e => d = c
    BY <1>1, <1>6 DEF Sole, Alive
  <2>2. Current(c, e) /\ (bounds[e] = NoBounds => worldBounds[e] = NoBounds)
    BY <2>1 DEF BoundsInv
  <2>3. CASE c \notin updating
    <3>1. e \notin {collider[d].entity : d \in updating}
      BY <1>2, <2>1, <2>3
    <3>2. worldBounds'[e] = worldBounds[e] /\ behind'[c] = behind[c]
      BY <1>1, <2>3, <3>1
    <3>3. bounds' = bounds /\ position' = position /\ Hull(collider'[c], rectAt') = Hull(collider[c], rectAt)
      BY <1>1
    <3> QED BY <2>2, <3>2, <3>3, StaysCurrent
  <2>4. CASE c \in updating
    <3>1. behind'[c] = behind[c] \ {"position"} /\ e \in {collider[d].entity : d \in updating}
      BY <1>1, <2>1, <2>4
    <3>2. bounds'[e] = bounds[e] /\ position'[e] = position[e] /\ Hull(collider'[c], rectAt') = Hull(collider[c], rectAt)
      BY <1>1
    <3>3. "offset" \notin behind'[c] => "offset" \notin behind[c]
      BY <3>1
    <3>4. ASSUME behind'[c] = {}
          PROVE  worldBounds'[e] = Moved(Hull(collider[c], rectAt), position[e])
      <4>1. bounds[e] = Hull(collider[c], rectAt)
        BY <2>2, <3>3, <3>4 DEF Current
      <4>2. CASE bounds[e] # NoBounds
        BY <1>1, <3>1, <4>1, <4>2
      <4>3. CASE bounds[e] = NoBounds
        <5>1. worldBounds'[e] = NoBounds
          BY <1>1, <2>2, <4>3
        <5> QED BY <4>1, <4>3, <5>1 DEF Moved
      <4> QED BY <4>2, <4>3
    <3> QED BY <2>2, <3>2, <3>3, <3>4 DEF Current
  <2> QED BY <2>3, <2>4
<1> QED BY <1>3, <1>4, <1>5, <1>6 DEF BoundsInv

LEMMA BoundsStart == BoundsInit => BoundsInv
<1> SUFFICES ASSUME BoundsInit
             PROVE  BoundsInv
  OBVIOUS
<1>1. <<>> \in Seq(Rects) /\ <<>> \in Seq(DOMAIN rectAt) /\ <<>> \in Seq(Colliders) /\ Len(<<>>) = 0
  OBVIOUS
<1>2. PICK cast \in Casts :
        /\ collider = [c \in Colliders |-> IF c \in cast THEN NewCollider
                                          ELSE [NewCollider EXCEPT !.life = "freed"]]
        /\ rectAt = [r \in Rects \cap cast |-> 0]
  BY DEF BoundsInit
<1>3. 0 \in Places
  BY BoundsAssumption
<1>4. /\ collider \in [Colliders -> ColliderState]
      /\ \A c \in Colliders : collider[c].entity = Unset /\ collider[c].rects = <<>>
  BY <1>1, <1>2, <1>3 DEF NewCollider, ColliderState
<1>5. BoundsTyped
  BY <1>1, <1>2, <1>3, <1>4 DEF BoundsInit, BoundsTyped, BoundsTypeOK, ColliderState
<1>6. Tallied
  <2> SUFFICES ASSUME NEW r \in Rects, NEW c \in Colliders
               PROVE  Times(rectWatch[r], c) = Times(collider[c].rects, r)
    BY DEF Tallied
  <2>1. rectWatch[r] = <<>> /\ collider[c].rects = <<>>
    BY <1>4 DEF BoundsInit
  <2>2. Times(<<>>, c) = 0 /\ Times(<<>>, r) = 0
    BY TimesEmpty
  <2> QED BY <2>1, <2>2
<1>7. \A e \in Movers : bounds[e] = NoBounds /\ worldBounds[e] = NoBounds
  BY DEF BoundsInit
<1>8. \A c \in Colliders, e \in Movers : ~Sole(c, e)
  BY <1>4, BoundsAssumption DEF Sole
<1> QED BY <1>5, <1>6, <1>7, <1>8 DEF BoundsInv

LEMMA BoundsStep == BoundsInv /\ [BoundsNext]_boundsVars => BoundsInv'
<1> SUFFICES ASSUME BoundsInv, [BoundsNext]_boundsVars
             PROVE  BoundsInv'
  OBVIOUS
<1>1. CASE UNCHANGED boundsVars
  <2>1. BoundsTyped'
    BY <1>1 DEF boundsVars, BoundsInv, BoundsTyped, BoundsTypeOK, ColliderState
  <2>2. Tallied'
    BY <1>1 DEF boundsVars, BoundsInv, Tallied
  <2> QED BY <1>1, <2>1, <2>2 DEF boundsVars, BoundsInv, Sole, Alive, Current
<1>2. CASE BoundsNext
  BY <1>2, SystemKeeps, SettingKeeps, QuietSteps, RemovingKeeps, FreeingKeeps, AddingKeeps,
     MovingKeeps, AttachingKeeps DEF BoundsNext
<1> QED BY <1>1, <1>2

(* Watchers and rectangles agree, and what is up to date is so.             *)
THEOREM BoundsInvariance == BoundsSpec => []BoundsInv
<1> QED BY BoundsStart, BoundsStep, PTL DEF BoundsSpec

(* Types, for any entities, colliders and rectangles.                       *)
THEOREM BoundsTypeCorrect == BoundsSpec => []BoundsTypeOK
<1>1. BoundsInv => BoundsTypeOK
  BY DEF BoundsInv, BoundsTyped
<1> QED BY <1>1, BoundsInvariance, PTL

(* An entity collides where the rectangles of its collider are.             *)
THEOREM EntitiesAreBounded == BoundsSpec => []BoundsFollow
<1> QED BY BoundsInvariance, InvFollows, PTL
-----------------------------------------------------------------------------
(* Batches: the inductive invariant.                                        *)

BatchesInv == BatchesTypeOK /\ 12 <= room /\ OverrunIsSix

(* The doubling ends, with room for n more.                                 *)
LEMMA RoomIsEnough ==
  ASSUME held \in Nat, NEW n \in Nat, NEW space \in Nat \ {0}
  PROVE  /\ RoomFor(n, space) \in Nat
         /\ held + n <= RoomFor(n, space) /\ space <= RoomFor(n, space)
<1> DEFINE double == [r \in Nat |-> 2 * r]
           need == held + n
           h == CHOOSE g : g = [r \in Nat |-> IF need <= r THEN r ELSE g[2 * r]]
<1>1. double \in [Nat -> Nat] /\ \A r \in Nat : double[r] = 2 * r
  OBVIOUS
<1>2. \A r \in Nat : IF 1 <= r THEN r < double[r] ELSE double[r] = r
  BY <1>1
<1>3. \A r \in Nat : 1 <= r => r < double[r]
  BY <1>2
<1>4. need \in Nat /\ RoomFor(n, space) = h[space]
  BY DEF RoomFor
<1> HIDE DEF need
<1>5. \A g : Climbing(g, double, need, Nat) <=> g = [r \in Nat |-> IF need <= r THEN r ELSE g[2 * r]]
  BY DEF Climbing
<1> HIDE DEF double
<1>6. \E g : Climbing(g, double, need, Nat)
  BY <1>1, <1>2, <1>4, ClimbExists
<1>7. Climbing(h, double, need, Nat)
  BY <1>5, <1>6
<1> HIDE DEF h
<1>8. h[space] \in Nat /\ need <= h[space] /\ space <= h[space]
  <2>1. space \in Nat /\ 1 <= space /\ 1 \in Nat
    OBVIOUS
  <2> QED BY <1>1, <1>3, <1>4, <1>7, <2>1, ClimbReaches
<1> QED BY <1>4, <1>8 DEF need

(* One quad more always fits into twice the room.                           *)
LEMMA QuadFits ==
  ASSUME BatchesInv
  PROVE  /\ held \in Nat /\ room \in Nat /\ RoomForQuad \in Nat
         /\ held + 6 <= RoomForQuad /\ room <= RoomForQuad
BY BatchesAssumption DEF BatchesInv, BatchesTypeOK, OverrunIsSix, RoomForQuad

(* What was reckoned fits, so that all but a fill stays inside.             *)
LEMMA AddingFits ==
  ASSUME BatchesInv, NEW space \in Nat, NEW written \in Nat, Add(space, written),
         room <= space, fillings' \in BOOLEAN,
         held + written <= space + (IF fillings' THEN 6 ELSE 0)
  PROVE  BatchesInv'
<1>1. /\ held' = held + written /\ room' = space /\ held' <= MaxVertices
      /\ held \in Nat /\ room \in Nat /\ 12 <= room
  BY BatchesAssumption DEF BatchesInv, BatchesTypeOK, Add
<1>2. held' \in 0..MaxVertices /\ room' \in Nat /\ 12 <= room'
  BY <1>1, BatchesAssumption
<1>3. held' <= room' + (IF fillings' THEN 6 ELSE 0)
  BY <1>1
<1> QED BY <1>2, <1>3 DEF BatchesInv, BatchesTypeOK, OverrunIsSix

LEMMA BatchesStart == BatchesInit => BatchesInv
<1> SUFFICES ASSUME BatchesInit
             PROVE  BatchesInv
  OBVIOUS
<1>1. held = 0 /\ room = Room /\ ~fillings /\ fillings \in BOOLEAN
  BY DEF BatchesInit
<1>2. held \in 0..MaxVertices /\ room \in Nat /\ 12 <= room
  BY <1>1, BatchesAssumption
<1>3. held <= room + (IF fillings THEN 6 ELSE 0)
  BY <1>1, BatchesAssumption
<1> QED BY <1>1, <1>2, <1>3 DEF BatchesInv, BatchesTypeOK, OverrunIsSix

LEMMA BatchesStep == BatchesInv /\ [BatchesNext]_batchesVars => BatchesInv'
<1> SUFFICES ASSUME BatchesInv, [BatchesNext]_batchesVars
             PROVE  BatchesInv'
  OBVIOUS
<1>1. held \in Nat /\ room \in Nat \ {0} /\ fillings \in BOOLEAN
  BY BatchesAssumption DEF BatchesInv, BatchesTypeOK
<1>2. CASE AddQuad
  BY <1>1, <1>2, QuadFits, AddingFits DEF AddQuad
<1>3. CASE AddHollow
  <2>1. RoomForQuad \in Nat \ {0} /\ room <= RoomForQuad
    BY <1>1, QuadFits
  <2> DEFINE space == RoomFor(24, RoomForQuad)
  <2>2. space \in Nat /\ held + 24 <= space /\ RoomForQuad <= space
    BY <1>1, <2>1, RoomIsEnough
  <2>3. Add(space, 24) /\ fillings' = fillings
    BY <1>3 DEF AddHollow
  <2> HIDE DEF space
  <2> QED BY <1>1, <2>1, <2>2, <2>3, AddingFits
<1>4. ASSUME NEW n \in Lengths, NEW flat \in 0..(n - 1), AddStroke(n, flat)
      PROVE  BatchesInv'
  <2> DEFINE reckoned == 6 * (n - 1)
             written == 6 * (n - 1 - flat)
             space == RoomFor(reckoned, room)
  <2>1. reckoned \in Nat /\ written \in Nat /\ written <= reckoned
    BY <1>4, BatchesAssumption DEF AddStroke
  <2>2. Add(space, written) /\ fillings' = fillings
    BY <1>4 DEF AddStroke
  <2> HIDE DEF reckoned, written
  <2>3. space \in Nat /\ held + reckoned <= space /\ room <= space
    BY <1>1, <2>1, RoomIsEnough
  <2> HIDE DEF space
  <2> QED BY <1>1, <2>1, <2>2, <2>3, AddingFits
<1>5. ASSUME NEW n \in Lengths, NEW closed \in BOOLEAN, AddFill(n, closed)
      PROVE  BatchesInv'
  <2> DEFINE reckoned == 3 * (Corners(n, closed) - 2)
             written == 3 * Corners(n, closed)
             space == RoomFor(reckoned, room)
  <2>1. reckoned \in Nat /\ written \in Nat /\ written = reckoned + 6
    BY <1>5, BatchesAssumption DEF AddFill, Corners
  <2>2. Add(space, written) /\ fillings' = TRUE
    BY <1>5 DEF AddFill
  <2> HIDE DEF reckoned, written
  <2>3. space \in Nat /\ held + reckoned <= space /\ room <= space
    BY <1>1, <2>1, RoomIsEnough
  <2> HIDE DEF space
  <2> QED BY <1>1, <2>1, <2>2, <2>3, AddingFits
<1>6. CASE UNCHANGED batchesVars
  BY <1>6 DEF batchesVars, BatchesInv, BatchesTypeOK, OverrunIsSix
<1> QED BY <1>2, <1>3, <1>4, <1>5, <1>6 DEF BatchesNext

(* Types, for any lengths of polylines and any room that two quads have.    *)
THEOREM BatchesTypeCorrect == BatchesSpec => []BatchesTypeOK
<1>1. BatchesInv => BatchesTypeOK
  BY DEF BatchesInv
<1> QED BY <1>1, BatchesStart, BatchesStep, PTL DEF BatchesSpec

(* A batch is overrun by fills only, and by six vertices at most.           *)
THEOREM FillsOverrunBySix == BatchesSpec => []OverrunIsSix
<1>1. BatchesInv => OverrunIsSix
  BY DEF BatchesInv
<1> QED BY <1>1, BatchesStart, BatchesStep, PTL DEF BatchesSpec
-----------------------------------------------------------------------------
(* The GUI: trees in the order of building.                                 *)

Hows == {"start", "center", "end"}
Spot == [x : Int, w : Int]
WidgetState == [kind : {"row", "column", "stack", "label", "button"}, parent : Nat, asked : Int,
                ref : Slots \cup {0}, at : Spot, justify : Hows, align : Hows]
LayoutState == [x : Int, w : Int, widgets : Seq(WidgetState), current : Nat]

(* Every widget but the root is in a container before it, and what is       *)
(* between the two is in that container too: a part of a tree is an         *)
(* interval.                                                                *)
Rooted(ws) == \A i \in DOMAIN ws : IF i = 1 THEN ws[i].parent = 0
                                   ELSE ws[i].parent \in 1..(i - 1) /\ IsContainer(ws[ws[i].parent])

Nested(ws) == \A i, j \in DOMAIN ws : ws[j].parent < i /\ i < j => ws[j].parent <= ws[i].parent

Building(ws, c) == c # 0 => /\ c \in DOMAIN ws /\ IsContainer(ws[c])
                            /\ \A i \in DOMAIN ws : c < i => c <= ws[i].parent

Tree(ws) == ws \in Seq(WidgetState) /\ Rooted(ws) /\ Nested(ws)

LEMMA TreeIs ==
  ASSUME NEW ws, Tree(ws)
  PROVE  /\ Len(ws) \in Nat /\ DOMAIN ws = 1..Len(ws)
         /\ \A i \in DOMAIN ws : /\ i \in Nat /\ ws[i] \in WidgetState /\ ws[i].parent \in Nat
                                 /\ ws[i].asked \in Int /\ ws[i].ref \in Slots \cup {0}
                                 /\ ws[i].at \in Spot /\ ws[i].at.x \in Int /\ ws[i].at.w \in Int
         /\ \A i \in DOMAIN ws : /\ Kids(ws, i) \subseteq DOMAIN ws /\ Kids(ws, i) \in SUBSET Nat
                                 /\ \A j \in Kids(ws, i) : i < j /\ ws[j].parent = i /\ IsContainer(ws[i])
<1>1. Len(ws) \in Nat /\ DOMAIN ws = 1..Len(ws) /\ \A i \in DOMAIN ws : ws[i] \in WidgetState
  BY LenProperties DEF Tree
<1>2. ASSUME NEW i \in DOMAIN ws
      PROVE  /\ i \in Nat /\ ws[i] \in WidgetState /\ ws[i].parent \in Nat
             /\ ws[i].asked \in Int /\ ws[i].ref \in Slots \cup {0}
             /\ ws[i].at \in Spot /\ ws[i].at.x \in Int /\ ws[i].at.w \in Int
  BY <1>1 DEF WidgetState, Spot
<1>3. ASSUME NEW i \in DOMAIN ws, NEW j \in Kids(ws, i)
      PROVE  j \in DOMAIN ws /\ j \in Nat /\ i < j /\ ws[j].parent = i /\ IsContainer(ws[i])
  <2>1. j \in DOMAIN ws /\ ws[j].parent = i
    BY DEF Kids
  <2>2. i \in Nat /\ j \in Nat /\ i # 0
    BY <1>1, <2>1
  <2>3. j # 1
    BY <2>1, <2>2 DEF Tree, Rooted
  <2>4. i \in 1..(j - 1) /\ IsContainer(ws[i])
    BY <2>1, <2>3 DEF Tree, Rooted
  <2> QED BY <2>1, <2>2, <2>4
<1> QED BY <1>1, <1>2, <1>3

(* The part of the tree that hangs from a widget. *)
Below(ws, i) == {j \in DOMAIN ws : i <= j /\ \A k \in DOMAIN ws : i < k /\ k <= j => i <= ws[k].parent}

LEMMA BelowKid ==
  ASSUME NEW ws, Tree(ws), NEW i \in DOMAIN ws, NEW j \in Kids(ws, i), NEW x \in Below(ws, j)
  PROVE  x \in Below(ws, i) /\ i < x /\ j <= x
<1>1. /\ i \in Nat /\ j \in DOMAIN ws /\ j \in Nat /\ i < j /\ ws[j].parent = i /\ x \in DOMAIN ws /\ x \in Nat /\ j <= x
  BY TreeIs DEF Below
<1>2. ASSUME NEW k \in DOMAIN ws, i < k, k <= x
      PROVE  i <= ws[k].parent
  <2>1. k \in Nat /\ ws[k].parent \in Nat
    BY TreeIs
  <2>2. CASE k < j
    BY <1>1, <1>2, <2>2 DEF Tree, Nested
  <2>3. CASE k = j
    BY <1>1, <2>3
  <2>4. CASE j < k
    <3>1. j <= ws[k].parent
      BY <1>2, <2>4 DEF Below
    <3> QED BY <1>1, <2>1, <3>1
  <2> QED BY <1>1, <2>1, <2>2, <2>3, <2>4
<1> QED BY <1>1, <1>2 DEF Below

LEMMA BelowIs ==
  ASSUME NEW ws, Tree(ws), NEW i \in DOMAIN ws, NEW x \in Below(ws, i), x # i
  PROVE  \E j \in Kids(ws, i) : x \in Below(ws, j)
<1> DEFINE K == {j \in Kids(ws, i) : j <= x}
           j == Max(K)
<1>1. /\ i \in Nat /\ x \in DOMAIN ws /\ x \in Nat /\ i < x /\ DOMAIN ws = 1..Len(ws) /\ Len(ws) \in Nat
  BY TreeIs DEF Below
<1>2. i + 1 \in K
  <2>1. i + 1 \in DOMAIN ws /\ i < i + 1 /\ i + 1 <= x /\ i + 1 # 1
    BY <1>1
  <2>2. i <= ws[i + 1].parent
    BY <2>1 DEF Below
  <2>3. ws[i + 1].parent \in 1..((i + 1) - 1)
    BY <2>1 DEF Tree, Rooted
  <2>4. ws[i + 1].parent = i
    BY <1>1, <2>2, <2>3
  <2> QED BY <2>1, <2>4 DEF Kids
<1>3. j \in K /\ \A k \in K : k <= j
  <2>1. K \in SUBSET (0..x) /\ K # {}
    <3>1. K \subseteq 0..x
      BY <1>1, TreeIs
    <3> QED BY <1>2, <3>1
  <2> HIDE DEF K
  <2> QED BY <1>1, <2>1, MaxIs
<1> HIDE DEF j
<1>4. /\ j \in Kids(ws, i) /\ j \in DOMAIN ws /\ j \in Nat /\ i < j /\ j <= x /\ ws[j].parent = i
  BY <1>3, TreeIs
<1>5. ASSUME NEW y \in DOMAIN ws, j < y, y <= x
      PROVE  j <= ws[y].parent
  <2>1. y \in Nat /\ ws[y].parent \in Nat
    BY TreeIs
  <2>2. i <= ws[y].parent
    BY <1>1, <1>4, <1>5, <2>1 DEF Below
  <2>3. ws[y].parent # i
    <3>1. ASSUME ws[y].parent = i
          PROVE  FALSE
      <4>1. y \in K
        BY <1>5, <3>1 DEF Kids
      <4> QED BY <1>3, <1>4, <1>5, <2>1, <4>1
    <3> QED BY <3>1
  <2>4. ~(ws[y].parent < j)
    <3>1. ASSUME ws[y].parent < j
          PROVE  FALSE
      <4>1. ws[y].parent <= ws[j].parent
        BY <1>4, <1>5, <3>1 DEF Tree, Nested
      <4> QED BY <1>1, <1>4, <2>1, <2>2, <2>3, <4>1
    <3> QED BY <3>1
  <2> QED BY <1>4, <2>1, <2>4
<1>6. x \in Below(ws, j)
  BY <1>1, <1>4, <1>5 DEF Below
<1> QED BY <1>4, <1>6

LEMMA BelowApart ==
  ASSUME NEW ws, Tree(ws), NEW i \in DOMAIN ws, NEW j \in Kids(ws, i), NEW k \in Kids(ws, i), j < k,
         NEW x \in Below(ws, j)
  PROVE  x < k
<1>1. /\ i \in Nat /\ j \in Nat /\ i < j /\ k \in DOMAIN ws /\ k \in Nat /\ ws[k].parent = i /\ x \in Nat
  BY TreeIs DEF Below
<1>2. ASSUME k <= x
      PROVE  FALSE
  <2>1. j <= ws[k].parent
    BY <1>1, <1>2 DEF Below
  <2> QED BY <1>1, <2>1
<1> QED BY <1>1, <1>2

LEMMA BelowRoot ==
  ASSUME NEW ws, Tree(ws), ws # <<>>
  PROVE  1 \in DOMAIN ws /\ Below(ws, 1) = DOMAIN ws
<1>1. DOMAIN ws = 1..Len(ws) /\ Len(ws) \in Nat /\ Len(ws) # 0
  BY TreeIs, EmptySeq DEF Tree
<1>2. ASSUME NEW j \in DOMAIN ws, NEW k \in DOMAIN ws, 1 < k
      PROVE  1 <= ws[k].parent
  BY <1>1, <1>2 DEF Tree, Rooted
<1> QED BY <1>1, <1>2 DEF Below
-----------------------------------------------------------------------------
(* The GUI: who answers a click.                                            *)

LEMMA FirstInSame ==
  ASSUME NEW J \in SUBSET Nat, NEW f, NEW g, \A j \in J : f[j] = g[j]
  PROVE  FirstIn(J, f) = FirstIn(J, g)
<1> DEFINE F == {j \in J : f[j] # 0}
           G == {j \in J : g[j] # 0}
<1>1. F = G
  OBVIOUS
<1>2. FirstIn(J, f) = IF F = {} THEN 0 ELSE f[Min(F)]
  BY DEF FirstIn
<1>3. FirstIn(J, g) = IF G = {} THEN 0 ELSE g[Min(G)]
  BY DEF FirstIn
<1>4. F \in SUBSET Nat /\ F \subseteq J
  OBVIOUS
<1> HIDE DEF F, G
<1>5. CASE F = {}
  BY <1>1, <1>2, <1>3, <1>5
<1>6. CASE F # {}
  <2>1. Min(F) \in J
    BY <1>4, <1>6, MinIs
  <2> QED BY <1>1, <1>2, <1>3, <1>6, <2>1
<1> QED BY <1>5, <1>6

(* Both ways of asking go down the tree: what the children answer, if the   *)
(* widget uses it, and else what the widget answers itself.                 *)
Asked(ws, use, base, f, i) ==
  IF use[i] /\ FirstIn(Kids(ws, i), f) # 0 THEN FirstIn(Kids(ws, i), f) ELSE base[i]

Asking(f, ws, use, base, D) == f = [i \in D |-> Asked(ws, use, base, f, i)]

LEMMA AskingExists ==
  ASSUME NEW ws, Tree(ws), NEW use, NEW base
  PROVE  \E f : Asking(f, ws, use, base, DOMAIN ws)
<1> DEFINE n == Len(ws)
           D(k) == {i \in DOMAIN ws : n < i + k}
           Bad == {k \in Nat : ~\E f : Asking(f, ws, use, base, D(k))}
           m == Min(Bad)
<1>1. n \in Nat /\ DOMAIN ws = 1..n /\ \A i \in DOMAIN ws : Kids(ws, i) \in SUBSET Nat
  BY TreeIs
<1>2. \A i \in DOMAIN ws : \A j \in Kids(ws, i) : j \in DOMAIN ws /\ i < j
  BY TreeIs
<1> HIDE DEF n
<1>3. ASSUME Bad # {}
      PROVE  FALSE
  <2> HIDE DEF D
  <2>1. m \in Nat /\ ~(\E f : Asking(f, ws, use, base, D(m)))
        /\ \A k \in Nat : k < m => \E f : Asking(f, ws, use, base, D(k))
    <3>1. m \in Bad /\ \A k \in Bad : m <= k
      <4> HIDE DEF Bad
      <4>1. Bad \in SUBSET Nat
        BY DEF Bad
      <4> QED BY <1>3, <4>1, MinIs
    <3> HIDE DEF m
    <3> QED BY <3>1
  <2> HIDE DEF m
  <2>2. CASE m = 0
    <3> DEFINE f == [i \in D(m) |-> 0]
    <3>1. D(m) = {}
      BY <1>1, <2>2 DEF D
    <3>2. Asking(f, ws, use, base, D(m))
      BY <3>1 DEF Asking
    <3> QED BY <2>1, <3>2
  <2>3. CASE m # 0
    <3>1. m - 1 \in Nat /\ m - 1 < m
      BY <2>1, <2>3
    <3>2. PICK g : Asking(g, ws, use, base, D(m - 1))
      BY <2>1, <3>1
    <3>3. \A i \in D(m) : \A j \in Kids(ws, i) : j \in D(m - 1)
      BY <1>1, <1>2, <2>1, <3>1 DEF D
    <3>4. D(m - 1) \subseteq D(m) /\ D(m) \subseteq DOMAIN ws
      BY <1>1, <2>1, <3>1 DEF D
    <3> DEFINE h == [i \in D(m) |-> Asked(ws, use, base, g, i)]
    <3>5. \A j \in D(m - 1) : h[j] = g[j]
      BY <3>2, <3>4 DEF Asking
    <3> HIDE DEF h
    <3>6. ASSUME NEW i \in D(m)
          PROVE  Asked(ws, use, base, h, i) = Asked(ws, use, base, g, i)
      <4>1. Kids(ws, i) \in SUBSET Nat /\ \A j \in Kids(ws, i) : h[j] = g[j]
        BY <1>1, <3>3, <3>4, <3>5
      <4>2. FirstIn(Kids(ws, i), h) = FirstIn(Kids(ws, i), g)
        BY <4>1, FirstInSame
      <4> QED BY <4>2 DEF Asked
    <3>7. Asking(h, ws, use, base, D(m))
      BY <3>6 DEF Asking, h
    <3> QED BY <2>1, <3>7
  <2> QED BY <2>2, <2>3
<1>4. D(n) = DOMAIN ws
  BY <1>1
<1> HIDE DEF D
<1> QED BY <1>1, <1>3, <1>4

LEMMA HandledIs ==
  ASSUME NEW ws, Tree(ws), NEW m, NEW i \in DOMAIN ws
  PROVE  Handled(ws, m)[i] = IF ~Under(ws[i], m) THEN 0
                             ELSE IF ~IsContainer(ws[i]) THEN i
                             ELSE FirstIn(Kids(ws, i), Handled(ws, m))
<1> DEFINE use == [j \in DOMAIN ws |-> Under(ws[j], m) /\ IsContainer(ws[j])]
           base == [j \in DOMAIN ws |-> IF Under(ws[j], m) /\ ~IsContainer(ws[j]) THEN j ELSE 0]
           Body(f, j) == IF ~Under(ws[j], m) THEN 0
                         ELSE IF IsContainer(ws[j]) THEN FirstIn(Kids(ws, j), f) ELSE j
           h == CHOOSE f : f = [j \in DOMAIN ws |-> Body(f, j)]
<1>1. \A f : \A j \in DOMAIN ws : Asked(ws, use, base, f, j) = Body(f, j)
  BY DEF Asked
<1>2. \A f : Body(f, i) = IF ~Under(ws[i], m) THEN 0
                          ELSE IF ~IsContainer(ws[i]) THEN i ELSE FirstIn(Kids(ws, i), f)
  OBVIOUS
<1>3. Handled(ws, m) = h
  BY DEF Handled
<1> HIDE DEF use, base, Body
<1>4. \E f : Asking(f, ws, use, base, DOMAIN ws)
  BY AskingExists
<1>5. \E f : f = [j \in DOMAIN ws |-> Body(f, j)]
  BY <1>1, <1>4 DEF Asking
<1>6. h = [j \in DOMAIN ws |-> Body(h, j)]
  BY <1>5
<1> HIDE DEF h
<1> QED BY <1>2, <1>3, <1>6

LEMMA AnsweredIs ==
  ASSUME NEW ws, Tree(ws), NEW m, NEW i \in DOMAIN ws
  PROVE  Answered(ws, m)[i] = IF FirstIn(Kids(ws, i), Answered(ws, m)) # 0
                              THEN FirstIn(Kids(ws, i), Answered(ws, m)) ELSE Handled(ws, m)[i]
<1> DEFINE use == [j \in DOMAIN ws |-> TRUE]
           base == Handled(ws, m)
           Body(f, j) == LET below == FirstIn(Kids(ws, j), f) IN IF below # 0 THEN below ELSE Handled(ws, m)[j]
           h == CHOOSE f : f = [j \in DOMAIN ws |-> Body(f, j)]
<1>1. \A f : \A j \in DOMAIN ws : Asked(ws, use, base, f, j) = Body(f, j)
  BY DEF Asked
<1>2. \A f : Body(f, i) = IF FirstIn(Kids(ws, i), f) # 0 THEN FirstIn(Kids(ws, i), f) ELSE Handled(ws, m)[i]
  OBVIOUS
<1>3. Answered(ws, m) = h
  BY DEF Answered
<1> HIDE DEF use, base, Body
<1>4. \E f : Asking(f, ws, use, base, DOMAIN ws)
  BY AskingExists
<1>5. \E f : f = [j \in DOMAIN ws |-> Body(f, j)]
  BY <1>1, <1>4 DEF Asking
<1>6. h = [j \in DOMAIN ws |-> Body(h, j)]
  BY <1>5
<1> HIDE DEF h
<1> QED BY <1>2, <1>3, <1>6

(* Induction from the last widget to the first. *)
LEMMA LastToFirst ==
  ASSUME NEW n \in Nat, NEW G \in SUBSET (1..n),
         \A i \in 1..n : (\A j \in 1..n : i < j => j \in G) => i \in G
  PROVE  G = 1..n
<1> DEFINE B == (1..n) \ G
<1>1. ASSUME B # {}
      PROVE  FALSE
  <2>1. B \in SUBSET (0..n)
    OBVIOUS
  <2>2. Max(B) \in B /\ \A b \in B : b <= Max(B)
    <3> HIDE DEF B
    <3> QED BY <1>1, <2>1, MaxIs
  <2>3. PICK i \in B : \A b \in B : b <= i
    BY <2>2
  <2>4. \A j \in 1..n : i < j => j \in G
    BY <2>3
  <2> QED BY <2>3, <2>4
<1> QED BY <1>1

Leaves(ws, m) == {i \in DOMAIN ws : ~IsContainer(ws[i]) /\ Under(ws[i], m)}

Hits(ws, m, i) == Leaves(ws, m) \cap Below(ws, i)

LEMMA HitsAre ==
  ASSUME NEW ws, Tree(ws), NEW m, NEW i \in DOMAIN ws
  PROVE  /\ Hits(ws, m, i) \in SUBSET Nat /\ 0 \notin Hits(ws, m, i)
         /\ \A x \in Hits(ws, m, i) : x \in Leaves(ws, m) /\ x \in Below(ws, i) /\ x \in DOMAIN ws
         /\ \A j \in Kids(ws, i) : Hits(ws, m, j) \subseteq Hits(ws, m, i)
         /\ \A x \in Hits(ws, m, i) : x # i => \E j \in Kids(ws, i) : x \in Hits(ws, m, j)
         /\ i \in Below(ws, i)
<1>1. DOMAIN ws = 1..Len(ws) /\ Len(ws) \in Nat
  BY TreeIs
<1>2. ASSUME NEW x \in Hits(ws, m, i)
      PROVE  x \in Leaves(ws, m) /\ x \in Below(ws, i) /\ x \in DOMAIN ws /\ x \in Nat /\ x # 0
  BY <1>1 DEF Hits, Leaves
<1>3. ASSUME NEW j \in Kids(ws, i), NEW x \in Hits(ws, m, j)
      PROVE  x \in Hits(ws, m, i)
  <2>1. x \in Leaves(ws, m) /\ x \in Below(ws, j)
    BY DEF Hits
  <2>2. x \in Below(ws, i)
    BY <2>1, BelowKid
  <2> QED BY <2>1, <2>2 DEF Hits
<1>4. ASSUME NEW x \in Hits(ws, m, i), x # i
      PROVE  \E j \in Kids(ws, i) : x \in Hits(ws, m, j)
  <2>1. PICK j \in Kids(ws, i) : x \in Below(ws, j)
    BY <1>2, <1>4, BelowIs
  <2>2. x \in Hits(ws, m, j)
    BY <1>2, <2>1 DEF Hits
  <2> QED BY <2>2
<1>5. i \in Below(ws, i)
  BY <1>1 DEF Below
<1> QED BY <1>2, <1>3, <1>4, <1>5

LEMMA FirstInIs ==
  ASSUME NEW J \in SUBSET Nat, NEW f
  PROVE  \/ FirstIn(J, f) = 0 /\ \A j \in J : f[j] = 0
         \/ \E j \in J : FirstIn(J, f) = f[j] /\ f[j] # 0 /\ \A k \in J : f[k] # 0 => j <= k
<1> DEFINE F == {j \in J : f[j] # 0}
<1>1. FirstIn(J, f) = IF F = {} THEN 0 ELSE f[Min(F)]
  BY DEF FirstIn
<1>2. CASE F = {}
  BY <1>1, <1>2
<1>3. CASE F # {}
  <2>1. F \in SUBSET Nat
    OBVIOUS
  <2>2. Min(F) \in F /\ \A k \in F : Min(F) <= k
    <3> HIDE DEF F
    <3> QED BY <1>3, <2>1, MinIs
  <2>3. PICK j \in F : FirstIn(J, f) = f[j] /\ \A k \in F : j <= k
    BY <1>1, <1>3, <2>2
  <2> QED BY <2>3
<1> QED BY <1>2, <1>3

(* A widget handles a click with a leaf under the mouse, or not at all. *)
LEMMA HandledReaches ==
  ASSUME NEW ws, Tree(ws), NEW m
  PROVE  \A i \in DOMAIN ws : Handled(ws, m)[i] # 0 => Handled(ws, m)[i] \in Hits(ws, m, i)
<1> DEFINE G == {i \in DOMAIN ws : Handled(ws, m)[i] # 0 => Handled(ws, m)[i] \in Hits(ws, m, i)}
<1>1. DOMAIN ws = 1..Len(ws) /\ Len(ws) \in Nat
  BY TreeIs
<1>2. ASSUME NEW i \in 1..Len(ws), \A j \in 1..Len(ws) : i < j => j \in G
      PROVE  i \in G
  <2>1. i \in DOMAIN ws /\ Kids(ws, i) \in SUBSET Nat /\ \A j \in Kids(ws, i) : i < j /\ j \in DOMAIN ws
    BY <1>1, TreeIs
  <2>2. Handled(ws, m)[i] = IF ~Under(ws[i], m) THEN 0
                            ELSE IF ~IsContainer(ws[i]) THEN i
                            ELSE FirstIn(Kids(ws, i), Handled(ws, m))
    BY <2>1, HandledIs
  <2>3. CASE Under(ws[i], m) /\ ~IsContainer(ws[i])
    <3>1. i \in Leaves(ws, m) /\ i \in Below(ws, i)
      BY <2>1, <2>3, HitsAre DEF Leaves
    <3>2. i \in Hits(ws, m, i)
      BY <3>1 DEF Hits
    <3> QED BY <2>1, <2>2, <2>3, <3>2
  <2>4. CASE Under(ws[i], m) /\ IsContainer(ws[i])
    <3>1. Handled(ws, m)[i] = FirstIn(Kids(ws, i), Handled(ws, m))
      BY <2>2, <2>4
    <3> DEFINE h == Handled(ws, m)
    <3> HIDE DEF h
    <3>2. \/ FirstIn(Kids(ws, i), h) = 0
          \/ \E j \in Kids(ws, i) : FirstIn(Kids(ws, i), h) = h[j] /\ h[j] # 0
      <4> DEFINE J == Kids(ws, i)
      <4>1. J \in SUBSET Nat
        BY <2>1
      <4> HIDE DEF J
      <4>2. \/ FirstIn(J, h) = 0
            \/ \E j \in J : FirstIn(J, h) = h[j] /\ h[j] # 0
        BY <4>1, FirstInIs
      <4> QED BY <4>2 DEF J
    <3>3. CASE FirstIn(Kids(ws, i), h) = 0
      BY <2>1, <3>1, <3>3 DEF h
    <3>4. CASE \E j \in Kids(ws, i) : FirstIn(Kids(ws, i), h) = h[j] /\ h[j] # 0
      <4>1. PICK j \in Kids(ws, i) : FirstIn(Kids(ws, i), h) = h[j] /\ h[j] # 0
        BY <3>4
      <4>2. j \in G
        BY <1>1, <1>2, <2>1
      <4>3. h[j] \in Hits(ws, m, j)
        BY <4>1, <4>2 DEF h
      <4>4. h[j] \in Hits(ws, m, i)
        BY <2>1, <4>3, HitsAre
      <4> QED BY <2>1, <3>1, <4>1, <4>4 DEF h
    <3> QED BY <3>2, <3>3, <3>4
  <2>5. CASE ~Under(ws[i], m)
    BY <2>1, <2>2, <2>5
  <2> QED BY <2>3, <2>4, <2>5
<1>3. G \in SUBSET (1..Len(ws))
  BY <1>1
<1>4. G = 1..Len(ws)
  <2> HIDE DEF G
  <2> QED BY <1>1, <1>2, <1>3, LastToFirst
<1> QED BY <1>1, <1>4

FirstHit(ws, m, i) == IF Hits(ws, m, i) = {} THEN 0 ELSE Min(Hits(ws, m, i))

LEMMA FirstHitIs ==
  ASSUME NEW ws, Tree(ws), NEW m, NEW i \in DOMAIN ws
  PROVE  /\ FirstHit(ws, m, i) # 0 <=> Hits(ws, m, i) # {}
         /\ FirstHit(ws, m, i) # 0 =>
              FirstHit(ws, m, i) \in Hits(ws, m, i) /\ \A x \in Hits(ws, m, i) : FirstHit(ws, m, i) <= x
         /\ \A a \in Hits(ws, m, i) : (\A x \in Hits(ws, m, i) : a <= x) => FirstHit(ws, m, i) = a
<1>1. Hits(ws, m, i) \in SUBSET Nat /\ 0 \notin Hits(ws, m, i)
  BY HitsAre
<1> DEFINE H == Hits(ws, m, i)
<1> HIDE DEF H
<1>2. H \in SUBSET Nat /\ 0 \notin H /\ FirstHit(ws, m, i) = IF H = {} THEN 0 ELSE Min(H)
  BY <1>1 DEF H, FirstHit
<1>3. H # {} => Min(H) \in H /\ \A x \in H : Min(H) <= x
  BY <1>2, MinIs
<1>4. ASSUME NEW a \in H, \A x \in H : a <= x
      PROVE  FirstHit(ws, m, i) = a
  <2>1. PICK b \in H : FirstHit(ws, m, i) = b /\ \A x \in H : b <= x
    BY <1>2, <1>3, <1>4
  <2>2. a \in Nat /\ b \in Nat /\ a <= b /\ b <= a
    BY <1>2, <1>4, <2>1
  <2> QED BY <2>1, <2>2
<1>5. FirstHit(ws, m, i) # 0 <=> H # {}
  BY <1>2, <1>3
<1>6. FirstHit(ws, m, i) # 0 => FirstHit(ws, m, i) \in H /\ \A x \in H : FirstHit(ws, m, i) <= x
  BY <1>2, <1>3
<1> QED BY <1>4, <1>5, <1>6 DEF H

(* The first leaf under the mouse, in the order of building. *)
LEMMA AnsweredFirst ==
  ASSUME NEW ws, Tree(ws), NEW m
  PROVE  \A i \in DOMAIN ws : Answered(ws, m)[i] = FirstHit(ws, m, i)
<1> DEFINE G == {i \in DOMAIN ws : Answered(ws, m)[i] = FirstHit(ws, m, i)}
           h == Handled(ws, m)
           a == Answered(ws, m)
<1>1. DOMAIN ws = 1..Len(ws) /\ Len(ws) \in Nat
  BY TreeIs
<1>2. ASSUME NEW i \in 1..Len(ws), \A j \in 1..Len(ws) : i < j => j \in G
      PROVE  i \in G
  <2>1. i \in DOMAIN ws /\ Kids(ws, i) \in SUBSET Nat
        /\ \A j \in Kids(ws, i) : i < j /\ j \in DOMAIN ws /\ IsContainer(ws[i])
    BY <1>1, TreeIs
  <2>2. a[i] = IF FirstIn(Kids(ws, i), a) # 0 THEN FirstIn(Kids(ws, i), a) ELSE h[i]
    BY <2>1, AnsweredIs
  <2>3. h[i] # 0 => h[i] \in Hits(ws, m, i)
    BY <2>1, HandledReaches
  <2>4. Under(ws[i], m) /\ ~IsContainer(ws[i]) => h[i] = i
    BY <2>1, HandledIs
  <2>5. \A j \in Kids(ws, i) : a[j] = FirstHit(ws, m, j)
    BY <1>1, <1>2, <2>1
  <2> HIDE DEF a, h
  <2>6. \/ FirstIn(Kids(ws, i), a) = 0 /\ \A j \in Kids(ws, i) : a[j] = 0
        \/ \E j \in Kids(ws, i) : FirstIn(Kids(ws, i), a) = a[j] /\ a[j] # 0 /\ \A k \in Kids(ws, i) : a[k] # 0 => j <= k
    BY <2>1, FirstInIs
  <2>7. CASE FirstIn(Kids(ws, i), a) = 0 /\ \A j \in Kids(ws, i) : a[j] = 0
    <3>1. \A j \in Kids(ws, i) : Hits(ws, m, j) = {}
      BY <2>1, <2>5, <2>7, FirstHitIs
    <3>2. \A x \in Hits(ws, m, i) : x = i
      BY <2>1, <3>1, HitsAre
    <3>3. a[i] = h[i]
      BY <2>2, <2>7
    <3>4. CASE Hits(ws, m, i) = {}
      BY <2>1, <2>3, <3>3, <3>4, FirstHitIs DEF a
    <3>5. CASE Hits(ws, m, i) # {}
      <4>1. i \in Hits(ws, m, i)
        BY <3>2, <3>5
      <4>2. Under(ws[i], m) /\ ~IsContainer(ws[i])
        BY <2>1, <4>1, HitsAre DEF Leaves
      <4>3. \A x \in Hits(ws, m, i) : i <= x
        BY <3>2
      <4>4. FirstHit(ws, m, i) = i
        BY <2>1, <4>1, <4>3, FirstHitIs
      <4> QED BY <2>1, <2>4, <3>3, <4>2, <4>4 DEF a
    <3> QED BY <3>4, <3>5
  <2>8. CASE \E j \in Kids(ws, i) : FirstIn(Kids(ws, i), a) = a[j] /\ a[j] # 0 /\ \A k \in Kids(ws, i) : a[k] # 0 => j <= k
    <3>1. PICK j \in Kids(ws, i) : FirstIn(Kids(ws, i), a) = a[j] /\ a[j] # 0 /\ \A k \in Kids(ws, i) : a[k] # 0 => j <= k
      BY <2>8
    <3>2. a[i] = a[j] /\ a[j] = FirstHit(ws, m, j) /\ j \in DOMAIN ws /\ j \in Nat
      BY <1>1, <2>1, <2>2, <2>5, <3>1
    <3>3. a[j] \in Hits(ws, m, j) /\ \A x \in Hits(ws, m, j) : a[j] <= x
      BY <3>1, <3>2, FirstHitIs
    <3>4. a[j] \in Hits(ws, m, i) /\ a[j] \in Below(ws, j) /\ a[j] \in Nat
      BY <1>1, <2>1, <3>2, <3>3, HitsAre
    <3>5. ASSUME NEW x \in Hits(ws, m, i)
          PROVE  a[j] <= x
      <4>1. x \in Leaves(ws, m) /\ x \in DOMAIN ws /\ x \in Nat
        BY <1>1, <2>1, HitsAre
      <4>2. x # i
        BY <2>1, <3>1, <4>1 DEF Leaves
      <4>3. PICK k \in Kids(ws, i) : x \in Hits(ws, m, k)
        BY <2>1, <4>2, HitsAre
      <4>4. a[k] # 0 /\ k \in DOMAIN ws /\ k \in Nat
        BY <1>1, <2>1, <2>5, <4>3, FirstHitIs
      <4>5. j <= k
        BY <3>1, <4>4
      <4>6. CASE j = k
        BY <3>3, <4>3, <4>6
      <4>7. CASE j < k
        <5>1. a[j] < k
          BY <2>1, <3>4, <4>7, BelowApart
        <5>2. k <= x
          BY <4>3, <4>4, HitsAre DEF Below
        <5> QED BY <3>4, <4>1, <4>4, <5>1, <5>2
      <4> QED BY <3>2, <4>4, <4>5, <4>6, <4>7
    <3>6. FirstHit(ws, m, i) = a[j]
      BY <2>1, <3>4, <3>5, FirstHitIs
    <3> QED BY <2>1, <3>2, <3>6 DEF a
  <2> QED BY <2>6, <2>7, <2>8
<1>3. G \in SUBSET (1..Len(ws))
  BY <1>1
<1>4. G = 1..Len(ws)
  <2> HIDE DEF G
  <2> QED BY <1>1, <1>2, <1>3, LastToFirst
<1> QED BY <1>1, <1>4

LEMMA ClicksReach ==
  ASSUME NEW ws, Tree(ws), NEW m, ws # <<>>
  PROVE  /\ Answered(ws, m)[1] = IF Leaves(ws, m) = {} THEN 0 ELSE Min(Leaves(ws, m))
         /\ Answered(ws, m)[1] \in 0..Len(ws)
<1>1. 1 \in DOMAIN ws /\ Below(ws, 1) = DOMAIN ws /\ DOMAIN ws = 1..Len(ws) /\ Len(ws) \in Nat
  BY BelowRoot, TreeIs
<1>2. Hits(ws, m, 1) = Leaves(ws, m)
  BY <1>1 DEF Hits, Leaves
<1>3. Answered(ws, m)[1] = FirstHit(ws, m, 1)
  BY <1>1, AnsweredFirst
<1>4. FirstHit(ws, m, 1) # 0 => FirstHit(ws, m, 1) \in DOMAIN ws
  BY <1>1, FirstHitIs, HitsAre
<1> QED BY <1>1, <1>2, <1>3, <1>4 DEF FirstHit
-----------------------------------------------------------------------------
(* The GUI: where widgets are laid out.                                     *)

LEMMA PartIs ==
  ASSUME NEW a \in Int, NEW b \in Nat \ {0}
  PROVE  Part(a, b) \in Int /\ (a >= 0 => Part(a, b) \in Nat /\ Part(a, b) * b <= a) /\ (a < 0 => Part(a, b) <= 0)
<1>1. \A c \in Nat : c \div b \in Nat /\ (c \div b) * b <= c
  OBVIOUS
<1>2. CASE a >= 0
  BY <1>1, <1>2 DEF Part
<1>3. CASE a < 0
  <2>1. -a \in Nat
    BY <1>3
  <2>2. (-a) \div b \in Nat
    BY <1>1, <2>1
  <2> QED BY <1>3, <2>2 DEF Part
<1> QED BY <1>2, <1>3

LEMMA ShiftIs ==
  ASSUME NEW how \in Hows, NEW free \in Int
  PROVE  Shift(how, free) \in Int /\ (free >= 0 => Shift(how, free) \in 0..free)
<1>1. how = "start" \/ how = "end" \/ how = "center"
  BY DEF Hows
<1>2. CASE how = "start"
  BY <1>2 DEF Shift
<1>3. CASE how = "end"
  BY <1>3 DEF Shift
<1>4. CASE how = "center"
  <2>1. Shift(how, free) = Part(free, 2)
    BY <1>4 DEF Shift
  <2>2. Part(free, 2) \in Int /\ (free >= 0 => Part(free, 2) \in Nat /\ Part(free, 2) * 2 <= free)
    BY PartIs
  <2> QED BY <2>1, <2>2
<1> QED BY <1>1, <1>2, <1>3, <1>4

AskedBy(ws, J) == [j \in J |-> ws[j].asked]

LEMMA KidsFinite ==
  ASSUME NEW ws, Tree(ws), NEW i \in DOMAIN ws
  PROVE  /\ IsFiniteSet(Kids(ws, i)) /\ Autos(ws, Kids(ws, i)) \subseteq Kids(ws, i)
         /\ IsFiniteSet(Autos(ws, Kids(ws, i))) /\ IsFiniteSet(Kids(ws, i) \ Autos(ws, Kids(ws, i)))
<1>1. DOMAIN ws = 1..Len(ws) /\ Len(ws) \in Nat /\ Kids(ws, i) \subseteq DOMAIN ws
  BY TreeIs
<1>2. IsFiniteSet(Kids(ws, i))
  <2>1. IsFiniteSet(1..Len(ws))
    BY <1>1, FS_Interval
  <2> QED BY <1>1, <2>1, FS_Subset
<1>3. Autos(ws, Kids(ws, i)) \subseteq Kids(ws, i)
  BY DEF Autos
<1> QED BY <1>2, <1>3, FS_Subset

LEMMA WidestIs ==
  ASSUME NEW ws, Tree(ws), NEW i \in DOMAIN ws
  PROVE  /\ Widest(ws, Kids(ws, i)) = Sum(AskedBy(ws, Kids(ws, i)), Kids(ws, i) \ Autos(ws, Kids(ws, i)))
         /\ Widest(ws, Kids(ws, i)) \in Int
<1>1. Widest(ws, Kids(ws, i)) = Sum(AskedBy(ws, Kids(ws, i)), Kids(ws, i) \ Autos(ws, Kids(ws, i)))
  BY DEF Widest, Sum, AskedBy
<1> DEFINE T == Kids(ws, i) \ Autos(ws, Kids(ws, i))
           f == AskedBy(ws, Kids(ws, i))
<1>2. Integral(f, T)
  BY TreeIs DEF Integral, AskedBy
<1>3. IsFiniteSet(T)
  BY KidsFinite
<1>4. Sum(f, T) \in Int
  <2> HIDE DEF f, T
  <2> QED BY <1>2, <1>3, SumIntegral
<1> QED BY <1>1, <1>4

LEMMA AutoWidthIs ==
  ASSUME NEW ws, Tree(ws), NEW i \in DOMAIN ws, NEW inner \in Int
  PROVE  /\ AutoWidth(ws, i, inner) \in Nat
         /\ Cardinality(Autos(ws, Kids(ws, i))) \in Nat
         /\ inner >= 0 /\ Widest(ws, Kids(ws, i)) <= inner =>
              AutoWidth(ws, i, inner) * Cardinality(Autos(ws, Kids(ws, i)))
                <= inner - Widest(ws, Kids(ws, i))
<1> DEFINE J == Autos(ws, Kids(ws, i))
           n == Cardinality(J)
           v == Widest(ws, Kids(ws, i))
           a == Larger(0, inner) - v
           A == AutoWidth(ws, i, inner)
<1>1. IsFiniteSet(J) /\ n \in Nat /\ (J # {} => n \in Nat \ {0}) /\ (J = {} => n = 0)
  BY KidsFinite, FS_CardinalityType, FS_EmptySet
<1>2. v \in Int
  BY WidestIs
<1>3. A = IF J = {} THEN 0 ELSE Larger(0, Part(a, n))
  BY DEF AutoWidth
<1> HIDE DEF J, v, A, n
<1>4. a \in Int /\ (inner >= 0 /\ v <= inner => a = inner - v /\ a >= 0)
  BY <1>2 DEF Larger
<1> HIDE DEF a
<1>5. CASE J = {}
  BY <1>1, <1>2, <1>3, <1>5 DEF J, v, A, n
<1>6. CASE J # {}
  <2>1. n \in Nat \ {0}
    BY <1>1, <1>6
  <2>2. Part(a, n) \in Int /\ (a >= 0 => Part(a, n) \in Nat /\ Part(a, n) * n <= a) /\ (a < 0 => Part(a, n) <= 0)
    BY <1>4, <2>1, PartIs
  <2>3. A \in Nat
    BY <1>3, <1>6, <2>2 DEF Larger
  <2>4. a >= 0 => A = Part(a, n)
    BY <1>3, <1>6, <2>2 DEF Larger
  <2>5. inner >= 0 /\ v <= inner => A * n <= inner - v
    BY <1>4, <2>2, <2>4
  <2> QED BY <1>1, <2>3, <2>5 DEF J, v, A, n
<1> QED BY <1>5, <1>6

Width(ws, i, inner) ==
  [k \in Kids(ws, i) |-> IF ws[k].asked = AutoSize THEN AutoWidth(ws, i, inner) ELSE ws[k].asked]

Before(ws, i, j) == {k \in Kids(ws, i) : k < j}

LEMMA InRowIs ==
  ASSUME NEW ws, Tree(ws), NEW i \in DOMAIN ws, NEW j \in Kids(ws, i), NEW at \in Spot
  PROVE  LET f == Width(ws, i, Inner(at))
             K == Kids(ws, i)
         IN /\ Inner(at) \in Int /\ Integral(f, K) /\ f[j] \in Int
            /\ Sum(f, K) \in Int /\ Sum(f, Before(ws, i, j)) \in Int
            /\ Shift(ws[i].justify, Inner(at) - Sum(f, K)) \in Int
            /\ InRow(ws, j, at) =
                 [x |-> at.x + Padding + Shift(ws[i].justify, Inner(at) - Sum(f, K)) + Sum(f, Before(ws, i, j)),
                  w |-> f[j]]
<1> DEFINE inner == Inner(at)
           f == Width(ws, i, inner)
           K == Kids(ws, i)
           B == Before(ws, i, j)
<1>1. i = ws[j].parent
  BY DEF Kids
<1>2. InRow(ws, j, at) =
        [x |-> at.x + Padding + Shift(ws[i].justify, Inner(at) - Sum(f, K)) + Sum(f, B), w |-> f[j]]
  BY <1>1 DEF InRow, Width, Sum, Before
<1>3. inner \in Int
  BY GuiAssumption DEF Spot, Inner
<1>4. Integral(f, K) /\ f[j] \in Int
  <2> HIDE DEF inner
  <2>1. AutoWidth(ws, i, inner) \in Int
    BY <1>3, AutoWidthIs
  <2>2. \A k \in Kids(ws, i) : ws[k].asked \in Int
    BY TreeIs
  <2>3. \A k \in K : f[k] \in Int
    BY <2>1, <2>2 DEF Width
  <2> QED BY <2>3 DEF Integral
<1>5. IsFiniteSet(K) /\ B \subseteq K /\ IsFiniteSet(B)
  <2>1. B \subseteq K
    BY DEF Before
  <2> QED BY <2>1, KidsFinite, FS_Subset
<1>6. Sum(f, K) \in Int /\ Sum(f, B) \in Int
  <2> HIDE DEF f, B, K
  <2>1. Integral(f, B)
    BY <1>4, <1>5 DEF Integral
  <2> QED BY <1>4, <1>5, <2>1, SumIntegral
<1>7. ws[i].justify \in Hows
  BY TreeIs DEF WidgetState
<1>8. Shift(ws[i].justify, inner - Sum(f, K)) \in Int
  <2> HIDE DEF f, K, inner
  <2> QED BY <1>3, <1>6, <1>7, ShiftIs
<1> QED BY <1>2, <1>3, <1>4, <1>6, <1>8

LEMMA PlacedInSpot ==
  ASSUME NEW ws, Tree(ws), NEW j \in DOMAIN ws, j # 1, NEW at \in Spot
  PROVE  InContainer(ws, j, at) \in Spot
<1> DEFINE i == ws[j].parent
<1>1. i \in DOMAIN ws /\ IsContainer(ws[i]) /\ j \in Kids(ws, i)
  <2>1. i \in 1..(j - 1) /\ IsContainer(ws[i]) /\ DOMAIN ws = 1..Len(ws) /\ Len(ws) \in Nat
    BY TreeIs DEF Tree, Rooted
  <2> QED BY <2>1 DEF Kids
<1> HIDE DEF i
<1>2. ws[i].kind = "row" \/ ws[i].kind = "column" \/ ws[i].kind = "stack"
  BY <1>1 DEF IsContainer
<1>3. at.x \in Int /\ at.w \in Int /\ Padding \in Int /\ Inner(at) \in Int
  BY GuiAssumption DEF Spot, Inner
<1>4. ws[i].align \in Hows /\ ws[j].asked \in Int
  BY <1>1, TreeIs DEF WidgetState
<1>5. CASE ws[i].kind = "row"
  <2>1. InContainer(ws, j, at) = InRow(ws, j, at)
    BY <1>5 DEF InContainer, i
  <2> DEFINE f == Width(ws, i, Inner(at))
             s == Shift(ws[i].justify, Inner(at) - Sum(f, Kids(ws, i)))
             b == Sum(f, Before(ws, i, j))
  <2>2. f[j] \in Int /\ s \in Int /\ b \in Int
        /\ InRow(ws, j, at) = [x |-> at.x + Padding + s + b, w |-> f[j]]
    BY <1>1, InRowIs
  <2> HIDE DEF f, s, b
  <2> QED BY <1>3, <2>1, <2>2 DEF Spot
<1>6. CASE ws[i].kind = "column"
  <2>1. InContainer(ws, j, at) = InColumn(ws, j, at)
    BY <1>6 DEF InContainer, i
  <2> DEFINE width == IF ws[j].asked = AutoSize THEN Inner(at) ELSE ws[j].asked
             s == Shift(ws[i].align, Inner(at) - width)
  <2>2. InColumn(ws, j, at) = [x |-> at.x + Padding + s, w |-> width]
    BY DEF InColumn, i
  <2>3. width \in Int
    BY <1>3, <1>4
  <2> HIDE DEF width
  <2>4. s \in Int
    BY <1>3, <1>4, <2>3, ShiftIs
  <2> HIDE DEF s
  <2> QED BY <1>3, <2>1, <2>2, <2>3, <2>4 DEF Spot
<1>7. CASE ws[i].kind = "stack"
  <2>1. InContainer(ws, j, at) = InStack(at)
    BY <1>7 DEF InContainer, i
  <2> QED BY <1>3, <2>1 DEF InStack, Spot
<1> QED BY <1>2, <1>5, <1>6, <1>7

Placing(f, layout, D) ==
  f = [j \in D |-> IF j = 1 THEN RootPlace(layout)
                   ELSE InContainer(layout.widgets, j, f[layout.widgets[j].parent])]

LEMMA PlacingExists ==
  ASSUME NEW layout, Tree(layout.widgets)
  PROVE  \E f : Placing(f, layout, DOMAIN layout.widgets)
<1> DEFINE ws == layout.widgets
           n == Len(ws)
           D(k) == {i \in DOMAIN ws : i <= k}
           Bad == {k \in Nat : ~\E f : Placing(f, layout, D(k))}
           m == Min(Bad)
<1>1. n \in Nat /\ DOMAIN ws = 1..n /\ \A i \in DOMAIN ws : i # 1 => ws[i].parent \in 1..(i - 1)
  BY TreeIs DEF Tree, Rooted
<1> HIDE DEF n
<1>3. ASSUME Bad # {}
      PROVE  FALSE
  <2> HIDE DEF D
  <2>1. m \in Nat /\ ~(\E f : Placing(f, layout, D(m)))
        /\ \A k \in Nat : k < m => \E f : Placing(f, layout, D(k))
    <3>1. m \in Bad /\ \A k \in Bad : m <= k
      <4> HIDE DEF Bad
      <4>1. Bad \in SUBSET Nat
        BY DEF Bad
      <4> QED BY <1>3, <4>1, MinIs
    <3> HIDE DEF m
    <3> QED BY <3>1
  <2> HIDE DEF m
  <2>2. CASE m = 0
    <3> DEFINE f == [i \in D(m) |-> 0]
    <3>1. D(m) = {}
      BY <1>1, <2>2 DEF D
    <3>2. Placing(f, layout, D(m))
      BY <3>1 DEF Placing
    <3> QED BY <2>1, <3>2
  <2>3. CASE m # 0
    <3>1. m - 1 \in Nat /\ m - 1 < m
      BY <2>1, <2>3
    <3>2. PICK g : Placing(g, layout, D(m - 1))
      BY <2>1, <3>1
    <3>3. \A i \in D(m) : i # 1 => ws[i].parent \in D(m - 1)
      BY <1>1, <2>1, <3>1 DEF D
    <3>4. D(m - 1) \subseteq D(m)
      BY <1>1, <2>1, <3>1 DEF D
    <3> DEFINE h == [j \in D(m) |-> IF j = 1 THEN RootPlace(layout) ELSE InContainer(ws, j, g[ws[j].parent])]
    <3>5. \A j \in D(m - 1) : h[j] = g[j]
      BY <3>2, <3>4 DEF Placing
    <3> HIDE DEF h
    <3>6. \A i \in D(m) : i # 1 => h[ws[i].parent] = g[ws[i].parent]
      BY <3>3, <3>5
    <3>7. Placing(h, layout, D(m))
      BY <3>6 DEF Placing, h
    <3> QED BY <2>1, <3>7
  <2> QED BY <2>2, <2>3
<1>4. D(n) = DOMAIN ws
  BY <1>1
<1> HIDE DEF D
<1> QED BY <1>1, <1>3, <1>4

LEMMA LaidIs ==
  ASSUME NEW layout, Tree(layout.widgets)
  PROVE  Placing(Laid(layout), layout, DOMAIN layout.widgets)
<1> DEFINE h == CHOOSE f : f = [j \in DOMAIN layout.widgets |->
                                  IF j = 1 THEN RootPlace(layout)
                                  ELSE InContainer(layout.widgets, j, f[layout.widgets[j].parent])]
<1>1. Laid(layout) = h
  BY DEF Laid
<1>2. \E f : Placing(f, layout, DOMAIN layout.widgets)
  BY PlacingExists
<1>3. Placing(h, layout, DOMAIN layout.widgets)
  BY <1>2 DEF Placing
<1> QED BY <1>1, <1>3

LEMMA LaidInSpot ==
  ASSUME NEW layout \in LayoutState, Tree(layout.widgets)
  PROVE  \A j \in DOMAIN layout.widgets : Laid(layout)[j] \in Spot
<1> DEFINE ws == layout.widgets
           p == Laid(layout)
           G == {j \in DOMAIN ws : p[j] \in Spot}
<1>1. DOMAIN ws = 1..Len(ws) /\ Len(ws) \in Nat
  BY TreeIs
<1>2. \A j \in DOMAIN ws : p[j] = IF j = 1 THEN RootPlace(layout) ELSE InContainer(ws, j, p[ws[j].parent])
  BY LaidIs DEF Placing
<1>3. ASSUME NEW i \in 1..Len(ws), \A j \in 1..Len(ws) : j < i => j \in G
      PROVE  i \in G
  <2>1. CASE i = 1
    <3>1. layout.x \in Int /\ layout.w \in Int /\ ws[1].asked \in Int
      BY <1>1, <2>1, TreeIs DEF LayoutState
    <3>2. RootPlace(layout) \in Spot
      BY <3>1 DEF RootPlace, Spot
    <3> QED BY <1>1, <1>2, <2>1, <3>2
  <2>2. CASE i # 1
    <3>1. ws[i].parent \in 1..(i - 1)
      BY <1>1, <2>2 DEF Tree, Rooted
    <3>2. ws[i].parent \in G
      BY <1>1, <1>3, <3>1
    <3>3. InContainer(ws, i, p[ws[i].parent]) \in Spot
      BY <1>1, <2>2, <3>2, PlacedInSpot
    <3> QED BY <1>1, <1>2, <2>2, <3>3
  <2> QED BY <2>1, <2>2
<1>4. G \in SUBSET (1..Len(ws))
  BY <1>1
<1>5. G = 1..Len(ws)
  <2> HIDE DEF G, ws
  <2> QED BY <1>1, <1>3, <1>4, FirstToLast
<1> QED BY <1>1, <1>5

LEMMA RowInside ==
  ASSUME NEW ws, Tree(ws), NEW i \in DOMAIN ws, NEW at \in Spot, Widest(ws, Kids(ws, i)) <= Inner(at),
         \A k \in Kids(ws, i) : ws[k].asked = AutoSize \/ ws[k].asked >= 0,
         NEW j \in Kids(ws, i)
  PROVE  /\ at.x + Padding <= InRow(ws, j, at).x
         /\ InRow(ws, j, at).x + InRow(ws, j, at).w <= at.x + at.w - Padding
         /\ \A k \in Kids(ws, i) : j < k => InRow(ws, j, at).x + InRow(ws, j, at).w <= InRow(ws, k, at).x
<1> DEFINE inner == Inner(at)
           f == Width(ws, i, inner)
           K == Kids(ws, i)
           A == Autos(ws, K)
           v == Widest(ws, K)
           q == AutoWidth(ws, i, inner)
           s == Shift(ws[i].justify, inner - Sum(f, K))
           B(k) == Before(ws, i, k)
<1>1. at.x \in Int /\ at.w \in Int /\ Padding \in Int /\ inner \in Int /\ inner = at.w - 2 * Padding /\ v \in Int
  <2>1. at.x \in Int /\ at.w \in Int /\ Padding \in Int /\ inner = at.w - 2 * Padding
    BY GuiAssumption DEF Spot, Inner
  <2>2. v \in Int
    BY WidestIs
  <2> HIDE DEF v, inner
  <2> QED BY <2>1, <2>2
<1>2. q \in Nat /\ Cardinality(A) \in Nat /\ (inner >= 0 /\ v <= inner => q * Cardinality(A) <= inner - v)
  BY <1>1, AutoWidthIs
<1>3. IsFiniteSet(K) /\ IsFiniteSet(A) /\ IsFiniteSet(K \ A) /\ A \subseteq K /\ A \cap (K \ A) = {} /\ A \cup (K \ A) = K
  BY KidsFinite
<1>4. \A k \in K : /\ f[k] = IF ws[k].asked = AutoSize THEN q ELSE ws[k].asked
                   /\ ws[k].asked \in Int /\ (k \in A <=> ws[k].asked = AutoSize)
                   /\ k \in DOMAIN ws /\ k \in Nat
  BY TreeIs DEF Width, Autos
<1>5. \A k \in K : InRow(ws, k, at) = [x |-> at.x + Padding + s + Sum(f, B(k)), w |-> f[k]]
  BY InRowIs
<1>6. \A k \in K : f[k] \in Nat
  BY <1>2, <1>4
<1>7. v = Sum(AskedBy(ws, K), K \ A)
  BY WidestIs
<1>8. ws[i].justify \in Hows
  BY TreeIs DEF WidgetState
<1>9. \A k \in K : /\ B(k) \in SUBSET K /\ B(k) \cup {k} \in SUBSET K /\ (B(k) \cup {k}) \ {k} = B(k)
                   /\ \A l \in K : k < l => B(k) \cup {k} \in SUBSET B(l)
  BY <1>4 DEF Before
<1>10. \A k \in K \ A : f[k] = AskedBy(ws, K)[k]
  BY <1>4 DEF AskedBy
<1>11. \A k \in A : f[k] = q
  BY <1>3, <1>4
<1>12. v <= inner
  OBVIOUS
<1> HIDE DEF inner, f, K, A, v, q
<1>13. Sum(f, K \ A) = v
  BY <1>3, <1>7, <1>10, SumSame
<1>14. Sum(f, A) = q * Cardinality(A)
  BY <1>2, <1>3, <1>11, SumConstant
<1>15. Sum(f, K) = Sum(f, A) + Sum(f, K \ A)
  <2>1. Integral(f, A \cup (K \ A))
    BY <1>3, <1>6 DEF Integral
  <2>2. Sum(f, A \cup (K \ A)) = Sum(f, A) + Sum(f, K \ A)
    BY <1>3, <2>1, SumUnion
  <2> QED BY <1>3, <2>2
<1>16. \A S \in SUBSET K : Sum(f, S) \in Nat /\ Sum(f, K) \in Nat /\ Sum(f, S) <= Sum(f, K)
  BY <1>3, <1>6, SumOfPart
<1>17. v >= 0
  BY <1>3, <1>13, <1>16
<1>18. Sum(f, K) <= inner
  <2>1. q * Cardinality(A) <= inner - v
    BY <1>1, <1>2, <1>12, <1>17
  <2>2. Sum(f, A) <= inner - v
    BY <1>14, <2>1
  <2>3. Sum(f, A) \in Nat
    BY <1>3, <1>16
  <2> QED BY <1>1, <1>13, <1>15, <2>2, <2>3
<1>19. s \in Int /\ 0 <= s /\ s <= inner - Sum(f, K)
  <2>1. inner - Sum(f, K) \in Int /\ inner - Sum(f, K) >= 0
    BY <1>1, <1>16, <1>18
  <2> QED BY <1>8, <2>1, ShiftIs
<1> HIDE DEF s, B
<1>20. \A k \in K : /\ Sum(f, B(k)) \in Nat
                    /\ Sum(f, B(k)) + f[k] = Sum(f, B(k) \cup {k})
                    /\ Sum(f, B(k)) + f[k] <= Sum(f, K)
                    /\ \A l \in K : k < l => Sum(f, B(k)) + f[k] <= Sum(f, B(l))
  <2>1. ASSUME NEW k \in K
        PROVE  /\ Sum(f, B(k)) \in Nat
               /\ Sum(f, B(k)) + f[k] = Sum(f, B(k) \cup {k})
               /\ Sum(f, B(k)) + f[k] <= Sum(f, K)
               /\ \A l \in K : k < l => Sum(f, B(k)) + f[k] <= Sum(f, B(l))
    <3> DEFINE S == B(k) \cup {k}
    <3>1. S \in SUBSET K /\ S \ {k} = B(k) /\ k \in S /\ IsFiniteSet(S) /\ \A x \in S : f[x] \in Nat
      <4>1. S \in SUBSET K /\ S \ {k} = B(k) /\ k \in S
        BY <1>9
      <4> HIDE DEF S
      <4> QED BY <1>3, <1>6, <4>1, FS_Subset
    <3> HIDE DEF S
    <3>2. Sum(f, S) \in Nat /\ Sum(f, S \ {k}) \in Nat /\ Sum(f, S) = f[k] + Sum(f, S \ {k})
      <4>1. Counting(f, S)
        BY <3>1 DEF Counting
      <4> QED BY <3>1, <4>1, SumWithout
    <3>3. Sum(f, B(k)) \in Nat /\ f[k] \in Nat /\ Sum(f, B(k)) + f[k] = Sum(f, S)
      <4>1. Sum(f, S \ {k}) = Sum(f, B(k))
        BY <3>1
      <4>2. f[k] \in Nat
        BY <1>6
      <4> QED BY <3>2, <4>1, <4>2
    <3>4. Sum(f, S) <= Sum(f, K)
      BY <1>16, <3>1
    <3>5. ASSUME NEW l \in K, k < l
          PROVE  Sum(f, S) <= Sum(f, B(l))
      <4>1. S \in SUBSET B(l) /\ B(l) \in SUBSET K
        BY <1>9, <3>5 DEF S
      <4>2. IsFiniteSet(B(l)) /\ \A x \in B(l) : f[x] \in Nat
        BY <1>3, <1>6, <4>1, FS_Subset
      <4> QED BY <4>1, <4>2, SumOfPart
    <3> QED BY <3>3, <3>4, <3>5 DEF S
  <2> QED BY <2>1
<1>21. /\ InRow(ws, j, at).x = at.x + Padding + s + Sum(f, B(j)) /\ InRow(ws, j, at).w = f[j]
       /\ f[j] \in Nat /\ Sum(f, B(j)) \in Nat
       /\ \A k \in K : InRow(ws, k, at).x = at.x + Padding + s + Sum(f, B(k)) /\ Sum(f, B(k)) \in Nat
  <2>1. j \in K
    BY DEF K
  <2>2. ASSUME NEW k \in K
        PROVE  /\ InRow(ws, k, at).x = at.x + Padding + s + Sum(f, B(k)) /\ InRow(ws, k, at).w = f[k]
               /\ f[k] \in Nat /\ Sum(f, B(k)) \in Nat
    <3>1. InRow(ws, k, at) = [x |-> at.x + Padding + s + Sum(f, B(k)), w |-> f[k]]
      BY <1>5
    <3>2. f[k] \in Nat /\ Sum(f, B(k)) \in Nat
      BY <1>6, <1>20
    <3> QED BY <3>1, <3>2
  <2> QED BY <2>1, <2>2
<1>22. at.x + Padding <= InRow(ws, j, at).x
  BY <1>1, <1>19, <1>21
<1>23. InRow(ws, j, at).x + InRow(ws, j, at).w <= at.x + at.w - Padding
  <2>1. Sum(f, B(j)) + f[j] <= Sum(f, K) /\ Sum(f, K) \in Nat
    BY <1>16, <1>20 DEF K
  <2> QED BY <1>1, <1>19, <1>21, <2>1
<1>24. ASSUME NEW k \in K, j < k
       PROVE  InRow(ws, j, at).x + InRow(ws, j, at).w <= InRow(ws, k, at).x
  <2>1. Sum(f, B(j)) + f[j] <= Sum(f, B(k)) /\ Sum(f, B(k)) \in Nat
    BY <1>20, <1>24 DEF K
  <2>2. InRow(ws, k, at).x = at.x + Padding + s + Sum(f, B(k))
    BY <1>21
  <2> QED BY <1>1, <1>19, <1>21, <2>1, <2>2
<1> QED BY <1>22, <1>23, <1>24 DEF K

(* What a layout pass, and a function that is given back, leave alone. *)
SameTree(ws, ns) ==
  /\ ns \in Seq(WidgetState) /\ Len(ns) = Len(ws)
  /\ \A i \in DOMAIN ws : ns[i].kind = ws[i].kind /\ ns[i].parent = ws[i].parent /\ ns[i].asked = ws[i].asked

LEMMA SameTreeIs ==
  ASSUME NEW ws, Tree(ws), NEW ns, SameTree(ws, ns)
  PROVE  /\ Tree(ns) /\ DOMAIN ns = DOMAIN ws
         /\ \A i \in DOMAIN ws : /\ Kids(ns, i) = Kids(ws, i)
                                 /\ Autos(ns, Kids(ns, i)) = Autos(ws, Kids(ws, i))
                                 /\ Widest(ns, Kids(ns, i)) = Widest(ws, Kids(ws, i))
         /\ \A c : Building(ws, c) => Building(ns, c)
<1>1. DOMAIN ns = DOMAIN ws /\ Len(ws) \in Nat /\ DOMAIN ws = 1..Len(ws) /\ ns \in Seq(WidgetState)
  BY TreeIs, LenProperties DEF SameTree
<1>2. \A i \in DOMAIN ws : /\ ns[i].parent = ws[i].parent /\ ns[i].asked = ws[i].asked
                           /\ (IsContainer(ns[i]) <=> IsContainer(ws[i]))
  BY DEF SameTree, IsContainer
<1>3. Rooted(ns)
  <2>1. ASSUME NEW i \in DOMAIN ws, i # 1
        PROVE  ws[i].parent \in DOMAIN ws
    BY <1>1, <2>1 DEF Tree, Rooted
  <2> QED BY <1>1, <1>2, <2>1 DEF Tree, Rooted
<1>4. Nested(ns)
  BY <1>1, <1>2 DEF Tree, Nested
<1>5. Tree(ns)
  BY <1>1, <1>3, <1>4 DEF Tree
<1>6. ASSUME NEW i \in DOMAIN ws
      PROVE  /\ Kids(ns, i) = Kids(ws, i) /\ Autos(ns, Kids(ns, i)) = Autos(ws, Kids(ws, i))
             /\ Widest(ns, Kids(ns, i)) = Widest(ws, Kids(ws, i))
  <2>1. Kids(ns, i) = Kids(ws, i)
    BY <1>1, <1>2 DEF Kids
  <2>2. Autos(ns, Kids(ns, i)) = Autos(ws, Kids(ws, i))
    BY <1>2, <2>1, TreeIs DEF Autos
  <2>3. AskedBy(ns, Kids(ns, i)) = AskedBy(ws, Kids(ws, i))
    BY <1>2, <2>1, TreeIs DEF AskedBy
  <2>4. Widest(ns, Kids(ns, i)) = Sum(AskedBy(ns, Kids(ns, i)), Kids(ns, i) \ Autos(ns, Kids(ns, i)))
    BY <1>1, <1>5, WidestIs
  <2>5. Widest(ws, Kids(ws, i)) = Sum(AskedBy(ws, Kids(ws, i)), Kids(ws, i) \ Autos(ws, Kids(ws, i)))
    BY WidestIs
  <2> QED BY <2>1, <2>2, <2>3, <2>4, <2>5
<1>7. ASSUME NEW c, Building(ws, c)
      PROVE  Building(ns, c)
  BY <1>1, <1>2, <1>7 DEF Building
<1> QED BY <1>1, <1>5, <1>6, <1>7

(* A row whose children fit keeps them inside, in their order and apart. *)
RowsKept(ws) ==
  \A i \in DOMAIN ws :
    (/\ ws[i].kind = "row" /\ Widest(ws, Kids(ws, i)) <= Inner(ws[i].at)
     /\ \A j \in Kids(ws, i) : ws[j].asked = AutoSize \/ ws[j].asked >= 0)
    => \A j \in Kids(ws, i) :
         /\ ws[i].at.x + Padding <= ws[j].at.x
         /\ ws[j].at.x + ws[j].at.w <= ws[i].at.x + ws[i].at.w - Padding
         /\ \A k \in Kids(ws, i) : j < k => ws[j].at.x + ws[j].at.w <= ws[k].at.x

LEMMA LaidOutIs ==
  ASSUME NEW layout \in LayoutState, Tree(layout.widgets)
  PROVE  /\ LaidOut(layout) \in LayoutState /\ SameTree(layout.widgets, LaidOut(layout).widgets)
         /\ LaidOut(layout).current = layout.current
         /\ \A i \in DOMAIN layout.widgets :
              /\ LaidOut(layout).widgets[i].ref = layout.widgets[i].ref
              /\ LaidOut(layout).widgets[i].at = Laid(layout)[i]
<1> DEFINE ws == layout.widgets
           p == Laid(layout)
           ns == [j \in DOMAIN ws |-> [ws[j] EXCEPT !.at = p[j]]]
<1>1. DOMAIN ws = 1..Len(ws) /\ Len(ws) \in Nat /\ \A j \in DOMAIN ws : ws[j] \in WidgetState
  BY TreeIs
<1>2. \A j \in DOMAIN ws : p[j] \in Spot
  BY LaidInSpot
<1>3. LaidOut(layout) = [layout EXCEPT !.widgets = ns]
  BY DEF LaidOut
<1> HIDE DEF p
<1>4. \A j \in DOMAIN ws : /\ ns[j] \in WidgetState /\ ns[j].at = p[j] /\ ns[j].kind = ws[j].kind
                           /\ ns[j].parent = ws[j].parent /\ ns[j].asked = ws[j].asked /\ ns[j].ref = ws[j].ref
  BY <1>1, <1>2 DEF WidgetState
<1>5. ns \in Seq(WidgetState) /\ Len(ns) = Len(ws)
  <2>1. ns \in [1..Len(ws) -> WidgetState]
    BY <1>1, <1>4
  <2> QED BY <1>1, <2>1, SeqDef, LenProperties
<1>6. LaidOut(layout) \in LayoutState /\ LaidOut(layout).widgets = ns /\ LaidOut(layout).current = layout.current
  <2> HIDE DEF ns
  <2> QED BY <1>3, <1>5 DEF LayoutState
<1>7. SameTree(ws, ns)
  BY <1>4, <1>5 DEF SameTree
<1> HIDE DEF ns
<1> QED BY <1>4, <1>6, <1>7 DEF p

LEMMA LaidOutFits ==
  ASSUME NEW layout \in LayoutState, Tree(layout.widgets)
  PROVE  RowsKept(LaidOut(layout).widgets)
<1> DEFINE ws == layout.widgets
           p == Laid(layout)
           ns == LaidOut(layout).widgets
<1>1. /\ SameTree(ws, ns) /\ \A i \in DOMAIN ws : ns[i].at = p[i]
  BY LaidOutIs
<1>2. \A j \in DOMAIN ws : p[j] = IF j = 1 THEN RootPlace(layout) ELSE InContainer(ws, j, p[ws[j].parent])
  BY LaidIs DEF Placing
<1>3. \A j \in DOMAIN ws : p[j] \in Spot
  BY LaidInSpot
<1> HIDE DEF p, ns
<1>4. Tree(ns) /\ DOMAIN ns = DOMAIN ws
      /\ \A i \in DOMAIN ws : Kids(ns, i) = Kids(ws, i) /\ Widest(ns, Kids(ns, i)) = Widest(ws, Kids(ws, i))
  BY <1>1, SameTreeIs
<1>5. \A i \in DOMAIN ws : ns[i].kind = ws[i].kind /\ ns[i].asked = ws[i].asked
  BY <1>1 DEF SameTree
<1>6. ASSUME NEW i \in DOMAIN ws, ws[i].kind = "row", NEW j \in Kids(ws, i)
      PROVE  j \in DOMAIN ws /\ ns[j].at = InRow(ws, j, p[i])
  <2>1. j \in DOMAIN ws /\ j # 1 /\ ws[j].parent = i
    BY TreeIs
  <2>2. ns[j].at = InContainer(ws, j, p[i])
    BY <1>1, <1>2, <2>1
  <2> QED BY <1>6, <2>1, <2>2 DEF InContainer
<1>7. ASSUME NEW i \in DOMAIN ws, ws[i].kind = "row", Widest(ws, Kids(ws, i)) <= Inner(p[i]),
             \A j \in Kids(ws, i) : ws[j].asked = AutoSize \/ ws[j].asked >= 0, NEW j \in Kids(ws, i)
      PROVE  /\ p[i].x + Padding <= ns[j].at.x
             /\ ns[j].at.x + ns[j].at.w <= p[i].x + p[i].w - Padding
             /\ \A k \in Kids(ws, i) : j < k => ns[j].at.x + ns[j].at.w <= ns[k].at.x
  BY <1>3, <1>6, <1>7, RowInside
<1>8. \A i \in DOMAIN ws : ns[i].at = p[i]
  BY <1>1
<1>9. \A i \in DOMAIN ws : \A j \in Kids(ws, i) : j \in DOMAIN ws
  BY TreeIs
<1>10. RowsKept(ns)
  BY <1>4, <1>5, <1>7, <1>8, <1>9 DEF RowsKept
<1> QED BY <1>10 DEF ns
-----------------------------------------------------------------------------
(* The GUI: every step.                                                     *)

Trees(ls) == \A l \in DOMAIN ls : Tree(ls[l].widgets) /\ Building(ls[l].widgets, ls[l].current)

(* A function is kept for the button that holds it, and no other. *)
Keeps(ls, rs) ==
  /\ \A l \in DOMAIN ls : \A i \in DOMAIN ls[l].widgets :
       ls[l].widgets[i].ref # 0 => rs[ls[l].widgets[i].ref] = <<l, i>>
  /\ \A s \in Slots : rs[s] \notin {Free, Leaked} =>
       \E l \in DOMAIN ls : \E i \in DOMAIN ls[l].widgets : rs[s] = <<l, i>> /\ ls[l].widgets[i].ref = s

GuiTyped ==
  /\ layouts \in Seq(LayoutState) /\ Len(layouts) <= MaxLayouts /\ open \in 0..Len(layouts)
  /\ guiPhase \in {"script", "input", "hit", "callback"}
  /\ turn \in Nat /\ mouse \in Clicks \cup {NoClick} /\ hit \in Nat
  /\ refs \in [Slots -> Nat \X Nat]

(* While a click is answered, and while a function runs, the layout and the *)
(* button stay where they are, whatever is built meanwhile.                 *)
Answering ==
  /\ guiPhase \in {"hit", "callback"} => turn \in DOMAIN layouts /\ hit \in 0..Len(layouts[turn].widgets)
  /\ guiPhase = "callback" => hit # 0 /\ layouts[turn].widgets[hit].ref # 0

RowsHold ==
  guiPhase = "input" /\ turn = 1 => \A l \in DOMAIN layouts : RowsKept(layouts[l].widgets)

GuiInv ==
  /\ GuiTyped /\ Trees(layouts) /\ Keeps(layouts, refs)
  /\ Answering /\ ClicksReachFirst /\ RowsHold

LEMMA GrownTree ==
  ASSUME NEW ws, Tree(ws), NEW c, Building(ws, c), NEW w \in WidgetState, w.parent = c, c = 0 => ws = <<>>
  PROVE  /\ Tree(Append(ws, w)) /\ Building(Append(ws, w), c)
         /\ IsContainer(w) => Building(Append(ws, w), Len(ws) + 1)
<1> DEFINE ns == Append(ws, w)
           n == Len(ws)
<1>1. n \in Nat /\ DOMAIN ws = 1..n /\ ws \in Seq(WidgetState) /\ \A i \in DOMAIN ws : ws[i].parent \in Nat
  BY TreeIs DEF Tree
<1>2. /\ ns \in Seq(WidgetState) /\ DOMAIN ns = 1..(n + 1) /\ ns[n + 1] = w
      /\ \A i \in 1..n : ns[i] = ws[i]
  BY <1>1, AppendProperties, LenProperties
<1>3. c \in Nat /\ (c = 0 => n = 0)
  <2>1. c \in Nat
    BY DEF WidgetState
  <2>2. c = 0 => n = 0
    BY EmptySeq
  <2> QED BY <2>1, <2>2
<1>4. c # 0 => c \in 1..n /\ IsContainer(ws[c]) /\ \A i \in 1..n : c < i => c <= ws[i].parent
  BY <1>1 DEF Building
<1> HIDE DEF ns, n
<1>5. Rooted(ns)
  <2>1. ASSUME NEW i \in 1..(n + 1)
        PROVE  IF i = 1 THEN ns[i].parent = 0 ELSE ns[i].parent \in 1..(i - 1) /\ IsContainer(ns[ns[i].parent])
    <3>1. CASE i = n + 1
      <4>1. CASE c = 0
        BY <1>1, <1>2, <1>3, <3>1, <4>1
      <4>2. CASE c # 0
        <5>1. c \in 1..n /\ IsContainer(ws[c])
          BY <1>4, <4>2
        <5>2. i # 1 /\ ns[i].parent = c /\ c \in 1..(i - 1) /\ ns[c] = ws[c]
          BY <1>1, <1>2, <3>1, <5>1
        <5> QED BY <5>1, <5>2
      <4> QED BY <4>1, <4>2
    <3>2. CASE i # n + 1
      <4>1. i \in 1..n /\ ns[i] = ws[i]
        BY <1>1, <1>2, <3>2
      <4>2. IF i = 1 THEN ws[i].parent = 0 ELSE ws[i].parent \in 1..(i - 1) /\ IsContainer(ws[ws[i].parent])
        BY <1>1, <4>1 DEF Tree, Rooted
      <4>3. i # 1 => ws[i].parent \in 1..n
        BY <1>1, <4>1, <4>2
      <4> QED BY <1>2, <4>1, <4>2, <4>3
    <3> QED BY <3>1, <3>2
  <2> QED BY <1>2, <2>1 DEF Rooted
<1>6. Nested(ns)
  <2>1. ASSUME NEW i \in 1..(n + 1), NEW j \in 1..(n + 1), ns[j].parent < i, i < j
        PROVE  ns[j].parent <= ns[i].parent
    <3>1. i \in 1..n /\ ns[i] = ws[i]
      BY <1>1, <1>2, <2>1
    <3>2. CASE j = n + 1
      <4>1. c < i /\ c # 0
        BY <1>1, <1>2, <1>3, <2>1, <3>1, <3>2
      <4> QED BY <1>2, <1>4, <3>1, <3>2, <4>1
    <3>3. CASE j # n + 1
      <4>1. j \in 1..n /\ ns[j] = ws[j]
        BY <1>1, <1>2, <3>3
      <4> QED BY <1>1, <2>1, <3>1, <4>1 DEF Tree, Nested
    <3> QED BY <3>2, <3>3
  <2> QED BY <1>2, <2>1 DEF Nested
<1>7. Building(ns, c)
  <2>1. ASSUME c # 0
        PROVE  c \in 1..(n + 1) /\ IsContainer(ns[c]) /\ \A i \in 1..(n + 1) : c < i => c <= ns[i].parent
    <3>1. c \in 1..n /\ IsContainer(ws[c]) /\ ns[c] = ws[c]
      BY <1>2, <1>4, <2>1
    <3>2. ASSUME NEW i \in 1..(n + 1), c < i
          PROVE  c <= ns[i].parent
      <4>1. CASE i = n + 1
        BY <1>2, <1>3, <4>1
      <4>2. CASE i # n + 1
        <5>1. i \in 1..n
          BY <1>1, <4>2
        <5> QED BY <1>2, <1>4, <2>1, <3>2, <5>1
      <4> QED BY <4>1, <4>2
    <3> QED BY <1>1, <3>1, <3>2
  <2> QED BY <1>2, <2>1 DEF Building
<1>8. ASSUME IsContainer(w)
      PROVE  Building(ns, n + 1)
  BY <1>1, <1>2, <1>8 DEF Building
<1> QED BY <1>2, <1>5, <1>6, <1>7, <1>8 DEF ns, n, Tree

LEMMA ClosedTree ==
  ASSUME NEW ws, Tree(ws), NEW c, Building(ws, c), c # 0
  PROVE  ws[c].parent \in Nat /\ Building(ws, ws[c].parent)
<1> DEFINE q == ws[c].parent
<1>1. c \in DOMAIN ws /\ c \in Nat /\ q \in Nat /\ DOMAIN ws = 1..Len(ws) /\ Len(ws) \in Nat
      /\ \A i \in DOMAIN ws : ws[i].parent \in Nat
  BY TreeIs DEF Building
<1>2. \A i \in DOMAIN ws : c < i => c <= ws[i].parent
  BY DEF Building
<1>3. q # 0 => q \in 1..(c - 1) /\ IsContainer(ws[q])
  BY <1>1 DEF Tree, Rooted
<1>4. \A i \in DOMAIN ws : q < i /\ i < c => q <= ws[i].parent
  BY <1>1 DEF Tree, Nested
<1>5. ASSUME q # 0, NEW i \in DOMAIN ws, q < i
      PROVE  q <= ws[i].parent
  <2> HIDE DEF q
  <2>1. i < c \/ i = c \/ c < i
    BY <1>1
  <2>2. CASE i < c
    BY <1>4, <1>5, <2>2
  <2>3. CASE i = c
    BY <1>1, <2>3 DEF q
  <2>4. CASE c < i
    <3>1. c <= ws[i].parent /\ q <= c /\ ws[i].parent \in Nat
      BY <1>1, <1>2, <1>3, <1>5, <2>4
    <3> QED BY <1>1, <3>1
  <2> QED BY <2>1, <2>2, <2>3, <2>4
<1>6. q # 0 => q \in DOMAIN ws /\ IsContainer(ws[q])
  BY <1>1, <1>3
<1> QED BY <1>1, <1>5, <1>6 DEF Building

(* One layout gets other widgets, or another container to build into. *)
Rebuilt(ls, ns, o, W, c) ==
  /\ ns \in Seq(LayoutState) /\ Len(ns) = Len(ls) /\ DOMAIN ns = DOMAIN ls
  /\ ns[o].widgets = W /\ ns[o].current = c
  /\ \A l \in DOMAIN ls : l # o => ns[l] = ls[l]

LEMMA RebuiltTrees ==
  ASSUME NEW ls, Trees(ls), NEW ns, NEW o, NEW W, NEW c, Rebuilt(ls, ns, o, W, c), Tree(W), Building(W, c)
  PROVE  Trees(ns)
BY DEF Trees, Rebuilt

LEMMA KeepsSame ==
  ASSUME NEW ls, NEW rs, Keeps(ls, rs), NEW ns, DOMAIN ns = DOMAIN ls,
         \A l \in DOMAIN ls : /\ DOMAIN ns[l].widgets = DOMAIN ls[l].widgets
                              /\ \A i \in DOMAIN ls[l].widgets : ns[l].widgets[i].ref = ls[l].widgets[i].ref
  PROVE  Keeps(ns, rs)
<1>1. ASSUME NEW l \in DOMAIN ns, NEW i \in DOMAIN ns[l].widgets, ns[l].widgets[i].ref # 0
      PROVE  rs[ns[l].widgets[i].ref] = <<l, i>>
  <2>1. l \in DOMAIN ls /\ i \in DOMAIN ls[l].widgets
    BY <1>1
  <2>2. ns[l].widgets[i].ref = ls[l].widgets[i].ref
    BY <2>1
  <2>3. rs[ls[l].widgets[i].ref] = <<l, i>>
    BY <1>1, <2>1, <2>2 DEF Keeps
  <2> QED BY <2>2, <2>3
<1>2. ASSUME NEW s \in Slots, rs[s] \notin {Free, Leaked}
      PROVE  \E l \in DOMAIN ns : \E i \in DOMAIN ns[l].widgets : rs[s] = <<l, i>> /\ ns[l].widgets[i].ref = s
  <2>1. PICK l \in DOMAIN ls : \E i \in DOMAIN ls[l].widgets : rs[s] = <<l, i>> /\ ls[l].widgets[i].ref = s
    BY <1>2 DEF Keeps
  <2>2. PICK i \in DOMAIN ls[l].widgets : rs[s] = <<l, i>> /\ ls[l].widgets[i].ref = s
    BY <2>1
  <2> QED BY <2>2
<1> QED BY <1>1, <1>2 DEF Keeps

(* A widget more, with the function of a button or with none. *)
TreeGrown(ls, rs, ns, rt, o, c, w) ==
  /\ rs \in [Slots -> Nat \X Nat] /\ Keeps(ls, rs) /\ Trees(ls) /\ o \in DOMAIN ls
  /\ Rebuilt(ls, ns, o, Append(ls[o].widgets, w), c)
  /\ w \in WidgetState /\ (w.ref # 0 => rs[w.ref] = Free)
  /\ rt = IF w.ref = 0 THEN rs ELSE [rs EXCEPT ![w.ref] = <<o, Len(ls[o].widgets) + 1>>]

Holding(ls, ns) ==
  \A l \in DOMAIN ls : \A i \in DOMAIN ls[l].widgets :
    i \in DOMAIN ns[l].widgets /\ ns[l].widgets[i].ref = ls[l].widgets[i].ref

LEMMA KeepsGrown ==
  ASSUME NEW ls, NEW rs, NEW ns, NEW rt, NEW o, NEW c, NEW w, TreeGrown(ls, rs, ns, rt, o, c, w)
  PROVE  Keeps(ns, rt) /\ Holding(ls, ns)
<1> USE DEF TreeGrown
<1> DEFINE n == Len(ls[o].widgets)
           ws == ls[o].widgets
<1>1. /\ n \in Nat /\ DOMAIN ws = 1..n /\ ws \in Seq(WidgetState)
  BY TreeIs DEF Trees, Tree
<1>2. /\ ns[o].widgets = Append(ws, w) /\ DOMAIN Append(ws, w) = 1..(n + 1) /\ Append(ws, w)[n + 1] = w
      /\ \A i \in 1..n : Append(ws, w)[i] = ws[i]
  BY <1>1, AppendProperties, LenProperties DEF Rebuilt
<1>3. DOMAIN ns = DOMAIN ls /\ \A l \in DOMAIN ls : l # o => ns[l] = ls[l]
  BY DEF Rebuilt
<1>4. w.ref \in Slots \cup {0}
  BY DEF WidgetState
<1>5. \A l \in DOMAIN ls : \A i \in DOMAIN ls[l].widgets :
        i \in DOMAIN ns[l].widgets /\ ns[l].widgets[i] = ls[l].widgets[i]
  <2> TAKE l \in DOMAIN ls
  <2> TAKE i \in DOMAIN ls[l].widgets
  <2>1. CASE l # o
    BY <1>3, <2>1
  <2>2. CASE l = o
    <3>1. i \in 1..n /\ i \in 1..(n + 1)
      BY <1>1, <2>2
    <3> QED BY <1>2, <2>2, <3>1
  <2> QED BY <2>1, <2>2
<1>6. \A l \in DOMAIN ls : \A i \in DOMAIN ns[l].widgets : i \in DOMAIN ls[l].widgets \/ (l = o /\ i = n + 1)
  BY <1>1, <1>2, <1>3
<1>7. ns[o].widgets[n + 1] = w /\ n + 1 \in DOMAIN ns[o].widgets
  BY <1>1, <1>2
<1>8. \A l \in DOMAIN ls : \A i \in DOMAIN ls[l].widgets : <<l, i>> # Free
  <2>1. ASSUME NEW l \in DOMAIN ls, NEW i \in DOMAIN ls[l].widgets
        PROVE  i # 0
    BY TreeIs DEF Trees
  <2> QED BY <2>1 DEF Free
<1> HIDE DEF n, ws
<1>9. ASSUME NEW l \in DOMAIN ns, NEW i \in DOMAIN ns[l].widgets, ns[l].widgets[i].ref # 0
      PROVE  rt[ns[l].widgets[i].ref] = <<l, i>>
  <2>1. CASE i \in DOMAIN ls[l].widgets
    <3> DEFINE s == ls[l].widgets[i].ref
    <3>1. l \in DOMAIN ls /\ ns[l].widgets[i].ref = s /\ s # 0
      BY <1>3, <1>5, <1>9, <2>1
    <3>2. rs[s] = <<l, i>>
      BY <2>1, <3>1 DEF Keeps
    <3>5. rs[s] # Free
      BY <1>8, <2>1, <3>1, <3>2
    <3>3. s \in Slots
      BY <2>1, <3>1, TreeIs DEF Trees
    <3> HIDE DEF s
    <3>4. w.ref # 0 => s # w.ref
      BY <3>5
    <3> QED BY <3>1, <3>2, <3>3, <3>4
  <2>2. CASE l = o /\ i = n + 1
    <3>1. ns[l].widgets[i] = w
      BY <1>7, <2>2
    <3>2. rt[w.ref] = <<o, n + 1>>
      BY <1>4, <1>9, <3>1 DEF n
    <3> QED BY <2>2, <3>1, <3>2
  <2> QED BY <1>3, <1>6, <2>1, <2>2
<1>10. ASSUME NEW s \in Slots, rt[s] \notin {Free, Leaked}
       PROVE  \E l \in DOMAIN ns : \E i \in DOMAIN ns[l].widgets : rt[s] = <<l, i>> /\ ns[l].widgets[i].ref = s
  <2>1. CASE w.ref # 0 /\ s = w.ref
    <3>1. rt[s] = <<o, n + 1>>
      BY <1>4, <2>1 DEF n
    <3> QED BY <1>3, <1>7, <2>1, <3>1
  <2>2. CASE ~(w.ref # 0 /\ s = w.ref)
    <3>1. rt[s] = rs[s]
      BY <2>2
    <3>2. PICK l \in DOMAIN ls : \E i \in DOMAIN ls[l].widgets : rs[s] = <<l, i>> /\ ls[l].widgets[i].ref = s
      BY <1>10, <3>1 DEF Keeps
    <3>3. PICK i \in DOMAIN ls[l].widgets : rs[s] = <<l, i>> /\ ls[l].widgets[i].ref = s
      BY <3>2
    <3>4. i \in DOMAIN ns[l].widgets /\ ns[l].widgets[i] = ls[l].widgets[i]
      BY <1>5
    <3> QED BY <1>3, <3>1, <3>3, <3>4
  <2> QED BY <2>1, <2>2
<1>11. Keeps(ns, rt)
  BY <1>9, <1>10 DEF Keeps
<1> QED BY <1>5, <1>11 DEF Holding

LEMMA BuildStep ==
  ASSUME GuiInv, MayBuild, layouts' \in Seq(LayoutState), Len(layouts') <= MaxLayouts, open' \in 0..Len(layouts'),
         refs' \in [Slots -> Nat \X Nat], Trees(layouts'), Keeps(layouts', refs'),
         \A l \in DOMAIN layouts : l \in DOMAIN layouts' /\
           \A i \in DOMAIN layouts[l].widgets :
             i \in DOMAIN layouts'[l].widgets /\ layouts'[l].widgets[i].ref = layouts[l].widgets[i].ref
  PROVE  GuiInv'
<1>1. /\ guiPhase \in {"script", "callback"} /\ guiPhase' = guiPhase /\ turn' = turn
      /\ mouse' = mouse /\ hit' = hit
  BY DEF MayBuild
<1>2. GuiTyped'
  BY <1>1 DEF GuiInv, GuiTyped
<1>3. Answering'
  <2>1. ASSUME guiPhase = "callback"
        PROVE  /\ turn \in DOMAIN layouts' /\ hit \in 0..Len(layouts'[turn].widgets)
               /\ hit # 0 /\ layouts'[turn].widgets[hit].ref # 0
    <3>1. /\ turn \in DOMAIN layouts /\ hit \in 0..Len(layouts[turn].widgets)
          /\ hit # 0 /\ layouts[turn].widgets[hit].ref # 0
      BY <2>1 DEF GuiInv, Answering
    <3>2. DOMAIN layouts[turn].widgets = 1..Len(layouts[turn].widgets) /\ Len(layouts[turn].widgets) \in Nat
      BY <3>1, TreeIs DEF GuiInv, Trees
    <3>3. hit \in DOMAIN layouts[turn].widgets
      BY <3>1, <3>2
    <3>4. turn \in DOMAIN layouts' /\ hit \in DOMAIN layouts'[turn].widgets /\ layouts'[turn].widgets[hit].ref # 0
      BY <3>1, <3>3
    <3>5. DOMAIN layouts'[turn].widgets = 1..Len(layouts'[turn].widgets) /\ Len(layouts'[turn].widgets) \in Nat
      BY <3>4, TreeIs DEF Trees
    <3> QED BY <3>1, <3>4, <3>5
  <2> QED BY <1>1, <2>1 DEF Answering
<1>4. ClicksReachFirst' /\ RowsHold'
  BY <1>1 DEF ClicksReachFirst, RowsHold
<1>5. Trees(layouts)' /\ Keeps(layouts, refs)'
  OBVIOUS
<1> QED BY <1>2, <1>3, <1>4, <1>5 DEF GuiInv

LEMMA GuiHas ==
  ASSUME GuiInv
  PROVE  /\ layouts \in Seq(LayoutState) /\ Len(layouts) <= MaxLayouts /\ Len(layouts) \in Nat
         /\ DOMAIN layouts = 1..Len(layouts) /\ open \in 0..Len(layouts)
         /\ refs \in [Slots -> Nat \X Nat] /\ MaxLayouts \in Nat
         /\ \A l \in DOMAIN layouts : /\ layouts[l] \in LayoutState /\ l \in Nat \ {0}
                                      /\ layouts[l].current \in Nat
                                      /\ Tree(layouts[l].widgets)
                                      /\ Building(layouts[l].widgets, layouts[l].current)
                                      /\ layouts[l].widgets \in Seq(WidgetState)
                                      /\ DOMAIN layouts[l].widgets = 1..Len(layouts[l].widgets)
                                      /\ Len(layouts[l].widgets) \in Nat
<1>1. layouts \in Seq(LayoutState) /\ Len(layouts) <= MaxLayouts /\ open \in 0..Len(layouts)
      /\ refs \in [Slots -> Nat \X Nat] /\ Trees(layouts) /\ MaxLayouts \in Nat
  BY GuiAssumption DEF GuiInv, GuiTyped
<1>2. Len(layouts) \in Nat /\ DOMAIN layouts = 1..Len(layouts) /\ \A l \in DOMAIN layouts : layouts[l] \in LayoutState
  BY <1>1, LenProperties
<1>3. ASSUME NEW l \in DOMAIN layouts
      PROVE  /\ layouts[l] \in LayoutState /\ l \in Nat \ {0}
             /\ layouts[l].current \in Nat
             /\ Tree(layouts[l].widgets)
             /\ Building(layouts[l].widgets, layouts[l].current)
             /\ layouts[l].widgets \in Seq(WidgetState)
             /\ DOMAIN layouts[l].widgets = 1..Len(layouts[l].widgets)
             /\ Len(layouts[l].widgets) \in Nat
  <2>1. layouts[l] \in LayoutState /\ l \in Nat \ {0}
    BY <1>2
  <2>2. Tree(layouts[l].widgets) /\ Building(layouts[l].widgets, layouts[l].current)
    BY <1>1 DEF Trees
  <2>3. layouts[l].current \in Nat /\ layouts[l].widgets \in Seq(WidgetState)
    BY <2>1 DEF LayoutState
  <2> QED BY <2>1, <2>2, <2>3, TreeIs
<1> QED BY <1>1, <1>2, <1>3

LEMMA StartKeeps ==
  ASSUME GuiInv, NEW r \in Regions, Start(r)
  PROVE  GuiInv'
<1> DEFINE new == [x |-> r.x, w |-> r.w, widgets |-> <<>>, current |-> 0]
           n == Len(layouts)
<1>1. n \in Nat /\ DOMAIN layouts = 1..n /\ layouts \in Seq(LayoutState) /\ n < MaxLayouts /\ MaxLayouts \in Nat
  BY GuiHas DEF Start
<1>2. new \in LayoutState
  <2>1. r.x \in Int /\ r.w \in Int
    BY GuiAssumption
  <2>2. <<>> \in Seq(WidgetState)
    BY EmptySeq
  <2> QED BY <2>1, <2>2 DEF LayoutState
<1>3. Tree(<<>>) /\ Building(<<>>, 0)
  BY EmptySeq DEF Tree, Rooted, Nested, Building
<1>4. layouts' = Append(layouts, new) /\ open' = Len(layouts') /\ refs' = refs /\ MayBuild
  BY DEF Start
<1> DEFINE ns == Append(layouts, new)
<1>5. /\ ns \in Seq(LayoutState) /\ Len(ns) = n + 1 /\ DOMAIN ns = 1..(n + 1) /\ ns[n + 1] = new
      /\ \A l \in 1..n : ns[l] = layouts[l]
  <2> HIDE DEF new, n
  <2> QED BY <1>1, <1>2, AppendProperties, LenProperties DEF n
<1>6. new.widgets = <<>> /\ new.current = 0 /\ DOMAIN new.widgets = {}
  OBVIOUS
<1> HIDE DEF ns, new, n
<1>7. \A l \in 1..(n + 1) : l \in 1..n \/ l = n + 1
  BY <1>1
<1>8. \A l \in 1..n : l \in 1..(n + 1) /\ l \in DOMAIN layouts
  BY <1>1
<1>9. Trees(ns)
  <2>1. \A l \in 1..n : Tree(ns[l].widgets) /\ Building(ns[l].widgets, ns[l].current)
    BY <1>5, <1>8, GuiHas
  <2>2. Tree(ns[n + 1].widgets) /\ Building(ns[n + 1].widgets, ns[n + 1].current)
    BY <1>3, <1>5, <1>6
  <2> QED BY <1>5, <1>7, <2>1, <2>2 DEF Trees
<1>10. Keeps(ns, refs)
  <2>1. ASSUME NEW l \in DOMAIN ns, NEW i \in DOMAIN ns[l].widgets, ns[l].widgets[i].ref # 0
        PROVE  refs[ns[l].widgets[i].ref] = <<l, i>>
    <3>1. l # n + 1
      BY <1>5, <1>6, <2>1
    <3>2. l \in DOMAIN layouts /\ ns[l] = layouts[l]
      BY <1>5, <1>7, <1>8, <3>1
    <3>3. refs[layouts[l].widgets[i].ref] = <<l, i>>
      BY <2>1, <3>2 DEF GuiInv, Keeps
    <3> QED BY <3>2, <3>3
  <2>2. ASSUME NEW s \in Slots, refs[s] \notin {Free, Leaked}
        PROVE  \E l \in DOMAIN ns : \E i \in DOMAIN ns[l].widgets : refs[s] = <<l, i>> /\ ns[l].widgets[i].ref = s
    <3>1. PICK l \in DOMAIN layouts : \E i \in DOMAIN layouts[l].widgets : refs[s] = <<l, i>> /\ layouts[l].widgets[i].ref = s
      BY <2>2 DEF GuiInv, Keeps
    <3>2. l \in DOMAIN ns /\ ns[l] = layouts[l]
      BY <1>1, <1>5, <1>8
    <3> QED BY <3>1, <3>2
  <2> QED BY <2>1, <2>2 DEF Keeps
<1>11. \A l \in DOMAIN layouts : l \in DOMAIN ns /\ ns[l] = layouts[l]
  BY <1>1, <1>5, <1>8
<1>12. layouts' = ns /\ open' \in 0..Len(layouts') /\ Len(layouts') <= MaxLayouts /\ layouts' \in Seq(LayoutState)
  BY <1>1, <1>4, <1>5 DEF ns
<1>13. Trees(layouts') /\ Keeps(layouts', refs') /\ refs' \in [Slots -> Nat \X Nat]
  BY <1>4, <1>9, <1>10, <1>12, GuiHas
<1>14. \A l \in DOMAIN layouts : l \in DOMAIN layouts' /\
         \A i \in DOMAIN layouts[l].widgets :
           i \in DOMAIN layouts'[l].widgets /\ layouts'[l].widgets[i].ref = layouts[l].widgets[i].ref
  BY <1>11, <1>12
<1> QED BY <1>4, <1>12, <1>13, <1>14, BuildStep

LEMMA FinishKeeps ==
  ASSUME GuiInv, FinishLayout
  PROVE  GuiInv'
<1>1. layouts' = layouts /\ refs' = refs /\ open' = 0 /\ MayBuild
  BY DEF FinishLayout
<1>2. open' \in 0..Len(layouts') /\ Len(layouts') <= MaxLayouts /\ layouts' \in Seq(LayoutState)
  BY <1>1, GuiHas
<1>3. Trees(layouts') /\ Keeps(layouts', refs') /\ refs' \in [Slots -> Nat \X Nat]
  BY <1>1, GuiHas DEF GuiInv
<1> QED BY <1>1, <1>2, <1>3, BuildStep

LEMMA GrowKeeps ==
  ASSUME GuiInv, MayBuild, open # 0, open' = open, NEW w \in WidgetState, NEW c,
         w.parent = layouts[open].current, w.parent = 0 => layouts[open].widgets = <<>>,
         Rebuilt(layouts, layouts', open, Append(layouts[open].widgets, w), c),
         c = layouts[open].current \/ (c = Len(layouts[open].widgets) + 1 /\ IsContainer(w)),
         w.ref # 0 => refs[w.ref] = Free,
         refs' = IF w.ref = 0 THEN refs ELSE [refs EXCEPT ![w.ref] = <<open, Len(layouts[open].widgets) + 1>>]
  PROVE  GuiInv'
<1>1. open \in DOMAIN layouts
  BY GuiHas
<1>2. Tree(Append(layouts[open].widgets, w)) /\ Building(Append(layouts[open].widgets, w), c)
  <2> DEFINE ws == layouts[open].widgets
             d == layouts[open].current
  <2>1. Tree(ws) /\ Building(ws, d)
    BY <1>1, GuiHas
  <2>2. w.parent = d /\ (d = 0 => ws = <<>>)
    OBVIOUS
  <2>3. c = d \/ (c = Len(ws) + 1 /\ IsContainer(w))
    OBVIOUS
  <2> HIDE DEF ws, d
  <2>4. /\ Tree(Append(ws, w)) /\ Building(Append(ws, w), d)
        /\ IsContainer(w) => Building(Append(ws, w), Len(ws) + 1)
    BY <2>1, <2>2, GrownTree
  <2>5. Building(Append(ws, w), c)
    BY <2>3, <2>4
  <2> QED BY <2>4, <2>5 DEF ws
<1>3. Trees(layouts')
  <2>1. Trees(layouts)
    BY DEF GuiInv
  <2> QED BY <1>2, <2>1, RebuiltTrees
<1>4. /\ Keeps(layouts', refs')
      /\ \A l \in DOMAIN layouts : \A i \in DOMAIN layouts[l].widgets :
           i \in DOMAIN layouts'[l].widgets /\ layouts'[l].widgets[i].ref = layouts[l].widgets[i].ref
  <2>1. Trees(layouts) /\ Keeps(layouts, refs) /\ refs \in [Slots -> Nat \X Nat]
    BY GuiHas DEF GuiInv
  <2> DEFINE ns == layouts'
             rt == refs'
             ls == layouts
             rs == refs
             o == open
  <2>2. TreeGrown(ls, rs, ns, rt, o, c, w)
    BY <1>1, <2>1 DEF TreeGrown
  <2> HIDE DEF ns, rt, ls, rs, o
  <2>3. Keeps(ns, rt) /\ Holding(ls, ns)
    BY <2>2, KeepsGrown
  <2> QED BY <2>3 DEF ns, rt, ls, Holding
<1>5. layouts' \in Seq(LayoutState) /\ Len(layouts') = Len(layouts) /\ DOMAIN layouts' = DOMAIN layouts
  BY DEF Rebuilt
<1>6. refs' \in [Slots -> Nat \X Nat]
  <2>1. refs \in [Slots -> Nat \X Nat] /\ open \in Nat /\ Len(layouts[open].widgets) + 1 \in Nat
    BY <1>1, GuiHas
  <2> QED BY <2>1
<1>7. open' \in 0..Len(layouts') /\ Len(layouts') <= MaxLayouts
  BY <1>5, GuiHas
<1> QED BY <1>3, <1>4, <1>5, <1>6, <1>7, BuildStep

LEMMA RebuiltIs ==
  ASSUME NEW ls \in Seq(LayoutState), NEW o \in DOMAIN ls, NEW W \in Seq(WidgetState), NEW c \in Nat
  PROVE  /\ Rebuilt(ls, [ls EXCEPT ![o].widgets = W, ![o].current = c], o, W, c)
         /\ Rebuilt(ls, [ls EXCEPT ![o].widgets = W], o, W, ls[o].current)
         /\ Rebuilt(ls, [ls EXCEPT ![o].current = c], o, ls[o].widgets, c)
<1>1. Len(ls) \in Nat /\ DOMAIN ls = 1..Len(ls) /\ \A l \in DOMAIN ls : ls[l] \in LayoutState
  BY LenProperties
<1>2. ASSUME NEW L \in LayoutState
      PROVE  [ls EXCEPT ![o] = L] \in Seq(LayoutState) /\ Len([ls EXCEPT ![o] = L]) = Len(ls)
             /\ DOMAIN [ls EXCEPT ![o] = L] = DOMAIN ls /\ [ls EXCEPT ![o] = L][o] = L
             /\ \A l \in DOMAIN ls : l # o => [ls EXCEPT ![o] = L][l] = ls[l]
  BY <1>1, ExceptSeq
<1>3. ls[o] \in LayoutState
  BY <1>1
<1> DEFINE A == [ls[o] EXCEPT !.widgets = W, !.current = c]
           B == [ls[o] EXCEPT !.widgets = W]
           C == [ls[o] EXCEPT !.current = c]
<1>4. A \in LayoutState /\ B \in LayoutState /\ C \in LayoutState
      /\ A.widgets = W /\ A.current = c /\ B.widgets = W /\ B.current = ls[o].current
      /\ C.widgets = ls[o].widgets /\ C.current = c
  BY <1>3 DEF LayoutState
<1>5. [ls EXCEPT ![o].widgets = W, ![o].current = c] = [ls EXCEPT ![o] = A]
  BY <1>1
<1>6. [ls EXCEPT ![o].widgets = W] = [ls EXCEPT ![o] = B]
  OBVIOUS
<1>7. [ls EXCEPT ![o].current = c] = [ls EXCEPT ![o] = C]
  OBVIOUS
<1> HIDE DEF A, B, C
<1>8. Rebuilt(ls, [ls EXCEPT ![o] = A], o, W, c)
  BY <1>2, <1>4 DEF Rebuilt
<1>9. Rebuilt(ls, [ls EXCEPT ![o] = B], o, W, ls[o].current)
  BY <1>2, <1>4 DEF Rebuilt
<1>10. Rebuilt(ls, [ls EXCEPT ![o] = C], o, ls[o].widgets, c)
  BY <1>2, <1>4 DEF Rebuilt
<1> QED BY <1>5, <1>6, <1>7, <1>8, <1>9, <1>10

LEMMA OpenedKeeps ==
  ASSUME GuiInv, NEW c \in Containers, Opened(c)
  PROVE  GuiInv'
<1> DEFINE l == layouts[open]
           w == [NewWidget(c.kind, l.current, c.asked, 0) EXCEPT !.justify = c.justify, !.align = c.align]
           n == Len(l.widgets) + 1
<1>1. MayBuild /\ open # 0 /\ open' = open /\ refs' = refs /\ (l.widgets = <<>> \/ l.current # 0)
      /\ layouts' = [layouts EXCEPT ![open].widgets = Append(@, w), ![open].current = n]
  BY DEF Opened
<1>2. open \in DOMAIN layouts /\ l.widgets \in Seq(WidgetState) /\ n \in Nat /\ layouts \in Seq(LayoutState)
      /\ l.current \in Nat
  BY <1>1, GuiHas
<1>4. c.kind \in {"row", "column", "stack"} /\ c.justify \in Hows /\ c.align \in Hows /\ c.asked \in Int
  BY GuiAssumption DEF Hows
<1>5. w \in WidgetState /\ w.parent = l.current /\ w.ref = 0 /\ IsContainer(w)
  <2> DEFINE v == NewWidget(c.kind, l.current, c.asked, 0)
  <2>1. v = [kind |-> c.kind, parent |-> l.current, asked |-> c.asked, ref |-> 0,
             at |-> [x |-> 0, w |-> c.asked], justify |-> "start", align |-> "start"]
    BY DEF NewWidget
  <2>2. [x |-> 0, w |-> c.asked] \in Spot /\ "start" \in Hows
    BY <1>4 DEF Spot, Hows
  <2> HIDE DEF v
  <2>3. v \in WidgetState /\ v.parent = l.current /\ v.ref = 0 /\ v.kind = c.kind
    BY <1>2, <1>4, <2>1, <2>2 DEF WidgetState
  <2>4. w \in WidgetState /\ w.parent = v.parent /\ w.ref = v.ref /\ w.kind = v.kind
    BY <1>4, <2>3 DEF WidgetState, v
  <2> HIDE DEF w
  <2> QED BY <1>4, <2>3, <2>4 DEF IsContainer
<1>6. w.parent = 0 => l.widgets = <<>>
  BY <1>1, <1>5
<1> HIDE DEF w
<1>7. Append(l.widgets, w) \in Seq(WidgetState)
  BY <1>2, <1>5, AppendProperties
<1>8. Rebuilt(layouts, layouts', open, Append(l.widgets, w), n)
  <2> HIDE DEF n
  <2>1. layouts' = [layouts EXCEPT ![open].widgets = Append(l.widgets, w), ![open].current = n]
    BY <1>1
  <2> HIDE DEF l
  <2>2. Rebuilt(layouts, [layouts EXCEPT ![open].widgets = Append(l.widgets, w), ![open].current = n],
                open, Append(l.widgets, w), n)
    BY <1>2, <1>7, RebuiltIs
  <2> QED BY <2>1, <2>2
<1>9. refs' = IF w.ref = 0 THEN refs ELSE [refs EXCEPT ![w.ref] = <<open, Len(l.widgets) + 1>>]
  BY <1>1, <1>5
<1> QED BY <1>1, <1>5, <1>6, <1>8, <1>9, GrowKeeps

LEMMA ClosedKeeps ==
  ASSUME GuiInv, NEW kinds, Closed(kinds)
  PROVE  GuiInv'
<1> DEFINE l == layouts[open]
           c == l.widgets[l.current].parent
<1>1. MayBuild /\ open # 0 /\ open' = open /\ refs' = refs /\ l.current # 0
      /\ layouts' = [layouts EXCEPT ![open].current = c]
  BY DEF Closed
<1>2. open \in DOMAIN layouts /\ l.widgets \in Seq(WidgetState) /\ layouts \in Seq(LayoutState)
      /\ Tree(l.widgets) /\ Building(l.widgets, l.current)
  BY <1>1, GuiHas
<1>3. c \in Nat /\ Building(l.widgets, c)
  BY <1>1, <1>2, ClosedTree
<1> HIDE DEF c
<1>4. Rebuilt(layouts, layouts', open, l.widgets, c)
  BY <1>1, <1>2, <1>3, RebuiltIs
<1>5. Trees(layouts')
  <2>1. Trees(layouts)
    BY DEF GuiInv
  <2> QED BY <1>2, <1>3, <1>4, <2>1, RebuiltTrees
<1>6. DOMAIN layouts' = DOMAIN layouts /\ \A k \in DOMAIN layouts : layouts'[k].widgets = layouts[k].widgets
  BY <1>4 DEF Rebuilt
<1>7. Keeps(layouts', refs')
  <2>1. Keeps(layouts, refs)
    BY DEF GuiInv
  <2> DEFINE ns == layouts'
  <2>2. DOMAIN ns = DOMAIN layouts /\ \A k \in DOMAIN layouts : ns[k].widgets = layouts[k].widgets
    BY <1>6
  <2> HIDE DEF ns
  <2>3. Keeps(ns, refs)
    BY <2>1, <2>2, KeepsSame
  <2> QED BY <1>1, <2>3 DEF ns
<1>8. layouts' \in Seq(LayoutState) /\ Len(layouts') = Len(layouts)
  BY <1>4 DEF Rebuilt
<1>9. open' \in 0..Len(layouts') /\ Len(layouts') <= MaxLayouts /\ refs' \in [Slots -> Nat \X Nat]
  BY <1>1, <1>8, GuiHas
<1>10. \A k \in DOMAIN layouts : k \in DOMAIN layouts' /\
         \A i \in DOMAIN layouts[k].widgets :
           i \in DOMAIN layouts'[k].widgets /\ layouts'[k].widgets[i].ref = layouts[k].widgets[i].ref
  BY <1>6
<1> QED BY <1>1, <1>5, <1>7, <1>8, <1>9, <1>10, BuildStep

LEMMA NewWidgetIs ==
  ASSUME NEW kind \in {"label", "button"}, NEW c \in Nat, NEW s \in Slots \cup {0}
  PROVE  NewWidget(kind, c, AutoSize, s) \in WidgetState
         /\ NewWidget(kind, c, AutoSize, s).parent = c /\ NewWidget(kind, c, AutoSize, s).ref = s
<1>1. NewWidget(kind, c, AutoSize, s) =
        [kind |-> kind, parent |-> c, asked |-> AutoSize, ref |-> s,
         at |-> [x |-> 0, w |-> AutoSize], justify |-> "start", align |-> "start"]
  BY DEF NewWidget
<1>2. AutoSize \in Int
  BY DEF AutoSize
<1>3. [x |-> 0, w |-> AutoSize] \in Spot
  BY <1>2 DEF Spot
<1>4. "start" \in Hows
  BY DEF Hows
<1> QED BY <1>1, <1>2, <1>3, <1>4 DEF WidgetState

LEMMA PushLeafKeeps ==
  ASSUME GuiInv, PushLeaf
  PROVE  GuiInv'
<1> DEFINE l == layouts[open]
           w == NewWidget("label", l.current, AutoSize, 0)
           c == l.current
<1>1. MayBuild /\ open # 0 /\ open' = open /\ refs' = refs /\ c # 0
      /\ layouts' = [layouts EXCEPT ![open].widgets = Append(@, w)]
  BY DEF PushLeaf
<1>2. open \in DOMAIN layouts /\ l.widgets \in Seq(WidgetState) /\ layouts \in Seq(LayoutState) /\ c \in Nat
  BY <1>1, GuiHas
<1>3. w \in WidgetState /\ w.parent = c /\ w.ref = 0
  BY <1>2, NewWidgetIs
<1> HIDE DEF w
<1>4. Append(l.widgets, w) \in Seq(WidgetState)
  BY <1>2, <1>3, AppendProperties
<1>5. Rebuilt(layouts, layouts', open, Append(l.widgets, w), c)
  BY <1>1, <1>2, <1>4, RebuiltIs
<1>6. refs' = IF w.ref = 0 THEN refs ELSE [refs EXCEPT ![w.ref] = <<open, Len(l.widgets) + 1>>]
  BY <1>1, <1>3
<1> QED BY <1>1, <1>3, <1>5, <1>6, GrowKeeps

LEMMA PushButtonKeeps ==
  ASSUME GuiInv, PushButton
  PROVE  GuiInv'
<1> DEFINE l == layouts[open]
           s == Min(FreeSlots)
           w == NewWidget("button", l.current, AutoSize, s)
           c == l.current
<1>1. MayBuild /\ open # 0 /\ open' = open /\ FreeSlots # {}
      /\ \/ /\ c # 0
            /\ layouts' = [layouts EXCEPT ![open].widgets = Append(@, w)]
            /\ refs' = [refs EXCEPT ![s] = <<open, Len(l.widgets) + 1>>]
         \/ /\ refs' = [refs EXCEPT ![s] = Leaked] /\ layouts' = layouts
  BY DEF PushButton
<1>2. open \in DOMAIN layouts /\ l.widgets \in Seq(WidgetState) /\ layouts \in Seq(LayoutState) /\ c \in Nat
      /\ refs \in [Slots -> Nat \X Nat]
  BY <1>1, GuiHas
<1>3. s \in Slots /\ s # 0 /\ refs[s] = Free
  <2>1. FreeSlots \in SUBSET Nat
    BY GuiAssumption DEF FreeSlots
  <2>2. s \in FreeSlots
    BY <1>1, <2>1, MinIs
  <2> QED BY <2>2, GuiAssumption DEF FreeSlots
<1> HIDE DEF s
<1>4. CASE /\ c # 0
           /\ layouts' = [layouts EXCEPT ![open].widgets = Append(@, w)]
           /\ refs' = [refs EXCEPT ![s] = <<open, Len(l.widgets) + 1>>]
  <2>1. w \in WidgetState /\ w.parent = c /\ w.ref = s
    BY <1>2, <1>3, NewWidgetIs
  <2> HIDE DEF w
  <2>2. Append(l.widgets, w) \in Seq(WidgetState)
    BY <1>2, <2>1, AppendProperties
  <2>3. Rebuilt(layouts, layouts', open, Append(l.widgets, w), c)
    BY <1>2, <1>4, <2>2, RebuiltIs
  <2>4. refs' = IF w.ref = 0 THEN refs ELSE [refs EXCEPT ![w.ref] = <<open, Len(l.widgets) + 1>>]
    BY <1>3, <1>4, <2>1
  <2>5. (w.ref # 0 => refs[w.ref] = Free) /\ (w.parent = 0 => l.widgets = <<>>)
    BY <1>3, <1>4, <2>1
  <2> QED BY <1>1, <2>1, <2>3, <2>4, <2>5, GrowKeeps
<1>5. CASE refs' = [refs EXCEPT ![s] = Leaked] /\ layouts' = layouts
  <2>1. refs' \in [Slots -> Nat \X Nat]
    BY <1>2, <1>5 DEF Leaked
  <2>2. Keeps(layouts', refs')
    <3>1. ASSUME NEW k \in DOMAIN layouts, NEW i \in DOMAIN layouts[k].widgets, layouts[k].widgets[i].ref # 0
          PROVE  refs'[layouts[k].widgets[i].ref] = <<k, i>>
      <4> DEFINE t == layouts[k].widgets[i].ref
      <4>1. refs[t] = <<k, i>>
        BY <3>1 DEF GuiInv, Keeps
      <4>2. k # 0
        BY GuiHas
      <4>3. t \in Slots
        BY <3>1, GuiHas, TreeIs
      <4> HIDE DEF t
      <4>4. t # s
        BY <1>3, <4>1, <4>2 DEF Free
      <4> QED BY <1>2, <1>5, <4>1, <4>3, <4>4 DEF t
    <3>2. ASSUME NEW t \in Slots, refs'[t] \notin {Free, Leaked}
          PROVE  \E k \in DOMAIN layouts : \E i \in DOMAIN layouts[k].widgets :
                   refs'[t] = <<k, i>> /\ layouts[k].widgets[i].ref = t
      <4>1. t # s
        BY <1>2, <1>3, <1>5, <3>2
      <4>2. refs'[t] = refs[t]
        BY <1>2, <1>5, <4>1
      <4>3. \E k \in DOMAIN layouts : \E i \in DOMAIN layouts[k].widgets :
              refs[t] = <<k, i>> /\ layouts[k].widgets[i].ref = t
        BY <3>2, <4>2 DEF GuiInv, Keeps
      <4> QED BY <4>2, <4>3
    <3>3. Keeps(layouts, refs')
      BY <3>1, <3>2 DEF Keeps
    <3> QED BY <1>5, <3>3
  <2>3. open' \in 0..Len(layouts') /\ Len(layouts') <= MaxLayouts /\ layouts' \in Seq(LayoutState) /\ Trees(layouts')
    BY <1>1, <1>5, GuiHas DEF GuiInv
  <2> QED BY <1>1, <1>5, <2>1, <2>2, <2>3, BuildStep
<1> QED BY <1>1, <1>4, <1>5

LEMMA LayOutKeeps ==
  ASSUME GuiInv, LayOut
  PROVE  GuiInv'
<1>1. /\ layouts' = [l \in DOMAIN layouts |-> LaidOut(layouts[l])] /\ guiPhase' = "input"
      /\ mouse' \in Clicks \cup {NoClick} /\ turn' = 1 /\ hit' = 0 /\ open' = open /\ refs' = refs
  BY DEF LayOut
<1>2. DOMAIN layouts' = DOMAIN layouts /\ \A l \in DOMAIN layouts : layouts'[l] = LaidOut(layouts[l])
  BY <1>1
<1>3. ASSUME NEW l \in DOMAIN layouts
      PROVE  /\ layouts'[l] \in LayoutState /\ SameTree(layouts[l].widgets, layouts'[l].widgets)
             /\ layouts'[l].current = layouts[l].current /\ RowsKept(layouts'[l].widgets)
             /\ \A i \in DOMAIN layouts[l].widgets : layouts'[l].widgets[i].ref = layouts[l].widgets[i].ref
  <2>1. layouts[l] \in LayoutState /\ Tree(layouts[l].widgets)
    BY GuiHas
  <2> QED BY <1>2, <2>1, LaidOutIs, LaidOutFits
<1>4. layouts' \in Seq(LayoutState) /\ Len(layouts') = Len(layouts)
  <2>1. DOMAIN layouts = 1..Len(layouts) /\ Len(layouts) \in Nat
    BY GuiHas
  <2>2. layouts' \in [1..Len(layouts) -> LayoutState]
    BY <1>1, <1>2, <1>3, <2>1
  <2> QED BY <2>1, <2>2, SeqDef, LenProperties
<1>5. ASSUME NEW l \in DOMAIN layouts
      PROVE  /\ Tree(layouts'[l].widgets) /\ Building(layouts'[l].widgets, layouts'[l].current)
             /\ DOMAIN layouts'[l].widgets = DOMAIN layouts[l].widgets
  <2>1. Tree(layouts[l].widgets) /\ Building(layouts[l].widgets, layouts[l].current)
    BY GuiHas
  <2> QED BY <1>3, <2>1, SameTreeIs
<1>6. Trees(layouts')
  BY <1>2, <1>5 DEF Trees
<1>7. Keeps(layouts', refs')
  <2> DEFINE ns == layouts'
  <2>1. DOMAIN ns = DOMAIN layouts /\ Keeps(layouts, refs)
        /\ \A l \in DOMAIN layouts : /\ DOMAIN ns[l].widgets = DOMAIN layouts[l].widgets
                                     /\ \A i \in DOMAIN layouts[l].widgets : ns[l].widgets[i].ref = layouts[l].widgets[i].ref
    BY <1>2, <1>3, <1>5 DEF GuiInv
  <2> HIDE DEF ns
  <2>2. Keeps(ns, refs)
    BY <2>1, KeepsSame
  <2> QED BY <1>1, <2>2 DEF ns
<1>8. GuiTyped'
  BY <1>1, <1>4, GuiHas DEF GuiTyped
<1>9. Answering' /\ ClicksReachFirst' /\ RowsHold'
  BY <1>1, <1>2, <1>3 DEF Answering, ClicksReachFirst, RowsHold
<1> QED BY <1>6, <1>7, <1>8, <1>9 DEF GuiInv

LEMMA ClickKeeps ==
  ASSUME GuiInv, Click
  PROVE  GuiInv'
<1> DEFINE ws == layouts[turn].widgets
<1>1. /\ turn \in DOMAIN layouts /\ hit' = IF ws = <<>> THEN 0 ELSE Answered(ws, mouse)[1]
      /\ guiPhase' = "hit" /\ layouts' = layouts /\ open' = open /\ turn' = turn /\ mouse' = mouse /\ refs' = refs
  BY DEF Click
<1>2. Tree(ws) /\ Len(ws) \in Nat /\ DOMAIN ws = 1..Len(ws)
  BY <1>1, GuiHas
<1>3. hit' \in 0..Len(ws) /\ hit' = IF Leaves(ws, mouse) = {} THEN 0 ELSE Min(Leaves(ws, mouse))
  <2> HIDE DEF ws
  <2>1. CASE ws = <<>>
    <3>1. DOMAIN ws = {} /\ Leaves(ws, mouse) = {}
      BY <2>1, EmptySeq DEF Leaves
    <3> QED BY <1>1, <1>2, <2>1, <3>1
  <2>2. CASE ws # <<>>
    BY <1>1, <1>2, <2>2, ClicksReach
  <2> QED BY <2>1, <2>2
<1>4. ClicksReachFirst'
  BY <1>1, <1>3 DEF ClicksReachFirst, Leaves
<1>5. Answering' /\ RowsHold'
  BY <1>1, <1>3 DEF Answering, RowsHold
<1>6. GuiTyped'
  <2>1. hit' \in Nat
    BY <1>2, <1>3
  <2> QED BY <1>1, <2>1 DEF GuiInv, GuiTyped
<1>7. Trees(layouts') /\ Keeps(layouts', refs')
  BY <1>1 DEF GuiInv
<1> QED BY <1>4, <1>5, <1>6, <1>7 DEF GuiInv

LEMMA AnswerKeeps ==
  ASSUME GuiInv, Answer
  PROVE  GuiInv'
<1>1. /\ guiPhase = "hit" /\ layouts' = layouts /\ open' = open /\ mouse' = mouse /\ hit' = hit /\ refs' = refs
      /\ IF hit # 0 /\ layouts[turn].widgets[hit].ref # 0 THEN guiPhase' = "callback" /\ turn' = turn
         ELSE guiPhase' = "input" /\ turn' = turn + 1
  BY DEF Answer, Hit
<1>2. turn \in DOMAIN layouts /\ hit \in 0..Len(layouts[turn].widgets) /\ turn \in Nat \ {0}
  BY <1>1, GuiHas DEF GuiInv, Answering
<1>3. GuiTyped'
  BY <1>1, <1>2 DEF GuiInv, GuiTyped
<1>4. Trees(layouts') /\ Keeps(layouts', refs')
  BY <1>1 DEF GuiInv
<1>5. CASE hit # 0 /\ layouts[turn].widgets[hit].ref # 0
  <2>1. Answering' /\ ClicksReachFirst' /\ RowsHold'
    BY <1>1, <1>2, <1>5 DEF Answering, ClicksReachFirst, RowsHold
  <2> QED BY <1>3, <1>4, <2>1 DEF GuiInv
<1>6. CASE ~(hit # 0 /\ layouts[turn].widgets[hit].ref # 0)
  <2>1. guiPhase' = "input" /\ turn' # 1
    BY <1>1, <1>2, <1>6
  <2>2. Answering' /\ ClicksReachFirst' /\ RowsHold'
    BY <2>1 DEF Answering, ClicksReachFirst, RowsHold
  <2> QED BY <1>3, <1>4, <2>2 DEF GuiInv
<1> QED BY <1>5, <1>6

LEMMA ReleasedIs ==
  ASSUME NEW layout \in LayoutState, Tree(layout.widgets), NEW h \in DOMAIN layout.widgets
  PROVE  /\ Released(layout, h) \in LayoutState /\ SameTree(layout.widgets, Released(layout, h).widgets)
         /\ Released(layout, h).current = layout.current
         /\ \A i \in DOMAIN layout.widgets :
              Released(layout, h).widgets[i].ref = IF i = h THEN 0 ELSE layout.widgets[i].ref
<1> DEFINE ws == layout.widgets
           w == [ws[h] EXCEPT !.ref = 0]
           ns == [ws EXCEPT ![h] = w]
<1>1. DOMAIN ws = 1..Len(ws) /\ Len(ws) \in Nat /\ (\A j \in DOMAIN ws : ws[j] \in WidgetState) /\ ws \in Seq(WidgetState)
  BY TreeIs DEF Tree
<1>2. Released(layout, h) = [layout EXCEPT !.widgets = ns]
  BY DEF Released
<1>3. w \in WidgetState /\ w.ref = 0 /\ w.kind = ws[h].kind /\ w.parent = ws[h].parent /\ w.asked = ws[h].asked
  BY <1>1 DEF WidgetState
<1> HIDE DEF w
<1>4. /\ ns \in Seq(WidgetState) /\ Len(ns) = Len(ws)
      /\ \A i \in DOMAIN ws : ns[i] = IF i = h THEN w ELSE ws[i]
  BY <1>1, <1>3, ExceptSeq
<1>5. Released(layout, h) \in LayoutState /\ Released(layout, h).widgets = ns /\ Released(layout, h).current = layout.current
  <2> HIDE DEF ns
  <2> QED BY <1>2, <1>4 DEF LayoutState
<1> HIDE DEF ns
<1>6. SameTree(ws, ns)
  BY <1>3, <1>4 DEF SameTree
<1>7. \A i \in DOMAIN ws : ns[i].ref = IF i = h THEN 0 ELSE ws[i].ref
  BY <1>3, <1>4
<1> QED BY <1>5, <1>6, <1>7

LEMMA CallbackKeeps ==
  ASSUME GuiInv, CallbackReturns
  PROVE  GuiInv'
<1> DEFINE L == layouts[turn]
           s == layouts[turn].widgets[hit].ref
           new == Released(L, hit)
<1>1. /\ guiPhase = "callback" /\ guiPhase' = "input" /\ turn' = turn + 1
      /\ refs' = [refs EXCEPT ![s] = Free] /\ layouts' = [layouts EXCEPT ![turn] = new]
      /\ open' = open /\ mouse' = mouse /\ hit' = hit
  BY DEF CallbackReturns, Hit
<1>2. /\ turn \in DOMAIN layouts /\ turn \in Nat \ {0} /\ L \in LayoutState /\ Tree(L.widgets)
      /\ Building(L.widgets, L.current) /\ hit \in DOMAIN L.widgets /\ s # 0
      /\ layouts \in Seq(LayoutState) /\ refs \in [Slots -> Nat \X Nat]
  <2>1. turn \in DOMAIN layouts /\ hit \in 0..Len(layouts[turn].widgets) /\ hit # 0 /\ s # 0
    BY <1>1 DEF GuiInv, Answering
  <2>2. /\ layouts[turn] \in LayoutState /\ turn \in Nat \ {0}
        /\ Tree(layouts[turn].widgets) /\ Building(layouts[turn].widgets, layouts[turn].current)
        /\ DOMAIN layouts[turn].widgets = 1..Len(layouts[turn].widgets) /\ Len(layouts[turn].widgets) \in Nat
    BY <2>1, GuiHas
  <2>3. hit \in DOMAIN layouts[turn].widgets
    BY <2>1, <2>2
  <2> QED BY <2>1, <2>2, <2>3, GuiHas
<1>3. /\ new \in LayoutState /\ SameTree(L.widgets, new.widgets) /\ new.current = L.current
      /\ \A i \in DOMAIN L.widgets : new.widgets[i].ref = IF i = hit THEN 0 ELSE L.widgets[i].ref
  <2> HIDE DEF L, new
  <2>1. /\ Released(L, hit) \in LayoutState /\ SameTree(L.widgets, Released(L, hit).widgets)
        /\ Released(L, hit).current = L.current
        /\ \A i \in DOMAIN L.widgets :
             Released(L, hit).widgets[i].ref = IF i = hit THEN 0 ELSE L.widgets[i].ref
    BY <1>2, ReleasedIs
  <2> QED BY <2>1 DEF new
<1> HIDE DEF new
<1>4. Tree(new.widgets) /\ Building(new.widgets, new.current) /\ DOMAIN new.widgets = DOMAIN L.widgets
  <2> HIDE DEF L
  <2> QED BY <1>2, <1>3, SameTreeIs
<1>5. s \in Slots /\ refs[s] = <<turn, hit>>
  <2>1. s \in Slots
    BY <1>2, TreeIs
  <2>2. refs[s] = <<turn, hit>>
    BY <1>2 DEF GuiInv, Keeps
  <2> QED BY <2>1, <2>2
<1>6. /\ layouts' \in Seq(LayoutState) /\ Len(layouts') = Len(layouts) /\ DOMAIN layouts' = DOMAIN layouts
      /\ layouts'[turn] = new /\ \A l \in DOMAIN layouts : l # turn => layouts'[l] = layouts[l]
  <2>1. DOMAIN layouts = 1..Len(layouts)
    BY GuiHas
  <2>2. [layouts EXCEPT ![turn] = new] \in Seq(LayoutState) /\ Len([layouts EXCEPT ![turn] = new]) = Len(layouts)
    BY <1>2, <1>3, <2>1, ExceptSeq
  <2> QED BY <1>1, <1>2, <2>2
<1>7. Trees(layouts')
  <2>1. \A l \in DOMAIN layouts : l # turn => Tree(layouts[l].widgets) /\ Building(layouts[l].widgets, layouts[l].current)
    BY GuiHas
  <2>2. ASSUME NEW l \in DOMAIN layouts
        PROVE  Tree(layouts'[l].widgets) /\ Building(layouts'[l].widgets, layouts'[l].current)
    BY <1>4, <1>6, <2>1
  <2> QED BY <1>6, <2>2 DEF Trees
<1>8. \A l \in DOMAIN layouts : /\ DOMAIN layouts'[l].widgets = DOMAIN layouts[l].widgets
                                /\ \A i \in DOMAIN layouts[l].widgets :
                                     layouts'[l].widgets[i].ref = IF l = turn /\ i = hit THEN 0 ELSE layouts[l].widgets[i].ref
  BY <1>3, <1>4, <1>6
<1>9. Keeps(layouts', refs')
  <2>1. ASSUME NEW l \in DOMAIN layouts, NEW i \in DOMAIN layouts'[l].widgets, layouts'[l].widgets[i].ref # 0
        PROVE  refs'[layouts'[l].widgets[i].ref] = <<l, i>>
    <3> DEFINE t == layouts[l].widgets[i].ref
    <3>1. i \in DOMAIN layouts[l].widgets /\ ~(l = turn /\ i = hit) /\ layouts'[l].widgets[i].ref = t /\ t # 0
      BY <1>8, <2>1
    <3>2. refs[t] = <<l, i>>
      BY <3>1 DEF GuiInv, Keeps
    <3>3. t \in Slots
      BY <3>1, GuiHas, TreeIs
    <3> HIDE DEF t, s
    <3>4. t # s
      BY <1>5, <3>1, <3>2
    <3> QED BY <1>1, <1>2, <3>1, <3>2, <3>3, <3>4
  <2>2. ASSUME NEW t \in Slots, refs'[t] \notin {Free, Leaked}
        PROVE  \E l \in DOMAIN layouts : \E i \in DOMAIN layouts'[l].widgets :
                 refs'[t] = <<l, i>> /\ layouts'[l].widgets[i].ref = t
    <3> HIDE DEF s
    <3>1. t # s /\ refs'[t] = refs[t]
      BY <1>1, <1>2, <1>5, <2>2
    <3>2. PICK l \in DOMAIN layouts : \E i \in DOMAIN layouts[l].widgets :
            refs[t] = <<l, i>> /\ layouts[l].widgets[i].ref = t
      BY <2>2, <3>1 DEF GuiInv, Keeps
    <3>3. PICK i \in DOMAIN layouts[l].widgets : refs[t] = <<l, i>> /\ layouts[l].widgets[i].ref = t
      BY <3>2
    <3>4. ~(l = turn /\ i = hit)
      BY <3>1, <3>3 DEF s
    <3>5. i \in DOMAIN layouts'[l].widgets /\ layouts'[l].widgets[i].ref = t
      BY <1>8, <3>3, <3>4
    <3> QED BY <3>1, <3>3, <3>5
  <2> QED BY <1>6, <2>1, <2>2 DEF Keeps
<1>10. GuiTyped'
  <2>1. refs' \in [Slots -> Nat \X Nat]
    BY <1>1, <1>2 DEF Free
  <2> QED BY <1>1, <1>2, <1>6, <2>1 DEF GuiInv, GuiTyped
<1>11. Answering' /\ ClicksReachFirst' /\ RowsHold'
  <2>1. guiPhase' = "input" /\ turn' # 1
    BY <1>1, <1>2
  <2> QED BY <2>1 DEF Answering, ClicksReachFirst, RowsHold
<1> QED BY <1>7, <1>9, <1>10, <1>11 DEF GuiInv

LEMMA CleanUpKeeps ==
  ASSUME GuiInv, CleanUpGui
  PROVE  GuiInv'
<1>1. /\ guiPhase' = "script" /\ layouts' = <<>> /\ open' = 0 /\ turn' = 0 /\ mouse' = NoClick /\ hit' = 0
      /\ refs' = [s \in Slots |-> GivenBack(s)]
  BY DEF CleanUpGui
<1>2. layouts' \in Seq(LayoutState) /\ Len(layouts') = 0 /\ DOMAIN layouts' = {}
  BY <1>1, EmptySeq
<1>3. refs \in [Slots -> Nat \X Nat]
  BY GuiHas
<1>4. refs' \in [Slots -> Nat \X Nat]
  BY <1>1, <1>3 DEF GivenBack, Free
<1>5. ASSUME NEW s \in Slots
      PROVE  refs'[s] \in {Free, Leaked}
  <2>1. CASE refs[s] \in {Free, Leaked}
    BY <1>1, <2>1 DEF GivenBack
  <2>2. CASE refs[s] \notin {Free, Leaked}
    <3>1. PICK l \in DOMAIN layouts : \E i \in DOMAIN layouts[l].widgets : refs[s] = <<l, i>> /\ layouts[l].widgets[i].ref = s
      BY <2>2 DEF GuiInv, Keeps
    <3>2. \E w \in ToSet(layouts[l].widgets) : w.ref = s
      BY <3>1 DEF ToSet
    <3>3. GivenBack(s) = Free
      BY <3>2 DEF GivenBack
    <3> QED BY <1>1, <3>3
  <2> QED BY <2>1, <2>2
<1>6. Trees(layouts') /\ Keeps(layouts', refs')
  BY <1>2, <1>5 DEF Trees, Keeps
<1>7. GuiTyped'
  <2>1. Len(layouts') <= MaxLayouts
    BY <1>2, GuiHas
  <2> QED BY <1>1, <1>2, <1>4, <2>1 DEF GuiTyped
<1>8. Answering' /\ ClicksReachFirst' /\ RowsHold'
  BY <1>1 DEF Answering, ClicksReachFirst, RowsHold
<1> QED BY <1>6, <1>7, <1>8 DEF GuiInv

LEMMA GuiStarts ==
  ASSUME GuiInit
  PROVE  GuiInv
<1>1. /\ layouts = <<>> /\ open = 0 /\ guiPhase = "script" /\ turn = 0 /\ mouse = NoClick /\ hit = 0
      /\ refs = [s \in Slots |-> Free]
  BY DEF GuiInit
<1>2. layouts \in Seq(LayoutState) /\ Len(layouts) = 0 /\ DOMAIN layouts = {} /\ MaxLayouts \in Nat
  BY <1>1, EmptySeq, GuiAssumption
<1>3. refs \in [Slots -> Nat \X Nat] /\ \A s \in Slots : refs[s] = Free
  BY <1>1 DEF Free
<1>4. Trees(layouts) /\ Keeps(layouts, refs)
  BY <1>2, <1>3 DEF Trees, Keeps
<1>5. GuiTyped
  BY <1>1, <1>2, <1>3 DEF GuiTyped
<1>6. Answering /\ ClicksReachFirst /\ RowsHold
  BY <1>1 DEF Answering, ClicksReachFirst, RowsHold
<1> QED BY <1>4, <1>5, <1>6 DEF GuiInv

LEMMA GuiSteps ==
  ASSUME GuiInv, [GuiNext]_guiVars
  PROVE  GuiInv'
<1>1. CASE \E r \in Regions : Start(r)
  BY <1>1, StartKeeps
<1>2. CASE FinishLayout
  BY <1>2, FinishKeeps
<1>3. CASE \E c \in Containers : OpenFlex(c) \/ OpenStack(c)
  BY <1>3, OpenedKeeps DEF OpenFlex, OpenStack
<1>4. CASE CloseFlex \/ CloseStack
  BY <1>4, ClosedKeeps DEF CloseFlex, CloseStack
<1>5. CASE PushLabel \/ PushImage
  BY <1>5, PushLeafKeeps DEF PushLabel, PushImage
<1>6. CASE PushButton
  BY <1>6, PushButtonKeeps
<1>7. CASE LayOut
  BY <1>7, LayOutKeeps
<1>8. CASE Click
  BY <1>8, ClickKeeps
<1>9. CASE Answer
  BY <1>9, AnswerKeeps
<1>10. CASE CallbackReturns
  BY <1>10, CallbackKeeps
<1>11. CASE CleanUpGui
  BY <1>11, CleanUpKeeps
<1>12. CASE UNCHANGED guiVars
  <2>1. /\ layouts' = layouts /\ open' = open /\ guiPhase' = guiPhase /\ turn' = turn /\ mouse' = mouse
        /\ hit' = hit /\ refs' = refs
    BY <1>12 DEF guiVars
  <2> QED BY <2>1 DEF GuiInv, GuiTyped, Answering, ClicksReachFirst, RowsHold
<1> QED BY <1>1, <1>2, <1>3, <1>4, <1>5, <1>6, <1>7, <1>8, <1>9, <1>10, <1>11, <1>12 DEF GuiNext

(* The trees that scripts build, who holds which function and what answered *)
(* a click stay related through layout, clicks, functions that build on and *)
(* the end of the frame, for any containers, regions and clicks.            *)
THEOREM GuiInvariance == GuiSpec => []GuiInv
<1>1. GuiInit => GuiInv
  BY GuiStarts
<1>2. GuiInv /\ [GuiNext]_guiVars => GuiInv'
  BY GuiSteps
<1> QED BY <1>1, <1>2, PTL DEF GuiSpec

LEMMA GuiTypes ==
  ASSUME GuiInv
  PROVE  GuiTypeOK
<1>1. ASSUME NEW l \in DOMAIN layouts, NEW w \in ToSet(layouts[l].widgets)
      PROVE  w.ref \in Slots \cup {0} /\ w.at \in [x : Int, w : Int]
  <2>1. PICK i \in DOMAIN layouts[l].widgets : w = layouts[l].widgets[i]
    BY DEF ToSet
  <2>2. w.ref \in Slots \cup {0} /\ w.at \in Spot
    BY <2>1, GuiHas, TreeIs
  <2> QED BY <2>2 DEF Spot
<1>2. GuiTyped
  BY DEF GuiInv
<1> QED BY <1>1, <1>2 DEF GuiTypeOK, GuiTyped

(* GUI: types. *)
THEOREM GuiTypeCorrect == GuiSpec => []GuiTypeOK
<1>1. GuiInv => GuiTypeOK
  BY GuiTypes
<1> QED BY <1>1, GuiInvariance, PTL

LEMMA InvSound ==
  ASSUME GuiInv
  PROVE  GuiSound
<1>1. TreesWhole
  <2>1. ASSUME NEW l \in DOMAIN layouts
        PROVE  /\ layouts[l].current # 0 => IsContainer(layouts[l].widgets[layouts[l].current])
               /\ Rooted(layouts[l].widgets)
    BY GuiHas DEF Building, Tree
  <2> QED BY <2>1 DEF TreesWhole, Rooted
<1>2. CallbacksKept
  <2>1. \A l \in DOMAIN layouts : \A i \in Widgets(l) :
          LET s == layouts[l].widgets[i].ref IN s # 0 => refs[s] = <<l, i>>
    BY DEF GuiInv, Keeps, Widgets
  <2>2. ASSUME NEW s \in Slots, refs[s] \notin {Free, Leaked}
        PROVE  layouts[refs[s][1]].widgets[refs[s][2]].ref = s
    <3>1. PICK l \in DOMAIN layouts : \E i \in DOMAIN layouts[l].widgets : refs[s] = <<l, i>> /\ layouts[l].widgets[i].ref = s
      BY <2>2 DEF GuiInv, Keeps
    <3> QED BY <3>1
  <2> QED BY <2>1, <2>2 DEF CallbacksKept
<1>3. ClicksReachFirst
  BY DEF GuiInv
<1>4. RowsFit
  <2>1. ASSUME guiPhase = "input", turn = 1, NEW l \in DOMAIN layouts
        PROVE  RowsKept(layouts[l].widgets)
    BY <2>1 DEF GuiInv, RowsHold
  <2> QED BY <2>1 DEF RowsFit, RowsKept, Widgets
<1> QED BY <1>1, <1>2, <1>3, <1>4 DEF GuiSound

(* Trees are whole, a button has its own function under its reference, the  *)
(* first leaf under the mouse answers a click, and rows keep children that  *)
(* fit inside and apart.                                                    *)
THEOREM GuiStaysSound == GuiSpec => []GuiSound
<1>1. GuiInv => GuiSound
  BY InvSound
<1> QED BY <1>1, GuiInvariance, PTL
=============================================================================
