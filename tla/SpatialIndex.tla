---------------------------- MODULE SpatialIndex ----------------------------
(***************************************************************************)
(* The broad phase of collision detection, src/utility/spatial_index.c: a  *)
(* grid of cells, each with the list of entities whose bounds touch it,    *)
(* from which spatial_index_get_pairs takes the pairs whose bounds         *)
(* overlap.  A crowded cell with its eight neighbours is first turned into *)
(* a tree (DBVH), and the size of the cells is tuned while entities are    *)
(* being inserted.                                                         *)
(*                                                                         *)
(* Coordinates are integers; bounds are not rotated, as an entity's world  *)
(* bounds never are.                                                       *)
(***************************************************************************)
EXTENDS Integers, Sequences, SequencesExt, FiniteSets, FiniteSetsExt

CONSTANTS
  Bodies,         \* entities
  Boxes,          \* collision_world_bounds they may have, <<x0, y0, x1, y1>>
  CellSizes,      \* values of cell_size
  GridLines,      \* numbers of the cells, either way; Int in the code
  DenseOver,      \* SPATIAL_INDEX_DBVH_THRESHOLD
  TuneOver        \* SPATIAL_INDEX_AUTO_TUNE_THRESHOLD

ASSUME SpatialAssumption ==
  /\ Boxes \subseteq Int \X Int \X Int \X Int
  /\ \A b \in Boxes : b[1] <= b[3] /\ b[2] <= b[4]
  /\ CellSizes \subseteq Nat \ {0} /\ GridLines \subseteq Int
  /\ \A b \in Boxes, s \in CellSizes :
       (b[1] \div s)..(b[3] \div s) \cup (b[2] \div s)..(b[4] \div s) \subseteq GridLines
  /\ IsFiniteSet(Bodies) /\ DenseOver \in Nat /\ TuneOver \in Nat

VARIABLES
  box,       \* of each entity: its bounds, while pairs are sought
  cellSize,
  bins,      \* of each cell: the entities in its list
  tuned      \* history: did the cell size change since the index was cleared?

spatialVars == <<box, cellSize, bins, tuned>>

(* What moves entities between two searches may give them any bounds.       *)
Anywhere == <<>>

Cells == GridLines \X GridLines

SpatialInit ==
  /\ box = [e \in Bodies |-> Anywhere]
  /\ cellSize \in CellSizes
  /\ bins = [c \in Cells |-> <<>>]
  /\ tuned = FALSE
-----------------------------------------------------------------------------
(* Touching bounds overlap: ese_rect_intersects. *)
Overlaps(a, b) ==
  LET p == box[a] q == box[b] IN
    /\ p[1] <= q[3] /\ q[1] <= p[3]
    /\ p[2] <= q[4] /\ q[2] <= p[4]

(* Mutant: the cells at the far edges are left out. *)
WrongCellsOf(b) ==
  {c \in Cells : /\ c[1] \in (b[1] \div cellSize)..((b[3] \div cellSize) - 1)
                 /\ c[2] \in (b[2] \div cellSize)..((b[4] \div cellSize) - 1)}

(* The cells of the bounds b, the far edges included. *)
CellsOf(b) ==
  {c \in Cells : /\ c[1] \in (b[1] \div cellSize)..(b[3] \div cellSize)
                 /\ c[2] \in (b[2] \div cellSize)..(b[4] \div cellSize)}

IndexClear == bins' = [c \in Cells |-> <<>>]

WithBody(e) == [c \in Cells |-> IF c \in CellsOf(box[e]) THEN Append(bins[c], e) ELSE bins[c]]

(* The average bin holds more than the threshold. *)
Crowded(B) ==
  LET used == {c \in Cells : B[c] # <<>>} IN
    FoldSet(LAMBDA c, n : n + Len(B[c]), 0, used) > TuneOver * Cardinality(used)

(* Inserting e; if the last tuning is long enough ago, a crowded index gets *)
(* another cell size, for the entities that are still to be inserted.       *)
Insert(e) ==
  /\ bins' = WithBody(e)
  /\ \/ UNCHANGED <<cellSize, tuned>>
     \/ /\ Crowded(WithBody(e))
        /\ cellSize' \in CellSizes
        /\ tuned' = TRUE
-----------------------------------------------------------------------------
(* spatial_index_get_pairs.                                                 *)

Square(c, r) == (c[1] - r..c[1] + r) \X (c[2] - r..c[2] + r)
Around(c)    == Cells \cap Square(c, 1)

(* _convert_cell_to_dbvh takes a crowded cell all of whose neighbours have  *)
(* lists.                                                                   *)
Converts(c) == /\ Len(bins[c]) > DenseOver
               /\ \A d \in Square(c, 1) : d \in Cells /\ bins[d] # <<>>

(* The lists of the nine cells, column by column. *)
Column(x, y) == bins[<<x, y - 1>>] \o bins[<<x, y>>] \o bins[<<x, y + 1>>]
Block(c)     == Column(c[1] - 1, c[2]) \o Column(c[1], c[2]) \o Column(c[1] + 1, c[2])

(* _dbvh_collect_entities: the first insertion into the tree makes a node   *)
(* of the entity itself, the second hangs below it, where the collection    *)
(* does not look; all others become leaves of inner nodes.                  *)
Collected(nodes) == {nodes[n] : n \in (DOMAIN nodes) \ {2}}

Within(S) == {p \in SUBSET S : Cardinality(p) = 2 /\ \A a, b \in p : Overlaps(a, b)}
Across(S, T) == {p \in {{a, b} : a \in S, b \in T} :
                   Cardinality(p) = 2 /\ \A a, b \in p : Overlaps(a, b)}

(* The pairs of the cells C that have kept their lists, each with its       *)
(* neighbours; only these are asked whether they may collide at all: able   *)
(* are the pairs of which _pair_is_potential_collision says so.             *)
GridPairs(C, able) ==
  (UNION {Within(ToSet(bins[c])) : c \in C})
  \cup (able \cap UNION {UNION {Across(ToSet(bins[c]), ToSet(bins[d])) : d \in C \cap Around(c)} : c \in C})

(* The tree of the block around c, and the ring of cells around that.       *)
TreePairs(c, C, able) ==
  LET inside == Collected(Block(c))
      ring == C \cap Square(c, 2)
  IN able \cap (Within(inside) \cup UNION {Across(inside, ToSet(bins[d])) : d \in ring})

(* With `trees` the centres of the blocks that were converted.              *)
Pairs(trees, able) ==
  LET C == Cells \ UNION {Around(c) : c \in trees} IN
    GridPairs(C, able) \cup UNION {TreePairs(c, C, able) : c \in trees}

Meet(c, d) == Around(c) \cap Around(d) # {}

(* The cells that the walk over the bins converts.  The first conversion    *)
(* removes and frees the node that the iterator stands on, and the walk     *)
(* goes on from freed memory: if it goes on at all, it comes to any of the  *)
(* other cells, in any order and more than once, or to none.  A block from  *)
(* which a cell is missing converts no more.                                *)
Trees == {T \in SUBSET {c \in Cells : Converts(c)} :
            /\ \A c, d \in T : c # d => ~Meet(c, d)
            /\ (\E c \in Cells : Converts(c)) => T # {}}

(* Entities that only the second place of a tree stands for.                *)
Unseen(trees) ==
  UNION {ToSet(Block(c)) \ Collected(Block(c)) : c \in trees}
=============================================================================
