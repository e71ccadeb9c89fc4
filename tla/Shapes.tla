------------------------------- MODULE Shapes -------------------------------
(***************************************************************************)
(* The lines of shape components (entity_component_shape.c): an array of   *)
(* polylines, each of which scripts may have as well, and which several    *)
(* shapes may share.  The array takes one reference for each entry.  The   *)
(* references, the userdata and their collection are those of LuaShared,   *)
(* of which only the operators on an object are used.                      *)
(***************************************************************************)
EXTENDS Naturals, FiniteSets, Sequences, SequencesExt, FiniteSetsExt

CONSTANTS
  ShapeIds,     \* shape components
  PolyIds,      \* polylines there ever are: numbers, in the order of their birth
  PolyProxies,  \* bound: userdata that ever point to a line
  ShapeRoom,    \* SHAPE_POLYLINE_CAPACITY, 4 in the code
  MaxListed     \* bound: lines of a shape

ASSUME ShapesAssumption ==
  /\ IsFiniteSet(PolyIds) /\ PolyIds = 1..Cardinality(PolyIds) /\ IsFiniteSet(ShapeIds)
  /\ PolyProxies \in Nat \ {0} /\ ShapeRoom \in Nat \ {0} /\ MaxListed \in Nat

VARIABLES
  poly,   \* the polylines, as LuaShared has objects
  shape,  \* of each shape: its lines, its capacity, whether it lives
  taken   \* history: lines that a dying shape took from another one

shapesVars == <<poly, shape, taken>>

(* The functions of a type whose unref and destroy are the common ones. *)
Common == [clears |-> FALSE, counts |-> FALSE]
Line == INSTANCE LuaShared WITH
  SharedKinds <- {Common}, MaxProxies <- PolyProxies, MaxRefs <- MaxListed,
  sharedKind <- Common, shared <- poly, holder <- shape, slips <- taken

Born(l) == poly[l] # <<>>
Alive(l) == Born(l) /\ ~poly[l].freed

(* Scripts have it in their hands. *)
InHand(l) == Alive(l) /\ \E p \in poly[l].points : poly[l].proxy[p] = "held"

(* There is a userdata for it, or may be one more. *)
Enough(l) == Line!Anchored(poly[l]) \/ Line!Unused(poly[l]) # {}

NoLines(lives) == [lines |-> <<>>, cap |-> ShapeRoom, lives |-> lives]

ShapesInit ==
  /\ poly = [l \in PolyIds |-> <<>>]
  /\ shape = [s \in ShapeIds |-> NoLines(FALSE)]
  /\ taken = {}

Listed(s) == ToSet(shape[s].lines)
Usable(s) == shape[s].lives /\ \A l \in Listed(s) : Alive(l)
Next1(l) == ~Born(l) /\ \A k \in PolyIds : k < l => Born(k)

NewShape(s) ==
  /\ ~shape[s].lives
  /\ shape' = [shape EXCEPT ![s] = NoLines(TRUE)]
  /\ UNCHANGED <<poly, taken>>

NewLine(l) ==
  /\ Next1(l)
  /\ poly' = [poly EXCEPT ![l] = Line!NewProxy(Line!Unmade, "held")]
  /\ UNCHANGED <<shape, taken>>

(* A full array doubles before the next line comes in. *)
Capacity(s, more) ==
  LET cap == shape[s].cap IN IF Len(shape[s].lines) + more > cap THEN 2 * cap ELSE cap

(* add puts it at the end, insert before another one. *)
PutLine(s, l, i) ==
  /\ shape[s].lives /\ InHand(l) /\ Enough(l)
  /\ Len(shape[s].lines) < MaxListed /\ i \in 1..(Len(shape[s].lines) + 1)
  /\ shape' = [shape EXCEPT ![s].lines = InsertAt(@, i, l), ![s].cap = Capacity(s, 1)]
  /\ poly' = [poly EXCEPT ![l] = Line!Ref(@)]
  /\ UNCHANGED taken

(* remove: the first entry of the line. *)
RemoveLine(s, l) ==
  /\ Usable(s) /\ InHand(l) /\ l \in Listed(s)
  /\ shape' = [shape EXCEPT ![s].lines = RemoveFirst(@, l)]
  /\ poly' = [poly EXCEPT ![l] = Line!Unref(@)]
  /\ UNCHANGED taken

(* pop and shift: the reference goes, then the script gets the line. *)
TakeLine(s, i) ==
  /\ Usable(s) /\ i \in {1, Len(shape[s].lines)} \cap DOMAIN shape[s].lines
  /\ LET l == shape[s].lines[i] IN
       /\ Line!Unused(poly[l]) # {}
       /\ poly' = [poly EXCEPT ![l] = Line!Pushed(Line!Unref(@))]
  /\ shape' = [shape EXCEPT ![s].lines = RemoveAt(@, i)]
  /\ UNCHANGED taken

ShowLine(s, i) ==
  /\ Usable(s) /\ i \in DOMAIN shape[s].lines /\ Enough(shape[s].lines[i])
  /\ poly' = [poly EXCEPT ![shape[s].lines[i]] = Line!Pushed(@)]
  /\ UNCHANGED <<shape, taken>>

(* Each entry gives its reference back; a component that is freed destroys   *)
(* the line as well, which takes one more reference when there is one.      *)
GivenUp(o, dying) == IF dying THEN Line!Destroyed(Line!Unref(o)) ELSE Line!Unref(o)

Emptied(s, dying) ==
  FoldLeft(LAMBDA pool, l : [pool EXCEPT ![l] = GivenUp(pool[l], dying)], poly, shape[s].lines)

ClearPath(s) ==
  /\ Usable(s)
  /\ poly' = Emptied(s, FALSE)
  /\ shape' = [shape EXCEPT ![s].lines = <<>>]
  /\ UNCHANGED taken

(* set_path: the lines of the path are appended, the old ones stay. *)
SetPath(s, l) ==
  /\ shape[s].lives /\ Next1(l) /\ Len(shape[s].lines) < MaxListed
  /\ poly' = [poly EXCEPT ![l] = Line!Ref(Line!Unmade)]
  /\ shape' = [shape EXCEPT ![s].lines = Append(@, l), ![s].cap = Capacity(s, 1)]
  /\ UNCHANGED taken

(* A copy has copies of the lines. *)
CopyShape(s, to) ==
  LET new == [i \in DOMAIN shape[s].lines |-> Cardinality({l \in PolyIds : Born(l)}) + i] IN
    /\ Usable(s) /\ ~shape[to].lives
    /\ ToSet(new) \subseteq PolyIds
    /\ poly' = [l \in PolyIds |-> IF l \in ToSet(new) THEN Line!Ref(Line!Unmade) ELSE poly[l]]
    /\ shape' = [shape EXCEPT ![to] = [lines |-> new, cap |-> shape[s].cap, lives |-> TRUE]]
    /\ UNCHANGED taken

Elsewhere(s) == UNION {Listed(t) : t \in {t \in ShapeIds : shape[t].lives} \ {s}}

DropShape(s) ==
  /\ Usable(s)
  /\ poly' = Emptied(s, TRUE)
  /\ shape' = [shape EXCEPT ![s] = NoLines(FALSE)]
  /\ taken' = taken \cup (Listed(s) \cap Elsewhere(s))

DropLine(l, p) ==
  /\ Alive(l) /\ poly[l].proxy[p] = "held"
  /\ poly' = [poly EXCEPT ![l].proxy[p] = "dropped"]
  /\ UNCHANGED <<shape, taken>>

CollectLine(l, p) ==
  /\ Alive(l) /\ poly[l].proxy[p] = "dropped" /\ poly[l].anchor # p
  /\ poly' = [poly EXCEPT ![l] = Line!Garbage(@, p)]
  /\ UNCHANGED <<shape, taken>>

ShapesNext ==
  \/ \E s \in ShapeIds :
       \/ NewShape(s) \/ ClearPath(s) \/ DropShape(s)
       \/ \E l \in PolyIds : \/ RemoveLine(s, l) \/ SetPath(s, l)
                             \/ \E i \in 1..MaxListed : PutLine(s, l, i)
       \/ \E i \in 1..MaxListed : TakeLine(s, i) \/ ShowLine(s, i)
       \/ \E to \in ShapeIds : CopyShape(s, to)
  \/ \E l \in PolyIds : NewLine(l) \/ \E p \in 1..PolyProxies : DropLine(l, p) \/ CollectLine(l, p)

ShapesSpec == ShapesInit /\ [][ShapesNext]_shapesVars
-----------------------------------------------------------------------------
ShapesTypeOK ==
  /\ \A l \in PolyIds : Born(l) => poly[l] \in Line!Objects
  /\ \A s \in ShapeIds : Listed(s) \subseteq PolyIds
  /\ taken \subseteq PolyIds

(* The entries that shapes have of a line. *)
EntriesIn(shapes, l) ==
  LET in == [s \in ShapeIds |-> Cardinality({i \in DOMAIN shapes[s].lines : shapes[s].lines[i] = l})]
  IN  MapThenSumSet(LAMBDA s : in[s], ShapeIds)

Entries(l) == EntriesIn(shape, l)

(* A line that a living shape draws is there, whatever scripts do with it   *)
(* and with other shapes, and it has one reference for each entry: unless   *)
(* one of several shapes it was in has died and has taken one of theirs.    *)
LinesHold ==
  /\ \A s \in ShapeIds : shape[s].lives =>
       /\ Len(shape[s].lines) <= shape[s].cap
       /\ \A l \in Listed(s) : Alive(l) \/ l \in taken
  /\ \A l \in PolyIds : Alive(l) =>
       /\ poly[l].count <= Entries(l)
       /\ poly[l].count = Entries(l) \/ l \in taken
=============================================================================
