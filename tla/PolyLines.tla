----------------------------- MODULE PolyLines -----------------------------
(***************************************************************************)
(* The points of a polyline (types/poly_line.c): a count, a capacity and   *)
(* an array, which the first point allocates, which doubles when it is     *)
(* full, and which copies and JSON make anew.  room is what the array      *)
(* really holds.  A behaviour is the life of a few lines; it ends when a   *)
(* point is written beyond an array.                                       *)
(***************************************************************************)
EXTENDS Naturals, Sequences, SequencesExt

CONSTANTS
  LineIds,    \* lines there ever are
  FirstRoom,  \* capacity of a first array, 4 in the code
  MaxPoints,  \* bound: points of a line
  Spots       \* where points are

ASSUME PolyLinesAssumption == FirstRoom \in Nat \ {0} /\ MaxPoints \in Nat

VARIABLES
  line,    \* of each line: its points, what was asked for, and its array
  overrun  \* a point was written beyond the array

lineVars == <<line, overrun>>

(* asked is the list of points that the calls ask for; lost says that an    *)
(* array was forgotten, emptied that the line once had no points again.     *)
Blank == [points |-> <<>>, asked |-> <<>>, cap |-> 0, room |-> 0, lost |-> FALSE,
          emptied |-> FALSE, by |-> "none"]

PolyLinesInit == line = [l \in LineIds |-> Blank] /\ overrun = FALSE

Lives(l) == line[l].by # "none"

Make(l) ==
  /\ ~Lives(l)
  /\ line' = [line EXCEPT ![l].by = "made"]
  /\ UNCHANGED overrun

(* The first array is allocated whenever there are no points. *)
Started(o) ==
  IF o.points = <<>>
  THEN [o EXCEPT !.cap = FirstRoom, !.room = FirstRoom, !.lost = @ \/ o.room > 0]
  ELSE o

GrownFor(o) ==
  IF Len(o.points) >= o.cap THEN [o EXCEPT !.cap = 2 * @, !.room = 2 * o.cap] ELSE o

AddPoint(l, spot) ==
  /\ Lives(l) /\ Len(line[l].points) < MaxPoints
  /\ LET o == GrownFor(Started(line[l])) IN
       /\ line' = [line EXCEPT ![l] = [o EXCEPT !.points = Append(@, spot),
                                                !.asked = Append(@, spot)]]
       /\ overrun' = (Len(o.points) >= o.room)

(* The points behind it move up, one after another. *)
MovedUp(points, i) ==
  [k \in 1..(Len(points) - 1) |-> IF k < i THEN points[k] ELSE points[k + 1]]

RemovePoint(l, i) ==
  /\ i \in DOMAIN line[l].points
  /\ line' = [line EXCEPT ![l].points = MovedUp(@, i), ![l].asked = RemoveAt(@, i),
                          ![l].emptied = @ \/ Len(line[l].points) = 1]
  /\ UNCHANGED overrun

ClearPoints(l) ==
  /\ Lives(l)
  /\ line' = [line EXCEPT ![l].points = <<>>, ![l].asked = <<>>,
                          ![l].emptied = @ \/ line[l].points # <<>>]
  /\ UNCHANGED overrun

(* The copy's array holds the points only; the capacity is the source's. *)
CopyOf(o) == [Blank EXCEPT !.points = o.points, !.asked = o.points, !.cap = o.cap,
                           !.room = Len(o.points), !.by = "copy"]

CopyLine(l, to) ==
  /\ Lives(l) /\ ~Lives(to)
  /\ line' = [line EXCEPT ![to] = CopyOf(line[l])]
  /\ UNCHANGED overrun

(* JSON and back; without points there is nothing to come back. *)
ReadBack(o) == [Blank EXCEPT !.points = o.points, !.asked = o.points,
                             !.cap = Len(o.points), !.room = Len(o.points), !.by = "JSON"]

WriteAndRead(l, to) ==
  /\ line[l].points # <<>> /\ ~Lives(to)
  /\ line' = [line EXCEPT ![to] = ReadBack(line[l])]
  /\ UNCHANGED overrun

DestroyLine(l) ==
  /\ Lives(l)
  /\ line' = [line EXCEPT ![l] = Blank]
  /\ UNCHANGED overrun

PolyLinesNext ==
  /\ ~overrun
  /\ \E l \in LineIds : \/ Make(l) \/ ClearPoints(l) \/ DestroyLine(l)
                        \/ \E spot \in Spots : AddPoint(l, spot)
                        \/ \E i \in 1..MaxPoints : RemovePoint(l, i)
                        \/ \E to \in LineIds : CopyLine(l, to) \/ WriteAndRead(l, to)

PolyLinesSpec == PolyLinesInit /\ [][PolyLinesNext]_lineVars
-----------------------------------------------------------------------------
PolyLinesTypeOK ==
  /\ overrun \in BOOLEAN
  /\ \A l \in LineIds :
       /\ line[l].points \in SeqOf(Spots, MaxPoints)
       /\ line[l].by \in {"none", "made", "copy", "JSON"}

(* A line has the points that were asked for, in their order, and they fit  *)
(* its array, through growing, emptying, copying and JSON: but for a copy,  *)
(* whose capacity promises more than it has allocated until it grows.  An   *)
(* array is forgotten only by a line that was emptied and begun again.      *)
PointsKept ==
  \A l \in LineIds :
    LET o == line[l] IN
      /\ o.points = o.asked
      /\ Len(o.points) <= o.room \/ (o.by = "copy" /\ o.room < o.cap)
      /\ o.lost => o.emptied
=============================================================================
