------------------------------ MODULE Batches ------------------------------
(***************************************************************************)
(* The vertex buffer of one batch of colours.  Whoever adds vertices first *)
(* makes the buffer large enough for as many as it reckons to add, and     *)
(* then writes them.                                                       *)
(***************************************************************************)
EXTENDS Integers

CONSTANTS
  Room,        \* vertices that a new batch has room for
  Lengths,     \* numbers of points of polylines
  MaxVertices  \* bound: vertices in the batch

ASSUME BatchesAssumption ==
  /\ MaxVertices \in Nat /\ Lengths \subseteq Nat
  /\ Room \in Nat /\ 12 <= Room   \* two quads: BATCH_INITIAL_CAPACITY * 4 is 1024

VARIABLES
  held,     \* vertex_count
  room,     \* vertex_capacity
  fillings  \* history: has the fill of a polyline been added

batchesVars == <<held, room, fillings>>

BatchesInit == held = 0 /\ room = Room /\ fillings = FALSE

(* The capacity doubles until n more vertices fit.                          *)
RoomFor(n, space) ==
  LET grow[r \in Nat] == IF held + n <= r THEN r ELSE grow[2 * r] IN grow[space]

(* For a quad it doubles once.                                              *)
RoomForQuad == IF held + 6 <= room THEN room ELSE 2 * room

Add(space, written) ==
  /\ held + written <= MaxVertices
  /\ room' = space
  /\ held' = held + written

(* A filled rectangle, and a hollow one too small to have an inside. *)
AddQuad == Add(RoomForQuad, 6) /\ UNCHANGED fillings

(* A hollow rectangle asks for a quad, and when it turns out to have four   *)
(* sides for 24.                                                            *)
(* Mutant: it does not ask again. *)
WrongAddHollow == Add(RoomForQuad, 24) /\ UNCHANGED fillings

AddHollow == Add(RoomFor(24, RoomForQuad), 24) /\ UNCHANGED fillings

(* The stroke of a polyline of n points: six for each segment, but for the  *)
(* segments that have no length.                                            *)
AddStroke(n, flat) ==
  /\ n >= 2 /\ flat \in 0..(n - 1)
  /\ Add(RoomFor(6 * (n - 1), room), 6 * (n - 1 - flat))
  /\ UNCHANGED fillings

(* The fill, of triangles.  It reckons with a fan around a corner, which    *)
(* has two less than there are corners, and writes one around the centroid. *)
Corners(n, closed) == IF closed THEN n - 1 ELSE n

AddFill(n, closed) ==
  /\ n >= 3 /\ (closed => n > 3)
  /\ Add(RoomFor(3 * (Corners(n, closed) - 2), room), 3 * Corners(n, closed))
  /\ fillings' = TRUE

BatchesNext ==
  \/ AddQuad \/ AddHollow
  \/ \E n \in Lengths : \E flat \in 0..(n - 1) : AddStroke(n, flat)
  \/ \E n \in Lengths, closed \in BOOLEAN : AddFill(n, closed)

BatchesSpec == BatchesInit /\ [][BatchesNext]_batchesVars
-----------------------------------------------------------------------------
BatchesTypeOK == held \in 0..MaxVertices /\ room \in Nat /\ fillings \in BOOLEAN

(* What render_list.c:367 and its likes are for: vertices are written only  *)
(* within the buffer.  The fill of a polyline breaks it.                    *)
WithinBuffer == held <= room

(* All that breaks it is the fill of a polyline, and never by more than the *)
(* six vertices by which a fill reckons too low: the next to add something  *)
(* makes up for it.                                                         *)
OverrunIsSix == held <= room + (IF fillings THEN 6 ELSE 0)
=============================================================================
