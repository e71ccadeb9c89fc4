------------------------------- MODULE Paths -------------------------------
(***************************************************************************)
(* How a shape's SVG path becomes polylines                                *)
(* (entity_component_shape_path.c).  The text is read from left to right   *)
(* and comes as it is needed: what stands next is a command letter, a      *)
(* number, a sign that begins no number, something else, or the end; a     *)
(* number may have a separator before it or, with a sign, none.            *)
(*                                                                         *)
(* A coordinate pair is one place on a line of Places.  A curve is its     *)
(* first and last point, so is an arc: its circle begins and ends at a     *)
(* place of its own, whatever the pen does.                                *)
(***************************************************************************)
EXTENDS Integers, Sequences, SequencesExt

CONSTANTS
  Places,     \* the places that a path visits; 0 is the origin
  MaxStrokes  \* bound: commands and groups of numbers read

ASSUME PathsAssumption == 0 \in Places /\ Places \subseteq Int

VARIABLES
  path,   \* the reader: status, cmd, what stands next, pen, start, ctrl, strokes
  lines   \* the polylines so far, the last one being the current one

pathsVars == <<path, lines>>

Lines == {"L", "H", "V"}
Curves == {"C", "S"}
Skips == {"Q", "T", "other"}
Upper == {"M", "Z", "A"} \cup Lines \cup Curves \cup Skips
NoCommand == "none"

Ahead == {"command", "number", "joined", "sign", "other", "end"}
-----------------------------------------------------------------------------
PathsInit ==
  /\ \E ahead \in Ahead : path = [status |-> "reading", cmd |-> NoCommand, relative |-> FALSE,
                                  fresh |-> FALSE, ahead |-> ahead, pen |-> 0, start |-> 0,
                                  ctrl |-> FALSE, strokes |-> 0]
  /\ lines = <<>>

StillReading == path.status = "reading"
Bound == path.strokes < MaxStrokes

(* The rest of the path is of another kind than what a loop has just eaten. *)
Goes(p, ahead) == path' = [p EXCEPT !.ahead = ahead, !.strokes = @ + 1]

(* A letter: the next handler is called for it, at least once. *)
ReadCommand(cmd, relative) ==
  /\ StillReading /\ Bound /\ path.ahead = "command" /\ ~path.fresh
  /\ \E ahead \in Ahead :
       Goes([path EXCEPT !.cmd = cmd, !.relative = relative, !.fresh = TRUE], ahead)
  /\ UNCHANGED lines

(* The handler of the last command is called for what stands here. *)
Serves(cmds) ==
  /\ StillReading /\ Bound /\ path.cmd \in cmds
  /\ path.fresh \/ path.ahead \notin {"command", "end"}

To(place) == IF path.relative THEN path.pen + place ELSE place

Begin(at, how) == Append(lines, [first |-> at, last |-> at, closed |-> FALSE, begun |-> how,
                                 after |-> FALSE, circle |-> FALSE])

Current(f) == [lines EXCEPT ![Len(lines)] = f]
DrawTo(place) ==
  LET line == lines[Len(lines)] IN
    Current([line EXCEPT !.last = place, !.circle = FALSE, !.after = line.closed])

(* M and m: a new line at the place; a pair that cannot be read refuses the *)
(* path, and what was drawn is destroyed.                                   *)
MoveTo(place) ==
  /\ Serves({"M"}) /\ path.ahead \in {"number", "joined"}
  /\ To(place) \in Places
  /\ \E ahead \in Ahead :
       Goes([path EXCEPT !.pen = To(place), !.start = To(place), !.ctrl = FALSE,
                         !.fresh = FALSE, !.cmd = "pairs"], ahead)
  /\ lines' = Begin(To(place), "moved")

Refuse ==
  /\ StillReading
  /\ \/ Serves({"M"})
     \/ path.cmd = NoCommand /\ path.ahead \notin {"command", "end"}
  /\ path' = [path EXCEPT !.status = "refused"]
  /\ lines' = <<>>

(* Further pairs are lines.  The loop of m does not skip the separator      *)
(* after a pair: the next pair begins another line.                         *)
Pair(place) ==
  /\ StillReading /\ Bound /\ path.cmd = "pairs" /\ path.ahead \in {"number", "joined"}
  /\ To(place) \in Places
  /\ \E ahead \in Ahead :
       Goes([path EXCEPT !.pen = To(place),
                         !.cmd = IF path.relative /\ ahead # "joined" THEN "M" ELSE "pairs"],
            ahead)
  /\ lines' = DrawTo(To(place))

(* The loop ends at what begins no number, or in the middle of a pair. *)
PairsEnd ==
  /\ StillReading /\ Bound /\ path.cmd = "pairs"
  /\ \/ path.ahead \notin {"number", "joined"} /\ Goes([path EXCEPT !.cmd = "M"], path.ahead)
     \/ /\ path.ahead \in {"number", "joined"}
        /\ \E ahead \in Ahead \ {"number", "joined"} : Goes([path EXCEPT !.cmd = "M"], ahead)
  /\ UNCHANGED lines

(* A handler that has read its numbers. *)
After(cmds, place, ctrl) ==
  \E ahead \in Ahead :
    Goes([path EXCEPT !.pen = place, !.ctrl = ctrl, !.fresh = FALSE], ahead)

(* L, H and V: without a line, one begins where this one leads to. *)
LineTo(place) ==
  /\ Serves(Lines) /\ path.ahead \in {"number", "joined"}
  /\ To(place) \in Places
  /\ lines' = IF lines = <<>> THEN Begin(To(place), "drawn") ELSE DrawTo(To(place))
  /\ After(Lines, To(place), FALSE)

(* C and S: without a line, one begins at the pen. *)
CurveTo(place) ==
  /\ Serves(Curves) /\ path.ahead \in {"number", "joined"}
  /\ To(place) \in Places
  /\ lines' = IF lines = <<>>
              THEN << [Begin(path.pen, "drawn")[1] EXCEPT !.last = To(place)] >>
              ELSE DrawTo(To(place))
  /\ After(Curves, To(place), TRUE)

(* A: two half circles around the middle, then the pen goes to the end; all *)
(* that is left of the numbers is skipped.                                  *)
ArcTo(place, side) ==
  /\ Serves({"A"}) /\ path.ahead \in {"number", "joined"}
  /\ To(place) \in Places
  /\ LET line == IF lines = <<>> THEN Begin(side, "drawn") ELSE DrawTo(side) IN
       lines' = [line EXCEPT ![Len(line)].circle = TRUE]
  /\ \E ahead \in {"command", "other", "end"} :
       Goes([path EXCEPT !.pen = To(place), !.ctrl = FALSE, !.fresh = FALSE], ahead)

(* The numbers end before the group does: they are dropped. *)
ShortGroup ==
  /\ Serves(Lines \cup Curves \cup {"A"}) /\ path.ahead \in {"number", "joined"}
  /\ \E ahead \in Ahead \ {"number", "joined"} :
       Goes([path EXCEPT !.fresh = FALSE,
                         !.ctrl = IF path.cmd \in Curves THEN @ ELSE FALSE], ahead)
  /\ UNCHANGED lines

(* Q, T and unknown letters: all up to the next letter is skipped. *)
Skip ==
  /\ Serves(Skips)
  /\ \E ahead \in IF path.ahead \in {"command", "end"} THEN {path.ahead} ELSE {"command", "end"} :
       Goes([path EXCEPT !.fresh = FALSE,
                         !.ctrl = IF path.cmd = "other" THEN @ ELSE FALSE], ahead)
  /\ UNCHANGED lines

(* Z: back to the start of the last M; the line stays the current one. *)
ClosePath ==
  /\ Serves({"Z"}) /\ path.fresh
  /\ lines' = IF lines = <<>> THEN lines
              ELSE Current([lines[Len(lines)] EXCEPT !.last = path.start, !.closed = TRUE,
                                                      !.circle = FALSE, !.after = FALSE])
  /\ Goes([path EXCEPT !.pen = IF lines = <<>> THEN @ ELSE path.start, !.ctrl = FALSE,
                       !.fresh = FALSE], path.ahead)

(* A handler that finds no number of its own consumes nothing: with a       *)
(* letter or the end ahead, the main loop goes on ...                       *)
NothingThere ==
  /\ Serves(Lines \cup Curves \cup {"A"}) /\ path.ahead \in {"command", "end"}
  /\ path' = [path EXCEPT !.fresh = FALSE,
                          !.ctrl = IF path.cmd \in Curves THEN @ ELSE FALSE]
  /\ UNCHANGED lines

(* ... with anything else it calls the same handler again, forever. *)
Spin ==
  /\ \/ Serves(Lines \cup Curves \cup {"A"}) /\ path.ahead \in {"sign", "other"}
     \/ Serves({"Z"}) /\ ~path.fresh
  /\ path' = [path EXCEPT !.status = "spinning"]
  /\ UNCHANGED lines

Finish ==
  /\ StillReading /\ path.ahead = "end" /\ ~path.fresh /\ path.cmd # "pairs"
  /\ path' = [path EXCEPT !.status = "done"]
  /\ UNCHANGED lines

(* Where a pair can lead from a place. *)
Moves == Places \cup {p - q : p \in Places, q \in Places}

PathsNext ==
  \/ \E cmd \in Upper, relative \in BOOLEAN : ReadCommand(cmd, relative)
  \/ \E place \in Moves : \/ MoveTo(place) \/ Pair(place) \/ LineTo(place)
                                     \/ CurveTo(place)
                                     \/ \E side \in Places : ArcTo(place, side)
  \/ Refuse \/ PairsEnd \/ ShortGroup \/ Skip \/ ClosePath \/ NothingThere \/ Spin \/ Finish

PathsSpec == PathsInit /\ [][PathsNext]_pathsVars
-----------------------------------------------------------------------------
PathsTypeOK ==
  /\ path.status \in {"reading", "done", "refused", "spinning"}
  /\ path.cmd \in Upper \cup {NoCommand, "pairs"} /\ path.ahead \in Ahead
  /\ {path.pen, path.start} \subseteq Places
  /\ \A i \in DOMAIN lines : {lines[i].first, lines[i].last} \subseteq Places

(* What is drawn next joins what was drawn before: the pen is at the end of *)
(* the current line, whatever has been read and dropped in between, but for *)
(* an arc, whose circle is drawn around the way it should take.             *)
PenAtEnd ==
  StillReading /\ lines # <<>> => LET line == lines[Len(lines)] IN
                             ~line.circle => line.last = path.pen

(* A smooth curve only ever continues the curve that ends at the pen. *)
SmoothJoins == StillReading /\ path.ctrl => lines # <<>> /\ ~lines[Len(lines)].circle

(* A closed line ends where it begins, unless it was begun by drawing       *)
(* without a move, then Z goes to the origin or to where another line       *)
(* began, or is drawn on after Z, as Z keeps it the current one.            *)
ClosedLinesClose ==
  \A i \in DOMAIN lines :
    lines[i].closed /\ lines[i].begun = "moved" /\ ~lines[i].after /\ ~lines[i].circle
      => lines[i].last = lines[i].first

PathsDrawn == PenAtEnd /\ SmoothJoins /\ ClosedLinesClose
=============================================================================
