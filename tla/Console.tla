------------------------------ MODULE Console ------------------------------
(* The console (core/console.c): a bounded history of messages from print    *)
(* (core/engine_lua.c) and from failing scripts (scripting/lua_engine.c),    *)
(* and where their characters are drawn.  Each message gets one row; what    *)
(* does not fit is wrapped into the rows below it.                          *)
EXTENDS Integers, FiniteSets, Sequences, SequencesExt

CONSTANTS
  ConsoleTexts, \* messages: sequences of "c" (printable), "\n" and "x" (neither)
  PrintLimit,   \* print's buffer: 1023 characters in the code
  MaxHistory,   \* ESE_CONSOLE_MAX_HISTORY: 1000 in the code
  LineCounts,   \* values of draw_line_count: 10 at first
  RowWidths,    \* characters that fit behind the prefix, 0 in a narrow view
  MaxAdded      \* bound: messages

ASSUME ConsoleAssumption ==
  /\ {PrintLimit, MaxHistory, MaxAdded} \subseteq Nat /\ MaxHistory > 0
  /\ LineCounts \cup RowWidths \subseteq Nat /\ ConsoleTexts \subseteq Seq(STRING)

VARIABLES
  consoleLines, \* the lines, oldest first: [type, message]
  everAdded,    \* all that were ever added
  drawLines,    \* draw_line_count
  rowWidth,     \* max_chars_per_line
  consoleShown, \* the engine's draw_console
  aborted       \* the program has ended by log_assert

consoleVars == <<consoleLines, everAdded, drawLines, rowWidth, consoleShown, aborted>>

NoMessage == <<"NULL">>

ConsoleInit ==
  /\ consoleLines = <<>> /\ everAdded = <<>>
  /\ drawLines \in LineCounts /\ rowWidth \in RowWidths
  /\ consoleShown = FALSE /\ aborted = FALSE

(* console_add_line: the oldest line leaves. *)
AddLine(type, message) ==
  LET line == [type |-> type, message |-> message] IN
    /\ Len(everAdded) < MaxAdded
    /\ consoleLines' = Append(IF Len(consoleLines) >= MaxHistory THEN Tail(consoleLines) ELSE consoleLines, line)
    /\ everAdded' = Append(everAdded, line)
    /\ UNCHANGED <<drawLines, rowWidth>>

(* _lua_print: what its arguments' tostring gives, cut to the buffer. *)
PrintLine(text) ==
  /\ ~aborted
  /\ AddLine("normal", IF Len(text) > PrintLimit THEN SubSeq(text, 1, PrintLimit) ELSE text)
  /\ UNCHANGED <<consoleShown, aborted>>

(* A function that C called has failed: the error goes to the console, which *)
(* is shown.  lua_tostring has no text for an error that is a table, and     *)
(* engine_add_to_console asserts one.                                       *)
ScriptFails(text) ==
  /\ ~aborted
  /\ IF text = NoMessage
     THEN aborted' = TRUE /\ UNCHANGED <<consoleLines, everAdded, drawLines, rowWidth, consoleShown>>
     ELSE AddLine("error", text) /\ consoleShown' = TRUE /\ UNCHANGED aborted

(* The chord of keys in engine_update. *)
ToggleConsole ==
  /\ ~aborted
  /\ consoleShown' = ~consoleShown
  /\ UNCHANGED <<consoleLines, everAdded, drawLines, rowWidth, aborted>>

(* console_set_draw_line_count; the user makes the window wider. *)
SetDrawLines(n) ==
  /\ ~aborted /\ drawLines' = n
  /\ UNCHANGED <<consoleLines, everAdded, rowWidth, consoleShown, aborted>>

ResizeView(n) ==
  /\ ~aborted /\ rowWidth' = n
  /\ UNCHANGED <<consoleLines, everAdded, drawLines, consoleShown, aborted>>

ConsoleNext ==
  \/ \E text \in ConsoleTexts : PrintLine(text) \/ ScriptFails(text)
  \/ ScriptFails(NoMessage)
  \/ ToggleConsole
  \/ \E n \in LineCounts : SetDrawLines(n)
  \/ \E n \in RowWidths : ResizeView(n)

-----------------------------------------------------------------------------
(* Mutant: a row is left one character too late. *)
WrongWrapped(pen) == IF pen.col > rowWidth THEN [pen EXCEPT !.row = @ + 1, !.col = 0] ELSE pen

(* console_draw.  The loop over a message: before any character, also before *)
(* a newline, a full row is left.                                            *)
Wrapped(pen) == IF pen.col >= rowWidth THEN [pen EXCEPT !.row = @ + 1, !.col = 0] ELSE pen

Typed(pen, char) ==
  LET at == Wrapped(pen) IN
    CASE char = "c" -> [row |-> at.row, col |-> at.col + 1, marks |-> Append(at.marks, <<at.row, at.col>>)]
      [] char = "\n" -> [at EXCEPT !.row = @ + 1, !.col = 0]
      [] OTHER -> at

TypedFrom(row, message) == FoldLeft(Typed, [row |-> row, col |-> 0, marks |-> <<>>], message).marks

(* The newest lines, as many as the console has rows, the newest lowest. *)
DrawnLines == IF drawLines < Len(consoleLines) THEN drawLines ELSE Len(consoleLines)
Drawn(i) == consoleLines[Len(consoleLines) - DrawnLines + i]
RowOf(i) == drawLines - DrawnLines + (i - 1)
Marks(i) == TypedFrom(RowOf(i), Drawn(i).message)

-----------------------------------------------------------------------------
ConsoleTypeOK ==
  /\ Len(consoleLines) <= MaxHistory /\ Len(everAdded) <= MaxAdded
  /\ drawLines \in LineCounts /\ rowWidth \in RowWidths
  /\ {consoleShown, aborted} \subseteq BOOLEAN

(* The console shows the newest of all messages, in the order in which they  *)
(* came, down to its last row: none is lost to the shift of the history.     *)
NewestShown ==
  \A i \in 1 .. DrawnLines :
    /\ Drawn(i) = everAdded[Len(everAdded) - DrawnLines + i]
    /\ RowOf(i) \in 0 .. drawLines - 1 /\ (i = DrawnLines => RowOf(i) = drawLines - 1)

(* The characters of a message are drawn in reading order, none over         *)
(* another, within the width of a row; and no message is drawn over another  *)
(* below it unless it has more than one row.                                 *)
InReadingOrder(p, q) == p[1] < q[1] \/ (p[1] = q[1] /\ p[2] < q[2])
OneRow(i) == \A j \in DOMAIN Marks(i) : Marks(i)[j][1] = RowOf(i)

LegibleText ==
  \A i \in 1 .. DrawnLines :
    /\ \A j \in 2 .. Len(Marks(i)) : InReadingOrder(Marks(i)[j - 1], Marks(i)[j])
    /\ \A j \in DOMAIN Marks(i) : Marks(i)[j][2] < (IF rowWidth > 1 THEN rowWidth ELSE 1)
    /\ \A h \in 1 .. i - 1 :
         ToSet(Marks(h)) \cap ToSet(Marks(i)) # {} => ~OneRow(h)
=============================================================================
