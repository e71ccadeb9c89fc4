-------------------------------- MODULE Gui --------------------------------
(***************************************************************************)
(* The immediate-mode GUI: scripts build layouts of widgets, the engine    *)
(* lays them out, hands a click to each layout and throws all of them away *)
(* at the end of the frame.  A button's function is kept in Lua's registry *)
(* until it was called or the button is destroyed; while it is called, the *)
(* script may build on.                                                    *)
(*                                                                         *)
(* Places are along one axis: along the other, rows and columns change     *)
(* places.  Spacing is 0, which scripts cannot change, and widgets without *)
(* text, images and labels alike, are "label".  Styles, variants, hovering *)
(* and drawing are left out, and so is the value that a button's function  *)
(* gets, whose reference is taken and given back with the function's.      *)
(***************************************************************************)
EXTENDS Integers, Sequences, FiniteSets, FiniteSetsExt, SequencesExt

CONSTANTS
  Containers,   \* [kind, justify, align, asked], what scripts open
  Regions,      \* [x, w], where scripts start layouts
  Padding,      \* of every style
  Clicks,       \* where the mouse may be clicked
  MaxLayouts,   \* layouts_capacity
  MaxWidgets,   \* of all layouts (bound)
  Slots         \* references in Lua's registry (bound)

ASSUME GuiAssumption ==
  /\ \A c \in Containers : /\ c.kind \in {"row", "column", "stack"}
                           /\ {c.justify, c.align} \subseteq {"start", "center", "end"}
                           /\ c.asked \in Int
  /\ \A r \in Regions : {r.x, r.w} \subseteq Int
  /\ Padding \in Nat /\ Clicks \subseteq Nat /\ {MaxLayouts, MaxWidgets} \subseteq Nat
  /\ Slots \subseteq Nat \ {0}   \* luaL_ref numbers from 1

AutoSize == -1    \* GUI_AUTO_SIZE
NoClick == -1
Free == <<0, 0>>
Leaked == <<0, 1>>

VARIABLES
  layouts,   \* [x, w, widgets, current] in the order they were started
  open,      \* the layout that is being built, 0 if none
  guiPhase,  \* "script" | "input" | "hit" | "callback"
  turn,      \* the layout whose input is processed
  mouse,     \* this frame's click
  hit,       \* what answered it in this layout, 0 if nothing
  refs       \* per slot of the registry: whose function it holds

guiVars == <<layouts, open, guiPhase, turn, mouse, hit, refs>>

IsContainer(w) == w.kind \in {"row", "column", "stack"}

Widgets(l) == DOMAIN layouts[l].widgets

Kids(ws, i) == {j \in DOMAIN ws : ws[j].parent = i}

Autos(ws, J) == {j \in J : ws[j].asked = AutoSize}

Widest(ws, J) ==
  LET asked == [j \in J |-> ws[j].asked] IN MapThenSumSet(LAMBDA j : asked[j], J \ Autos(ws, J))
-----------------------------------------------------------------------------
(* Layout.                                                                  *)

Larger(a, b) == IF a > b THEN a ELSE b

(* Division as C rounds it. *)
Part(a, b) == IF a < 0 THEN -((-a) \div b) ELSE a \div b

Inner(at) == at.w - 2 * Padding

(* What each child gets that asks for nothing. *)
AutoWidth(ws, i, inner) ==
  LET J == Autos(ws, Kids(ws, i))
  IN IF J = {} THEN 0
     ELSE Larger(0, Part(Larger(0, inner) - Widest(ws, Kids(ws, i)), Cardinality(J)))

Shift(how, free) == CASE how = "start" -> 0 [] how = "end" -> free [] how = "center" -> Part(free, 2)

(* _flex_layout along its direction: children stand in a row, *)
(* those that ask for nothing share what is left.             *)
InRow(ws, j, at) ==
  LET i == ws[j].parent
      inner == Inner(at)
      width == [k \in Kids(ws, i) |->
                  IF ws[k].asked = AutoSize THEN AutoWidth(ws, i, inner) ELSE ws[k].asked]
      Widths(K) == MapThenSumSet(LAMBDA k : width[k], K)
  IN [x |-> at.x + Padding + Shift(ws[i].justify, inner - Widths(Kids(ws, i)))
              + Widths({k \in Kids(ws, i) : k < j}),
      w |-> width[j]]

(* _flex_layout across its direction: each child is aligned by itself. *)
InColumn(ws, j, at) ==
  LET inner == Inner(at)
      width == IF ws[j].asked = AutoSize THEN inner ELSE ws[j].asked
  IN [x |-> at.x + Padding + Shift(ws[ws[j].parent].align, inner - width), w |-> width]

(* _stack_layout: each child gets all there is, whatever it asks for. *)
InStack(at) == [x |-> at.x + Padding, w |-> Inner(at)]

(* The root takes the layout's region unless it asks for a width. *)
RootPlace(layout) ==
  LET asked == layout.widgets[1].asked
  IN [x |-> layout.x, w |-> IF asked \in {0, AutoSize} THEN layout.w ELSE asked]

InContainer(ws, j, at) ==
  CASE ws[ws[j].parent].kind = "row" -> InRow(ws, j, at)
    [] ws[ws[j].parent].kind = "column" -> InColumn(ws, j, at)
    [] ws[ws[j].parent].kind = "stack" -> InStack(at)

Laid(layout) ==
  LET ws == layout.widgets
      place[j \in DOMAIN ws] ==
        IF j = 1 THEN RootPlace(layout)
        ELSE InContainer(ws, j, place[ws[j].parent])
  IN place

LaidOut(layout) ==
  LET place == Laid(layout)
  IN [layout EXCEPT !.widgets = [j \in DOMAIN @ |-> [@[j] EXCEPT !.at = place[j]]]]
-----------------------------------------------------------------------------
(* Clicks.                                                                  *)

Under(w, m) == w.at.x <= m /\ m < w.at.x + w.at.w

FirstIn(J, answer) ==
  LET found == {j \in J : answer[j] # 0} IN IF found = {} THEN 0 ELSE answer[Min(found)]

(* Mutant: a container that is hit answers itself. *)
WrongHandled(ws, m) ==
  [i \in DOMAIN ws |-> IF Under(ws[i], m) THEN i ELSE 0]

(* process_mouse_click: who answers a click that a widget is given; a       *)
(* container asks its children's handlers in turn.                          *)
Handled(ws, m) ==
  LET answer[i \in DOMAIN ws] ==
        IF ~Under(ws[i], m) THEN 0
        ELSE IF IsContainer(ws[i]) THEN FirstIn(Kids(ws, i), answer) ELSE i
  IN answer

(* _ese_widget_process_mouse_clicked_worker: the children, wherever they    *)
(* are, before the widget itself.                                           *)
Answered(ws, m) ==
  LET answer[i \in DOMAIN ws] ==
        LET below == FirstIn(Kids(ws, i), answer)
        IN IF below # 0 THEN below ELSE Handled(ws, m)[i]
  IN answer
-----------------------------------------------------------------------------
GuiInit ==
  /\ layouts = <<>> /\ open = 0
  /\ guiPhase = "script" /\ turn = 0 /\ mouse = NoClick /\ hit = 0
  /\ refs = [s \in Slots |-> Free]

(* Scripts build in their turn, or in a button's function. *)
MayBuild == guiPhase \in {"script", "callback"} /\ UNCHANGED <<guiPhase, turn, mouse, hit>>

(* GUI.start; with all layouts in use nothing is started, and no error raised. *)
Start(r) ==
  /\ MayBuild /\ open = 0 /\ Len(layouts) < MaxLayouts
  /\ layouts' = Append(layouts, [x |-> r.x, w |-> r.w, widgets |-> <<>>, current |-> 0])
  /\ open' = Len(layouts')
  /\ UNCHANGED refs

(* GUI.finish asks for no container to be closed. *)
FinishLayout == MayBuild /\ open # 0 /\ open' = 0 /\ UNCHANGED <<layouts, refs>>

MayGrow ==
  MapThenSumSet(LAMBDA l : Len(layouts[l].widgets), DOMAIN layouts) < MaxWidgets

NewWidget(kind, parent, asked, slot) ==
  [kind |-> kind, parent |-> parent, asked |-> asked, ref |-> slot,
   at |-> [x |-> 0, w |-> asked], justify |-> "start", align |-> "start"]

(* The first is the root; when that one was closed, no other can be opened. *)
Opened(c) ==
  /\ MayBuild /\ open # 0 /\ MayGrow
  /\ LET l == layouts[open]
         new == [NewWidget(c.kind, l.current, c.asked, 0) EXCEPT !.justify = c.justify, !.align = c.align]
     IN /\ l.widgets = <<>> \/ l.current # 0
        /\ layouts' = [layouts EXCEPT ![open].widgets = Append(@, new),
                                      ![open].current = Len(l.widgets) + 1]
  /\ UNCHANGED <<open, refs>>

OpenFlex(c) == c.kind \in {"row", "column"} /\ Opened(c)

OpenStack(c) == c.kind = "stack" /\ Opened(c)

(* Only the innermost can be closed, and by its own function. *)
Closed(kinds) ==
  /\ MayBuild /\ open # 0
  /\ LET l == layouts[open]
     IN /\ l.current # 0 /\ l.widgets[l.current].kind \in kinds
        /\ layouts' = [layouts EXCEPT ![open].current = l.widgets[l.current].parent]
  /\ UNCHANGED <<open, refs>>

CloseFlex == Closed({"row", "column"})

CloseStack == Closed({"stack"})

PushLeaf ==
  /\ MayBuild /\ open # 0 /\ layouts[open].current # 0 /\ MayGrow
  /\ layouts' = [layouts EXCEPT ![open].widgets =
                   Append(@, NewWidget("label", layouts[open].current, AutoSize, 0))]
  /\ UNCHANGED <<open, refs>>

PushLabel == PushLeaf

PushImage == PushLeaf

FreeSlots == {s \in Slots : refs[s] = Free}

(* GUI.push_button; the reference is taken before the check for a container, *)
(* which leaves it behind.                                                   *)
PushButton ==
  /\ MayBuild /\ open # 0 /\ FreeSlots # {}
  /\ LET l == layouts[open]
         slot == Min(FreeSlots)
     IN \/ /\ l.current # 0 /\ MayGrow
           /\ layouts' = [layouts EXCEPT ![open].widgets =
                            Append(@, NewWidget("button", l.current, AutoSize, slot))]
           /\ refs' = [refs EXCEPT ![slot] = <<open, Len(l.widgets) + 1>>]
        \/ /\ l.current = 0
           /\ refs' = [refs EXCEPT ![slot] = Leaked]
           /\ UNCHANGED layouts
  /\ UNCHANGED open
-----------------------------------------------------------------------------
(* ese_gui_input, and the layout pass of ese_gui_process. *)
LayOut ==
  /\ guiPhase = "script" /\ guiPhase' = "input"
  /\ \E m \in Clicks \cup {NoClick} : mouse' = m
  /\ layouts' = [l \in DOMAIN layouts |-> LaidOut(layouts[l])]
  /\ turn' = 1 /\ hit' = 0
  /\ UNCHANGED <<open, refs>>

(* One layout after the other, those included that functions start, which   *)
(* the layout pass has not seen.                                            *)
Click ==
  /\ guiPhase = "input" /\ mouse # NoClick /\ turn \in DOMAIN layouts
  /\ LET ws == layouts[turn].widgets
     IN hit' = IF ws = <<>> THEN 0 ELSE Answered(ws, mouse)[1]
  /\ guiPhase' = "hit"
  /\ UNCHANGED <<layouts, open, turn, mouse, refs>>

Hit == layouts[turn].widgets[hit]

(* A button runs its function, unless that was done already. *)
Answer ==
  /\ guiPhase = "hit"
  /\ IF hit # 0 /\ Hit.ref # 0
     THEN guiPhase' = "callback" /\ UNCHANGED turn
     ELSE guiPhase' = "input" /\ turn' = turn + 1
  /\ UNCHANGED <<layouts, open, mouse, hit, refs>>

(* _button_invoke_lua_callback: the reference is not the button's any more. *)
Released(layout, i) == [layout EXCEPT !.widgets[i].ref = 0]

(* The function returns; one that fails ends the program. *)
CallbackReturns ==
  /\ guiPhase = "callback" /\ guiPhase' = "input"
  /\ refs' = [refs EXCEPT ![Hit.ref] = Free]
  /\ layouts' = [layouts EXCEPT ![turn] = Released(@, hit)]
  /\ turn' = turn + 1
  /\ UNCHANGED <<open, mouse, hit>>

(* _button_data_destroy: what a button still holds is given back. *)
GivenBack(s) ==
  IF \E l \in DOMAIN layouts : \E w \in ToSet(layouts[l].widgets) : w.ref = s THEN Free ELSE refs[s]

(* ese_gui_cleanup destroys all layouts, the one that scripts left open too. *)
CleanUpGui ==
  /\ guiPhase = "input" /\ (mouse = NoClick \/ turn > Len(layouts))
  /\ guiPhase' = "script"
  /\ layouts' = <<>> /\ open' = 0 /\ turn' = 0 /\ mouse' = NoClick /\ hit' = 0
  /\ refs' = [s \in Slots |-> GivenBack(s)]

GuiNext ==
  \/ \E r \in Regions : Start(r)
  \/ FinishLayout
  \/ \E c \in Containers : OpenFlex(c) \/ OpenStack(c)
  \/ CloseFlex \/ CloseStack \/ PushLabel \/ PushImage \/ PushButton
  \/ LayOut \/ Click \/ Answer \/ CallbackReturns \/ CleanUpGui

GuiSpec == GuiInit /\ [][GuiNext]_guiVars
-----------------------------------------------------------------------------
GuiTypeOK ==
  /\ open \in 0..Len(layouts) /\ Len(layouts) <= MaxLayouts
  /\ guiPhase \in {"script", "input", "hit", "callback"}
  /\ turn \in Nat /\ mouse \in Clicks \cup {NoClick}
  /\ \A l \in DOMAIN layouts : \A w \in ToSet(layouts[l].widgets) :
       w.ref \in Slots \cup {0} /\ w.at \in [x : Int, w : Int]

(* The container that scripts build into belongs to its layout, and widgets *)
(* stand behind the container they are in, though it may be one that was    *)
(* not closed.                                                              *)
TreesWhole ==
  \A l \in DOMAIN layouts :
    LET ws == layouts[l].widgets
    IN /\ layouts[l].current # 0 => IsContainer(ws[layouts[l].current])
       /\ \A i \in DOMAIN ws : IF i = 1 THEN ws[i].parent = 0
                               ELSE ws[i].parent \in 1..(i - 1) /\ IsContainer(ws[ws[i].parent])

(* A button that was not called yet has its own function under its          *)
(* reference, never one that took the place since; and the registry keeps   *)
(* nothing else for the GUI but what push_button left behind.               *)
CallbacksKept ==
  /\ \A l \in DOMAIN layouts : \A i \in Widgets(l) :
       LET s == layouts[l].widgets[i].ref IN s # 0 => refs[s] = <<l, i>>
  /\ \A s \in Slots : refs[s] \notin {Free, Leaked} =>
       layouts[refs[s][1]].widgets[refs[s][2]].ref = s

(* Though containers are asked twice, and hand the click to children again, *)
(* it is answered by the first leaf under the mouse, in the order of        *)
(* building and whatever containers the mouse is outside of, and so by one  *)
(* button of a layout at most.                                              *)
ClicksReachFirst ==
  guiPhase = "hit" =>
    LET ws == layouts[turn].widgets
        leaves == {i \in DOMAIN ws : ~IsContainer(ws[i]) /\ Under(ws[i], mouse)}
    IN hit = IF leaves = {} THEN 0 ELSE Min(leaves)

(* A row whose children ask for no more than it has, and none for less than *)
(* nothing, as scripts may, keeps them inside, in their order and apart.    *)
RowsFit ==
  guiPhase = "input" /\ turn = 1 =>
    \A l \in DOMAIN layouts : \A i \in Widgets(l) :
      LET ws == layouts[l].widgets
          at == ws[i].at
      IN /\ ws[i].kind = "row" /\ Widest(ws, Kids(ws, i)) <= Inner(at)
         /\ \A j \in Kids(ws, i) : ws[j].asked = AutoSize \/ ws[j].asked >= 0
         =>
           \A j \in Kids(ws, i) :
             /\ at.x + Padding <= ws[j].at.x
             /\ ws[j].at.x + ws[j].at.w <= at.x + at.w - Padding
             /\ \A k \in Kids(ws, i) : j < k => ws[j].at.x + ws[j].at.w <= ws[k].at.x

(* What scripts build is laid out, clicked and given back as a whole.       *)
GuiSound == TreesWhole /\ CallbacksKept /\ ClicksReachFirst /\ RowsFit
=============================================================================
