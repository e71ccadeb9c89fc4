------------------------------- MODULE Values -------------------------------
(***************************************************************************)
(* The values scripts compute with: colours, points, rectangles, arcs,     *)
(* rays, vectors, ids and the styles of the GUI.  Each type lists its      *)
(* fields again in every function that handles them: in the constructor,   *)
(* in __index and __newindex, in the setters that tell the watchers, in    *)
(* the copy, in the writer and in the reader of its JSON.  Here each list  *)
(* is a set, and a value is the set of its fields that are away from       *)
(* their defaults.                                                         *)
(*                                                                         *)
(* A behaviour follows one value at a time: what scripts and C do with it, *)
(* its copies, its JSON and the value that is read from it.                *)
(***************************************************************************)
EXTENDS Naturals, FiniteSets, Sequences, SequencesExt

CONSTANTS
  ValueKinds,     \* the kinds in question
  Watchers,       \* who watches values
  MaxWatchers,    \* bound: watchers of one value
  MaxAway         \* bound: fields away from their defaults

ASSUME ValuesAssumption ==
  ValueKinds \subseteq {"color", "point", "rect", "arc", "ray", "vector", "uuid", "style"}

VARIABLES
  value,  \* the value, with what its watchers saw and where it comes from
  text    \* its JSON

valuesVars == <<value, text>>

NoValue == <<>>

XY == {"x", "y"}
-----------------------------------------------------------------------------
(* The fields of a type, function by function.                              *)

(* What the constructor is given. *)
ColorGiven  == {"r", "g", "b", "a"}
PointGiven  == XY
RectGiven   == XY \cup {"width", "height"}
ArcGiven    == XY \cup {"radius", "start_angle", "end_angle"}
RayGiven    == XY \cup {"dx", "dy"}
VectorGiven == XY
UuidGiven   == {"value"}

(* What __index shows. *)
ColorShown  == {"r", "g", "b", "a"}
PointShown  == XY
RectShown   == XY \cup {"width", "height", "rotation"}
ArcShown    == XY \cup {"radius", "start_angle", "end_angle"}
RayShown    == XY \cup {"dx", "dy"}
VectorShown == XY
UuidShown   == {"value"}

(* What __newindex sets. *)
ColorSet  == {"r", "g", "b", "a"}
PointSet  == XY
RectSet   == XY \cup {"width", "height", "rotation"}
ArcSet    == XY \cup {"radius", "start_angle", "end_angle"}
RaySet    == XY \cup {"dx", "dy"}
VectorSet == XY
UuidSet   == {}

(* What a method sets at one go: set_hex and set_byte, set_direction and    *)
(* normalize, reset.                                                        *)
ColorMethods  == {"r", "g", "b", "a"}
RayMethods    == {"dx", "dy"}
VectorMethods == XY
UuidMethods   == {"value"}

(* Whose setters tell the watchers. *)
ColorTells == {"r", "g", "b", "a"}
PointTells == XY
RectTells  == XY \cup {"width", "height", "rotation"}

(* What a copy takes over. *)
ColorCopied  == {"r", "g", "b", "a"}
PointCopied  == XY
RectCopied   == XY \cup {"width", "height", "rotation"}
ArcCopied    == XY \cup {"radius", "start_angle", "end_angle"}
RayCopied    == XY \cup {"dx", "dy"}
VectorCopied == XY
UuidCopied   == {"value"}

(* What serialize writes. *)
ColorWritten  == {"r", "g", "b", "a"}
PointWritten  == XY
RectWritten   == XY \cup {"width", "height", "rotation"}
ArcWritten    == XY \cup {"radius", "start_angle", "end_angle"}
RayWritten    == XY \cup {"dx", "dy"}
VectorWritten == XY
UuidWritten   == {"value"}

(* What deserialize insists on, and what it takes when it is there. *)
Reader(needs, may) == [needs |-> needs, may |-> may]

ColorRead  == Reader({"r", "g", "b", "a"}, {})
PointRead  == Reader(XY, {})
(* Mutant: the rotation is forgotten. *)
WrongRectRead == Reader(XY \cup {"width", "height"}, {})
RectRead   == Reader(XY \cup {"width", "height"}, {"rotation"})
ArcRead    == Reader(XY \cup {"radius", "start_angle", "end_angle"}, {})
RayRead    == Reader(XY \cup {"dx", "dy"}, {})
VectorRead == Reader(XY, {})
UuidRead   == Reader({"value"}, {})
-----------------------------------------------------------------------------
(* The style of a GUI: measures, and a colour for each use and variant.     *)
StyleMeasures == {"border_width", "padding_left", "padding_top", "padding_right",
                  "padding_bottom", "font_size"}

ThemeColors      == {"color", "color_hover", "color_active"}
AlertColors      == {"alert_bg", "alert_text", "alert_border"}
BackgroundColors == {"bg", "bg_hover", "bg_active"}
TextColors       == {"text", "text_hover", "text_active"}
BorderColors     == {"border", "border_hover", "border_active"}
TooltipColors    == {"tooltip_bg", "tooltip_color"}
MarkColors       == {"selection_bg", "selection_color", "focus_ring", "highlight"}

(* Their setters copy the colour and tell the watchers. *)
Palette == ThemeColors \cup AlertColors \cup BackgroundColors \cup TextColors
           \cup BorderColors \cup TooltipColors \cup MarkColors

(* __index makes a table for a use, which is indexed by the variant, to     *)
(* read the style's own colour and to set it; __newindex takes measures.    *)
StyleShown   == StyleMeasures \cup Palette
StyleSet     == StyleMeasures
StyleProxied == Palette
StyleCopied  == StyleMeasures \cup Palette

(* "Color serialization is intentionally omitted" (gui_style.c:1199). *)
StyleWritten == StyleMeasures
StyleRead    == Reader({}, StyleMeasures)
-----------------------------------------------------------------------------
(* All the kinds.                                                           *)

Given == [color |-> ColorGiven, point |-> PointGiven, rect |-> RectGiven, arc |-> ArcGiven,
          ray |-> RayGiven, vector |-> VectorGiven, uuid |-> UuidGiven, style |-> {}]

Shown == [color |-> ColorShown, point |-> PointShown, rect |-> RectShown, arc |-> ArcShown,
          ray |-> RayShown, vector |-> VectorShown, uuid |-> UuidShown, style |-> StyleShown]

Settable == [color |-> ColorSet, point |-> PointSet, rect |-> RectSet, arc |-> ArcSet,
             ray |-> RaySet, vector |-> VectorSet, uuid |-> UuidSet,
             style |-> StyleSet \cup StyleProxied]

Methods == [color |-> ColorMethods, point |-> {}, rect |-> {}, arc |-> {}, ray |-> RayMethods,
            vector |-> VectorMethods, uuid |-> UuidMethods, style |-> {}]

Tells == [color |-> ColorTells, point |-> PointTells, rect |-> RectTells, arc |-> {}, ray |-> {},
          vector |-> {}, uuid |-> {}, style |-> StyleMeasures \cup Palette]

Carried == [color |-> ColorCopied, point |-> PointCopied, rect |-> RectCopied, arc |-> ArcCopied,
            ray |-> RayCopied, vector |-> VectorCopied, uuid |-> UuidCopied,
            style |-> StyleCopied]

Spelled == [color |-> ColorWritten, point |-> PointWritten, rect |-> RectWritten,
            arc |-> ArcWritten, ray |-> RayWritten, vector |-> VectorWritten,
            uuid |-> UuidWritten, style |-> StyleWritten]

Readers == [color |-> ColorRead, point |-> PointRead, rect |-> RectRead, arc |-> ArcRead,
            ray |-> RayRead, vector |-> VectorRead, uuid |-> UuidRead, style |-> StyleRead]
-----------------------------------------------------------------------------
(* Nothing is away, nobody watches; source is where the fields come from.   *)
Value(kind, away, by, source) ==
  [kind |-> kind, away |-> away, views |-> <<>>, tinted |-> {}, by |-> by, source |-> source]

ValuesInit == value = NoValue /\ text = NoValue

NewValue(kind, away) ==
  /\ value = NoValue /\ text = NoValue
  /\ away \subseteq Given[kind] /\ Cardinality(away) <= MaxAway
  /\ value' = Value(kind, away, "script", <<>>)
  /\ UNCHANGED text

(* All watchers are called one after another and read the value. *)
Told(views, away) == [i \in DOMAIN views |-> [views[i] EXCEPT !.saw = away]]

Changed(fields, away) ==
  LET told == fields \cap Tells[value.kind] # {} IN
    [value EXCEPT !.away = away, !.by = "script", !.source = <<>>,
                  !.views = IF told THEN Told(@, away) ELSE @,
                  !.tinted = IF told THEN {} ELSE @]

Toggled(fields, f) == IF f \in fields THEN fields \ {f} ELSE fields \cup {f}

SetField(f) ==
  /\ f \in Settable[value.kind]
  /\ value' = Changed({f}, Toggled(value.away, f))
  /\ UNCHANGED text

CallMethod(away) ==
  /\ away \subseteq Methods[value.kind] /\ Methods[value.kind] # {}
  /\ value' = Changed(Methods[value.kind], (value.away \ Methods[value.kind]) \cup away)
  /\ UNCHANGED text

(* The colour a script reads from a style is the style's own: what is done  *)
(* to it no setter of the style sees.                                       *)
Tint(f) ==
  /\ value.kind = "style" /\ f \in StyleProxied
  /\ value' = [value EXCEPT !.away = Toggled(@, f), !.by = "script", !.source = <<>>,
                            !.tinted = @ \cup {f}]
  /\ UNCHANGED text

(* One who watches has read the value; the same one may watch twice. *)
AddWatcher(w) ==
  /\ Tells[value.kind] # {} /\ Len(value.views) < MaxWatchers
  /\ value' = [value EXCEPT !.views = Append(@, [who |-> w, saw |-> value.away])]
  /\ UNCHANGED text

(* The first entry of the watcher goes, the others move up. *)
RemoveWatcher(w) ==
  /\ \E i \in DOMAIN value.views :
       /\ value.views[i].who = w
       /\ \A j \in 1..(i - 1) : value.views[j].who # w
       /\ value' = [value EXCEPT !.views = RemoveAt(@, i)]
  /\ UNCHANGED text

(* Nobody watches a copy. *)
CopyValue ==
  /\ value' = Value(value.kind, value.away \cap Carried[value.kind], "copy", value.away)
  /\ UNCHANGED text

(* From here on the behaviour follows the JSON. *)
WriteValue ==
  /\ text = NoValue
  /\ text' = [kind |-> value.kind, lost |-> {},
              away |-> value.away \cap Spelled[value.kind], source |-> value.away]
  /\ value' = NoValue

(* Somebody edits it; bound: one key is lost. *)
LoseKey(key) ==
  /\ text.lost = {}
  /\ text' = [text EXCEPT !.lost = {key}]
  /\ UNCHANGED value

(* fromJSON of the type named kind. *)
KeysLeft == Spelled[text.kind] \ text.lost

Readable(kind) == text.kind = kind /\ Readers[kind].needs \subseteq KeysLeft

ReadValue(kind) ==
  /\ text # NoValue
  /\ text' = NoValue
  /\ LET known == KeysLeft \cap (Readers[kind].needs \cup Readers[kind].may) IN
       value' = IF Readable(kind) THEN Value(kind, text.away \cap known, "JSON", text)
                ELSE Value(kind, {}, "refused", text)

(* Lua collects it, or C destroys it; after a refusal there is none. *)
ForgetValue == value' = NoValue /\ UNCHANGED text

ValuesNext ==
  \/ \E kind \in ValueKinds : \/ \E away \in SUBSET Given[kind] : NewValue(kind, away)
                              \/ ReadValue(kind)
  \/ /\ value # NoValue /\ value.by # "refused"
     /\ \/ \E f \in Settable[value.kind] : SetField(f)
        \/ \E away \in SUBSET Methods[value.kind] : CallMethod(away)
        \/ \E f \in StyleProxied : Tint(f)
        \/ \E w \in Watchers : AddWatcher(w) \/ RemoveWatcher(w)
        \/ CopyValue
        \/ WriteValue
     /\ value' # NoValue => Cardinality(value'.away \cup value'.tinted) <= MaxAway
  \/ text # NoValue /\ \E key \in Spelled[text.kind] : LoseKey(key)
  \/ value # NoValue /\ ForgetValue

ValuesSpec == ValuesInit /\ [][ValuesNext]_valuesVars
-----------------------------------------------------------------------------
ValuesTypeOK ==
  /\ value # NoValue => value.kind \in ValueKinds /\ value.by \in {"script", "copy", "JSON", "refused"}
  /\ text # NoValue => text.lost \subseteq Spelled[text.kind]

(* A script reads what it has set, and so do all who watch: a watcher       *)
(* misses nothing but the colours of a style that are changed in place.     *)
SeenByAll ==
  value # NoValue =>
    /\ value.away \subseteq Shown[value.kind]
    /\ Tells[value.kind] # {} =>
         \A i \in DOMAIN value.views :
           LET saw == value.views[i].saw IN
             (saw \ value.away) \cup (value.away \ saw) \subseteq value.tinted

(* A copy is the value again, down to the last field, and what comes back   *)
(* from JSON is too: but for a key the JSON has lost, and the colours of a  *)
(* style.  Only a JSON of another type, or without a key that the type      *)
(* insists on, is refused: a rectangle does not insist on its rotation and  *)
(* a style on nothing.                                                      *)
Dispensable(kind) == CASE kind = "rect" -> {"rotation"}
                       [] kind = "style" -> StyleMeasures
                       [] OTHER -> {}

ComesBackWhole ==
  value # NoValue =>
    /\ value.by = "copy" => value.away = value.source
    /\ value.by = "JSON" =>
         /\ value.away = value.source.source \ (value.source.lost \cup Palette)
         /\ value.source.lost \subseteq Dispensable(value.kind)
    /\ value.by = "refused" /\ value.source.kind = value.kind =>
         value.source.lost \ Dispensable(value.kind) # {}

ValuesKept == SeenByAll /\ ComesBackWhole
=============================================================================
