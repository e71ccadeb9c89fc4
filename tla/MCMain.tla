------------------------------- MODULE MCMain -------------------------------
(***************************************************************************)
(* The components that run on the main thread between the phases of a      *)
(* frame, checked in one run: a behaviour is one of publish/subscribe, of  *)
(* an object that C and Lua share, of script components, of collisions, of *)
(* an entity's JSON, of scenes, of values, paths, lines and shapes, of the  *)
(* keys and buttons on their way to a script, of values on their way        *)
(* between C and Lua, of the Lua engine, of a container, of the console, or *)
(* of a tile set.                                                          *)
(* The components share no state in the models; what they do to each other *)
(* in the code is part of each one's environment.                          *)
(***************************************************************************)
EXTENDS PubSub, LuaShared, Scripts, Collisions, Documents, Snapshots, Values, Paths,
        PolyLines, Shapes, Input, LuaValues, LuaEngine, HashMaps, Lists,
        Console, Tilesets

VARIABLE mainOf  \* which component the behaviour is of

mainVars == <<mainOf, vars, sharedVars, scriptsVars, collisionsVars, documentsVars,
              snapshotsVars, valuesVars, pathsVars, lineVars, shapesVars,
              inputVars, valueVars, engineVars, hashMapVars, listsVars,
              consoleVars, tilesetsVars>>

(* A script that has everything, and one without entity_init. *)
Defines(s) == IF s = "full" THEN Funs ELSE Funs \ {"entity_init"}

(* One component is given either script, the other one the full one.        *)
GivenTo(c) == IF c = CHOOSE d \in ScriptComponents : TRUE THEN {"full"} ELSE ScriptNames

(* In cells of 2, the grid is three cells wide: bounds that cover it, and   *)
(* those of a corner, which they touch at its edge.                         *)
SomeBoxes == {<<1, 1, 5, 5>>, <<0, 0, 1, 1>>}

(* Two entities with components of every kind: a shape with a line that has *)
(* no points yet, a map, one that plays and one that is switched off.      *)
Piece(kind, fields) == [kind |-> kind, set |-> fields]

SomeActors ==
  {[set |-> {"persistent", "tags", "default_props"},
    parts |-> << Piece("shape", {"inactive", "polylines", "blank"}),
                 Piece("sprite", {"sprite", "current_frame"}),
                 Piece("music", {"tracks", "playing"}),
                 Piece("collider", {"rects", "offset"}),
                 Piece("text", {"text", "inactive"}) >>],
   [set |-> {"hidden", "position", "subscriptions"},
    parts |-> << Piece("map", {"script", "map", "seed"}),
                 Piece("lua", {"script", "props", "instance"}),
                 Piece("listener", {"volume"}),
                 Piece("sound", {"sound", "playing"}) >>]}

SomeExtras == {{"persistent", "draw_order", "default_props"}, {"hidden", "subscriptions"}}

Types == {"color", "point", "rect", "arc", "ray", "vector", "uuid", "style"}

(* What scripts send: two scalars, one of which does not arrive, a string    *)
(* and an entity, arrays, a table with a key and a table of tables.         *)
Lone(kind) == [kind |-> kind, fields |-> <<>>]
TableOf(fields) == [kind |-> "table", fields |-> fields]

SomeSendables ==
  {<<Lone("number"), Lone("function")>>, <<Lone("string"), Lone("userdata")>>,
   <<TableOf(<< <<"1", "number">>, <<"2", "string">> >>)>>,
   <<TableOf(<< <<"1", "string">>, <<"x", "number">> >>)>>,
   <<TableOf(<< <<"1", "function">>, <<"2", "boolean">> >>)>>,
   <<TableOf(<< <<"x", "table">> >>)>>}

(* A script that calls functions of its module. *)
SomeChunks == [game |-> <<"function", "call", "call with parameters", "call">>]

(* Keys that share a bucket before and after it doubles, and that stop to. *)
SomeHashes == [a |-> 0, b |-> 4, c |-> 3]
SomeGroups == [a |-> "g", b |-> "g", c |-> "h"]

(* Printed: a character, more than a row and the buffer hold, two lines,     *)
(* one character that cannot be drawn.                                      *)
SomeTexts == {<<"c">>, <<"c", "c", "c", "c">>, <<"c", "c", "\n", "c">>, <<"x", "c">>}

(* A map of two cells with one tile. *)
TwoCells == <<1, 1>>

(* One initial state of each component that the behaviour is not of. *)
At(component) == mainOf = component

MainInit ==
  /\ mainOf \in {"pubsub", "shared", "scripts", "collisions", "documents", "snapshots",
                "values", "paths", "polylines", "shapes", "input",
                "luavalues", "luaengine", "hashmaps", "lists",
                "console", "tilesets"}
  /\ Init /\ ScriptsInit
  /\ SharedInit /\ (At("shared") \/ sharedKind = Vector)
  /\ CollisionsInit
  /\ At("collisions") \/ cellSize = 2
  /\ DocumentsInit
  /\ SnapshotsInit
  /\ ValuesInit
  /\ PathsInit /\ (At("paths") \/ path.ahead = "end")
  /\ PolyLinesInit
  /\ ShapesInit
  /\ InputInit /\ (At("input") \/ host = "glfw")
  /\ LuaValuesInit
  /\ LuaEngineInit
  /\ HashMapsInit /\ (At("hashmaps") \/ mapKind = "hashmap")
  /\ ListsInit
  /\ ConsoleInit /\ (At("console") \/ (drawLines = 2 /\ rowWidth = 2))
  /\ TilesetsInit /\ (At("tilesets") \/ mapSeed = 1)

(* Every component but the moving one rests. *)
Resting(moving) ==
  /\ moving # "pubsub" => UNCHANGED vars
  /\ moving # "shared" => UNCHANGED sharedVars
  /\ moving # "scripts" => UNCHANGED scriptsVars
  /\ moving # "collisions" => UNCHANGED collisionsVars
  /\ moving # "documents" => UNCHANGED documentsVars
  /\ moving # "snapshots" => UNCHANGED snapshotsVars
  /\ moving # "values" => UNCHANGED valuesVars
  /\ moving # "paths" => UNCHANGED pathsVars
  /\ moving # "polylines" => UNCHANGED lineVars
  /\ moving # "shapes" => UNCHANGED shapesVars
  /\ moving # "input" => UNCHANGED inputVars
  /\ moving # "luavalues" => UNCHANGED valueVars
  /\ moving # "luaengine" => UNCHANGED engineVars
  /\ moving # "hashmaps" => UNCHANGED hashMapVars
  /\ moving # "lists" => UNCHANGED listsVars
  /\ moving # "console" => UNCHANGED consoleVars
  /\ moving # "tilesets" => UNCHANGED tilesetsVars

MainNext ==
  /\ UNCHANGED mainOf
  /\ \/ At("pubsub") /\ Resting("pubsub") /\ Next
     \/ At("shared") /\ Resting("shared") /\ SharedNext
     \/ At("scripts") /\ Resting("scripts") /\ ScriptsNext
     \/ At("collisions") /\ Resting("collisions") /\ CollisionsNext
     \/ At("documents") /\ Resting("documents") /\ DocumentsNext
     \/ At("snapshots") /\ Resting("snapshots") /\ SnapshotsNext
     \/ At("values") /\ Resting("values") /\ ValuesNext
     \/ At("paths") /\ Resting("paths") /\ PathsNext
     \/ At("polylines") /\ Resting("polylines") /\ PolyLinesNext
     \/ At("shapes") /\ Resting("shapes") /\ ShapesNext
     \/ At("input") /\ Resting("input") /\ InputNext
     \/ At("luavalues") /\ Resting("luavalues") /\ LuaValuesNext
     \/ At("luaengine") /\ Resting("luaengine") /\ LuaEngineNext
     \/ At("hashmaps") /\ Resting("hashmaps") /\ HashMapsNext
     \/ At("lists") /\ Resting("lists") /\ ListsNext
     \/ At("console") /\ Resting("console") /\ ConsoleNext
     \/ At("tilesets") /\ Resting("tilesets") /\ TilesetsNext

MainSpec == MainInit /\ [][MainNext]_mainVars

(* What is written, described or spelled out comes back as it was: an       *)
(* entity's JSON, a scene, a value's fields, the points of a line.          *)
WrittenComesBack ==
  /\ At("documents") => DocumentsTypeOK /\ DocumentsFaithful
  /\ At("snapshots") => SwapsExactly
  /\ At("values") => ValuesKept
  /\ At("polylines") => PointsKept

(* What the user does comes to the scripts, once; what scripts send to each *)
(* other arrives; an entity's data shows its props; and a colon call of a   *)
(* script's module brings its instance.                                     *)
SentArrives ==
  /\ At("input") => EdgesTold
  /\ At("luavalues") => LuaValuesTypeOK /\ ArrivesAsSent /\ DataShowsProps
  /\ At("luaengine") => SelfGiven

(* Containers give back what was put into them, in order and while they are *)
(* walked, and what owns others frees each of them once.                    *)
ContainersKeep ==
  /\ At("hashmaps") => MapIsFunction /\ OneOwnerEach /\ WalkComplete
  /\ At("lists") => LinksAgree /\ WalkInOrder /\ SlotsExact /\ SortSorts
  /\ At("shapes") => LinesHold
  /\ At("luavalues") => OneOwner

(* What is drawn is what was given: an SVG path's strokes, the newest of    *)
(* the console's messages, a tile's sprites by their weights.               *)
DrawnAsGiven ==
  /\ At("paths") => PathsDrawn
  /\ At("console") => NewestShown /\ LegibleText
  /\ At("tilesets") => TilesetsKept
=============================================================================
