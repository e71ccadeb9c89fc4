------------------------------- MODULE MCScene -------------------------------
(***************************************************************************)
(* What a scene is made of, checked in one run: a behaviour is one of tile *)
(* maps, of the way from components to the picture, of the vertices of a   *)
(* batch, of the bounds of colliders, of the layouts of the GUI, or of     *)
(* atlases and sprites.  These components share no state in the models.    *)
(***************************************************************************)
EXTENDS Tilemaps, Drawing, Batches, Bounds, Gui, Assets

CONSTANTS k1, k2, r1, r2  \* colliders and rectangles

VARIABLE sceneOf  \* which component the behaviour is of

sceneVars == <<sceneOf, tilesVars, drawingVars, batchesVars, boundsVars, guiVars, assetsVars>>

Of(component) == sceneOf = component

TwoSizes == {<<1, 1>>, <<2, 1>>}

(* One component of each kind.  The sprite and the map share a texture, the *)
(* map and the text another; polylines, the collider's outline and a fill   *)
(* have one colour.                                                         *)
KindItself == [d \in Drawables |-> d]

Line(type, points) == [type |-> type, points |-> points, fill |-> "blue", stroke |-> "blue"]

SomeArts ==
  [sprite |-> {"t1", NoAsset}, text |-> {2}, collider |-> {1},
   shape |-> {<< Line("closed", 3), Line("open", 2) >>},
   map |-> {<< <<"t1", "font">>, <<NoAsset, "t1">> >>}]

ScenesOfTwo == {{"sprite", "text"}, {"shape", "collider"}, {"sprite", "shape"}, {"map", "collider"}}

OneOverlay == {[look |-> <<"texture", "font">>, z |-> 9]}

(* One collider with two rectangles, or two with one. *)
TwoCasts == {{k1, r1, r2}, {k1, k2, r1}}

(* Flex boxes in both directions and a stack, two of them of a fixed width, *)
(* in a region of 5.                                                        *)
Box(kind, justify, align, asked) ==
  [kind |-> kind, justify |-> justify, align |-> align, asked |-> asked]

SomeContainers ==
  {Box("row", "end", "start", AutoSize), Box("column", "start", "center", 2), Box("stack", "start", "start", 1)}

OneRegion == {[x |-> 0, w |-> 5]}

(* Two atlases of one group, which share a name, one with a colon in it; and *)
(* one of a group that is cut to the first's name.                          *)
Cels(name, length) == [name |-> name, length |-> length]

SomeAtlases ==
  {[group |-> <<"g">>, image |-> <<"i">>, indexed |-> FALSE,
    sprites |-> << Cels(<<"n">>, 2), Cels(<<"m", ":">>, 1) >>],
   [group |-> <<"g">>, image |-> <<"j">>, indexed |-> FALSE,
    sprites |-> << Cels(<<"n">>, 1), Cels(<<"m", ":">>, 0) >>],
   [group |-> <<"g", "h">>, image |-> <<"i">>, indexed |-> TRUE,
    sprites |-> << Cels(<<"n">>, 1) >>]}

(* A map that uses some of its tiles, and one that uses one it has not.      *)
SomeMapFiles ==
  {[group |-> <<"g">>, tiles |-> {<<"n">>, <<"m", ":">>}, cells |-> {<<"n">>}],
   [group |-> <<"g">>, tiles |-> {<<"n">>}, cells |-> {<<"n">>, <<"m", ":">>}]}

(* One initial state of each component that the behaviour is not of. *)
SceneInit ==
  /\ sceneOf \in {"tiles", "drawing", "batches", "bounds", "gui", "assets"}
  /\ TilesInit /\ (Of("tiles") \/ \A m \in TileMaps : size[m] = <<1, 1>>)
  /\ DrawingInit
  /\ Of("drawing") \/ \A d \in Drawables : IF d \in {"sprite", "text"} THEN world[d] # Absent /\ world[d].order = 0
                                                                    ELSE world[d] = Absent
  /\ BatchesInit
  /\ BoundsInit /\ (Of("bounds") \/ Cardinality(DOMAIN rectAt) = 1)
  /\ GuiInit
  /\ AssetsInit

SceneNext ==
  /\ UNCHANGED sceneOf
  /\ \/ Of("tiles") /\ TilesNext /\ UNCHANGED <<drawingVars, batchesVars, boundsVars, guiVars, assetsVars>>
     \/ Of("drawing") /\ DrawingNext /\ UNCHANGED <<tilesVars, batchesVars, boundsVars, guiVars, assetsVars>>
     \/ Of("batches") /\ BatchesNext /\ UNCHANGED <<tilesVars, drawingVars, boundsVars, guiVars, assetsVars>>
     \/ Of("bounds") /\ BoundsNext /\ UNCHANGED <<tilesVars, drawingVars, batchesVars, guiVars, assetsVars>>
     \/ Of("gui") /\ GuiNext /\ UNCHANGED <<tilesVars, drawingVars, batchesVars, boundsVars, assetsVars>>
     \/ Of("assets") /\ AssetsNext /\ UNCHANGED <<tilesVars, drawingVars, batchesVars, boundsVars, guiVars>>

SceneSpec == SceneInit /\ [][SceneNext]_sceneVars

(* The others stay in their initial states. *)
SceneTypeOK ==
  /\ Of("tiles") => TilesTypeOK
  /\ Of("drawing") => DrawingTypeOK
  /\ Of("batches") => BatchesTypeOK
  /\ Of("bounds") => BoundsTypeOK
  /\ Of("gui") => GuiTypeOK
  /\ Of("assets") => AssetsTypeOK
=============================================================================
