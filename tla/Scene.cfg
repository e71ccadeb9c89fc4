\* Two maps of one or two cells with one layer and two components that draw
\* them; a component of every kind, two in a scene, over two frames; a batch
\* of the size a new one has.
SPECIFICATION SceneSpec
CONSTANTS
  TileMaps = {m1, m2}
  Charts = {c1, c2}
  Sizes <- TwoSizes
  MaxLayers = 1
  Drawables = {"sprite", "text", "shape", "collider", "map"}
  KindOf <- KindItself
  Assets = {"t1", "font"}
  Colors = {"clear", "blue"}
  Arts <- SomeArts
  Scenes <- ScenesOfTwo
  Overlays <- OneOverlay
  Orders = {0, 1}
  LayerStep = 2
  Capacity = 2
  MaxDrawings = 2
  Room = 48
  Lengths = {3, 4, 5}
  MaxVertices = 120
  k1 = k1
  k2 = k2
  r1 = r1
  r2 = r2
  Movers = {e1}
  Colliders = {k1, k2}
  Rects = {r1, r2}
  Places = {0, 1}
  MaxRects = 2
  Casts <- TwoCasts
  Containers <- SomeContainers
  Regions <- OneRegion
  Padding = 0
  Clicks = {1, 3}
  MaxLayouts = 2
  MaxWidgets = 3
  Slots = {1, 2}
  Atlases <- SomeAtlases
  MapFiles <- SomeMapFiles
  SplitBuffer = 2
  SpriteComps = {s1, s2}
INVARIANTS
  MapsDrawSafely FaithfulPicture OverrunIsSix
  BoundsFollow GuiSound AssetsSound
CHECK_DEADLOCK FALSE
