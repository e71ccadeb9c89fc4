\* One topic, one function (a second topic or function does what a second entity
\* does), two entities and three subscriptions; objects of every kind; two script
\* components and two scripts; two colliders and a map on a grid of three by three cells.
SPECIFICATION MainSpec
CONSTANTS
  Topics = {t1}
  Entities = {e1, e2}
  Functions = {f1}
  NoTopic = NoTopic
  MaxSubs = 3
  MaxDepth = 2
  SharedKinds <- AllKinds
  MaxProxies = 3
  MaxRefs = 3
  ScriptComponents = {c1, c2}
  ScriptNames = {"full", "part"}
  NoScript = none
  MayName <- GivenTo
  Has <- Defines
  MaxInstances = 2
  MaxFrames = 3
  MaxEntries = 2
  Bodies = {a, b, c}
  Maps = {c}
  Boxes <- SomeBoxes
  CellSizes = {2, 3}
  GridLines = {0, 1, 2}
  DenseOver = 1
  TuneOver = 1
  MaxHits = 1
  Actors <- SomeActors
  Droppable = {"inactive", "seed"}
  MaxPeople = 2
  Extras <- SomeExtras
  MaxMade = 2
  MaxRoster = 3
  ValueKinds <- Types
  Watchers = {"w1", "w2"}
  MaxWatchers = 2
  MaxAway = 1
  Places = {0, 1}
  MaxStrokes = 5
  LineIds = {"l1", "l2"}
  FirstRoom = 1
  MaxPoints = 3
  Spots = {"p", "q"}
  ShapeIds = {"s1", "s2"}
  PolyIds = {1, 2}
  PolyProxies = 1
  ShapeRoom = 1
  MaxListed = 2
  Hosts = {"glfw", "mac"}
  PlainKeys = {"c"}
  Modifiers = {}
  ButtonMax = 1
  ButtonCount = 2
  Chunks <- SomeChunks
  Library = {"math", "io"}
  Registered = {"print"}
  Late = "Sound"
  MaxHeld = 5
  MaxNested = 2
  MapKinds = {"hashmap", "int_hashmap", "grouped_hashmap"}
  Hashed <- SomeHashes
  GroupOf <- SomeGroups
  MapValues = {"v1", "v2", "v3"}
  FirstBuckets = 2
  MaxBuckets = 4
  ListNodes = {1, 2, 3}
  FirstSlots = 0
  MaxSlots = 4
  Elements = {1, 2, 3}
  MaxEvents = 2
  Nodes = {1, 2, 3, 4}
  Labels = {"", "n"}
  Made = {"table"}
  Set = {"number"}
  Sendables <- SomeSendables
  ConsoleTexts <- SomeTexts
  PrintLimit = 3
  MaxHistory = 2
  LineCounts = {0, 1, 2}
  RowWidths = {0, 2}
  MaxAdded = 3
  TileIds = {1}
  SpriteNames = {"a", "b"}
  SpriteWeights = {1, 2}
  FirstSprites = 1
  SeedModulus = 3
  MapSeeds = {1, 2}
  PaintedTiles <- TwoCells
  MaxMapped = 3
INVARIANTS
  TrackingExact SafeUnlessCut SharedLife
  ScriptsCalled LuaKeepsWord
  PairsComplete StoryConsistent
  WrittenComesBack SentArrives ContainersKeep DrawnAsGiven
CHECK_DEADLOCK FALSE
