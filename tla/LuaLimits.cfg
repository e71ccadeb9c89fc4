\* One script, its instance, and a call within a call.
SPECIFICATION LuaEngineSpec
CONSTANTS
  Chunks <- OneChunk
  Library = {"math"}
  Registered = {"print"}
  Late = "Sound"
  MaxHeld = 5
  MaxNested = 2
INVARIANTS
  ExecutionLimited
CHECK_DEADLOCK FALSE
