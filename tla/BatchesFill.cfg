SPECIFICATION BatchesSpec
CONSTANTS
  Room = 1024
  Lengths = {3, 4, 5}
  MaxVertices = 1100
INVARIANT WithinBuffer
CHECK_DEADLOCK FALSE
