\* Points: positions of entities, which scripts make as well.
SPECIFICATION SharedSpec
CONSTANTS
  SharedKinds <- JustPoints
  MaxProxies = 3
  MaxRefs = 3
INVARIANT DestroyLeavesProxies
CHECK_DEADLOCK FALSE
