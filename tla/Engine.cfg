\* Two entities, one component that is attached twice and one that is attached once.
CONSTANTS
  Entities = {e1, e2}
  c1 = c1
  c2 = c2
  Components = {c1, c2}
  NoEntity = none
  MaxAdds <- TwiceAndOnce
SPECIFICATION Spec
SYMMETRY Symmetry
INVARIANTS
  TypeOK
  DestroyedWithinFrame
  AttachedAlive
  NoFault
CHECK_DEADLOCK FALSE
