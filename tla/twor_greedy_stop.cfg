SPECIFICATION Spec
CONSTANTS
  p1 = p1
  p2 = p2
  p3 = p3
  p4 = p4
  p5 = p5
  p6 = p6
  Page = {p1, p2, p3, p4, p5, p6}
  BlockCount = 3
  PagesPerBlock = 3
  unused = unused
SYMMETRY PageSymmetry
CHECK_DEADLOCK FALSE
INVARIANTS RegionsFullFreeWritable CascadeEmptiesFirst CascadeLeavesNoGarbage
PROPERTY ImplementsFlashMap
