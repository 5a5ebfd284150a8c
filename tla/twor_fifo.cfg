SPECIFICATION Spec
CONSTANTS
  p1 = p1
  p2 = p2
  p3 = p3
  p4 = p4
  Page = {p1, p2, p3, p4}
  BlockCount = 4
  RoundedDown = {}
  PagesPerBlock = 2
  unused = unused
SYMMETRY PageSymmetry
INVARIANTS ListsPartitionBlocks ScanIsSound EnoughVictims
PROPERTIES ScanKeepsItsPlace ImplementsFlashMap
