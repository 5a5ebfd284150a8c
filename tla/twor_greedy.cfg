SPECIFICATION FairSpec
CONSTANTS
  p1 = p1
  p2 = p2
  p3 = p3
  Page = {p1, p2, p3}
  BlockCount = 3
  PagesPerBlock = 2
  unused = unused
INVARIANTS RegionsPartitionBlocks SelectionSucceeds
PROPERTY WriteReturns
