SPECIFICATION FairSpec
CONSTANTS
  p1 = p1
  p2 = p2
  p3 = p3
  p4 = p4
  Page = {p1, p2, p3, p4}
  BlockCount = 3
  PagesPerBlock = 2
  unused = unused
  Policies = {"greedy", "greedy-k", "greedy-s2r"}
  K = 2
CHECK_DEADLOCK FALSE
INVARIANTS MappingAgrees CountsExact BlocksAccounted CollectionMakesRoom
PROPERTIES ImplementsFlashMap WriteReturns GreedyMovesAtMostAverage
