SPECIFICATION BenchSpec
CONSTANTS
  Page = {0, 1, 2, 3}
  BlockCount = 3
  PagesPerBlock = 2
  unused = unused
  Policies = {"greedy", "greedy-s2r"}
  K = 1
  InitLoad = TRUE
  WritesPerRep = 3
  NumReps = 2
INVARIANTS FillIsComplete AmplificationBounded
PROPERTY BenchTerminates
