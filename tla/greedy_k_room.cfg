SPECIFICATION Spec
CONSTANTS
  p1 = p1
  p2 = p2
  p3 = p3
  p4 = p4
  p5 = p5
  p6 = p6
  Page = {p1, p2, p3, p4, p5, p6}
  BlockCount = 4
  PagesPerBlock = 2
  unused = unused
  Policies = {"greedy-k"}
  K = 1
SYMMETRY PageSymmetry
INVARIANT EnsureHolds
