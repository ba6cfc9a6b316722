SPECIFICATION Spec
CONSTANTS
  Pages = {p1, p2}
  Workers = {w1, w2}
  Calls = 3
  Burst = 2
  Polls = {1, 2}
  Watching = {p1}
  MaxRuns = 2
  Idle = Idle
  NoSuite = NoSuite
INVARIANTS
  TypeOK
  SuitesSupervised
  StallNeedsEveryWorker
PROPERTIES
  EveryRunEnds
  BadgeConverges
