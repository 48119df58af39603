CONSTANTS
  Rx = {r1}
  NULL = NULL
  QueueMax = 2
  SplitAt = 2
  MaxTaken = 2
  MaxStops = 0
SPECIFICATION Spec
INVARIANTS SummaryAgrees
