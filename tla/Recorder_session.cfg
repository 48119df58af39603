CONSTANTS
  Rx = {r1, r2}
  NULL = NULL
  QueueMax = 2
  SplitAt = 2
  MaxTaken = 4
  MaxStops = 1
SPECIFICATION Spec
INVARIANTS TypeOK FilesArePlayable SegmentsHoldRecording ButtonTellsRecording
PROPERTIES KeepsItsPromise StopReturns FailureEndsRecording
