CONSTANTS
  Receivers = {r1, r2}
  FullDuplex = TRUE
  QueueMax = 1
SPECIFICATION Spec
INVARIANTS EveryReceiverResumes
