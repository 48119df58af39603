CONSTANTS
  FirstData = 4
  Disconnect = 3
  BackoffMin = 1
  BackoffMax = 6
  MaxLag = 2
  HalfDuplex = TRUE
SPECIFICATION Spec
INVARIANTS TypeOK SilenceNoticed BannerTruthful NoLateRetry
PROPERTIES NoEarlyRetry BackoffNeverShrinks RetriesForever LinkComesBack
CHECK_DEADLOCK FALSE
