CONSTANTS
  FirstData = 4
  Disconnect = 3
  BackoffMin = 1
  BackoffMax = 6
  MaxLag = 1
  HalfDuplex = TRUE
SPECIFICATION Spec
PROPERTIES GraceAfterTransmission
CHECK_DEADLOCK FALSE
