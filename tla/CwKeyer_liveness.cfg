CONSTANTS
  Hang = 0
  Stuck = 2
  MsgLen = 1
  Margin = 0
  KeyerModes = {"STRAIGHT", "B"}
  Events = {"message", "abort", "reverse", "mox"}
SPECIFICATION Spec
PROPERTIES KeyFollowsPaddles StuckPaddleReleased MessageEnds
