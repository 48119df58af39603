CONSTANTS
  Hang = 0
  Stuck = 2
  MsgLen = 1
  Margin = 0
  KeyerModes = {"STRAIGHT", "B"}
  Events = {"reverse"}
SPECIFICATION Spec
PROPERTIES EveryKeyFollows
