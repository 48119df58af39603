CONSTANTS
  Hang = 0
  Stuck = 2
  MsgLen = 1
  Margin = 0
  KeyerModes = {"STRAIGHT", "A", "B"}
  Events = {"message", "abort", "reverse", "mode", "mox", "tune"}
SPECIFICATION Safety
INVARIANTS TypeOK NoOrphanMox
PROPERTIES HangSpansGap TrailingElement SqueezeAlternates
