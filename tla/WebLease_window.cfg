CONSTANTS
  Clients = {a, b}
  None = none
  QueueMax = 0
  WindowIsAtomic = FALSE
  Events = {"control_force", "lease_acquire", "tune_on"}
SPECIFICATION Spec
INVARIANTS KeyIsAnsweredFor
