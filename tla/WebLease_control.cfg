CONSTANTS
  Clients = {a, b}
  None = none
  QueueMax = 0
  WindowIsAtomic = TRUE
  Events = {"control_force", "lease_acquire"}
SPECIFICATION Spec
INVARIANTS LeaseNeedsControl
