CONSTANTS
  Clients = {a}
  None = none
  QueueMax = 0
  WindowIsAtomic = TRUE
  Events = {"control_acquire", "lease_acquire", "lease_renew", "mox_on", "packet"}
SPECIFICATION Spec
PROPERTIES MediaGapUnkeys
