CONSTANTS
  Clients = {a}
  None = none
  QueueMax = 0
  WindowIsAtomic = TRUE
  Events = {"control_acquire", "lease_acquire", "mox_on", "packet", "desk_arm", "restart"}
SPECIFICATION Spec
PROPERTIES LostLeaseUnkeys SilentHolderExpires
