CONSTANTS
  Clients = {a, b}
  None = none
  QueueMax = 1
  WindowIsAtomic = TRUE
  Events = {"control_acquire", "control_force", "control_renew", "control_release", "lease_acquire", "lease_renew", "lease_release", "tune_on", "key_off", "desk_unkey"}
SYMMETRY Slots
SPECIFICATION Safety
INVARIANTS TypeOK KeyIsAnsweredFor LeaseDiesWithSocket
