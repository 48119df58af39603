CONSTANTS
  Dx = {x, y}
  Plain = {x}
  NULL = NULL
  WATCHDOG_CYCLES = 2
  TX_WATCHDOG = 3
  MaxEvents = 3
SPECIFICATION Spec
INVARIANTS TypeOK NoOrphanMox SilentUnlessEnabled ArmedSaysPending LoggedHaveAcked ForgottenTxStops
