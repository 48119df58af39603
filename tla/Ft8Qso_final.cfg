CONSTANTS
  Dx = {x}
  Plain = {x}
  NULL = NULL
  WATCHDOG_CYCLES = 2
  TX_WATCHDOG = 3
  MaxEvents = 2
SPECIFICATION Spec
PROPERTIES FinalSentOnce
