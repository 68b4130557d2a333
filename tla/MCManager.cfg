SPECIFICATION LiveSpec
CONSTANTS
  Domains = {d1, d2}
  Monitors = {m1, m2}
  None = None
  Modes = {TRUE, FALSE}
  Dynamic = TRUE
  Importable = {TRUE, FALSE}
  SlowStart = {d2}
  SlowCollect = {d1}
INVARIANTS ManagerInv NoOrphanMonitor OneMonitorPerGuest
PROPERTIES StoppedMonitorsRemoved ActiveGuestsMonitored DepartedGuestsForgotten
CHECK_DEADLOCK FALSE
