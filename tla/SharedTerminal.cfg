CONSTANTS
  MaxDisplays = 3
  Vts = {1, 2, 3}
  InitialVt = 1
  OpenVts = {1, 2, 3}
  FirstBoot = TRUE
  TtyFailureLimit = 1
  MaxSwitches = 1
SPECIFICATION Spec
INVARIANT
  TerminalsAreExclusive
CHECK_DEADLOCK FALSE
