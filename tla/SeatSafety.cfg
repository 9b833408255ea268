CONSTANTS
  MaxDisplays = 3
  Vts = {1, 2, 3}
  InitialVt = 1
  OpenVts = {1, 2, 3}
  FirstBoot = TRUE
  TtyFailureLimit = 1
  MaxSwitches = 1
SPECIFICATION FairSpec
INVARIANTS
  TypeOK
  SeatIsServed
  ListedOnceWhileWanted
  OneSuccessor
  FirstLoginOnce
PROPERTIES
  Recovers
CHECK_DEADLOCK FALSE
