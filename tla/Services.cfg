CONSTANTS
  Themes = {"color-schemes", "desktoptheme", "cursor"}
  MaxRequests = 2
  MaxConsents = 2
  Capable = {"PowerOff", "Suspend"}
  MaxAsks = 2
  SessionVars = {"DISPLAY", "WAYLAND_DISPLAY"}
  MaxRuns = 2
  Values = {"a", "b"}
  MaxChanges = 3
  MaxIds = 2
  MaxSignals = 2
SPECIFICATION ServicesSpec
INVARIANTS
  PreviousIsKept
  AvailableBeforeSelected
  
  NoFalseSuccess
  OneRequestPerPassword
  PowerOnce
  EnvironmentIsOfThisRun
  PriorityHolds
  ReadyMeansOwned
  SigtermIsKept
PROPERTIES
  IndependentIsKept
CHECK_DEADLOCK FALSE
