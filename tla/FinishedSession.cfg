CONSTANTS
  Sockets = {s1}
  Users = {u1}
  GreeterUser = soniclogin
  Sessions = {plasma}
  BrokenSessions = {}
  NoSession = noSession
  None = none
  CanTTY = TRUE
  Complaints = FALSE
  ExitCodes = {"SUCCESS", "AUTH_ERROR"}
  VtsRunOut = FALSE
  MaxLogins = 1
SPECIFICATION FairSpec
PROPERTY
  FinishedSessionEndsDisplay
CHECK_DEADLOCK FALSE
