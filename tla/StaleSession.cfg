CONSTANTS
  Sockets = {s1}
  Users = {u1, u2}
  GreeterUser = soniclogin
  Sessions = {plasma}
  BrokenSessions = {}
  NoSession = noSession
  None = none
  CanTTY = TRUE
  Complaints = FALSE
  ExitCodes = {"SUCCESS", "AUTH_ERROR"}
  VtsRunOut = FALSE
  MaxLogins = 2
SPECIFICATION Spec
INVARIANT
  ReuseOnlyAuthenticates
CHECK_DEADLOCK FALSE
