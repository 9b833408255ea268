CONSTANTS
  Sockets = {s1, s2}
  Users = {u1, u2}
  GreeterUser = soniclogin
  Sessions = {plasma, broken}
  BrokenSessions = {broken}
  NoSession = noSession
  None = none
  CanTTY = TRUE
  Complaints = FALSE
  ExitCodes = {"SUCCESS", "AUTH_ERROR", "SESSION_ERROR", "DISPLAYSERVER_ERROR"}
  VtsRunOut = FALSE
  MaxLogins = 2
SPECIFICATION Spec
SYMMETRY Symmetry
INVARIANTS
  TypeOK
  AttemptKeepsItsData
  AnswerGoesToAsker
  NobodyForgotten
  AutologinExcludesGreeter
  SessionHasItsOwnTerminal
PROPERTIES
  GreeterStartsOnce
  LivesOnce
CHECK_DEADLOCK FALSE
