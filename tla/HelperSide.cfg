CONSTANTS
  Jobs = {"check", "user", "greeter"}
  SessionCodes = {"1"}
  MaxMessages = 2
SPECIFICATION FairSpec
INVARIANTS
  HelperTypeOK
  SessionIsBacked
  CleanExit
  DisplayIsTakenDown
  AnswersFit
  AnsweredOnce
PROPERTIES
  KeepsContract
  HelperEnds
  EndOfOneEndsAll
CHECK_DEADLOCK FALSE
