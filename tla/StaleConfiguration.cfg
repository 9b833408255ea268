CONSTANTS
  Values = {"a", "b"}
  MaxChanges = 3
SPECIFICATION ConfigurationSpec
INVARIANTS
  RemovedIsForgotten
CHECK_DEADLOCK FALSE
