CONSTANTS
  Names = {seat0, seat1}
  DaemonKeepsUp = FALSE
  MatchesInTime = TRUE
  MaxWatchers = 4
  MaxSeats = 5
  MaxChanges = 4
SPECIFICATION Spec
INVARIANT
  SeatsOnlyForGraphical
CHECK_DEADLOCK FALSE
