CONSTANTS
  Names = {seat0, seat1}
  DaemonKeepsUp = TRUE
  MatchesInTime = FALSE
  MaxWatchers = 5
  MaxSeats = 5
  MaxChanges = 5
SPECIFICATION Spec
INVARIANTS
  TypeOK
  SeatsFollowLogind
  NoStraySeat
  PublishedAsUsed
CHECK_DEADLOCK FALSE
