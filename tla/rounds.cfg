\* One request at a time, which may stop between two writes
SPECIFICATION FairSpec
CONSTANTS
  Requests = {r1}
  Recurrences <- MCAllRecurrences
  DayLength = 2
  Horizon = 2
  MaxSlots = 2
  MaxTime = 3
  None = None
  MayOverlap = FALSE
  MayCrash = TRUE
INVARIANTS
  IInv
  NoSlotSkipped
  PendingMatches
PROPERTIES
  RoundsKept
  RoundsAppear
CHECK_DEADLOCK FALSE
