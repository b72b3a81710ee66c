\* Thresholds of two and three, so that every report needs more than one result.
SPECIFICATION FairSpec
CONSTANTS
  SuccessThreshold = 2
  FailureThreshold = 3
  MaxResults = 3
INVARIANTS TypeOK OneTick StreakReported
PROPERTIES ReportSettles
CHECK_DEADLOCK FALSE
