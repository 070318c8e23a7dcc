SPECIFICATION FairSpec
CONSTANTS
  None = None
  AutoUp = TRUE
  MaxSessions = 2
  MaxEvents = 2
CHECK_DEADLOCK FALSE
PROPERTY CurrentResumes
