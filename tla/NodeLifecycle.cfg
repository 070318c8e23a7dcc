\* Two sessions in a row, two events of each kind, an automatic node.
CONSTANTS
  None = None
  AutoUp = TRUE
  MaxSessions = 2
  MaxEvents = 2
SPECIFICATION FairSpec
 
PROPERTY OverlayFollows
CHECK_DEADLOCK FALSE
