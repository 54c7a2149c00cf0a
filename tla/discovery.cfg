SPECIFICATION FairSpec
CONSTANTS
  Tasks = {t1, t2}
  NoTask = NoTask
  PageSize = 1
  MaxNodes = 2
  MaxEvents = 2
INVARIANTS DiscoveryTypeOK NothingMissed Coherent
PROPERTY Ends
CHECK_DEADLOCK FALSE
