SPECIFICATION Spec
CONSTANTS
  Tasks = {t1, t2}
  NoTask = NoTask
  PageSize = 1
  MaxNodes = 2
  MaxEvents = 0
INVARIANT OneProjectIsFound
CHECK_DEADLOCK FALSE
