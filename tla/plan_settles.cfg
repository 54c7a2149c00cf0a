SPECIFICATION Spec
CONSTANTS
  Tasks <- OneTask
  Fields <- StatusAndDay
  BuiltIn <- StatusOnly
  Views <- OneView
  Edits = 2
  Failures = 1
INVARIANT PlanSettles
CHECK_DEADLOCK FALSE
