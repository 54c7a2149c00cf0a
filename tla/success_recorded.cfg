SPECIFICATION FairSpec
CONSTANTS
  Tasks <- OneTask
  Fields <- StatusAndDay
  BuiltIn <- StatusOnly
  Views <- OneView
  Edits = 2
  Failures = 1
PROPERTY SuccessRecorded
CHECK_DEADLOCK FALSE
