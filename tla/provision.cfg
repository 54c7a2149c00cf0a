SPECIFICATION FairSpec
CONSTANTS
  Tasks <- OneTask
  Fields <- StatusAndDay
  BuiltIn <- StatusOnly
  Views <- OneView
  Edits = 2
  Failures = 1
INVARIANTS
  ProvisionerTypeOK
  NoDuplicates
  SuccessIsReal
  ReadTextKept
  ReportAccounts
PROPERTY
  Resumes
CHECK_DEADLOCK FALSE
