SPECIFICATION Spec
CONSTANTS
  Files <- AuthFiles
  DirOf <- AuthDirOf
  RenameLine <- MovedTo
  Sensitive = {"env", "auth/session", "auth/"}
  Secret = {"env"}
  Dependency = {}
  TestFiles = {"test_main"}
  Absent = "absent"
  Edited = "edited"
  Theirs = "theirs"
  Options <- LocalOptions
  InitialTrees <- CleanOrDirty
  WorkerGit = {}
  Orphans = FALSE
  Expiry = FALSE
  StepLimit = 50
INVARIANTS
  TypeOK
  ControlInv
  NothingSensitiveSurvives
  CompletedIsValidated
  NoSilentNoOp
  DirtyRepoNeverDispatched
  WithinStepLimit
  UncommittedWorkKept
  RaisedLeavesNoDenied
PROPERTIES
  RetryAfterRealFailure
  ImplementsGovernedRun
  Ends
