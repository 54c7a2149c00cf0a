SPECIFICATION Spec
CONSTANTS
  Files <- TwoFiles
  DirOf <- TwoDirOf
  RenameLine <- MovedTo
  Sensitive = {"env"}
  Secret = {"env"}
  Dependency = {}
  TestFiles = {}
  Absent = "absent"
  Edited = "edited"
  Theirs = "theirs"
  Options <- EditSandbox
  InitialTrees <- SecretTrees
  WorkerGit = {"mv"}
  Orphans = TRUE
  Expiry = TRUE
  StepLimit = 50
INVARIANTS
  ControlInv
  DeniedNeverOnHost
PROPERTIES
  ImplementsGovernedRun
