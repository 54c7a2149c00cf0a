SPECIFICATION Spec
CONSTANTS
  Files <- TwoFiles
  DirOf <- TwoDirOf
  RenameLine <- MovedTo
  Sensitive = {"env"}
  Secret = {"env"}
  Dependency = {}
  TestFiles = {}
  Absent = "absent"
  Edited = "edited"
  Theirs = "theirs"
  Options <- EditSandbox
  InitialTrees <- DirtySecret
  WorkerGit = {}
  Orphans = FALSE
  Expiry = FALSE
  StepLimit = 50
INVARIANTS
  SandboxLeavesSecrets
