SPECIFICATION Spec
CONSTANTS
  Files <- ConfFiles
  DirOf <- ConfDirOf
  RenameLine <- MovedTo
  Sensitive = {"conf/env"}
  Secret = {"conf/env"}
  Dependency = {}
  TestFiles = {}
  Absent = "absent"
  Edited = "edited"
  Theirs = "theirs"
  Options <- EditSandbox
  InitialTrees <- CleanTrees
  WorkerGit = {}
  Orphans = FALSE
  Expiry = FALSE
  StepLimit = 50
INVARIANT
  DeniedNeverOnHost
