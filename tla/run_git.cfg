SPECIFICATION Spec
CONSTANTS
  Files <- AuthFiles
  DirOf <- AuthDirOf
  RenameLine <- MovedTo
  Sensitive = {"env", "auth/session", "auth/"}
  Secret = {"env"}
  Dependency = {}
  TestFiles = {"test_main"}
  Absent = "absent"
  Edited = "edited"
  Theirs = "theirs"
  Options <- GitOptions
  InitialTrees <- CleanTrees
  WorkerGit = {"add"}
  Orphans = FALSE
  Expiry = FALSE
  StepLimit = 50
INVARIANTS
  SecretChangeBlocks
