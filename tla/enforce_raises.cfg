SPECIFICATION Spec
CONSTANTS
  Files <- AuthFiles
  DirOf <- AuthDirOf
  RenameLine <- MovedTo
  Sensitive = {"env", "auth/session", "auth/"}
  Secret = {"env"}
  Dependency = {}
  TestFiles = {"test_main"}
  Absent = "absent"
  Edited = "edited"
  Theirs = "theirs"
  Options <- OneEdit
  InitialTrees <- CleanTrees
  WorkerGit = {}
  Orphans = FALSE
  Expiry = FALSE
  StepLimit = 50
INVARIANTS
  RaisedLeavesNothing
