SPECIFICATION Spec
CONSTANTS
  Files <- FlatFiles
  DirOf <- FlatDirOf
  RenameLine <- MovedTo
  Sensitive = {"env"}
  Secret = {"env"}
  Dependency = {}
  TestFiles = {"test_main"}
  Absent = "absent"
  Edited = "edited"
  Theirs = "theirs"
  Options <- OneEdit
  InitialTrees <- CleanTree
  WorkerGit = {}
  Orphans = FALSE
  Expiry = FALSE
  StepLimit = 50
INVARIANTS
  RevertsRecorded
