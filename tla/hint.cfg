SPECIFICATION Spec
CONSTANTS
    Files <- MCFiles
    Tracked = {"src"}
    TestFiles = {"test"}
    SetupFiles = {"new"}
    Tests = {"bug", "old", "odd"}
    Runnable <- MCRunnable
    Passing <- MCPassing
    Unsafe = {"odd"}
    Specs <- MCSpecs
    WorkerGit <- MCWorkerGit
    MaxStarts = 3
INVARIANT
    HintWorks
CHECK_DEADLOCK FALSE
