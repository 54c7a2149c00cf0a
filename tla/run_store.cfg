SPECIFICATION Spec
CONSTANTS
  Runs <- TwoRuns
  Summarised = {"r1"}
  Gated = {"r1", "r2"}
  Blocked = {"r1"}
  Backends = {"jsonl", "sqlite"}
  Limit = 4
  Crashes = TRUE
INVARIANTS
  StoreTypeOK
  ServesLatestVerdict
  SavedRunsListed
  LostRunsListed
