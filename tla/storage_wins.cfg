SPECIFICATION Spec
CONSTANTS
  Runs <- TwoRuns
  Summarised = {"r1"}
  Gated = {"r1", "r2"}
  Blocked = {"r1"}
  Backends = {"jsonl", "sqlite"}
  Limit = 1
  Crashes = TRUE
INVARIANTS
  StorageWins
