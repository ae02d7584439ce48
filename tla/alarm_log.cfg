\* The alarm log of two processes with crashes between and during writes:
\* a ring that is handed over, a larger one that a view follows, restarts with
\* other limits, windows with different limits, and a log that is emptied at
\* every start.
CONSTANTS
  p1 = p1
  p2 = p2
  Processes <- TwoProcesses
  Nobody = Nobody
  Windows <- AllWindows
  Truncates = FALSE
  LargeFile = 1
  Torn = TRUE
  CheckpointFails = TRUE
  Times <- Two
  Sizes <- Two
  MaxRecords = 4
  Scenarios <- AllScenarios
SPECIFICATION ScenarioSpec
INVARIANT RecoverableOrder
PROPERTIES LiveViewFaithful LogImplementsHistory
