\* Two sessions, two tool calls and a crash.
SPECIFICATION Spec
CONSTANTS
  Callers = {s1, s2}
  Paths = {1, 2}
  Contents <- SomeContents
  Disks <- SomeDisks
  Hidden = {1}
  Foreign = {1}
  Words = {"x", "y", "nul"}
  Nul = "nul"
  MaxFileBytes = 2
  ScanBudget = 2
  OptionSets <- SomeOptions
  ToolCalls <- SomeCalls
  MaxCalls = 2
  MaxCrashes = 1
SYMMETRY Symmetry
INVARIANTS FailureLeavesNothing
PROPERTIES DiskIsAtomic PolicyGuardsFiles
CHECK_DEADLOCK FALSE
