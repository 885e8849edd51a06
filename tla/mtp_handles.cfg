SPECIFICATION Spec
CONSTANTS
  Slots = 1
  DirNames = {"d", "e"}
  Paths <- MCPaths
  InitialDisk <- MCInitialDisk
  Hash <- MCHash
  MaxEntries = 4
  MaxPending = 2
  MaxChanges = 2
  MaxStoreCmds = 2
  MaxActs = 3
  MaxSessions = 1
INVARIANT InSync
INVARIANT NoDuplicate
INVARIANT HandleUnique
INVARIANT WrittenAsAnnounced
INVARIANT RootPresent
CHECK_DEADLOCK FALSE
