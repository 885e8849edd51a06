SPECIFICATION Spec
CONSTANTS
  MaxCommands = 3
  MaxTracks = 2
  Operations = {"play", "file", "pause", "next", "prev", "shuffle", "reorder", "scan", "stop"}
INVARIANT TypeOK
INVARIANT NoOrphan
INVARIANT OneVoice
INVARIANT PausedTrue
CHECK_DEADLOCK FALSE
