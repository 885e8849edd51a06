SPECIFICATION Spec
CONSTANTS
  Modes = {"mtp_usb", "ffs", "gadgetfs"}
  LoopOnDisconnect = TRUE
  WaitConnection = FALSE
  Blocks = 2
  MaxPackets = 3
  MaxControl = 4
  MaxExtra = 2
  MaxInputs = 7
INVARIANT LocksReturned
INVARIANT OneResponse
INVARIANT CancelStops
PROPERTY DropsIdleDb
PROPERTY CancelSettles
PROPERTY JoinReturns
CHECK_DEADLOCK FALSE
