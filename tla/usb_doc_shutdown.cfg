SPECIFICATION Spec
CONSTANTS
  Modes = {"mtp_usb"}
  LoopOnDisconnect = TRUE
  WaitConnection = FALSE
  Blocks = 2
  MaxPackets = 1
  MaxControl = 2
  MaxExtra = 1
  MaxInputs = 5
PROPERTY ShutdownEnds
CHECK_DEADLOCK FALSE
