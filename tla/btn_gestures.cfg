SPECIFICATION MCSpec
CONSTANTS
  Buttons = {"HOME", "POWER", "TL", "BL", "TR", "BR", "LID"}
  DoubleClick = 1
  LongPress = 2
  ToastTime = 1
  HoldTime = 2
  MaxQueue = 2
INVARIANT TypeOK
INVARIANT NoTapWhileHeld
INVARIANT ComboOnlyWhileHeld
INVARIANT MediaModeShowsCard
INVARIANT LongPressHoldsHome
INVARIANT HomeTracked
INVARIANT CoverTracked
PROPERTY Settles
