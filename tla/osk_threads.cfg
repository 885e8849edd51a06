SPECIFICATION ScreenSpec
CONSTANTS
  Columns = {c1, c2}
  MaxDraws = 3
INVARIANT KeyboardVisible
INVARIANT PageRestored
