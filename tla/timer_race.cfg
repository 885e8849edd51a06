SPECIFICATION PoolSpec
CONSTANTS
  MaxTimers = 2
  MaxAdds = 5
  Intervals = {1, 2}
INVARIANT ActiveIsLive
PROPERTY StartsLive
INVARIANT NotLost
PROPERTY Fires
CHECK_DEADLOCK FALSE
