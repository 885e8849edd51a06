SPECIFICATION RingSpec
CONSTANTS
  MaxEvents = 4
  Events = {a, b, c}
  NoEvent = none
PROPERTY ImplementsFifo
