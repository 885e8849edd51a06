SPECIFICATION Spec
CONSTANTS
  Requesters = {"chord", "plugin", "switcher"}
INVARIANT OneReader
PROPERTY FromKOReaderServed
PROPERTY ScreenOwned
