SPECIFICATION Spec
CONSTANTS
  Requesters = {"chord"}
PROPERTY FromBrowserServed
