SPECIFICATION Spec
CONSTANTS
  Callers = {health}
  Files <- MCFiles
  Malformed = {"malformed"}
  Events <- MCEvents
  EventNames = {"AuthenticationFailed", "Reconnect"}
  Broken = {"broken"}
  Readers = {"notify"}
  Chatty = {}
  Endless = {"watch"}
  MaxTasks = 5
  MaxEvents = 3
INVARIANT
  CallersSurvive
CHECK_DEADLOCK FALSE
