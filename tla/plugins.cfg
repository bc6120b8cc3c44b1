SPECIFICATION FairSpec
CONSTANTS
  Callers = {handler, health}
  Files <- MCFiles
  Malformed = {"malformed"}
  Events <- MCEvents
  EventNames = {"AuthenticationFailed", "Reconnect"}
  Broken = {"broken"}
  Readers = {"notify"}
  Chatty = {"log"}
  Endless = {"watch"}
  MaxTasks = 5
  MaxEvents = 1
INVARIANTS
  TypeOK
  WholeAudience
  NobodyForgotten
PROPERTIES
  DispatchReturns
  EveryHookReaped
\* A caller dispatches MaxEvents events.
CHECK_DEADLOCK FALSE
