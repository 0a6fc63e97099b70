SPECIFICATION Spec
CONSTANTS
  Streaming = {TRUE, FALSE}
  Calls <- ReopenCalls
  MaxSessions = 2
  MaxCalls = 4
INVARIANTS CloseHonored
