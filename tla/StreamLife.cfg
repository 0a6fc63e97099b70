SPECIFICATION FairSpec
CONSTANTS
  Streaming = {TRUE, FALSE}
  Calls <- LifeCalls
  MaxSessions = 2
  MaxCalls = 4
INVARIANTS RepliedOnce CloseHonored NoLeak NothingForgotten
PROPERTIES StaleIgnored Answered
