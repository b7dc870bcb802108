SPECIFICATION FairWatchSpec
CONSTANTS
  Domains = {"native_api", "event_schema", "rate_limits"}
  Unobserved = Unobserved
  MaxDrifts = 4
INVARIANT AcceptedIsUnbroken
PROPERTY WatchSettles
CHECK_DEADLOCK FALSE
