SPECIFICATION FairSpec
CONSTANTS
  e1 = e1
  Events = {e1}
  TestEvent = test
  test = test
  Hooks = {w1, w2}
  BlockedHooks = {w2}
  w1 = w1
  w2 = w2
  InitialHooks <- MCInitialHooks
  Emails = {mail}
  Logging <- Either
  DlqBound = {TRUE, FALSE}
  MaxRetries = 1
  MaxRedeliveries = 1
  MaxMessages = 2
  MaxCrashes = 1
INVARIANTS EndsForCause RepeatsForCause
PROPERTIES Settles
CHECK_DEADLOCK FALSE
