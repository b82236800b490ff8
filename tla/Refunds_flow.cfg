\* Two requests compete for the captured amount; an instance and a sweep follow each.
CONSTANTS
  Refunds = {"whole", "half"}
  Amount <- MCAmount
  Captured = 2
  Sweepers = {k1}
  MaxAttempts = 1
  MaxPolls = 1
  MaxFaults = 1
SPECIFICATION FairSpec
INVARIANTS ReservedWithinCaptured CompletedIsReversed ReversedIsRefunded
PROPERTY NoOrphanRefund
CHECK_DEADLOCK FALSE
