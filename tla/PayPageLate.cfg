CONSTANTS
  Offered = {"upi"}
  MaxAttempts = 1
  MaxAge = 6
  MaxPolls = 1
  PayBy = 20
  PollEvery = 10
SPECIFICATION Spec
INVARIANTS
  PollingEndsAfterPayBy
