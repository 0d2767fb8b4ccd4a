CONSTANTS
  Offered = {"upi"}
  MaxAttempts = 2
  MaxAge = 3
  MaxPolls = 1
  PayBy = 20
  PollEvery = 10
SPECIFICATION FairSpec
PROPERTIES
  PopupGoesAway
  PaidIsNoticed
