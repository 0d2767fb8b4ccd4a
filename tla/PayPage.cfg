CONSTANTS
  Offered = {"card", "upi", "paytm"}
  MaxAttempts = 2
  MaxAge = 3
  MaxPolls = 1
  PayBy = 20
  PollEvery = 10
SPECIFICATION Spec
INVARIANTS
  TypeOK
  StuckIsExplained
  GlobalsSuffice
  PaidIsWatched
  NeverNowhere
PROPERTIES
  SuccessIsTheLastWord
  GivenUpIsNotPolled
