CONSTANTS
  g1 = g1
  g2 = g2
  Codes = {g1, g2}
  Face <- TwoFaces
  Balance = 2
  Base = 1
  Options = {"cc", "upi"}
  Fee <- Fees
  Percent <- Percents
  FeeTax = 50
  MaxVouchers = 2
  MaxNodes = 2
  MaxChecks = 2
  MaxHolds = 2
  MaxReversals = 2
SPECIFICATION Spec
INVARIANTS
  TypeOK
  VouchersSentAreShown
  CreditedByItself
  FormAddsUp
  CashIsHeld
  NoForgottenHold
