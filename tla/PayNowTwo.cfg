CONSTANTS
  Requests = {r1, r2}
  Holds = {h1, h2}
  NoHold = NoHold
  Forms <- TwoRequestForms
  WalletAmounts <- OneWalletAmounts
  VoucherAmounts = {}
  Totals <- TwoTotals
SPECIFICATION Spec
INVARIANTS
  HandOffHoldIsLive
PROPERTIES
  CaptureWhatWasShown
  CheckoutImplemented
