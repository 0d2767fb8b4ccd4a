CONSTANTS
  Requests = {r1}
  Holds = {h1, h2}
  NoHold = NoHold
  Forms <- LiveForms
  WalletAmounts <- OneWalletAmounts
  VoucherAmounts <- OneVoucherAmounts
  Totals <- LiveTotals
SPECIFICATION FairSpec
PROPERTIES
  EveryRequestAnswered
  RefusedVoucherIsUnblocked
