CONSTANTS
  Requests = {r1}
  Holds = {h1, h2}
  NoHold = NoHold
  Forms <- OneRequestForms
  WalletAmounts <- OneWalletAmounts
  VoucherAmounts <- OneVoucherAmounts
  Totals <- OneTotals
SPECIFICATION Spec
INVARIANTS
  TypeOK
  CollectedAtMostOnce
  AnsweredPaidIsPaid
  LobHearsTheTruth
  FailedButTakenIsExplained
  HandOffCollectsTheRest
  HandOffHoldIsLive
