CONSTANTS
  OptionLists <- ShortLists
  Amounts = {1, 2}
SPECIFICATION Spec
INVARIANTS
  ChargedOnce
  PriorityIsKept
  AnswerIsTrue
