CONSTANTS
  Infos = {i1}
  Pages = {p1}
  Lists = {l1}
  Requests = {{"details", "cards", "options"}, {"details", "cards", "options", "config"}, {"cards", "options"}, {"details", "options", "corpCards"}, {}}
  Threads = 2
  MaxAsked = 2
  MaxTasks = 5
SPECIFICATION FairSpec
INVARIANTS
  TypeOK
  LatchIsExact
  AnswerIsComplete
  DetailsFetchedOnce
  FilterIsReached
PROPERTIES
  InfoIsAnswered
  OthersAreAnswered
