\* There is always something to do: the page may be reloaded.
SPECIFICATION FairSpec
CONSTANTS
  Threads = {c1, c2}
  Turns = {t1, t2}
  Nowhere = Nowhere
  Nothing = Nothing
INVARIANTS
  TypeOK
  BusyTurnsCanBeStopped
  ChatsKeepTheirTurns
  AnswersAreKept
PROPERTIES
  ComposerComesBack
