CONSTANTS
  Threads = {t1, t2}
  Ids = {a, b}
  Specs = {s}
  NoModel = NoModel
  NoUpdate = NoUpdate
  NoAnswer = NoAnswer
SPECIFICATION FairRcuSpec
INVARIANT RegistryTypeOK
PROPERTIES UpdatesAreAtomic SomeUpdateCompletes
