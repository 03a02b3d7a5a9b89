SPECIFICATION Spec
CONSTANTS
  Lst = {l1, l2}
  Ent = {e1}
  Event = {"data_available", "data_on_readers"}
  Fn = {f, g}
  DdsThreads = {rx}
  NoFn = NoFn
  NoListener = NoListener
  NoEnt = NoEnt
  MaxSets = 2
SYMMETRY Symmetric
CHECK_DEADLOCK FALSE
INVARIANTS TypeOK OwnedIsInstalled StartedIsAlive RemovedIsSilent
PROPERTIES MergeKeepsOthers
