SPECIFICATION Spec
CONSTANTS
  Int32Bits = 5
  DurationBits = 7
  PropertyKeys <- Keys
  Threads = {t1, t2}
  Getters = {t1, t2}
  Makers = {t2}
  Entities = {"topic", "publisher", "reader"}
  Profiles = {"profile"}
  Kind <- MCKind
  Defaults <- MCDefaults
  InFile <- MCInFile
  Changeable = {"LatencyBudget", "OwnershipStrength"}
  Literals <- FewLiterals
  MaxObjects = 1
  MaxCalls = 2
  Absent = Absent
  NoQos = NoQos
INVARIANT
  ReadsOwnEntity
CHECK_DEADLOCK FALSE
