SPECIFICATION Spec
CONSTANTS
  Threads = {t1, t2}
  Nobody = Nobody
  Classes = {c1, c2}
  NoClass = NoClass
  Refused = {c2}
  Sertypes <- MCSertypes
  NoSertype = 0
  Main = 1
  MainClass = c1
  MaxCalls = 2
  Keys = {k1, k2}
  NoKey = NoKey
  Garbage = Garbage
  NativeLE = TRUE
  FragChains <- MCFragChains
  dw1 = dw1
  dw2 = dw2
  Writers <- MCWriters
  TopicTypes <- MCTopicTypes
  Remotes = {remote}
  FirstCapacity = 1
  ReadLimits <- MCReadLimits
PROPERTY RefusalReturns
CHECK_DEADLOCK FALSE
