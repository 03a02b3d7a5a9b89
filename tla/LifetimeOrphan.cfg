SPECIFICATION Spec
CONSTANTS
  dp = dp
  tp = tp
  sb = sb
  rd = rd
  wr = wr
  nc = nc
  nd = nd
  qc = qc
  ws = ws
  gc = gc
  br = br
  NoObj = NoObj
  Obj = {dp, tp, rd, nc}
  Kind <- MCKind
  Listened = {rd}
  Threads = {main}
  DdsThreads = {rx}
CHECK_DEADLOCK FALSE
INVARIANT NoOrphan
