SPECIFICATION Spec
CONSTANTS
  dp = dp
  tp = tp
  sb = sb
  rd = rd
  wr = wr
  nc = nc
  nd = nd
  qc = qc
  ws = ws
  gc = gc
  br = br
  NoObj = NoObj
  Obj = {dp, tp, sb, rd, br, nc, nd}
  Kind <- MCKind
  Listened = {}
  Threads = {m1, m2}
  DdsThreads = {rx}
CHECK_DEADLOCK FALSE
SYMMETRY MCSymmetry
INVARIANT LifetimeInv
