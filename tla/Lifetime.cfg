SPECIFICATION FairSpec
CONSTANTS
  dp = dp
  tp = tp
  sb = sb
  rd = rd
  wr = wr
  nc = nc
  nd = nd
  qc = qc
  ws = ws
  gc = gc
  br = br
  NoObj = NoObj
  Obj = {dp, sb, br, qc, ws}
  Kind <- MCKind
  Listened = {br}
  Threads = {main}
  DdsThreads = {rx}
CHECK_DEADLOCK FALSE
INVARIANTS TypeOK KeepaliveSound
PROPERTIES ImplementsContract CallbackFindsEntity DeletionCompletes
