SPECIFICATION Spec
CONSTANTS
  rd = rd
  tk = tk
  one = one
  rda = rda
  tka = tka
  wa = wa
  Consumers = {rd, one, tka, wa}
  Mode <- MCMode
  Async = {tka, wa}
  One = {one}
  Timeout <- MCTimeout
  NoTimeout = NoTimeout
  Nobody = Nobody
  MaxSamples = 3
  Depth = 2
CHECK_DEADLOCK FALSE
INVARIANTS TypeOK OnceInOrder
PROPERTIES SampleDelivered TimeoutEnds LoopGivenBack
