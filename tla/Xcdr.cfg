SPECIFICATION Spec
CONSTANTS
  InitialSize = 8
  None = None
  MachineFor <- MCMachineFor
  DefaultOf <- MCDefaultOf
  Serialize <- MCSerialize
  Deserialize <- MCDeserialize
  MutableMembers <- MCMutableMembers
  Zero <- MCZero
  View <- MCView
  KeyView <- MCKeyView
  Readable <- MCReadable
  Keyed <- MCKeyed
  Types <- MCTypes
  Desc <- MCDesc
  Samples <- MCSamples
  Evolved <- MCEvolved
  Endians = {"Little", "Big"}
  Buffers <- MCBuffers
  Descs <- MCDescs
  Depth <- MCDepth
  ValuesOf <- MCValuesOf
  Encodable <- MCEncodable
CHECK_DEADLOCK FALSE
INVARIANTS TypeOK EncodingIsWhole NumbersAligned SampleReadBack KeyReadBack NormalizedKeyIsCommon
