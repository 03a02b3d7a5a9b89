SPECIFICATION Spec
CONSTANTS
  None = None
  Programs <- MCPrograms
  Orders <- MCOrders
  NameOrder <- MCNameOrder
  NameHash <- MCNameHash
  Keywords <- MCKeywords
INVARIANTS
  TypeOK
  ComponentsAreStrong
  SameIdEverywhere
  MappingClosed
  RebuiltIsEquivalent
  NeverRefused
PROPERTIES
  FetchRefines
  FetchEnds
CHECK_DEADLOCK FALSE
