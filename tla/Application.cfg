SPECIFICATION MCSpec
CONSTANTS
  NwkAddr = 513
  ExtAddr <- MCExt
  Descriptor <- MCDescriptor
  MaxAdds = 3
  NodeDesc <- MCNodeDesc
  PowerDesc <- MCPowerDesc
  Whole <- MCWhole
  CountRange = 12
  onOff = onOff
  level = level
  v0 = v0
  v1 = v1
  h0 = h0
  h1 = h1
  EndpointId = {1, 2}
  ClusterId = {6, 8}
  AttrId = {onOff, level}
  Value = {v0, v1}
  Missing = Missing
  Handler = {h0, h1}
  NoHandler = NoHandler
  Key <- MCKey
  Registrable <- MCRegistrable
  Frame <- MCFrame
  MaxClusters = 6
INVARIANTS
  TypeOK
  WholeRequestsAreAnswered
  ResponsesReadBack
  MatchesAreRight
  AttributesTypeOK
PROPERTIES
  IsStore
  HandlersStay
