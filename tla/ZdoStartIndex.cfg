SPECIFICATION Spec
CONSTANTS
  NwkAddr = 513
  ExtAddr <- MCExt
  Descriptor <- MCDescriptor
  MaxAdds = 3
  NodeDesc <- MCNodeDesc
  PowerDesc <- MCPowerDesc
  Whole <- MCWhole
  CountRange = 12
INVARIANT StartIndexIsTheOneAsked
