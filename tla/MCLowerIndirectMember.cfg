CONSTANTS
  Type <- MCType
  Desc <- MCDesc
  Void = "void"
  U8 = "u8"
  Usize = "usize"
  U8Ptr = "pu8"
  MaxDepth = 3
  Uses = {"indirect member"}
SPECIFICATION Spec
INVARIANT
  OperandsDenote
