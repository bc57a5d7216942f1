CONSTANTS
  Type <- MCType
  Desc <- MCDesc
  Void = "void"
  U8 = "u8"
  Usize = "usize"
  U8Ptr = "pu8"
  MaxDepth = 4
  Uses = {}
SPECIFICATION Spec
INVARIANTS
  TypeOK
  OperandsFit
  AcceptedIsLegal
  OperandsDenote
  StoresWhereNamed
