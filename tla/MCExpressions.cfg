SPECIFICATION ExpressionSpec
CONSTANTS
  Half = 4
  Bits = 1
  None = None
  Types <- MCTypes
  MaxArgs = 2
  Absent = Absent
INVARIANTS
  OrderExact
  DivisionExact
  OperatorsTotal
  UndefinedIsNil
  AccessReported
  SetIsRead
CHECK_DEADLOCK FALSE
